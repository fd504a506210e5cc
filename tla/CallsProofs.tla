----------------------------- MODULE CallsProofs -----------------------------
(***************************************************************************)
(* The calls of the IRadio service, for every version of the vendor's RIL  *)
(* from 4 to 15, any number of data profiles and payloads of any length,   *)
(* and the frames of the composer.                                         *)
(*                                                                         *)
(* What relates the tables of RilTables to each other (TablesAgree) is     *)
(* evaluated, since they are finite; how every row is served is proved.    *)
(* CallInv says of every point of a call how far its request is, what the  *)
(* client was told by then and what became of the copies.                  *)
(***************************************************************************)
EXTENDS MCCalls, FiniteSetTheorems, SequenceTheorems, WellFoundedInduction, TLAPS

\* A leaf is tried with Zenon first: most need no arithmetic.  The second round
\* is for slow machines.
USE ZenonT(5), SMTT(30), ZenonT(60), SMTT(90)

-----------------------------------------------------------------------------
(* The state of a call.                                                    *)

\* The two methods that do not answer through their own callback.
Misnamed == {"setSimCardPower", "hangupForegroundResumeBackground"}

\* The request is libril's own.
Local == call.row[1] = "local"

\* What is known of the row the binder thread works on.
RowKnown ==
    /\ call = [row |-> call.row, version |-> call.version, empty |-> call.empty, pCI |-> call.pCI]
    /\ IF Local THEN Radio!LocalAgrees(call.row) ELSE Radio!MethodAgrees(call.row)
    /\ call.row[1] = "setDataProfile" =>
           \E v \in 4..15, num \in Nat :
               call.version = v /\ call.row \in Radio!DataProfileMethods(v, num)

\* The client is told nothing or one thing, through the right callback.
ToldRight ==
    \/ answers = <<>>
    \/ \E t :
           /\ answers = <<t>>
           /\ call.row[1] \notin Misnamed \cup {"local"} =>
                  t.callback = Radio!OwnName(call.row[1])

\* How far the request is, and what is told by then.
RequestTracked ==
    /\ at \in {"idle", "list", "indicated"} => pRI = "none"
    /\ at = "copy" => pRI = "listed"
    /\ at = "vendor" => pRI \in {"sent", "answered"}
    /\ pRI \in {"none", "listed", "sent", "answered"}
    /\ pRI = "none" => answers = <<>>
    /\ pRI = "listed" => IF at = "returned" THEN answers # <<>> \/ Local
                         ELSE at = "crashed" \/ answers = <<>>
    /\ pRI = "sent" => answers = <<>> /\ call.row[3] # Radio!NotSupported
    /\ pRI = "answered" => answers # <<>> \/ Local

\* What became of the copies, and that no free() went wrong before the cleanup.
CopiesTracked ==
    /\ blocks \in Seq({"null", "held", "lost", "freed"})
    /\ at \in {"idle", "list", "indicated"} => blocks = <<>>
    /\ at \in {"copy", "vendor"} => Len(blocks) <= Len(Radio!Blocks) /\ badFree = FALSE
    /\ at = "copy" /\ call.row[3] = Radio!NotSupported => blocks = <<>>
    /\ at = "vendor" => Len(blocks) = Len(Radio!Blocks)
    /\ at \in {"idle", "list", "indicated"} => badFree = FALSE

\* The inductive invariant.
CallInv ==
    /\ at \in {"idle", "list", "copy", "vendor", "returned", "crashed", "indicated"}
    /\ at \in {"idle", "indicated"} => call = Radio!NoCall
    /\ at \notin {"idle", "indicated"} => RowKnown
    /\ pRI # "none" => call.pCI = Radio!CommandOf(call.row[2])
    /\ ToldRight
    /\ answers = <<>> => decoded.said = "SUCCESS"
    /\ RequestTracked
    /\ CopiesTracked
    /\ Radio!CopiesFreedOnce
    /\ Radio!ReadsWhatCame
    /\ Radio!OutcomeKept

-----------------------------------------------------------------------------
(* The rows.                                                               *)

\* A method of any vendor is one of the newest or the last before it, but for
\* the number of data profiles.
LEMMA RowsAlike ==
    ASSUME NEW v \in 4..15, NEW num \in Nat, NEW row \in Radio!Methods(v, num)
    PROVE  \/ row \in Radio!DataProfileMethods(v, num)
           \/ v <= 14 /\ row \in Radio!Methods(14, 0)
           \/ v = 15 /\ row \in Radio!Methods(15, 0)
<1>1. CASE v <= 14
  <2>1. v < 15 /\ 14 < 15 /\ 14 <= 14
    BY <1>1
  <2>2. Radio!SetupMethods(v) = Radio!SetupMethods(14)
    BY <2>1, <1>1 DEF Radio!SetupMethods
  <2>3. Radio!AttachApnMethods(v) = Radio!AttachApnMethods(14)
    BY <2>1, <1>1 DEF Radio!AttachApnMethods
  <2>4. Radio!DeviceStateMethods(v) = Radio!DeviceStateMethods(14)
    BY <2>1 DEF Radio!DeviceStateMethods
  <2> QED
    BY <1>1, <2>2, <2>3, <2>4 DEF Radio!Methods
<1>2. CASE v = 15
  BY <1>2 DEF Radio!Methods
<1> QED
  BY <1>1, <1>2

\* The parts of the row of setDataProfile.
LEMMA ProfileRow ==
    ASSUME NEW v \in 4..15, NEW num \in Nat, NEW row \in Radio!DataProfileMethods(v, num)
    PROVE  /\ row[1] = "setDataProfile" /\ row[2] = "SET_DATA_PROFILE"
           /\ row[3].owner = IF v <= 14 THEN "cleanup" ELSE "dispatcher"
           /\ row[3].fmt = IF v <= 14 THEN "DATAPROF" ELSE "IGNORE"
           /\ v <= 14 => row[3].blocks = <<"array", "array">> \o Radio!Copies(4 * num, "str")
           /\ v > 14 => row[3].blocks = <<"array", "array">>
                           \o [f \in 1..(7 * num) |-> IF f % 7 = 0 THEN "mvno" ELSE "str"]
<1> DEFINE old == <<"array", "array">> \o Radio!Copies(4 * num, "str")
           new == <<"array", "array">>
                      \o [f \in 1..(7 * num) |-> IF f % 7 = 0 THEN "mvno" ELSE "str"]
<1>1. row = <<"setDataProfile", "SET_DATA_PROFILE",
              IF v <= 14 THEN Radio!Payload(old, "DATAPROF", "cleanup")
              ELSE Radio!Payload(new, "IGNORE", "dispatcher")>>
  BY DEF Radio!DataProfileMethods
<1> HIDE DEF old, new
<1>2. /\ row[1] = "setDataProfile" /\ row[2] = "SET_DATA_PROFILE"
      /\ row[3] = IF v <= 14 THEN Radio!Payload(old, "DATAPROF", "cleanup")
                  ELSE Radio!Payload(new, "IGNORE", "dispatcher")
  BY <1>1
<1>3. CASE v <= 14
  BY <1>2, <1>3 DEF Radio!Payload, old
<1>4. CASE ~(v <= 14)
  <2>1. row[3] = Radio!Payload(new, "IGNORE", "dispatcher")
    BY <1>2, <1>4
  <2> QED
    BY <1>2, <1>4, <2>1 DEF Radio!Payload, new
<1> QED
  BY <1>3, <1>4

\* The row of a method agrees with the tables, whatever the vendor.
LEMMA RowsAgree ==
    ASSUME Radio!TablesAgree, NEW v \in 4..15, NEW num \in Nat, NEW row \in Radio!Methods(v, num)
    PROVE  /\ Radio!MethodAgrees(row)
           /\ row[1] = "setDataProfile" => \E k \in Nat : row \in Radio!DataProfileMethods(v, k)
<1>1. \A w \in {14, 15} : \A r \in Radio!Methods(w, 0) :
          Radio!MethodAgrees(r) /\ (r[1] = "setDataProfile" => r \in Radio!DataProfileMethods(w, 0))
  BY DEF Radio!TablesAgree
<1>2. CASE row \in Radio!DataProfileMethods(v, num)
  <2>1. PICK r \in Radio!DataProfileMethods(14, 0) : TRUE
    BY DEF Radio!DataProfileMethods
  <2>2. /\ r[1] = "setDataProfile" /\ r[2] = "SET_DATA_PROFILE"
        /\ r[3].fmt = "DATAPROF"
    BY ProfileRow, <2>1, 14 \in 4..15, 0 \in Nat
  <2>3. r \in Radio!Methods(14, 0)
    BY <2>1 DEF Radio!Methods
  <2>4. Radio!MethodAgrees(r)
    BY <1>1, <2>3
  <2>5. r[3] # Radio!NotSupported
    BY <2>2 DEF Radio!NotSupported, Radio!Payload
  <2>6. row[1] = r[1] /\ row[2] = r[2]
    BY ProfileRow, <1>2, <2>2
  <2> QED
    BY <1>2, <2>2, <2>4, <2>5, <2>6 DEF Radio!MethodAgrees
<1>3. CASE v <= 14 /\ row \in Radio!Methods(14, 0)
  <2>1. Radio!DataProfileMethods(14, 0) = Radio!DataProfileMethods(v, 0)
    BY <1>3 DEF Radio!DataProfileMethods
  <2> QED
    BY <1>1, <1>3, <2>1
<1>4. CASE v = 15 /\ row \in Radio!Methods(15, 0)
  BY <1>1, <1>4
<1> QED
  BY <1>2, <1>3, <1>4, RowsAlike

-----------------------------------------------------------------------------
(* What is freed.                                                          *)

\* frees covers the strings of a payload; it has no pointer into a block and
\* none twice.
Covers(frees, parts) ==
    \A b \in 1..Len(parts) : parts[b] \in Radio!StringBlocks => b \in Radio!Range(frees)
Sound(frees) ==
    \A i \in DOMAIN frees : frees[i] # 0 /\ \A j \in 1..(i - 1) : frees[j] # frees[i]

\* Freeing every block in order.
LEMMA AllFreed ==
    ASSUME NEW parts \in Seq(Radio!BlockKinds)
    PROVE  LET frees == [b \in 1..Len(parts) |-> b] IN Covers(frees, parts) /\ Sound(frees)
<1> DEFINE frees == [b \in 1..Len(parts) |-> b]
<1>1. Len(parts) \in Nat
  OBVIOUS
<1>2. Covers(frees, parts)
  BY DEF Covers, Radio!Range
<1>3. Sound(frees)
  BY <1>1 DEF Sound
<1> QED
  BY <1>2, <1>3

\* clearPendingBuffer on the payloads of every method but setDataProfile.
LEMMA CleanupFrees ==
    ASSUME NEW p, Radio!FormatFits(p), p.owner # "dispatcher"
    PROVE  LET frees == Radio!clearPendingBuffer(p.fmt, p.blocks)
           IN  Covers(frees, p.blocks) /\ Sound(frees)
<1> DEFINE frees == Radio!clearPendingBuffer(p.fmt, p.blocks)
<1>1. p.blocks \in Seq(Radio!BlockKinds) /\ Len(p.blocks) \in Nat
  BY DEF Radio!FormatFits
<1>2. CASE p.fmt \in {"STR", "CallFWST", "IccAPDU", "SIMIO", "WrSMSSIM", "AttchAPN", "SIMAUTH"}
  <2>1. frees = [b \in 1..Len(p.blocks) |-> b]
    BY <1>2 DEF Radio!clearPendingBuffer
  <2> QED
    BY <1>1, <2>1, AllFreed
<1>3. CASE p.fmt = "STRS"
  <2>1. frees = [b \in 1..(Len(p.blocks) - 1) |-> b + 1]
    BY <1>3 DEF Radio!clearPendingBuffer
  <2>2. p.blocks[1] \notin Radio!StringBlocks
    BY <1>3 DEF Radio!FormatFits
  <2> HIDE DEF frees
  <2>3. Sound(frees)
    BY <1>1, <2>1 DEF Sound
  <2>4. ASSUME NEW b \in 1..Len(p.blocks), p.blocks[b] \in Radio!StringBlocks
        PROVE  b \in Radio!Range(frees)
    <3>1. b # 1
      BY <2>2, <2>4
    <3>2. b - 1 \in DOMAIN frees /\ frees[b - 1] = b
      BY <1>1, <2>1, <3>1
    <3> QED
      BY <3>2 DEF Radio!Range
  <2> QED
    BY <2>3, <2>4 DEF Covers, frees
<1>4. CASE p.fmt = "ImsSms"
  <2>1. frees = <<2, 3, 1>> /\ Len(p.blocks) = 3
    BY <1>4 DEF Radio!clearPendingBuffer, Radio!FormatFits
  <2> HIDE DEF frees
  <2>2. DOMAIN frees = 1..3 /\ frees[1] = 2 /\ frees[2] = 3 /\ frees[3] = 1
    BY <2>1
  <2>3. Sound(frees)
    BY <2>2 DEF Sound
  <2>4. \A b \in 1..3 : b \in Radio!Range(frees)
    BY <2>2 DEF Radio!Range
  <2> QED
    BY <2>1, <2>3, <2>4 DEF Covers, frees
<1>5. CASE p.fmt \in {"VOID", "INTS", "IGNORE"}
  <2>1. frees = <<>>
    BY <1>5 DEF Radio!clearPendingBuffer
  <2>2. \A b \in 1..Len(p.blocks) : p.blocks[b] \notin Radio!StringBlocks
    BY <1>1, <1>5 DEF Radio!FormatFits
  <2> HIDE DEF frees
  <2>3. DOMAIN frees = {}
    BY <2>1
  <2> QED
    BY <2>2, <2>3 DEF Covers, Sound, frees
<1> QED
  BY <1>2, <1>3, <1>4, <1>5 DEF Radio!FormatFits

\* clearPendingBuffer frees the strings of every data profile.
LEMMA ProfilesFreed ==
    ASSUME NEW num \in Nat
    PROVE  LET parts == <<"array", "array">> \o Radio!Copies(4 * num, "str")
           IN  /\ parts \in Seq(Radio!BlockKinds)
               /\ Covers(Radio!clearPendingBuffer("DATAPROF", parts), parts)
<1> DEFINE head == <<"array", "array">>
           tail == Radio!Copies(4 * num, "str")
           parts == head \o tail
           frees == Radio!clearPendingBuffer("DATAPROF", parts)
<1>1. head \in Seq(Radio!BlockKinds) /\ Len(head) = 2 /\ head[1] = "array" /\ head[2] = "array"
  BY DEF Radio!BlockKinds
<1>2. tail \in Seq(Radio!BlockKinds) /\ Len(tail) = 4 * num
  BY DEF Radio!BlockKinds, Radio!StringBlocks, Radio!Copies
<1> HIDE DEF head, tail
<1>3. /\ parts \in Seq(Radio!BlockKinds) /\ Len(parts) = 2 + 4 * num
      /\ \A b \in 1..2 : parts[b] = head[b]
  <2>1. parts \in Seq(Radio!BlockKinds) /\ Len(parts) = Len(head) + Len(tail)
    BY <1>1, <1>2, ConcatProperties
  <2>2. ASSUME NEW b \in 1..2 PROVE parts[b] = head[b]
    <3>1. b \in 1..(Len(head) + Len(tail)) /\ b <= Len(head)
      BY <1>1, <1>2
    <3> QED
      BY <1>1, <1>2, <3>1, ConcatProperties
  <2> QED
    BY <1>1, <1>2, <2>1, <2>2
<1> HIDE DEF parts
<1>4. frees = [k \in 1..(5 * num) |->
                  LET profile == (k - 1) \div 5
                      field == ((k - 1) % 5) + 1
                  IN IF field <= 4 THEN 2 + 4 * profile + field
                     ELSE IF profile = 0 THEN 1 ELSE 0]
  <2>1. (Len(parts) - 2) \div 4 = num
    BY <1>3
  <2> QED
    BY <2>1 DEF Radio!clearPendingBuffer
<1> HIDE DEF frees
<1>5. ASSUME NEW b \in 1..Len(parts), parts[b] \in Radio!StringBlocks PROVE b \in Radio!Range(frees)
  <2>1. b \in 3..(2 + 4 * num)
    <3>1. \A c \in 1..2 : parts[c] = "array"
      BY <1>1, <1>3
    <3>2. b \notin 1..2
      BY <1>5, <3>1 DEF Radio!StringBlocks
    <3> QED
      BY <1>3, <3>2
  <2> DEFINE i == (b - 3) \div 4
             f == (b - 3) % 4
             k == 5 * i + f + 1
  <2>2. i \in 0..(num - 1) /\ f \in 0..3 /\ b = 3 + 4 * i + f
    BY <2>1
  <2> HIDE DEF i, f
  <2>3. k \in 1..(5 * num) /\ (k - 1) \div 5 = i /\ (k - 1) % 5 = f
    BY <2>2
  <2>4. frees[k] = b
    BY <1>4, <2>2, <2>3
  <2>5. k \in DOMAIN frees
    BY <1>4, <2>3
  <2> QED
    BY <2>4, <2>5 DEF Radio!Range
<1> QED
  BY <1>3, <1>5 DEF Covers, parts, frees, head, tail

\* The parts of setDataProfile for the newest vendor.
LEMMA NewProfiles ==
    ASSUME NEW num \in Nat
    PROVE  <<"array", "array">> \o [f \in 1..(7 * num) |-> IF f % 7 = 0 THEN "mvno" ELSE "str"]
               \in Seq(Radio!BlockKinds)
<1> DEFINE head == <<"array", "array">>
           tail == [f \in 1..(7 * num) |-> IF f % 7 = 0 THEN "mvno" ELSE "str"]
<1>1. head \in Seq(Radio!BlockKinds)
  BY DEF Radio!BlockKinds
<1>2. tail \in Seq(Radio!BlockKinds)
  <2>1. tail \in [1..(7 * num) -> Radio!BlockKinds]
    BY DEF Radio!BlockKinds, Radio!StringBlocks
  <2> HIDE DEF tail
  <2>2. 7 * num \in Nat
    OBVIOUS
  <2> QED
    BY <2>1, <2>2
<1> HIDE DEF head, tail
<1>3. head \o tail \in Seq(Radio!BlockKinds)
  BY <1>1, <1>2, ConcatProperties
<1> QED
  BY <1>3 DEF head, tail

\* What is freed when the vendor has returned.
LEMMA FreesRight ==
    ASSUME RowKnown
    PROVE  /\ Radio!Blocks \in Seq(Radio!BlockKinds)
           /\ Covers(Radio!FreesAfterCall, Radio!Blocks)
           /\ ~(call.row[1] = "setDataProfile" /\ call.version <= 14) => Sound(Radio!FreesAfterCall)
<1>1. CASE call.row[1] # "setDataProfile"
  <2>1. Radio!FormatFits(call.row[3])
    BY <1>1 DEF RowKnown, Radio!MethodAgrees, Radio!LocalAgrees, Local
  <2>2. Radio!Blocks \in Seq(Radio!BlockKinds)
    BY <2>1 DEF Radio!FormatFits, Radio!Blocks
  <2>3. CASE Radio!FreedByCleanup
    <3>1. call.row[3].owner # "dispatcher"
      BY <2>3 DEF Radio!FreedByCleanup
    <3>2. Radio!FreesAfterCall = Radio!clearPendingBuffer(call.row[3].fmt, call.row[3].blocks)
      BY <2>3 DEF Radio!FreesAfterCall, Radio!Blocks
    <3> QED
      BY <2>1, <2>2, <3>1, <3>2, CleanupFrees DEF Radio!Blocks
  <2>4. CASE ~Radio!FreedByCleanup
    <3>1. Radio!FreesAfterCall = [b \in 1..Len(Radio!Blocks) |-> b]
      BY <2>4 DEF Radio!FreesAfterCall
    <3> QED
      BY <2>2, <3>1, AllFreed
  <2> QED
    BY <2>3, <2>4
<1>2. CASE call.row[1] = "setDataProfile"
  <2>1. PICK v \in 4..15, num \in Nat :
            call.version = v /\ call.row \in Radio!DataProfileMethods(v, num)
    BY <1>2 DEF RowKnown
  <2>2. CASE v <= 14
    <3>1. /\ call.row[3].owner = "cleanup" /\ call.row[3].fmt = "DATAPROF"
          /\ Radio!Blocks = <<"array", "array">> \o Radio!Copies(4 * num, "str")
      <4>1. call.row[3].owner = "cleanup" /\ call.row[3].fmt = "DATAPROF"
        BY <2>1, <2>2, ProfileRow
      <4>2. call.row[3].blocks = <<"array", "array">> \o Radio!Copies(4 * num, "str")
        BY <2>1, <2>2, ProfileRow
      <4> QED
        BY <4>1, <4>2 DEF Radio!Blocks
    <3>2. Radio!FreesAfterCall = Radio!clearPendingBuffer("DATAPROF", Radio!Blocks)
      BY <3>1 DEF Radio!FreesAfterCall, Radio!FreedByCleanup
    <3> QED
      BY <1>2, <2>1, <2>2, <3>1, <3>2, ProfilesFreed
  <2>3. CASE ~(v <= 14)
    <3>1. v > 14
      BY <2>3
    <3>2. /\ call.row[3].owner = "dispatcher"
          /\ Radio!Blocks = <<"array", "array">>
                 \o [f \in 1..(7 * num) |-> IF f % 7 = 0 THEN "mvno" ELSE "str"]
      BY <2>1, <2>3, <3>1, ProfileRow DEF Radio!Blocks
    <3>3. Radio!Blocks \in Seq(Radio!BlockKinds)
      BY <3>2, NewProfiles
    <3>4. Radio!FreesAfterCall = [b \in 1..Len(Radio!Blocks) |-> b]
      BY <3>2 DEF Radio!FreesAfterCall, Radio!FreedByCleanup
    <3> QED
      BY <3>3, <3>4, AllFreed
  <2> QED
    BY <2>2, <2>3
<1> QED
  BY <1>1, <1>2

-----------------------------------------------------------------------------
(* What is read.                                                           *)

\* No payload has units to read but those it came with.
LEMMA NothingRead ==
    ASSUME NEW kind, NEW v, NEW p, p.null
    PROVE  Radio!Decode(kind, v, p) = {}
  BY DEF Radio!Decode, Radio!Reads

\* The strings of a registration state of an old vendor.
LEMMA RegistrationWithin ==
    ASSUME NEW n \in Nat, NEW p, p.units = n, n >= 4, p.tag \in Radio!CellTypes
    PROVE  /\ n \notin 5..13 => Radio!VoiceStrings(p) \subseteq 0..(n - 1)
           /\ n \in {4, 6, 11} => Radio!DataStrings(p) \subseteq 0..(n - 1)
<1>1. \A t \in Radio!CellTypes :
          Radio!VoiceCellStrings[t] \subseteq Nat /\ Radio!DataCellStrings[t] \subseteq Nat
  BY DEF Radio!CellTypes, Radio!VoiceCellStrings, Radio!DataCellStrings
<1> DEFINE cells(strings) == Radio!convertResponseStringEntryToInt(strings, n)
<1>2. /\ cells(Radio!VoiceCellStrings[p.tag]) \subseteq 0..(n - 1)
      /\ cells(Radio!DataCellStrings[p.tag]) \subseteq 0..(n - 1)
  BY <1>1 DEF Radio!convertResponseStringEntryToInt
<1>3. {0, 3} \subseteq 0..(n - 1)
  OBVIOUS
<1>4. n \notin 5..13 /\ n > 4 => {7, 10, 11, 12, 13} \subseteq 0..(n - 1)
  OBVIOUS
<1>5. n \in {6, 11} => {4, 5} \subseteq 0..(n - 1)
  OBVIOUS
<1> HIDE DEF cells
<1>6. Radio!VoiceStrings(p) = {0, 3} \cup (IF n > 4 THEN {7, 10, 11, 12, 13} ELSE {})
                           \cup cells(Radio!VoiceCellStrings[p.tag])
  BY DEF Radio!VoiceStrings, cells
<1>7. Radio!DataStrings(p) = {0, 3} \cup (IF n > 4 THEN {4, 5} ELSE {})
                           \cup cells(Radio!DataCellStrings[p.tag])
  BY DEF Radio!DataStrings, cells
<1>8. n \notin 5..13 => Radio!VoiceStrings(p) \subseteq 0..(n - 1)
  BY <1>2, <1>3, <1>4, <1>6
<1>9. n \in {4, 6, 11} => Radio!DataStrings(p) \subseteq 0..(n - 1)
  <2>1. n > 4 /\ n \in {4, 6, 11} => n \in {6, 11}
    OBVIOUS
  <2> QED
    BY <1>2, <1>3, <1>5, <1>7, <2>1
<1> QED
  BY <1>8, <1>9

\* A payload of the vendor's is read within its units, whatever function it
\* reaches but the one that reads the first unit unconditionally.
LEMMA DecodeWithin ==
    ASSUME Radio!RadioConstants, NEW kind \in Radio!Kinds, kind # "listHead", NEW v,
           NEW p \in Radio!Shapes(kind), kind = "voiceReg" => p.units \notin 5..13
    PROVE  Radio!Decode(kind, v, p) \subseteq 0..(p.units - 1)
<1>1. SUFFICES ASSUME ~p.null, Radio!Fits(kind, v, p)
               PROVE  Radio!Reads(kind, v, p) \subseteq 0..(p.units - 1)
  BY NothingRead DEF Radio!Decode
<1>2. p.units \in Nat
  <2>1. p.units \in (IF kind \in {"ecpi", "callInfo"} THEN {10} ELSE 0..MaxUnits) \cup 0..1
    BY DEF Radio!Shapes
  <2> QED
    BY <2>1 DEF Radio!RadioConstants
<1>3. CASE kind = "voiceReg"
  <2>1. p.tag \in Radio!CellTypes
    BY <1>1, <1>3 DEF Radio!Shapes
  <2>2. CASE v <= 14
    <3>1. p.units >= 4
      BY <1>1, <1>3, <2>2 DEF Radio!Fits, Radio!Counts
    <3>2. Radio!Reads(kind, v, p) = Radio!VoiceStrings(p)
      BY <1>1, <1>3, <2>2 DEF Radio!Reads, Radio!Counts
    <3> QED
      BY <1>2, <1>3, <2>1, <3>1, <3>2, RegistrationWithin
  <2>3. CASE ~(v <= 14)
    <3>1. p.units = 1
      BY <1>1, <1>3, <2>3 DEF Radio!Fits, Radio!Counts
    <3>2. Radio!Reads(kind, v, p) = {0}
      BY <1>1, <1>3, <2>3 DEF Radio!Reads, Radio!Counts
    <3> QED
      BY <3>1, <3>2
  <2> QED
    BY <2>2, <2>3
<1>4. CASE kind = "dataReg"
  <2>1. p.tag \in Radio!CellTypes
    BY <1>1, <1>4 DEF Radio!Shapes
  <2>2. CASE v <= 14
    <3>1. p.units \in {4, 6, 11}
      BY <1>1, <1>4, <2>2 DEF Radio!Fits, Radio!Counts
    <3>2. Radio!Reads(kind, v, p) = Radio!DataStrings(p)
      BY <1>1, <1>4, <2>2 DEF Radio!Reads, Radio!Counts
    <3> QED
      BY <1>2, <1>4, <2>1, <3>1, <3>2, RegistrationWithin
  <2>3. CASE ~(v <= 14)
    <3>1. p.units = 1
      BY <1>1, <1>4, <2>3 DEF Radio!Fits, Radio!Counts
    <3>2. Radio!Reads(kind, v, p) = {0}
      BY <1>1, <1>4, <2>3 DEF Radio!Reads, Radio!Counts
    <3> QED
      BY <3>1, <3>2
  <2> QED
    BY <2>2, <2>3
<1>5. CASE kind \in {"none", "text", "raw"}
  BY <1>1, <1>5 DEF Radio!Reads, Radio!Counts
<1>6. CASE kind \in DOMAIN Radio!Counts
  BY <1>1, <1>6 DEF Radio!Reads, Radio!Fits, Radio!Counts
<1>7. CASE kind \in {"list", "listOrNull", "networks", "stringsLeast", "failCause", "hex"}
  BY <1>1, <1>7 DEF Radio!Reads, Radio!Counts
<1>8. CASE kind \in {"int", "struct", "activity", "records", "intOrEmpty", "carriers"}
  <2>1. p.units = 1
    BY <1>1, <1>8 DEF Radio!Fits, Radio!Counts
  <2>2. Radio!Reads(kind, v, p) = {0}
    BY <1>1, <1>8 DEF Radio!Reads, Radio!Counts
  <2> QED
    BY <2>1, <2>2
<1>9. CASE kind \in {"least", "bytes", "capability"}
  <2>1. p.units >= 1
    BY <1>1, <1>9 DEF Radio!Fits, Radio!Counts
  <2>2. Radio!Reads(kind, v, p) = {0}
    BY <1>1, <1>9 DEF Radio!Reads, Radio!Counts
  <2> QED
    BY <1>2, <2>1, <2>2
<1>10. CASE kind = "ussd"
  <2>1. p.units >= 1
    BY <1>1, <1>10 DEF Radio!Fits, Radio!Counts
  <2>2. Radio!Reads(kind, v, p) = IF p.units >= 2 THEN {0, 1} ELSE {0}
    BY <1>1, <1>10 DEF Radio!Reads, Radio!Counts
  <2> QED
    BY <1>2, <2>1, <2>2
<1>11. CASE kind = "callRing"
  <2>1. Radio!Reads(kind, v, p) = IF p.units = 0 THEN {} ELSE {0}
    BY <1>1, <1>11 DEF Radio!Reads, Radio!Counts
  <2> QED
    BY <1>2, <2>1
<1>12. CASE kind = "incomingCall"
  <2>1. p.units >= 5
    BY <1>1, <1>12 DEF Radio!Fits, Radio!Counts
  <2>2. Radio!Reads(kind, v, p) = {0, 3, 4}
    BY <1>1, <1>12 DEF Radio!Reads, Radio!Counts
  <2> QED
    BY <1>2, <2>1, <2>2
<1>13. CASE kind \in {"ecpi", "callInfo"}
  <2>1. p.units = 10
    BY <1>1, <1>13 DEF Radio!Fits, Radio!Counts
  <2>2. Radio!Reads(kind, v, p) = {0, 1, p.units - 1}
    BY <1>1, <1>13 DEF Radio!Reads, Radio!Counts
  <2> QED
    BY <2>1, <2>2
<1> QED
  BY <1>3, <1>4, <1>5, <1>6, <1>7, <1>8, <1>9, <1>10, <1>11, <1>12, <1>13 DEF Radio!Kinds

\* An error stays the error, but for the substitute of the radio capability.
LEMMA ErrorKept ==
    ASSUME NEW kind, kind # "capability", NEW v, NEW e, e # "SUCCESS", NEW p, NEW known
    PROVE  Radio!Reported(kind, v, e, p, known) = e
  BY DEF Radio!Reported

-----------------------------------------------------------------------------
(* The steps.                                                              *)

\* A response function answers once, through the method's callback, reads what
\* came and keeps the error.
LEMMA RespondAnswers ==
    ASSUME RowKnown, answers = <<>>, call.pCI = Radio!CommandOf(call.row[2]), call.pCI[2] # "none",
           NEW e, NEW p, Radio!Respond(Radio!KindOf(call.pCI[2]), e, p), UNCHANGED call,
           Radio!Decode(Radio!KindOf(call.pCI[2]), call.version, p) \subseteq 0..(p.units - 1)
    PROVE  ToldRight' /\ answers' # <<>> /\ Radio!ReadsWhatCame' /\ Radio!OutcomeKept'
<1> DEFINE kind == Radio!KindOf(call.pCI[2])
           reported == Radio!Reported(kind, call.version, e, p, capability)
           t == [callback |-> Radio!CallbackOf(call.pCI[2]), error |-> reported]
<1>1. /\ answers' = Append(answers, t)
      /\ decoded' = [units |-> p.units, reads |-> Radio!Decode(kind, call.version, p),
                     said |-> e, reported |-> reported]
  BY DEF Radio!Respond
<1>2. t.callback = Radio!CallbackOf(call.pCI[2])
  OBVIOUS
<1> HIDE DEF t
<1>3. answers' = <<t>>
  BY <1>1
<1>4. answers' # <<>>
  BY <1>3
<1>5. call.row[1] \notin Misnamed \cup {"local"} => t.callback = Radio!OwnName(call.row[1])
  BY <1>2 DEF RowKnown, Local, Radio!MethodAgrees, Misnamed
<1>6. ToldRight'
  BY <1>3, <1>5 DEF ToldRight
<1> HIDE DEF reported, kind
<1>7. /\ decoded'.units = p.units /\ decoded'.reads = Radio!Decode(kind, call.version, p)
      /\ decoded'.said = e /\ decoded'.reported = reported
  BY <1>1
<1>8. Radio!ReadsWhatCame'
  BY <1>7 DEF Radio!ReadsWhatCame, kind
<1>9. Radio!OutcomeKept'
  <2>1. kind = "capability" => call.row[1] \in {"getRadioCapability", "setRadioCapability"}
    BY DEF RowKnown, Local, Radio!MethodAgrees, Radio!LocalAgrees, kind
  <2>2. kind # "capability" /\ e # "SUCCESS" => reported = e
    BY ErrorKept DEF reported
  <2> QED
    BY <1>7, <2>1, <2>2 DEF Radio!OutcomeKept
<1> QED
  BY <1>4, <1>6, <1>8, <1>9

\* Before the first call there is nothing to answer.
LEMMA InitCall ==
    ASSUME Radio!Init
    PROVE  CallInv
<1>1. decoded.said = "SUCCESS" /\ decoded.reads = {}
  BY DEF Radio!Init, Radio!NothingDecoded
<1>2. Radio!ReadsWhatCame /\ Radio!OutcomeKept
  BY <1>1 DEF Radio!ReadsWhatCame, Radio!OutcomeKept
<1>3. blocks \in Seq({"null", "held", "lost", "freed"})
  BY SMT DEF Radio!Init
<1>4. CopiesTracked /\ Radio!CopiesFreedOnce
  BY <1>3 DEF Radio!Init, CopiesTracked, Radio!CopiesFreedOnce
<1>5. ToldRight /\ RequestTracked
  BY DEF Radio!Init, ToldRight, RequestTracked
<1> QED
  BY <1>1, <1>2, <1>4, <1>5 DEF Radio!Init, CallInv

\* A method is called, for any vendor and any number of data profiles.
LEMMA ReceiveCall ==
    ASSUME Radio!RadioConstants, Radio!TablesAgree, CallInv, Radio!Receive
    PROVE  CallInv'
<1>1. PICK v \in VendorVersions, num \in 0..MaxProfiles : \E row \in Radio!Methods(v, num) :
          \E empty : call' = [Radio!NoCall EXCEPT !.row = row, !.version = v, !.empty = empty]
  BY DEF Radio!Receive
<1>2. PICK row \in Radio!Methods(v, num) :
          \E empty : call' = [Radio!NoCall EXCEPT !.row = row, !.version = v, !.empty = empty]
  BY <1>1
<1>3. PICK empty : call' = [Radio!NoCall EXCEPT !.row = row, !.version = v, !.empty = empty]
  BY <1>2
<1>4. v \in 4..15 /\ num \in Nat
  BY DEF Radio!RadioConstants
<1>5. call' = [row |-> row, version |-> v, empty |-> empty, pCI |-> Radio!NoCall.pCI]
  BY <1>3 DEF Radio!NoCall
<1>6. /\ call'.row = row /\ call'.version = v
      /\ call' = [row |-> call'.row, version |-> call'.version, empty |-> call'.empty,
                  pCI |-> call'.pCI]
  BY <1>5
<1>7. /\ Radio!MethodAgrees(row) /\ row[1] # "local"
      /\ row[1] = "setDataProfile" => \E k \in Nat : row \in Radio!DataProfileMethods(v, k)
  BY <1>4, RowsAgree DEF Radio!MethodAgrees
<1>8. RowKnown'
  BY <1>4, <1>6, <1>7 DEF RowKnown, Local
<1>9. /\ at = "idle" /\ at' = "list"
      /\ UNCHANGED <<blocks, badFree, pRI, answers, decoded, capability>>
  BY DEF Radio!Receive
<1>10. answers = <<>> /\ pRI = "none" /\ decoded.said = "SUCCESS" /\ badFree = FALSE
  BY <1>9 DEF CallInv, RequestTracked, CopiesTracked
<1>11. CopiesTracked' /\ Radio!CopiesFreedOnce'
  BY <1>9, <1>10 DEF CallInv, CopiesTracked, Radio!CopiesFreedOnce
<1>12. ToldRight' /\ RequestTracked'
  BY <1>9, <1>10 DEF ToldRight, RequestTracked
<1>13. Radio!ReadsWhatCame' /\ Radio!OutcomeKept'
  BY <1>9, <1>10 DEF CallInv, Radio!ReadsWhatCame, Radio!OutcomeKept
<1> QED
  BY <1>8, <1>9, <1>10, <1>11, <1>12, <1>13 DEF CallInv

\* addRequestToList gives the request the row of its number.
LEMMA AddRequestToListCall ==
    ASSUME CallInv, Radio!AddRequestToList
    PROVE  CallInv'
<1>1. /\ at = "list" /\ at' = "copy" /\ pRI' = "listed"
      /\ call' = [call EXCEPT !.pCI = Radio!CommandOf(call.row[2])]
      /\ UNCHANGED <<blocks, badFree, answers, decoded, capability>>
  BY DEF Radio!AddRequestToList
<1>2. RowKnown
  BY <1>1 DEF CallInv
<1>3. call' = [row |-> call.row, version |-> call.version, empty |-> call.empty,
               pCI |-> Radio!CommandOf(call.row[2])]
  BY <1>1, <1>2 DEF RowKnown
<1>4. /\ call'.row = call.row /\ call'.version = call.version
      /\ call'.pCI = Radio!CommandOf(call.row[2])
      /\ call' = [row |-> call'.row, version |-> call'.version, empty |-> call'.empty,
                  pCI |-> call'.pCI]
  BY <1>3
<1>5. RowKnown'
  BY <1>2, <1>4 DEF RowKnown, Local
<1>6. answers = <<>> /\ decoded.said = "SUCCESS" /\ badFree = FALSE /\ blocks = <<>>
  BY <1>1 DEF CallInv, RequestTracked, CopiesTracked
<1>7. Radio!Blocks \in Seq(Radio!BlockKinds)
  BY <1>2, FreesRight
<1>8. Radio!Blocks' = Radio!Blocks
  BY <1>4 DEF Radio!Blocks
<1>9. Len(blocks) = 0 /\ Len(Radio!Blocks) \in Nat
  BY <1>6, <1>7
<1>10. CopiesTracked' /\ Radio!CopiesFreedOnce'
  BY <1>1, <1>6, <1>8, <1>9 DEF CallInv, CopiesTracked, Radio!CopiesFreedOnce
<1>11. ToldRight' /\ RequestTracked'
  BY <1>1, <1>6 DEF ToldRight, RequestTracked
<1>12. Radio!ReadsWhatCame' /\ Radio!OutcomeKept'
  BY <1>1, <1>6 DEF CallInv, Radio!ReadsWhatCame, Radio!OutcomeKept
<1> QED
  BY <1>1, <1>4, <1>5, <1>6, <1>10, <1>11, <1>12 DEF CallInv

\* Without memory for the RequestInfo nothing was copied.
LEMMA AddRequestFailsCall ==
    ASSUME CallInv, Radio!AddRequestFails
    PROVE  CallInv'
<1>1. /\ at = "list" /\ at' \in {"crashed", "returned"}
      /\ UNCHANGED <<call, blocks, badFree, pRI, answers, decoded, capability>>
  BY DEF Radio!AddRequestFails
<1>2. answers = <<>> /\ pRI = "none" /\ badFree = FALSE /\ blocks = <<>>
  BY <1>1 DEF CallInv, RequestTracked, CopiesTracked
<1>3. DOMAIN blocks = {}
  BY <1>2
<1>4. CopiesTracked' /\ Radio!CopiesFreedOnce'
  BY <1>1, <1>2, <1>3 DEF CallInv, CopiesTracked, Radio!CopiesFreedOnce
<1>5. ToldRight' /\ RequestTracked' /\ Radio!ReadsWhatCame' /\ Radio!OutcomeKept'
  BY <1>1, <1>2 DEF CallInv, ToldRight, RequestTracked, Radio!ReadsWhatCame, Radio!OutcomeKept
<1>6. RowKnown'
  BY <1>1 DEF CallInv, RowKnown, Local
<1> QED
  BY <1>1, <1>2, <1>4, <1>5, <1>6 DEF CallInv

\* Restart and Finish leave what Init starts from.
LEMMA StartsOver ==
    ASSUME at' = "idle", call' = Radio!NoCall, blocks' = <<>>, badFree' = FALSE, pRI' = "none",
           answers' = <<>>, decoded' = Radio!NothingDecoded
    PROVE  CallInv'
<1>1. decoded'.said = "SUCCESS" /\ decoded'.reads = {}
  BY DEF Radio!NothingDecoded
<1>2. Radio!ReadsWhatCame' /\ Radio!OutcomeKept'
  BY <1>1 DEF Radio!ReadsWhatCame, Radio!OutcomeKept
<1>3. blocks' \in Seq({"null", "held", "lost", "freed"})
  BY SMT
<1>4. CopiesTracked' /\ Radio!CopiesFreedOnce'
  BY <1>3 DEF CopiesTracked, Radio!CopiesFreedOnce
<1>5. ToldRight' /\ RequestTracked'
  BY DEF ToldRight, RequestTracked
<1> QED
  BY <1>1, <1>2, <1>4, <1>5 DEF CallInv

\* A method that refuses copies nothing; any other copies the next block.
LEMMA CopyBlockCall ==
    ASSUME CallInv, Radio!CopyBlock
    PROVE  CallInv'
<1> DEFINE Fates == {"null", "held", "lost", "freed"}
<1>1. /\ at = "copy" /\ Len(blocks) < Len(Radio!Blocks)
      /\ UNCHANGED <<at, call, badFree, pRI, answers, decoded, capability>>
  BY DEF Radio!CopyBlock
<1>2. blocks \in Seq(Fates) /\ badFree = FALSE /\ RowKnown
  BY <1>1 DEF CallInv, CopiesTracked
<1>3. Radio!Blocks' = Radio!Blocks /\ Radio!Blocks \in Seq(Radio!BlockKinds)
  BY <1>1, <1>2, FreesRight DEF Radio!Blocks
<1>4. Radio!Pad(blocks) \in Seq(Fates) /\ Len(Radio!Pad(blocks)) = Len(blocks)
  BY <1>2 DEF Radio!Pad
<1>5. \E s \in {blocks, Radio!Pad(blocks)}, fate \in Fates : blocks' = Append(s, fate)
  BY DEF Radio!CopyBlock
<1>6. blocks' \in Seq(Fates) /\ Len(blocks') = Len(blocks) + 1
  BY <1>2, <1>4, <1>5
<1>7. call.row[3] # Radio!NotSupported
  <2>1. SUFFICES ASSUME call.row[3] = Radio!NotSupported PROVE FALSE
    OBVIOUS
  <2>2. blocks = <<>> /\ Radio!Blocks = <<"refuse">>
    BY <1>1, <2>1 DEF CallInv, CopiesTracked, Radio!Blocks, Radio!NotSupported, Radio!Payload
  <2>3. Radio!Next1 = "refuse"
    BY <2>2 DEF Radio!Next1
  <2> QED
    BY <2>3 DEF Radio!CopyBlock
<1>8. CopiesTracked'
  <2>1. Len(blocks') <= Len(Radio!Blocks')
    BY <1>1, <1>2, <1>3, <1>6
  <2> QED
    BY <1>1, <1>2, <1>6, <1>7, <2>1 DEF CopiesTracked
<1>9. Radio!CopiesFreedOnce'
  BY <1>1, <1>2 DEF Radio!CopiesFreedOnce
<1>10. ToldRight' /\ RequestTracked' /\ Radio!ReadsWhatCame' /\ Radio!OutcomeKept'
  BY <1>1 DEF CallInv, ToldRight, RequestTracked, Radio!ReadsWhatCame, Radio!OutcomeKept, Local
<1>11. RowKnown'
  BY <1>1, <1>2 DEF RowKnown, Local
<1> QED
  BY <1>1, <1>8, <1>9, <1>10, <1>11 DEF CallInv

\* sendErrorResponse answers, and the copies are freed.
LEMMA CopyFailsCall ==
    ASSUME CallInv, Radio!CopyFails
    PROVE  CallInv'
<1> DEFINE Fates == {"null", "held", "lost", "freed"}
<1>1. /\ at = "copy" /\ blocks' = Radio!FreeHeld(blocks)
      /\ UNCHANGED <<call, badFree, pRI, capability>>
  BY DEF Radio!CopyFails
<1>2. /\ blocks \in Seq(Fates) /\ badFree = FALSE /\ RowKnown /\ pRI = "listed" /\ answers = <<>>
      /\ call.pCI = Radio!CommandOf(call.row[2])
  BY <1>1 DEF CallInv, CopiesTracked, RequestTracked
<1>3. blocks' \in Seq(Fates) /\ \A b \in DOMAIN blocks' : blocks'[b] # "held"
  BY <1>1, <1>2 DEF Radio!FreeHeld
<1>4. at' \in {"returned", "crashed"}
  BY DEF Radio!CopyFails
<1>5. CopiesTracked' /\ Radio!CopiesFreedOnce'
  BY <1>1, <1>2, <1>3, <1>4 DEF CopiesTracked, Radio!CopiesFreedOnce
<1>6. RowKnown'
  BY <1>1, <1>2 DEF RowKnown, Local
<1>7. CASE call.pCI[2] = "none"
  <2>1. at' = "crashed" /\ UNCHANGED <<answers, decoded>>
    BY <1>7 DEF Radio!CopyFails
  <2>2. ToldRight' /\ RequestTracked' /\ Radio!ReadsWhatCame' /\ Radio!OutcomeKept'
    BY <1>1, <1>2, <2>1
       DEF CallInv, ToldRight, RequestTracked, Radio!ReadsWhatCame, Radio!OutcomeKept
  <2> QED
    BY <1>1, <1>2, <1>5, <1>6, <2>1, <2>2 DEF CallInv
<1>8. CASE call.pCI[2] # "none"
  <2>1. PICK e : Radio!Respond(Radio!KindOf(call.pCI[2]), e, Radio!NoPayload) /\ at' = "returned"
    BY <1>8 DEF Radio!CopyFails
  <2>2. Radio!Decode(Radio!KindOf(call.pCI[2]), call.version, Radio!NoPayload)
            \subseteq 0..(Radio!NoPayload.units - 1)
    BY NothingRead DEF Radio!NoPayload
  <2>3. ToldRight' /\ answers' # <<>> /\ Radio!ReadsWhatCame' /\ Radio!OutcomeKept'
    BY <1>1, <1>2, <1>8, <2>1, <2>2, RespondAnswers
  <2>4. RequestTracked'
    BY <1>1, <1>2, <2>1, <2>3 DEF RequestTracked
  <2> QED
    BY <1>1, <1>2, <1>5, <1>6, <2>1, <2>3, <2>4 DEF CallInv
<1> QED
  BY <1>7, <1>8

\* What reaches the vendor is a method that does not refuse.
LEMMA SendCall ==
    ASSUME CallInv, Radio!Send
    PROVE  CallInv'
<1>1. /\ at = "copy" /\ Len(blocks) = Len(Radio!Blocks) /\ at' = "vendor" /\ pRI' = "sent"
      /\ UNCHANGED <<call, blocks, badFree, answers, decoded, capability>>
  BY DEF Radio!Send
<1>2. badFree = FALSE /\ RowKnown /\ answers = <<>> /\ pRI = "listed"
  BY <1>1 DEF CallInv, CopiesTracked, RequestTracked
<1>3. call.row[3] # Radio!NotSupported
  <2>1. SUFFICES ASSUME call.row[3] = Radio!NotSupported PROVE FALSE
    OBVIOUS
  <2>2. blocks = <<>> /\ Radio!Blocks = <<"refuse">>
    BY <1>1, <2>1 DEF CallInv, CopiesTracked, Radio!Blocks, Radio!NotSupported, Radio!Payload
  <2> QED
    BY <1>1, <2>2
<1>4. Radio!Blocks' = Radio!Blocks /\ Radio!Blocks \in Seq(Radio!BlockKinds)
  BY <1>1, <1>2, FreesRight DEF Radio!Blocks
<1>5. Len(blocks) <= Len(Radio!Blocks)
  BY <1>1, <1>4
<1>6. CopiesTracked' /\ Radio!CopiesFreedOnce'
  BY <1>1, <1>2, <1>4, <1>5 DEF CallInv, CopiesTracked, Radio!CopiesFreedOnce
<1>7. ToldRight' /\ RequestTracked' /\ Radio!ReadsWhatCame' /\ Radio!OutcomeKept'
  BY <1>1, <1>2, <1>3 DEF CallInv, ToldRight, RequestTracked, Radio!ReadsWhatCame, Radio!OutcomeKept
<1>8. RowKnown'
  BY <1>1, <1>2 DEF RowKnown, Local
<1> QED
  BY <1>1, <1>2, <1>6, <1>7, <1>8 DEF CallInv

\* The cleanup frees every string, and only data profiles go wrong.
LEMMA VendorReturnsCall ==
    ASSUME CallInv, Radio!VendorReturns
    PROVE  CallInv'
<1> DEFINE Fates == {"null", "held", "lost", "freed"}
           frees == Radio!FreesAfterCall
<1>1. /\ at = "vendor" /\ at' \in {"returned", "crashed"}
      /\ UNCHANGED <<call, pRI, answers, decoded, capability>>
  BY DEF Radio!VendorReturns
<1>2. /\ blocks \in Seq(Fates) /\ Len(blocks) = Len(Radio!Blocks) /\ RowKnown
      /\ pRI \in {"sent", "answered"}
  BY <1>1 DEF CallInv, CopiesTracked, RequestTracked
<1>3. /\ Radio!Blocks' = Radio!Blocks /\ Radio!Blocks \in Seq(Radio!BlockKinds)
      /\ Covers(frees, Radio!Blocks)
      /\ ~(call.row[1] = "setDataProfile" /\ call.version <= 14) => Sound(frees)
  BY <1>1, <1>2, FreesRight DEF Radio!Blocks
<1> HIDE DEF frees
<1>4. blocks' = [b \in DOMAIN blocks |->
                 IF blocks[b] = "held" /\ b \in Radio!Range(frees) THEN "freed" ELSE blocks[b]]
  BY DEF Radio!VendorReturns, frees
<1>5. badFree' => \E i \in DOMAIN frees :
          frees[i] = 0 \/ \E j \in 1..(i - 1) : frees[j] = frees[i]
  BY DEF Radio!VendorReturns, frees
<1>6. badFree' => call.row[1] = "setDataProfile" /\ call.version <= 14
  BY <1>3, <1>5 DEF Sound
<1>7. blocks' \in Seq(Fates) /\ DOMAIN blocks' = 1..Len(Radio!Blocks)
  BY <1>2, <1>3, <1>4
<1>8. ASSUME NEW b \in DOMAIN blocks', Radio!Blocks[b] \in Radio!StringBlocks
      PROVE  blocks'[b] # "held"
  <2>1. b \in Radio!Range(frees)
    BY <1>3, <1>7, <1>8 DEF Covers
  <2>2. b \in DOMAIN blocks
    BY <1>4, <1>8
  <2> QED
    BY <1>4, <2>1, <2>2
<1>9. Radio!CopiesFreedOnce'
  BY <1>1, <1>3, <1>6, <1>8 DEF Radio!CopiesFreedOnce
<1>10. CopiesTracked'
  BY <1>1, <1>7 DEF CopiesTracked
<1>11. ToldRight' /\ RequestTracked' /\ Radio!ReadsWhatCame' /\ Radio!OutcomeKept'
  BY <1>1, <1>2
     DEF CallInv, ToldRight, RequestTracked, Radio!ReadsWhatCame, Radio!OutcomeKept, Local
<1>12. RowKnown'
  BY <1>1, <1>2 DEF RowKnown, Local
<1> QED
  BY <1>1, <1>9, <1>10, <1>11, <1>12 DEF CallInv

\* RIL_onRequestComplete answers, before onRequest returns or after.
LEMMA VendorCompletesCall ==
    ASSUME Radio!RadioConstants, CallInv, Radio!VendorCompletes
    PROVE  CallInv'
<1> DEFINE kind == Radio!KindOf(call.pCI[2])
<1>1. /\ pRI = "sent" /\ at # "crashed" /\ call.row[1] # "local" /\ pRI' = "answered"
      /\ UNCHANGED <<at, call, blocks, badFree, capability>>
  BY DEF Radio!VendorCompletes
<1>2. /\ answers = <<>> /\ call.row[3] # Radio!NotSupported
      /\ call.pCI = Radio!CommandOf(call.row[2])
      /\ at \in {"vendor", "returned"}
  BY <1>1 DEF CallInv, RequestTracked
<1>3. RowKnown /\ Radio!MethodAgrees(call.row)
  BY <1>1, <1>2 DEF CallInv, RowKnown, Local
<1>4. call.pCI[2] # "none" /\ kind \in Radio!Kinds /\ kind # "listHead"
  BY <1>2, <1>3 DEF Radio!MethodAgrees
<1>5. PICK e \in {"SUCCESS", "GENERIC_FAILURE"}, p \in Radio!Shapes(kind) :
          (kind = "voiceReg" => p.units \notin 5..13) /\ Radio!Respond(kind, e, p)
  BY DEF Radio!VendorCompletes
<1>6. Radio!Decode(kind, call.version, p) \subseteq 0..(p.units - 1)
  <2> HIDE DEF kind
  <2> QED
    BY <1>4, <1>5, DecodeWithin
<1>7. ToldRight' /\ answers' # <<>> /\ Radio!ReadsWhatCame' /\ Radio!OutcomeKept'
  BY <1>1, <1>2, <1>3, <1>4, <1>5, <1>6, RespondAnswers
<1>8. RequestTracked'
  BY <1>1, <1>2, <1>7 DEF RequestTracked
<1>9. CopiesTracked' /\ Radio!CopiesFreedOnce'
  BY <1>1 DEF CallInv, CopiesTracked, Radio!CopiesFreedOnce, Radio!Blocks
<1>10. RowKnown'
  BY <1>1, <1>3 DEF RowKnown, Local
<1> QED
  BY <1>1, <1>2, <1>7, <1>8, <1>9, <1>10 DEF CallInv

\* A request of libril's own is answered to nobody.
LEMMA LocalCompletesCall ==
    ASSUME CallInv, Radio!LocalCompletes
    PROVE  CallInv'
<1>1. /\ pRI = "sent" /\ at # "crashed" /\ Local /\ pRI' = "answered"
      /\ UNCHANGED <<at, call, blocks, badFree, answers, decoded, capability>>
  BY DEF Radio!LocalCompletes, Local
<1>2. at \in {"vendor", "returned"} /\ call.pCI = Radio!CommandOf(call.row[2])
  BY <1>1 DEF CallInv, RequestTracked
<1>3. RowKnown'
  BY <1>1, <1>2 DEF CallInv, RowKnown, Local
<1>4. CopiesTracked' /\ Radio!CopiesFreedOnce'
  BY <1>1 DEF CallInv, CopiesTracked, Radio!CopiesFreedOnce, Radio!Blocks
<1>5. ToldRight' /\ RequestTracked' /\ Radio!ReadsWhatCame' /\ Radio!OutcomeKept'
  BY <1>1, <1>2
     DEF CallInv, ToldRight, RequestTracked, Radio!ReadsWhatCame, Radio!OutcomeKept, Local
<1> QED
  BY <1>1, <1>2, <1>3, <1>4, <1>5 DEF CallInv

\* An indication is read within its payload, and a request that comes of it has
\* a row that agrees with the tables.
LEMMA IndicateCall ==
    ASSUME Radio!RadioConstants, Radio!TablesAgree, CallInv, Radio!Indicate
    PROVE  CallInv'
<1>1. at = "idle" /\ UNCHANGED <<blocks, badFree, pRI, answers>>
  BY DEF Radio!Indicate
<1> DEFINE Handed(r, p) ==
               /\ IF r[1] \in DOMAIN Radio!LocalRequests /\ Radio!Fits(r[2], 0, p)
                      /\ (r[2] = "callInfo" => p.good)
                  THEN /\ at' = "list"
                       /\ call' = [Radio!NoCall EXCEPT !.row = Radio!LocalRequests[r[1]]]
                  ELSE at' = "indicated" /\ UNCHANGED call
               /\ decoded' = [Radio!NothingDecoded EXCEPT !.units = p.units,
                                                    !.reads = Radio!Decode(r[2], 0, p)]
<1>2. PICK r \in Radio!Indications : \E p \in Radio!Shapes(r[2]) : Handed(r, p)
  BY DEF Radio!Indicate
<1>3. PICK p \in Radio!Shapes(r[2]) : Handed(r, p)
  BY <1>2
<1>4. call = Radio!NoCall /\ pRI = "none" /\ answers = <<>> /\ badFree = FALSE /\ blocks = <<>>
  BY <1>1 DEF CallInv, RequestTracked, CopiesTracked
<1>5. r[2] \in Radio!Kinds \ {"listHead", "voiceReg", "dataReg"}
  BY DEF Radio!TablesAgree
<1>6. Radio!Decode(r[2], 0, p) \subseteq 0..(p.units - 1)
  BY <1>5, DecodeWithin
<1>7. /\ decoded'.units = p.units /\ decoded'.reads = Radio!Decode(r[2], 0, p)
      /\ decoded'.said = "SUCCESS"
  BY <1>3 DEF Radio!NothingDecoded
<1>8. Radio!ReadsWhatCame' /\ Radio!OutcomeKept'
  BY <1>6, <1>7 DEF Radio!ReadsWhatCame, Radio!OutcomeKept
<1>9. ToldRight' /\ at' \in {"list", "indicated"}
  BY <1>1, <1>3, <1>4 DEF ToldRight
<1>10. RequestTracked' /\ CopiesTracked' /\ Radio!CopiesFreedOnce'
  BY <1>1, <1>4, <1>9 DEF CallInv, RequestTracked, CopiesTracked, Radio!CopiesFreedOnce
<1>11. CASE at' = "list"
  <2>1. /\ r[1] \in DOMAIN Radio!LocalRequests
        /\ call' = [Radio!NoCall EXCEPT !.row = Radio!LocalRequests[r[1]]]
    BY <1>3, <1>11
  <2>2. call' = [row |-> Radio!LocalRequests[r[1]], version |-> Radio!NoCall.version,
                 empty |-> Radio!NoCall.empty, pCI |-> Radio!NoCall.pCI]
    BY <2>1 DEF Radio!NoCall
  <2>3. /\ call'.row = Radio!LocalRequests[r[1]]
        /\ call' = [row |-> call'.row, version |-> call'.version, empty |-> call'.empty,
                    pCI |-> call'.pCI]
    BY <2>2
  <2>4. Radio!LocalAgrees(call'.row)
    BY <2>1, <2>3 DEF Radio!TablesAgree
  <2>5. call'.row[1] = "local"
    BY <2>4 DEF Radio!LocalAgrees
  <2>6. RowKnown'
    BY <2>3, <2>4, <2>5 DEF RowKnown, Local
  <2> QED
    BY <1>1, <1>4, <1>7, <1>8, <1>9, <1>10, <1>11, <2>6 DEF CallInv
<1>12. CASE at' = "indicated"
  <2>1. call' = Radio!NoCall
    BY <1>3, <1>4, <1>12
  <2> QED
    BY <1>1, <1>4, <1>7, <1>8, <1>9, <1>10, <1>12, <2>1 DEF CallInv
<1> QED
  BY <1>9, <1>11, <1>12

\* A step of another service leaves the call alone.
LEMMA QuietCall ==
    ASSUME CallInv, UNCHANGED Radio!vars
    PROVE  CallInv'
  BY DEF CallInv, Radio!vars, RowKnown, Local, ToldRight, RequestTracked, CopiesTracked,
         Radio!Blocks,
         Radio!CopiesFreedOnce, Radio!ReadsWhatCame, Radio!OutcomeKept

\* CallInv is inductive.
LEMMA AlwaysCall ==
    ASSUME Radio!RadioConstants, Radio!TablesAgree
    PROVE  Radio!Spec => []CallInv
<1>1. Radio!Init => CallInv
  BY InitCall
<1>2. ASSUME CallInv, [Radio!Next]_(Radio!vars) PROVE CallInv'
  <2>1. CASE Radio!Receive
    BY <1>2, <2>1, ReceiveCall
  <2>2. CASE Radio!AddRequestToList
    BY <1>2, <2>2, AddRequestToListCall
  <2>3. CASE Radio!AddRequestFails
    BY <1>2, <2>3, AddRequestFailsCall
  <2>4. CASE Radio!Restart
    BY <2>4, StartsOver DEF Radio!Restart
  <2>5. CASE Radio!CopyBlock
    BY <1>2, <2>5, CopyBlockCall
  <2>6. CASE Radio!CopyFails
    BY <1>2, <2>6, CopyFailsCall
  <2>7. CASE Radio!Send
    BY <1>2, <2>7, SendCall
  <2>8. CASE Radio!VendorReturns
    BY <1>2, <2>8, VendorReturnsCall
  <2>9. CASE Radio!VendorCompletes
    BY <1>2, <2>9, VendorCompletesCall
  <2>10. CASE Radio!LocalCompletes
    BY <1>2, <2>10, LocalCompletesCall
  <2>11. CASE Radio!Finish
    BY <2>11, StartsOver DEF Radio!Finish
  <2>12. CASE Radio!Indicate
    BY <1>2, <2>12, IndicateCall
  <2>13. CASE UNCHANGED Radio!vars
    BY <1>2, <2>13, QuietCall
  <2> QED
    BY <1>2, <2>1, <2>2, <2>3, <2>4, <2>5, <2>6, <2>7, <2>8, <2>9, <2>10, <2>11, <2>12,
       <2>13 DEF Radio!Next
<1> QED
  BY <1>1, <1>2, PTL DEF Radio!Spec

\* CallInv says that a settled call was answered, once and rightly.
LEMMA CallImplies ==
    ASSUME CallInv
    PROVE  Radio!AnsweredOnce
<1>1. CASE answers = <<>>
  <2>1. Len(answers) = 0
    BY <1>1
  <2>2. Radio!Settled /\ pRI # "none" => Local
    BY <1>1 DEF CallInv, RequestTracked, Radio!Settled
  <2> QED
    BY <1>1, <2>1, <2>2 DEF Radio!AnsweredOnce, Local
<1>2. CASE answers # <<>>
  <2>1. PICK t : /\ answers = <<t>>
                 /\ call.row[1] \notin Misnamed \cup {"local"} =>
                        t.callback = Radio!OwnName(call.row[1])
    BY <1>2 DEF CallInv, ToldRight
  <2>2. Len(answers) = 1 /\ answers[1] = t
    BY <2>1
  <2> QED
    BY <2>1, <2>2 DEF Radio!AnsweredOnce, Misnamed
<1> QED
  BY <1>1, <1>2

\* For every vendor and any number of data profiles, every call of the IRadio
\* service that got a RequestInfo is answered exactly once and, but for the two
\* methods that AnsweredOnce names, through its own callback, whether a copy
\* fails on the way or the vendor completes before or after onRequest returns.
THEOREM EveryCallAnsweredOnce == Radio!Spec => []AnsweredOnce
<1>1. CallInv => AnsweredOnce
  BY CallImplies DEF AnsweredOnce
<1> QED
  BY <1>1, AlwaysCall, ServiceConstants, PTL

\* When a method has returned, no copy of a string argument is left on the
\* heap but the path that iccIOForApp drops, and free() went wrong in nothing
\* but clearPendingBuffer on the data profiles of an old vendor.
THEOREM EveryCopyFreedOnce == Radio!Spec => []CopiesFreedOnce
<1>1. CallInv => CopiesFreedOnce
  BY DEF CallInv, CopiesFreedOnce
<1> QED
  BY <1>1, AlwaysCall, ServiceConstants, PTL

\* No response and no indication function reads past the payload it was
\* handed, of any shape but the voice registration states VendorCompletes
\* leaves out.
THEOREM OnlyWhatCameIsRead == Radio!Spec => []ReadsWhatCame
<1>1. CallInv => ReadsWhatCame
  BY DEF CallInv, ReadsWhatCame
<1> QED
  BY <1>1, AlwaysCall, ServiceConstants, PTL

\* An error of the vendor reaches the client as that error, but for the radio
\* capability.
THEOREM EveryOutcomeKept == Radio!Spec => []OutcomeKept
<1>1. CallInv => OutcomeKept
  BY DEF CallInv, OutcomeKept
<1> QED
  BY <1>1, AlwaysCall, ServiceConstants, PTL

-----------------------------------------------------------------------------
(***************************************************************************)
(* The composer, for any number of layers, any cap on the planes and any   *)
(* fences.  FrameInv says of every point between fhwc_prepare and the      *)
(* trigger what the list of planes and the fences are; PictureWhole and    *)
(* FencesSettled only speak of its end.                                    *)
(***************************************************************************)
Doing == {"idle", "prepare", "gles", "set", "submit", "trigger", "done"}

\* The b topmost of n layers are overlays; with GLES in use a plane is left for it.
Split(n, b) == b \in 0..n /\ b <= Composer!OvlPlanes /\ (b < n => b < Composer!OvlPlanes)
Typed(n, b) == [l \in 1..n |-> IF l > n - b THEN "OVERLAY" ELSE "FRAMEBUFFER"]

\* What debug.forgehwc.maxplanes allows the overlays.
Cap == IF 0 >= props.maxplanes THEN 0 ELSE props.maxplanes

\* s is the set in order.
Orders(s, set) ==
    /\ s \in [1..Cardinality(set) -> set]
    /\ Composer!Range(s) = set
    /\ \A i, j \in DOMAIN s : i < j => s[i] < s[j]

Submitted == (Composer!Overlays \ lost) \cup (IF Composer!GlesUsed THEN {Composer!FBT} ELSE {})

Listed ==
    /\ frame \in Doing
    /\ layer \in Seq({Composer!Plain} \cup Composer!Doubtful)
    /\ props.maxplanes \in Int
    /\ closedTwice = FALSE

Prepared ==
    frame \notin {"idle", "prepare"} =>
        \E b \in 0..Len(layer) : Split(Len(layer), b) /\ type = Typed(Len(layer), b)

Fenced ==
    frame = "set" =>
        /\ acquire \in [Composer!All -> {"open", "none"}]
        /\ \A l \in Composer!All :
               acquire[l] = "open" => l \in {Composer!FBT} \cup Composer!Overlays
        /\ release = Composer!Blank(Composer!All \cup {Composer!RETIRE})

Planned ==
    frame \in {"submit", "trigger"} =>
        /\ Len(planes) <= Composer!OvlPlanes
        /\ planes \in Seq(Composer!All) /\ Composer!Range(planes) = Submitted
        /\ \A i, j \in DOMAIN planes : i < j => planes[i] < planes[j]
        /\ lost \subseteq Composer!Overlays

Collected ==
    frame = "submit" =>
        /\ acquire \in [Composer!All -> {"open", "none", "closed"}]
        /\ \A l \in Composer!All :
               /\ acquire[l] = "open" => l \in Composer!Range(planes)
               /\ acquire[l] = "closed" => l \notin Composer!Range(planes)
        /\ release = Composer!Blank(Composer!All \cup {Composer!RETIRE})

Submit ==
    frame = "trigger" =>
        /\ \A l \in Composer!All : acquire[l] # "open"
        /\ release \in [Composer!All \cup {Composer!RETIRE} -> {"kernel", "none"}]

FrameInv == Listed /\ Prepared /\ Fenced /\ Planned /\ Collected /\ Submit /\ Composer!FencesSettled

-----------------------------------------------------------------------------
(* A set of layers in order.                                               *)

\* The composer counts as the library does.
LEMMA SameCount == ASSUME NEW S PROVE Composer!Cardinality(S) = Cardinality(S)
  BY DEF Composer!Cardinality, Cardinality

\* A set of natural numbers has a least one.
LEMMA LeastOf ==
    ASSUME NEW S \in SUBSET Nat, S # {}
    PROVE  \E x \in S : \A y \in S : x <= y
<1> DEFINE R == OpToRel(<, Nat)
<1>1. IsWellFoundedOn(R, Nat)
  BY NatLessThanWellFounded
<1>2. \A x, y \in Nat : x < y => <<x, y>> \in R
  BY DEF OpToRel
<1> HIDE DEF R
<1>3. PICK x \in S : \A y \in S : ~(<<y, x>> \in R)
  BY <1>1, WFMin
<1>4. ASSUME NEW y \in S PROVE x <= y
  <2>1. x \in Nat /\ y \in Nat /\ ~(y < x)
    BY <1>2, <1>3
  <2> QED
    BY <2>1
<1> QED
  BY <1>4

\* Max, on which TopRun rests, is the greatest layer.
LEMMA GreatestOf ==
    ASSUME NEW n \in Nat, NEW S \in SUBSET (0..n), S # {}
    PROVE  Composer!Max(S) \in S /\ \A y \in S : Composer!Max(S) >= y
<1> DEFINE T == {n - y : y \in S}
<1>1. T \in SUBSET Nat /\ T # {}
  <2>1. \A y \in S : n - y \in Nat
    OBVIOUS
  <2> QED
    BY <2>1
<1>2. PICK t \in T : \A u \in T : t <= u
  BY <1>1, LeastOf
<1>3. PICK x \in S : t = n - x
  BY <1>2
<1>4. \A y \in S : x >= y
  <2> SUFFICES ASSUME NEW y \in S PROVE x >= y
    OBVIOUS
  <2>1. n - x <= n - y
    BY <1>2, <1>3
  <2> QED
    BY <2>1
<1> QED
  BY <1>4 DEF Composer!Max

\* Min and Max of two numbers, as fhwc_prepare takes them.
LEMMA TwoOf ==
    ASSUME NEW a \in Int, NEW b \in Int
    PROVE  /\ Composer!Min({a, b}) = IF a <= b THEN a ELSE b
           /\ Composer!Max({a, b}) = IF a >= b THEN a ELSE b
BY DEF Composer!Min, Composer!Max

\* No layers are in order.
LEMMA OrderNone == Orders(<<>>, {})
BY FS_EmptySet DEF Orders, Composer!Range

\* What the lowest layer is put in front of stays in order.
LEMMA OrderMore ==
    ASSUME NEW S \in SUBSET Nat, IsFiniteSet(S), NEW a \in S, \A x \in S : a <= x,
           NEW s, Orders(s, S \ {a})
    PROVE  \E t : Orders(t, S)
<1>1. PICK n \in Nat : n = Cardinality(S \ {a}) /\ Cardinality(S) = n + 1
  <2>1. IsFiniteSet(S \ {a}) /\ Cardinality(S \ {a}) = Cardinality(S) - 1
    BY FS_RemoveElement
  <2>2. Cardinality(S \ {a}) \in Nat /\ Cardinality(S) \in Nat
    BY <2>1, FS_CardinalityType
  <2> QED
    BY <2>1, <2>2
<1>2. /\ s \in [1..n -> S \ {a}] /\ Composer!Range(s) = S \ {a}
      /\ \A i, j \in 1..n : i < j => s[i] < s[j]
  BY <1>1 DEF Orders
<1> DEFINE t == [i \in 1..(n + 1) |-> IF i = 1 THEN a ELSE s[i - 1]]
<1>3. \A i \in 2..(n + 1) : i - 1 \in 1..n /\ i # 1 /\ i \in 1..(n + 1)
  OBVIOUS
<1>4. /\ t \in [1..(n + 1) -> S]
      /\ t[1] = a
      /\ \A i \in 2..(n + 1) : i - 1 \in 1..n /\ t[i] = s[i - 1]
  BY <1>2, <1>3
<1> HIDE DEF t
<1>5. ASSUME NEW x \in S PROVE \E i \in 1..(n + 1) : t[i] = x
  <2>1. CASE x = a
    <3>1. 1 \in 1..(n + 1)
      OBVIOUS
    <3> QED
      BY <3>1, <2>1, <1>4
  <2>2. CASE x # a
    <3>1. PICK i \in 1..n : s[i] = x
      BY <2>2, <1>2 DEF Composer!Range
    <3>2. i + 1 \in 2..(n + 1) /\ (i + 1) - 1 = i /\ i + 1 \in 1..(n + 1)
      OBVIOUS
    <3> QED
      BY <3>1, <3>2, <1>4
  <2> QED
    BY <2>1, <2>2
<1>6. ASSUME NEW i \in 1..(n + 1), NEW j \in 1..(n + 1), i < j
      PROVE  t[i] < t[j]
  <2>1. j \in 2..(n + 1)
    BY <1>6
  <2>2. j - 1 \in 1..n /\ t[j] = s[j - 1]
    BY <2>1, <1>4
  <2>3. CASE i = 1
    <3>1. s[j - 1] \in S /\ s[j - 1] # a /\ a \in Nat
      BY <2>2, <1>2
    <3>2. a <= s[j - 1] /\ s[j - 1] \in Nat
      BY <3>1
    <3> QED
      BY <3>1, <3>2, <2>2, <2>3, <1>4
  <2>4. CASE i # 1
    <3>1. i \in 2..(n + 1) /\ i - 1 < j - 1
      BY <2>4, <1>6
    <3>2. i - 1 \in 1..n /\ t[i] = s[i - 1]
      BY <3>1, <1>4
    <3> QED
      BY <3>1, <3>2, <2>2, <1>2
  <2> QED
    BY <2>3, <2>4
<1>7. Composer!Range(t) = S
  <2>1. DOMAIN t = 1..(n + 1) /\ \A i \in 1..(n + 1) : t[i] \in S
    BY <1>4
  <2> QED
    BY <2>1, <1>5 DEF Composer!Range
<1> QED
  BY <1>1, <1>4, <1>6, <1>7 DEF Orders

\* A set can be put in order if it can without any one of its layers.
LEMMA OrderOne ==
    ASSUME NEW S \in SUBSET Nat, IsFiniteSet(S), S # {},
           \A a \in S : \E s : Orders(s, S \ {a})
    PROVE  \E s : Orders(s, S)
<1>1. PICK a \in S : \A x \in S : a <= x
  BY LeastOf
<1>2. PICK s : Orders(s, S \ {a})
  OBVIOUS
<1> QED
  BY <1>1, <1>2, OrderMore

\* InOrder, the loop of fhwc_set over the layers, puts up to four in order.
LEMMA OrderFew ==
    ASSUME NEW S \in SUBSET Nat, IsFiniteSet(S), Cardinality(S) <= 4
    PROVE  Orders(Composer!InOrder(S), S)
<1> DEFINE Few(k) == \A T \in SUBSET Nat :
                         IsFiniteSet(T) /\ Cardinality(T) <= k => \E s : Orders(s, T)
<1>1. Few(0)
  <2> SUFFICES ASSUME NEW T \in SUBSET Nat, IsFiniteSet(T), Cardinality(T) <= 0
               PROVE  \E s : Orders(s, T)
    OBVIOUS
  <2>1. T = {}
    BY FS_CardinalityType, FS_EmptySet
  <2> QED
    BY <2>1, OrderNone
<1>2. ASSUME NEW k \in 0..3, Few(k) PROVE Few(k + 1)
  <2> SUFFICES ASSUME NEW T \in SUBSET Nat, IsFiniteSet(T), Cardinality(T) <= k + 1, T # {}
               PROVE  \E s : Orders(s, T)
    BY OrderNone
  <2>1. ASSUME NEW a \in T PROVE \E s : Orders(s, T \ {a})
    <3>1. /\ IsFiniteSet(T \ {a}) /\ Cardinality(T \ {a}) = Cardinality(T) - 1
          /\ Cardinality(T) \in Nat
      BY FS_RemoveElement, FS_CardinalityType
    <3>2. T \ {a} \in SUBSET Nat /\ Cardinality(T \ {a}) <= k
      BY <3>1
    <3> QED
      BY <3>1, <3>2, <1>2
  <2> QED
    BY <2>1, OrderOne
<1> HIDE DEF Few
<1>3. Few(1)
  <2>1. Few(0 + 1)
    BY <1>1, <1>2
  <2> QED
    BY <2>1
<1>4. Few(2)
  <2>1. Few(1 + 1)
    BY <1>3, <1>2
  <2> QED
    BY <2>1
<1>5. Few(3)
  <2>1. Few(2 + 1)
    BY <1>4, <1>2
  <2> QED
    BY <2>1
<1>6. Few(4)
  <2>1. Few(3 + 1)
    BY <1>5, <1>2
  <2> QED
    BY <2>1
<1>7. PICK s : Orders(s, S)
  BY <1>6 DEF Few
<1>8. Composer!Cardinality(S) = Cardinality(S)
  BY SameCount
<1> QED
  BY <1>7, <1>8 DEF Composer!InOrder, Orders

-----------------------------------------------------------------------------
\* What the framebuffer target in front of the overlays makes of the list.
LEMMA Behind ==
    ASSUME NEW S, NEW z \in S, NEW s \in Seq(S)
    PROVE  /\ <<z>> \o s \in Seq(S) /\ Len(<<z>> \o s) = 1 + Len(s)
           /\ (<<z>> \o s)[1] = z
           /\ \A i \in 2..(1 + Len(s)) : (<<z>> \o s)[i] = s[i - 1]
<1> DEFINE t == <<z>>
<1>1. t \in Seq(S) /\ Len(t) = 1 /\ t[1] = z
  OBVIOUS
<1> HIDE DEF t
<1>2. /\ t \o s \in Seq(S)
      /\ Len(t \o s) = Len(t) + Len(s)
      /\ \A i \in 1..(Len(t) + Len(s)) : (t \o s)[i] = IF i <= Len(t) THEN t[i] ELSE s[i - Len(t)]
  BY <1>1, ConcatProperties
<1>3. Len(s) \in Nat
  OBVIOUS
<1>4. (t \o s)[1] = z /\ \A i \in 2..(1 + Len(s)) : (t \o s)[i] = s[i - 1]
  BY <1>1, <1>2, <1>3
<1> QED
  BY <1>1, <1>2, <1>4 DEF t

\* The planes fhwc_set collects: as many as the OVL has, from the bottom up.
LEMMA PlanesInOrder ==
    ASSUME NEW n \in Nat, NEW b, Split(n, b), NEW S \in SUBSET ((n - b + 1)..n),
           NEW list, list = (IF b < n THEN <<Composer!FBT>> ELSE <<>>) \o Composer!InOrder(S)
    PROVE  /\ list \in Seq(0..n) /\ Len(list) <= Composer!OvlPlanes
           /\ Composer!Range(list) = S \cup (IF b < n THEN {Composer!FBT} ELSE {})
           /\ \A i, j \in DOMAIN list : i < j => list[i] < list[j]
<1> USE DEF Composer!OvlPlanes, Composer!FBT
<1>0. b \in Nat /\ b <= n /\ b <= 4 /\ (b < n => b < 4)
  BY DEF Split
<1>1. IsFiniteSet(S) /\ Cardinality(S) <= b /\ Cardinality(S) \in Nat
  <2>1. IsFiniteSet((n - b + 1)..n) /\ Cardinality((n - b + 1)..n) = b
    BY <1>0, FS_Interval
  <2> QED
    BY <2>1, FS_Subset, FS_CardinalityType
<1>2. S \in SUBSET Nat /\ S \subseteq 1..n /\ S \subseteq 0..n
  BY <1>0
<1> DEFINE s == Composer!InOrder(S)
<1>3. Orders(s, S)
  <2>1. Cardinality(S) <= 4
    BY <1>0, <1>1
  <2> QED
    BY <1>1, <1>2, <2>1, OrderFew
<1> HIDE DEF s
<1>4. PICK c \in Nat : c = Cardinality(S) /\ c <= b
  BY <1>1
<1>5. /\ s \in Seq(0..n) /\ Len(s) = c /\ DOMAIN s = 1..c
      /\ \A i \in 1..c : s[i] \in S /\ s[i] \in 1..n
      /\ \A x \in S : \E i \in 1..c : s[i] = x
      /\ \A i, j \in 1..c : i < j => s[i] < s[j]
  <2>1. s \in [1..c -> S] /\ Composer!Range(s) = S /\ DOMAIN s = 1..c
    BY <1>3, <1>4 DEF Orders
  <2>2. s \in [1..c -> 0..n]
    <3>1. \A i \in 1..c : s[i] \in 0..n
      BY <2>1, <1>2
    <3> QED
      BY <3>1, <2>1
  <2>3. s \in Seq(0..n) /\ Len(s) = c
    BY <2>2
  <2>4. \A i, j \in 1..c : i < j => s[i] < s[j]
    BY <2>1, <1>3 DEF Orders
  <2> QED
    BY <2>1, <2>3, <2>4, <1>2 DEF Composer!Range
<1>6. CASE b = n
  <2>1. list = s
    <3>1. list = <<>> \o s
      <4>1. ~(b < n)
        BY <1>0, <1>6
      <4> QED
        BY <4>1 DEF s
    <3> QED
      BY <3>1, <1>5, ConcatEmptySeq
  <2>2. Composer!Range(s) = S
    BY <1>3 DEF Orders
  <2>3. Len(s) <= 4 /\ ~(b < n)
    BY <1>0, <1>4, <1>5, <1>6
  <2> QED
    BY <2>1, <2>2, <2>3, <1>5
<1>7. CASE b < n
  <2>1. list = <<0>> \o s /\ 0 \in 0..n
    BY <1>7 DEF s
  <2>2. /\ list \in Seq(0..n) /\ Len(list) = 1 + c /\ list[1] = 0
        /\ \A i \in 2..(1 + c) : list[i] = s[i - 1]
    <3>1. s \in Seq(0..n)
      BY <1>5
    <3>2. /\ <<0>> \o s \in Seq(0..n) /\ Len(<<0>> \o s) = 1 + Len(s) /\ (<<0>> \o s)[1] = 0
          /\ \A i \in 2..(1 + Len(s)) : (<<0>> \o s)[i] = s[i - 1]
      BY ONLY <2>1, <3>1, Behind
    <3>3. Len(s) = c
      BY <1>5
    <3> QED
      BY ONLY <2>1, <3>2, <3>3
  <2>3. list[1] = 0 /\ DOMAIN list = 1..(c + 1)
    BY <2>2
  <2>4. ASSUME NEW i \in 2..(c + 1) PROVE i - 1 \in 1..c /\ list[i] = s[i - 1]
    <3>1. i - 1 \in 1..c /\ i \in 2..(1 + c)
      OBVIOUS
    <3> QED
      BY <3>1, <2>2
  <2>5. Composer!Range(list) = S \cup {0}
    <3>1. ASSUME NEW i \in 1..(c + 1) PROVE list[i] \in S \cup {0}
      <4>1. CASE i = 1
        BY <4>1, <2>3
      <4>2. CASE i # 1
        <5>1. i \in 2..(c + 1)
          BY <4>2
        <5> QED
          BY <5>1, <2>4, <1>5
      <4> QED
        BY <4>1, <4>2
    <3>2. ASSUME NEW x \in S PROVE \E i \in 1..(c + 1) : list[i] = x
      <4>1. PICK i \in 1..c : s[i] = x
        BY <1>5
      <4>2. i + 1 \in 2..(c + 1) /\ (i + 1) - 1 = i /\ i + 1 \in 1..(c + 1)
        OBVIOUS
      <4> QED
        BY <4>1, <4>2, <2>4
    <3>3. 1 \in 1..(c + 1)
      OBVIOUS
    <3> QED
      BY <3>1, <3>2, <3>3, <2>3 DEF Composer!Range
  <2>6. ASSUME NEW i \in 1..(c + 1), NEW j \in 1..(c + 1), i < j
        PROVE  list[i] < list[j]
    <3>1. j \in 2..(c + 1)
      BY <2>6
    <3>2. j - 1 \in 1..c /\ list[j] = s[j - 1] /\ s[j - 1] \in 1..n
      BY <3>1, <2>4, <1>5
    <3>3. CASE i = 1
      BY <3>2, <3>3, <2>3
    <3>4. CASE i # 1
      <4>1. i \in 2..(c + 1) /\ i - 1 < j - 1
        BY <3>4, <2>6
      <4>2. i - 1 \in 1..c /\ list[i] = s[i - 1]
        BY <4>1, <2>4
      <4> QED
        BY <4>1, <4>2, <3>2, <1>5
    <3> QED
      BY <3>3, <3>4
  <2>7. Len(list) <= 4
    BY <2>2, <1>0, <1>4, <1>7
  <2> QED
    BY <2>2, <2>3, <2>5, <2>6, <2>7, <1>7
<1>8. b = n \/ b < n
  BY <1>0
<1> QED
  BY <1>6, <1>7, <1>8

\* fhwc_prepare leaves a plane for GLES whenever it leaves GLES a layer, and
\* takes no more overlays than the cap.
LEMMA BudgetSplits ==
    ASSUME Listed
    PROVE  Split(Len(layer), Composer!Budget) /\ Composer!Budget <= Cap
<1> USE DEF Composer!OvlPlanes
<1>1. PICK n \in Nat : n = Len(layer)
  BY DEF Listed
<1>2. Composer!TopRun \in 0..n
  <2> DEFINE S == {0} \cup {l \in Composer!Layers : Composer!layer_fits_overlay(layer[l]) = 0}
  <2>1. S \in SUBSET (0..n) /\ S # {}
    BY <1>1 DEF Composer!Layers
  <2>2. Composer!Max(S) \in 0..n
    <3> HIDE DEF S
    <3> QED
      BY <2>1, GreatestOf
  <2> HIDE DEF S
  <2>3. Composer!TopRun = IF ~props.overlays THEN 0 ELSE n - Composer!Max(S)
    BY <1>1 DEF Composer!TopRun, S
  <2> QED
    BY <2>2, <2>3
<1>3. PICK t \in 0..n : t = Composer!TopRun
  BY <1>2
<1>4. PICK m \in Int : m = Composer!Max({0, props.maxplanes}) /\ m >= 0 /\ m = Cap
  <2>1. PICK p \in Int : p = props.maxplanes
    BY DEF Listed
  <2>2. Composer!Max({0, p}) = IF 0 >= p THEN 0 ELSE p
    BY TwoOf
  <2> QED
    BY <2>1, <2>2 DEF Cap
<1>5. Composer!Min({t, 3}) = IF t <= 3 THEN t ELSE 3
  BY TwoOf
<1>6. PICK w \in 0..n :
          /\ w = IF t = n /\ n \in 1..4 THEN n ELSE Composer!Min({t, 3})
          /\ w <= 4 /\ (w < n => w < 4)
  <2>1. CASE t = n /\ n \in 1..4
    BY <2>1
  <2>2. CASE ~(t = n /\ n \in 1..4)
    BY <2>2, <1>5
  <2> QED
    BY <2>1, <2>2
<1>7. Composer!Budget = Composer!Min({w, m})
  BY <1>1, <1>3, <1>4, <1>6 DEF Composer!Budget
<1>8. Composer!Min({w, m}) = IF w <= m THEN w ELSE m
  BY TwoOf
<1>9. PICK b \in 0..n : b = Composer!Budget /\ b <= 4 /\ (b < n => b < 4)
  <2>1. m >= 0
    BY <1>4
  <2> QED
    BY <2>1, <1>6, <1>7, <1>8
<1>10. Composer!Budget <= m
  BY <1>6, <1>7, <1>8
<1> QED
  BY <1>1, <1>4, <1>9, <1>10 DEF Split

-----------------------------------------------------------------------------
\* What the types say of the layers.
LEMMA SplitSays ==
    ASSUME Listed, NEW b, Split(Len(layer), b), type = Typed(Len(layer), b)
    PROVE  /\ Len(layer) \in Nat /\ b \in 0..Len(layer)
           /\ Composer!Overlays = (Len(layer) - b + 1)..Len(layer)
           /\ {l \in Composer!Layers : type[l] = "FRAMEBUFFER"} = 1..(Len(layer) - b)
           /\ Composer!GlesUsed <=> b < Len(layer)
<1>1. PICK n \in Nat : n = Len(layer)
  BY DEF Listed
<1>2. b \in 0..n
  BY <1>1 DEF Split
<1>3. \A l \in 1..n : type[l] = IF l > n - b THEN "OVERLAY" ELSE "FRAMEBUFFER"
  BY <1>1 DEF Typed
<1>4. Composer!Overlays = (n - b + 1)..n
  BY <1>1, <1>2, <1>3 DEF Composer!Overlays, Composer!Layers
<1>5. {l \in Composer!Layers : type[l] = "FRAMEBUFFER"} = 1..(n - b)
  BY <1>1, <1>2, <1>3 DEF Composer!Layers
<1>6. Composer!GlesUsed <=> b < n
  <2>1. Composer!GlesUsed <=> \E l \in 1..(n - b) : TRUE
    BY <1>5 DEF Composer!GlesUsed
  <2>2. b < n => 1 \in 1..(n - b)
    BY <1>2
  <2>3. (\E l \in 1..(n - b) : TRUE) => b < n
    BY <1>2
  <2> QED
    BY <2>1, <2>2, <2>3
<1> QED
  BY <1>1, <1>2, <1>4, <1>5, <1>6

\* The planes of a split frame show the whole picture.
LEMMA PlannedIsWhole ==
    ASSUME Listed, Prepared, Planned
    PROVE  Composer!PictureWhole
<1> SUFFICES ASSUME frame \in {"submit", "trigger"} PROVE Composer!PictureWhole
  BY DEF Composer!PictureWhole
<1>1. PICK b : Split(Len(layer), b) /\ type = Typed(Len(layer), b)
  BY DEF Prepared
<1>2. PICK n \in Nat : n = Len(layer)
  BY DEF Listed
<1>3. /\ b \in 0..n /\ Composer!Overlays = (n - b + 1)..n
      /\ {l \in Composer!Layers : type[l] = "FRAMEBUFFER"} = 1..(n - b)
      /\ Composer!GlesUsed <=> b < n
  BY <1>1, <1>2, SplitSays
<1>4. /\ planes \in Seq(0..n) /\ Len(planes) <= Composer!OvlPlanes
      /\ lost \subseteq (n - b + 1)..n
      /\ \A i, j \in DOMAIN planes : i < j => planes[i] < planes[j]
      /\ Composer!Range(planes) = (((n - b + 1)..n) \ lost) \cup (IF b < n THEN {0} ELSE {})
  BY <1>2, <1>3 DEF Planned, Submitted, Composer!All, Composer!FBT
<1>5. \A p \in 0..n : Composer!Shows(p) = IF p = 0 THEN 1..(n - b) ELSE {p}
  BY <1>3 DEF Composer!Shows, Composer!FBT
<1>6. UNION {Composer!Shows(planes[i]) : i \in DOMAIN planes} = (1..n) \ lost
  <2>1. ASSUME NEW i \in DOMAIN planes, NEW l \in Composer!Shows(planes[i])
        PROVE  l \in (1..n) \ lost
    <3>1. planes[i] \in Composer!Range(planes) /\ planes[i] \in 0..n
      BY <1>4 DEF Composer!Range
    <3>2. CASE planes[i] = 0
      <4>1. l \in 1..(n - b)
        BY <3>1, <3>2, <1>5, <2>1
      <4> QED
        BY <4>1, <1>3, <1>4
    <3>3. CASE planes[i] # 0
      <4>1. l = planes[i]
        BY <3>1, <3>3, <1>5, <2>1
      <4> QED
        BY <4>1, <3>1, <3>3, <1>3, <1>4
    <3> QED
      BY <3>2, <3>3
  <2>2. ASSUME NEW l \in (1..n) \ lost
        PROVE  \E i \in DOMAIN planes : l \in Composer!Shows(planes[i])
    <3>1. CASE l <= n - b
      <4>1. b < n /\ l \in 1..(n - b)
        BY <3>1, <1>3
      <4>2. PICK i \in DOMAIN planes : planes[i] = 0
        BY <4>1, <1>4 DEF Composer!Range
      <4>3. Composer!Shows(0) = 1..(n - b)
        BY <1>5
      <4> QED
        BY <4>1, <4>2, <4>3
    <3>2. CASE l > n - b
      <4>1. l \in ((n - b + 1)..n) \ lost
        BY <3>2, <1>3
      <4>2. PICK i \in DOMAIN planes : planes[i] = l
        BY <4>1, <1>4 DEF Composer!Range
      <4> QED
        BY <4>2, <1>5
    <3> QED
      BY <3>1, <3>2, <1>3
  <2> QED
    BY <2>1, <2>2
<1>7. ASSUME NEW i \in DOMAIN planes, NEW j \in DOMAIN planes, i < j,
             NEW l \in Composer!Shows(planes[i]), NEW m \in Composer!Shows(planes[j])
      PROVE  l < m
  <2>1. /\ planes[i] \in 0..n /\ planes[j] \in 0..n /\ planes[i] < planes[j]
        /\ planes[j] \in Composer!Range(planes)
    BY <1>4, <1>7 DEF Composer!Range
  <2>2. planes[j] # 0 /\ planes[j] \in (n - b + 1)..n
    BY <2>1, <1>4
  <2>3. m = planes[j]
    BY <2>1, <2>2, <1>5, <1>7
  <2>4. CASE planes[i] = 0
    <3>1. l \in 1..(n - b)
      BY <2>1, <2>4, <1>5, <1>7
    <3> QED
      BY <3>1, <2>2, <2>3, <1>3
  <2>5. CASE planes[i] # 0
    BY <2>1, <2>3, <2>5, <1>5, <1>7
  <2> QED
    BY <2>4, <2>5
<1> QED
  BY <1>2, <1>4, <1>6, <1>7 DEF Composer!PictureWhole, Composer!Layers

\* Before the first frame there is nothing to settle.
LEMMA InitFrame == Composer!Init => FrameInv
<1> SUFFICES ASSUME Composer!Init PROVE FrameInv
  OBVIOUS
<1>1. /\ frame = "idle" /\ layer = <<>> /\ closedTwice = FALSE
      /\ props = [overlays |-> TRUE, maxplanes |-> Composer!OvlPlanes]
  BY DEF Composer!Init
<1>2. layer \in Seq({Composer!Plain} \cup Composer!Doubtful)
  BY <1>1, SMT
<1>3. props.maxplanes \in Int
  BY <1>1 DEF Composer!OvlPlanes
<1> QED
  BY <1>1, <1>2, <1>3
     DEF FrameInv, Listed, Prepared, Fenced, Planned, Collected, Submit,
         Composer!FencesSettled, Doing

\* A list of layers from SurfaceFlinger.
LEMMA PresentFrame ==
    ASSUME FrameInv, Composer!FrameConstants, Composer!Present
    PROVE  FrameInv'
<1>1. frame' = "prepare"
  BY DEF Composer!Present
<1>2. Listed'
  <2>1. layer' \in Seq({Composer!Plain} \cup Composer!Doubtful)
    <3>1. PICK d \in Composer!Doubtful, m \in 0..MaxLayers :
              layer' \in [1..m -> {Composer!Plain, d}]
      BY DEF Composer!Present
    <3>2. layer' \in [1..m -> {Composer!Plain} \cup Composer!Doubtful]
      BY <3>1
    <3> QED
      BY <3>2 DEF Composer!FrameConstants
  <2>2. props'.maxplanes \in Int
    BY DEF Composer!Present, Composer!FrameConstants
  <2> QED
    BY <2>1, <2>2, <1>1 DEF FrameInv, Listed, Composer!Present, Doing
<1> QED
  BY <1>1, <1>2
     DEF FrameInv, Listed, Prepared, Fenced, Planned, Collected, Submit, Composer!FencesSettled

\* fhwc_prepare gives the topmost layers to the OVL.
LEMMA PrepareFrame ==
    ASSUME FrameInv, Composer!fhwc_prepare
    PROVE  FrameInv'
<1>1. frame' = "gles" /\ layer' = layer
  BY DEF Composer!fhwc_prepare
<1>2. Split(Len(layer), Composer!Budget)
  BY BudgetSplits DEF FrameInv
<1>3. Prepared'
  <2>1. type' = Typed(Len(layer), Composer!Budget)
    BY DEF Composer!fhwc_prepare, Typed, Composer!Layers
  <2>2. Composer!Budget \in 0..Len(layer)
    BY <1>2 DEF Split
  <2> QED
    BY <1>1, <1>2, <2>1, <2>2 DEF Prepared
<1>4. Listed'
  BY <1>1 DEF FrameInv, Listed, Composer!fhwc_prepare, Doing
<1> QED
  BY <1>1, <1>3, <1>4
     DEF FrameInv, Listed, Fenced, Planned, Collected, Submit, Composer!FencesSettled

\* The acquire fences come with the buffers.
LEMMA GlesFrame ==
    ASSUME FrameInv, Composer!Gles
    PROVE  FrameInv'
<1>1. frame' = "set" /\ frame = "gles" /\ layer' = layer /\ type' = type
  BY DEF Composer!Gles
<1>2. Listed' /\ Prepared'
  BY <1>1 DEF FrameInv, Listed, Prepared, Composer!Gles, Doing
<1>3. Fenced'
  <2>1. PICK fenced \in SUBSET ({Composer!FBT} \cup Composer!Overlays) :
            acquire' = [l \in Composer!All |-> IF l \in fenced THEN "open" ELSE "none"]
    BY DEF Composer!Gles
  <2>2. Composer!All' = Composer!All /\ Composer!Overlays' = Composer!Overlays
    BY <1>1 DEF Composer!All, Composer!Overlays, Composer!Layers
  <2>3. release' = Composer!Blank(Composer!All \cup {Composer!RETIRE})
    BY DEF Composer!Gles
  <2> QED
    BY <2>1, <2>2, <2>3 DEF Fenced
<1> QED
  BY <1>1, <1>2, <1>3 DEF FrameInv, Listed, Planned, Collected, Submit, Composer!FencesSettled

\* fhwc_set without a framebuffer target closes its fence and shows nothing.
LEMMA SkipsFrame ==
    ASSUME FrameInv, Composer!SetSkips
    PROVE  FrameInv'
<1>1. /\ frame = "set" /\ frame' = "done" /\ UNCHANGED <<props, layer, target, type, release>>
      /\ Composer!GlesUsed /\ ~target
      /\ closedTwice' = (closedTwice \/ \E l \in {Composer!FBT} : acquire[l] = "closed")
  BY DEF Composer!SetSkips, Composer!Close
<1>2. Listed /\ Fenced /\ Prepared
  BY DEF FrameInv
<1>3. closedTwice' = FALSE
  <2>1. Composer!FBT \in Composer!All
    BY <1>2 DEF Listed, Composer!All, Composer!FBT
  <2> QED
    BY <1>1, <1>2, <2>1 DEF Listed, Fenced
<1>4. Listed' /\ Prepared'
  BY <1>1, <1>2, <1>3 DEF Listed, Prepared, Doing
<1>5. Composer!FencesSettled'
  <2>1. Composer!GlesUsed' /\ ~target'
    BY <1>1 DEF Composer!GlesUsed, Composer!Layers
  <2>2. \A l \in DOMAIN release' : release'[l] = "none"
    BY <1>1, <1>2 DEF Fenced, Composer!Blank
  <2> QED
    BY <1>3, <2>1, <2>2 DEF Composer!FencesSettled
<1> QED
  BY <1>1, <1>4, <1>5 DEF FrameInv, Fenced, Planned, Collected, Submit

\* Closing a set of fences that were open or none leaves the others alone.
LEMMA CloseCloses ==
    ASSUME NEW S \in SUBSET Composer!All, acquire \in [Composer!All -> {"open", "none", "closed"}],
           \A l \in S : acquire[l] # "closed", closedTwice = FALSE, Composer!Close(S)
    PROVE  /\ acquire' \in [Composer!All -> {"open", "none", "closed"}]
           /\ \A l \in S : acquire'[l] # "open"
           /\ \A l \in Composer!All \ S : acquire'[l] = acquire[l]
           /\ closedTwice' = FALSE
<1>1. acquire' = [l \in Composer!All |->
                     IF l \in S /\ acquire[l] # "none" THEN "closed" ELSE acquire[l]]
  BY DEF Composer!Close
<1>2. closedTwice' = FALSE
  BY DEF Composer!Close
<1>3. ASSUME NEW l \in Composer!All
      PROVE  /\ acquire'[l] \in {"open", "none", "closed"}
             /\ l \in S => acquire'[l] # "open"
             /\ l \notin S => acquire'[l] = acquire[l]
  <2>1. /\ acquire'[l] = IF l \in S /\ acquire[l] # "none" THEN "closed" ELSE acquire[l]
        /\ acquire[l] \in {"open", "none", "closed"}
    BY <1>1
  <2> QED
    BY <2>1
<1>4. acquire' \in [Composer!All -> {"open", "none", "closed"}]
  BY <1>1, <1>3
<1> QED
  BY <1>2, <1>3, <1>4

\* fhwc_set closes the fences of the layers it does not hand on.
LEMMA CollectsFrame ==
    ASSUME FrameInv, Composer!SetCollects
    PROVE  FrameInv'
<1>1. Listed /\ Prepared /\ Fenced /\ frame = "set" /\ ~(Composer!GlesUsed /\ ~target)
      /\ UNCHANGED <<props, layer, target, type, release>>
  BY DEF FrameInv, Composer!SetCollects
<1>2. PICK gone \in SUBSET Composer!Overlays :
          LET list == (IF Composer!GlesUsed THEN <<Composer!FBT>> ELSE <<>>)
                          \o Composer!InOrder(Composer!Overlays \ gone)
          IN /\ lost' = gone
             /\ planes' = SubSeq(list, 1, Composer!Min({Len(list), Composer!OvlPlanes}))
             /\ Composer!Close(gone \cup IF Composer!GlesUsed THEN {} ELSE {Composer!FBT})
             /\ frame' = IF list = <<>> THEN "done" ELSE "submit"
  BY DEF Composer!SetCollects
<1> DEFINE list == (IF Composer!GlesUsed THEN <<Composer!FBT>> ELSE <<>>)
                       \o Composer!InOrder(Composer!Overlays \ gone)
           shut == gone \cup (IF Composer!GlesUsed THEN {} ELSE {Composer!FBT})
<1>3. /\ lost' = gone /\ Composer!Close(shut)
      /\ planes' = SubSeq(list, 1, Composer!Min({Len(list), Composer!OvlPlanes}))
      /\ frame' = IF list = <<>> THEN "done" ELSE "submit"
  BY <1>2
<1>4. PICK b : Split(Len(layer), b) /\ type = Typed(Len(layer), b)
  BY <1>1 DEF Prepared
<1>5. PICK n \in Nat : n = Len(layer)
  BY <1>1 DEF Listed
<1>6. /\ b \in 0..n /\ Composer!Overlays = (n - b + 1)..n /\ (Composer!GlesUsed <=> b < n)
      /\ Composer!Overlays \subseteq Composer!All
      /\ Composer!FBT \in Composer!All /\ Composer!FBT \notin Composer!Overlays
  <2>1. b \in 0..n /\ Composer!Overlays = (n - b + 1)..n /\ (Composer!GlesUsed <=> b < n)
    BY <1>1, <1>4, <1>5, SplitSays
  <2> QED
    BY <2>1, <1>5 DEF Composer!All, Composer!FBT
<1>7. /\ Composer!GlesUsed' = Composer!GlesUsed /\ Composer!Overlays' = Composer!Overlays
      /\ Composer!All' = Composer!All
  BY <1>1 DEF Composer!GlesUsed, Composer!Overlays, Composer!All, Composer!Layers
<1>8. /\ list \in Seq(0..n) /\ Len(list) <= Composer!OvlPlanes
      /\ Composer!Range(list)
             = (Composer!Overlays \ gone) \cup (IF Composer!GlesUsed THEN {Composer!FBT} ELSE {})
      /\ \A i, j \in DOMAIN list : i < j => list[i] < list[j]
  <2>1. Composer!Overlays \ gone \in SUBSET ((n - b + 1)..n) /\ Split(n, b)
    BY <1>4, <1>5, <1>6
  <2>2. list = (IF b < n THEN <<Composer!FBT>> ELSE <<>>)
                   \o Composer!InOrder(Composer!Overlays \ gone)
    BY <1>6
  <2> HIDE DEF list
  <2>3. /\ list \in Seq(0..n) /\ Len(list) <= Composer!OvlPlanes
        /\ Composer!Range(list)
               = (Composer!Overlays \ gone) \cup (IF b < n THEN {Composer!FBT} ELSE {})
        /\ \A i, j \in DOMAIN list : i < j => list[i] < list[j]
    BY ONLY <2>1, <2>2, PlanesInOrder, n \in Nat
  <2> QED
    BY <1>6, <2>3
<1>9. planes' = list
  <2> HIDE DEF list
  <2>1. Len(list) \in Nat /\ Composer!Min({Len(list), 4}) = Len(list)
    BY <1>8 DEF Composer!Min, Composer!OvlPlanes
  <2> QED
    BY <1>3, <1>8, <2>1, SubSeqFull DEF Composer!OvlPlanes
<1>10. /\ acquire' \in [Composer!All -> {"open", "none", "closed"}]
       /\ \A l \in shut : acquire'[l] # "open"
       /\ \A l \in Composer!All \ shut : acquire'[l] = acquire[l]
       /\ closedTwice' = FALSE
  <2>1. shut \in SUBSET Composer!All
    BY <1>6
  <2>2. /\ acquire \in [Composer!All -> {"open", "none", "closed"}]
        /\ \A l \in shut : acquire[l] # "closed"
    BY <1>1, <2>1 DEF Fenced
  <2>3. closedTwice = FALSE
    BY <1>1 DEF Listed
  <2> QED
    BY <1>3, <2>1, <2>2, <2>3, CloseCloses
<1>11. Listed' /\ Prepared'
  BY <1>1, <1>3, <1>10 DEF Listed, Prepared, Doing
<1>12. ASSUME NEW l \in Composer!All
       PROVE  /\ acquire'[l] = "open" => l \in Composer!Range(list)
              /\ acquire'[l] = "closed" => l \notin Composer!Range(list)
  <2>1. acquire[l] = "open" => l \in {Composer!FBT} \cup Composer!Overlays
    BY <1>1 DEF Fenced
  <2>2. acquire[l] # "closed"
    BY <1>1 DEF Fenced
  <2> HIDE DEF list
  <2>3. CASE acquire'[l] = "open"
    <3>1. l \notin shut /\ acquire[l] = "open"
      BY <1>10, <2>3
    <3>2. l \in {Composer!FBT} \cup Composer!Overlays
      BY <2>1, <3>1
    <3> QED
      BY <1>8, <2>3, <3>1, <3>2
  <2>4. CASE acquire'[l] = "closed"
    <3>1. l \in shut
      BY <1>10, <2>2, <2>4
    <3> QED
      BY <1>6, <1>8, <2>4, <3>1
  <2> QED
    BY <2>3, <2>4
<1>13. Planned'
  <2>1. Composer!All = 0..n
    BY <1>5 DEF Composer!All
  <2> QED
    BY <1>3, <1>7, <1>8, <1>9, <2>1 DEF Planned, Submitted
<1>14. Collected'
  BY ZenonT(20), <1>1, <1>7, <1>9, <1>10, <1>12 DEF Collected, Fenced
<1>15. Composer!FencesSettled'
  <2>1. CASE list = <<>>
    <3>1. Composer!Range(list) = {}
      BY <2>1 DEF Composer!Range
    <3>2. \A l \in Composer!All : acquire'[l] # "open"
      BY <1>12, <3>1
    <3>3. \A l \in DOMAIN release' : release'[l] = "none"
      BY <1>1 DEF Fenced, Composer!Blank
    <3> QED
      BY <1>7, <1>10, <3>2, <3>3 DEF Composer!FencesSettled
  <2>2. CASE list # <<>>
    BY <1>3, <1>10, <2>2 DEF Composer!FencesSettled
  <2> QED
    BY <2>1, <2>2
<1> QED
  BY <1>3, <1>11, <1>13, <1>14, <1>15 DEF FrameInv, Fenced, Submit

\* Whoever closes the fences of the planes leaves none open.
LEMMA PlanesClosed ==
    ASSUME Listed, Prepared, Planned, Collected, frame = "submit",
           Composer!Close(Composer!Range(planes))
    PROVE  closedTwice' = FALSE /\ \A l \in Composer!All : acquire'[l] # "open"
<1>1. Composer!Range(planes) \in SUBSET Composer!All
  BY DEF Planned, Composer!Range
<1>2. /\ acquire \in [Composer!All -> {"open", "none", "closed"}]
      /\ \A l \in Composer!Range(planes) : acquire[l] # "closed"
      /\ closedTwice = FALSE
  BY <1>1 DEF Collected, Listed
<1>3. /\ \A l \in Composer!Range(planes) : acquire'[l] # "open"
      /\ \A l \in Composer!All \ Composer!Range(planes) : acquire'[l] = acquire[l]
  BY <1>1, <1>2, CloseCloses
<1>4. closedTwice' = FALSE
  BY <1>1, <1>2, CloseCloses
<1> QED
  BY <1>3, <1>4 DEF Collected

\* engine_submit closes the fences of the planes once the kernel has them.
LEMMA SubmitFrame ==
    ASSUME FrameInv, Composer!engine_submit
    PROVE  FrameInv'
<1>1. /\ Listed /\ Prepared /\ Planned /\ Collected /\ frame = "submit" /\ frame' = "trigger"
      /\ UNCHANGED <<props, layer, type, planes, lost>> /\ Composer!Close(Composer!Range(planes))
  BY DEF FrameInv, Composer!engine_submit
<1>2. closedTwice' = FALSE /\ \A l \in Composer!All : acquire'[l] # "open"
  BY <1>1, PlanesClosed
<1>3. /\ Composer!All' = Composer!All /\ Submitted' = Submitted
      /\ Composer!Overlays' = Composer!Overlays
  BY <1>1 DEF Composer!All, Submitted, Composer!Overlays, Composer!GlesUsed, Composer!Layers
<1>4. Listed' /\ Prepared' /\ Planned'
  BY <1>1, <1>2, <1>3 DEF Listed, Prepared, Planned, Doing
<1>5. release' \in [Composer!All \cup {Composer!RETIRE} -> {"kernel", "none"}]
  <2>1. PICK got : release' = [l \in Composer!All \cup {Composer!RETIRE} |->
                                  IF l \in got THEN "kernel" ELSE "none"]
    BY DEF Composer!engine_submit
  <2> QED
    BY <2>1
<1>6. Submit'
  BY <1>2, <1>3, <1>5 DEF Submit
<1> QED
  BY <1>1, <1>2, <1>4, <1>6 DEF FrameInv, Fenced, Collected, Composer!FencesSettled

\* engine_submit without memory closes the fences of the planes too.
LEMMA NoMemoryFrame ==
    ASSUME FrameInv, Composer!NoMemory
    PROVE  FrameInv'
<1>1. /\ Listed /\ Prepared /\ Planned /\ Collected /\ frame = "submit" /\ frame' = "done"
      /\ UNCHANGED <<props, layer, type, release>> /\ Composer!Close(Composer!Range(planes))
  BY DEF FrameInv, Composer!NoMemory
<1>2. closedTwice' = FALSE /\ \A l \in Composer!All : acquire'[l] # "open"
  BY <1>1, PlanesClosed
<1>3. Composer!All' = Composer!All
  BY <1>1 DEF Composer!All
<1>4. Listed' /\ Prepared'
  BY <1>1, <1>2 DEF Listed, Prepared, Doing
<1>5. \A l \in DOMAIN release' : release'[l] = "none"
  BY <1>1 DEF Collected, Composer!Blank
<1> QED
  BY <1>1, <1>2, <1>3, <1>4, <1>5
     DEF FrameInv, Fenced, Planned, Collected, Submit, Composer!FencesSettled

\* The trigger gives the release fences away, or closes them when it fails.
LEMMA TriggerFrame ==
    ASSUME FrameInv, Composer!Trigger \/ Composer!TriggerFails
    PROVE  FrameInv'
<1>1. /\ Listed /\ Prepared /\ Submit /\ frame = "trigger" /\ frame' = "done"
      /\ UNCHANGED <<props, layer, type, acquire, closedTwice>>
  BY DEF FrameInv, Composer!Trigger, Composer!TriggerFails
<1>2. PICK to \in {"given", "closed"} : outcome' = (IF to = "given" THEN "shown" ELSE "failed")
                                      /\ Composer!Hand(to)
  <2>1. CASE Composer!Trigger
    BY <2>1 DEF Composer!Trigger
  <2>2. CASE Composer!TriggerFails
    BY <2>2 DEF Composer!TriggerFails
  <2> QED
    BY <2>1, <2>2
<1>3. Listed' /\ Prepared' /\ Composer!All' = Composer!All
  BY <1>1 DEF Listed, Prepared, Composer!All, Doing
<1>4. \A l \in DOMAIN release' : release'[l] \in {"none", to}
  BY <1>1, <1>2 DEF Composer!Hand, Submit
<1>5. Composer!FencesSettled'
  BY <1>1, <1>2, <1>3, <1>4 DEF Composer!FencesSettled, Submit, Listed
<1> QED
  BY <1>1, <1>3, <1>5 DEF FrameInv, Fenced, Planned, Collected, Submit

\* The next frame starts from nothing.
LEMMA NextFrameFrame ==
    ASSUME FrameInv, Composer!NextFrame
    PROVE  FrameInv'
<1>1. frame' = "idle" /\ layer' = <<>> /\ UNCHANGED <<props, closedTwice>>
  BY DEF Composer!NextFrame
<1>2. layer' \in Seq({Composer!Plain} \cup Composer!Doubtful)
  BY <1>1, SMT
<1> QED
  BY <1>1, <1>2
     DEF FrameInv, Listed, Prepared, Fenced, Planned, Collected, Submit,
         Composer!FencesSettled, Doing

\* A step of another service leaves the frame alone.
LEMMA QuietFrame == FrameInv /\ UNCHANGED Composer!vars => FrameInv'
BY DEF Composer!vars, FrameInv, Listed, Prepared, Fenced, Planned, Collected, Submit,
       Composer!FencesSettled,
       Submitted, Composer!Overlays, Composer!GlesUsed, Composer!All, Composer!Layers

\* FrameInv is inductive.
LEMMA AlwaysFrame == ASSUME Composer!FrameConstants PROVE Composer!Spec => []FrameInv
<1>1. FrameInv /\ [Composer!Next]_(Composer!vars) => FrameInv'
  BY PresentFrame, PrepareFrame, GlesFrame, SkipsFrame, CollectsFrame, SubmitFrame,
     NoMemoryFrame, TriggerFrame, NextFrameFrame, QuietFrame DEF Composer!Next
<1> QED
  BY <1>1, InitFrame, PTL DEF Composer!Spec

\* The planes of every frame show each layer once and in order, with the
\* layers GLES composed at the bottom, whatever was lost on the way.
THEOREM EveryFrameWhole == Composer!Spec => []PictureWhole
<1>1. FrameInv => PictureWhole
  BY PlannedIsWhole DEF FrameInv, PictureWhole
<1> QED
  BY <1>1, AlwaysFrame, ServiceConstants, PTL

\* Every acquire fence is closed exactly once by the end of the frame and every
\* release fence is given to SurfaceFlinger or closed, on every path.
THEOREM EveryFenceSettled == Composer!Spec => []FencesSettled
<1>1. FrameInv => FencesSettled
  BY DEF FrameInv, FencesSettled
<1> QED
  BY <1>1, AlwaysFrame, ServiceConstants, PTL

\* The overlays of the frame under way are no more than the cap.
Capped ==
    frame \notin {"idle", "prepare"} =>
        \E b \in 0..Len(layer) : b <= Cap /\ type = Typed(Len(layer), b)

\* The properties are read by fhwc_prepare and the split is kept until the frame
\* is done.
LEMMA AlwaysCapped == ASSUME Composer!FrameConstants PROVE Composer!Spec => []Capped
<1>1. Composer!Init => Capped
  BY DEF Composer!Init, Capped
<1>2. FrameInv /\ Capped /\ [Composer!Next]_(Composer!vars) => Capped'
  <2> SUFFICES ASSUME FrameInv, Capped, [Composer!Next]_(Composer!vars) PROVE Capped'
    OBVIOUS
  <2>1. CASE Composer!Present \/ Composer!NextFrame
    BY <2>1 DEF Composer!Present, Composer!NextFrame, Capped
  <2>2. CASE Composer!fhwc_prepare
    <3>1. Composer!Budget \in 0..Len(layer) /\ Composer!Budget <= Cap
      BY BudgetSplits DEF FrameInv, Split
    <3>2. layer' = layer /\ Cap' = Cap /\ type' = Typed(Len(layer), Composer!Budget)
      BY <2>2 DEF Composer!fhwc_prepare, Cap, Typed, Composer!Layers
    <3> QED
      BY <3>1, <3>2 DEF Capped
  <2>3. ASSUME frame \notin {"idle", "prepare"}, UNCHANGED <<props, layer, type>> PROVE Capped'
    BY <2>3 DEF Capped, Cap
  <2>4. CASE Composer!Gles \/ Composer!SetSkips \/ Composer!SetCollects
    BY <2>3, <2>4 DEF Composer!Gles, Composer!SetSkips, Composer!SetCollects
  <2>5. CASE \/ Composer!engine_submit \/ Composer!NoMemory \/ Composer!Trigger
             \/ Composer!TriggerFails
    BY <2>3, <2>5
       DEF Composer!engine_submit, Composer!NoMemory, Composer!Trigger, Composer!TriggerFails
  <2>6. CASE UNCHANGED Composer!vars
    BY <2>6 DEF Composer!vars, Capped, Cap
  <2> QED
    BY <2>1, <2>2, <2>4, <2>5, <2>6 DEF Composer!Next
<1> QED
  BY <1>1, <1>2, AlwaysFrame, PTL DEF Composer!Spec

\* What the cap is worth: engine_submit fetches at most one plane more than
\* debug.forgehwc.maxplanes says, the framebuffer target's (PlanesCapped says
\* none more, which a frame with GLES below the overlays violates).
THEOREM CapMissedByOne ==
    Composer!Spec => [](frame \in {"submit", "trigger"} => Len(planes) <= Cap + 1)
<1>0. Composer!FrameConstants
  BY ServiceConstants
<1>1. FrameInv /\ Capped => (frame \in {"submit", "trigger"} => Len(planes) <= Cap + 1)
  <2> SUFFICES ASSUME FrameInv, Capped, frame \in {"submit", "trigger"}
               PROVE  Len(planes) <= Cap + 1
    OBVIOUS
  <2>1. PICK b \in 0..Len(layer) : b <= Cap /\ type = Typed(Len(layer), b)
    BY DEF Capped
  <2>2. PICK n \in Nat : n = Len(layer)
    BY DEF FrameInv, Listed
  <2>a. b \in Nat /\ b <= n
    BY <2>1, <2>2
  <2>3. Composer!Overlays \subseteq (n - b + 1)..n
    BY <2>1, <2>2 DEF Composer!Overlays, Composer!Layers, Typed
  <2>4. /\ planes \in Seq(Composer!All)
        /\ Composer!Range(planes) \subseteq (n - b + 1)..n \cup {0}
        /\ \A i, j \in DOMAIN planes : i < j => planes[i] < planes[j]
    BY <2>3 DEF FrameInv, Planned, Submitted, Composer!FBT
  <2>5. IsFiniteSet((n - b + 1)..n) /\ Cardinality((n - b + 1)..n) = b
    BY <2>a, FS_Interval
  <2>6. /\ IsFiniteSet((n - b + 1)..n \cup {0})
        /\ Cardinality((n - b + 1)..n \cup {0}) <= b + 1
    <3>1. /\ IsFiniteSet((n - b + 1)..n \cup {0})
          /\ Cardinality((n - b + 1)..n \cup {0}) \in {b, b + 1}
      BY <2>5, FS_AddElement
    <3> QED
      BY <3>1, <2>a
  <2>7. PICK k \in Nat : k = Len(planes) /\ DOMAIN planes = 1..k
    BY <2>4
  <2>8. planes \in Injection(1..k, (n - b + 1)..n \cup {0})
    <3>1. \A i \in 1..k : planes[i] \in Composer!Range(planes) /\ planes[i] \in Int
      BY <2>4, <2>7 DEF Composer!Range, Composer!All
    <3>2. planes \in [1..k -> (n - b + 1)..n \cup {0}]
      BY <2>4, <2>7, <3>1
    <3>3. ASSUME NEW i \in 1..k, NEW j \in 1..k, planes[i] = planes[j] PROVE i = j
      BY <2>4, <2>7, <3>1, <3>3
    <3> QED
      BY <3>2, <3>3 DEF Injection, IsInjective
  <2>9. Cardinality(1..k) = k /\ IsFiniteSet(1..k)
    BY FS_Interval
  <2>10. k <= b + 1
    BY <2>1, <2>6, <2>8, <2>9, FS_Injection, FS_CardinalityType
  <2>11. Cap \in Int
    BY DEF Cap, FrameInv, Listed
  <2> QED
    BY <2>1, <2>7, <2>10, <2>11
<1> QED
  BY <1>0, <1>1, AlwaysFrame, AlwaysCapped, PTL

=============================================================================
