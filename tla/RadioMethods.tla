---------------------------- MODULE RadioMethods ----------------------------
(***************************************************************************)
(* One call of the IRadio service from the binder thread to the answer:    *)
(* libril/ril_service.cpp (the methods of RadioImpl, the dispatchers, the  *)
(* response and indication functions) with addRequestToList, my_enqueue    *)
(* and clearPendingBuffer of ril.cpp.  registerService serves both slots   *)
(* from one binder thread, so calls are marshalled one at a time; how      *)
(* requests in flight interleave is the subject of RilRequests and         *)
(* MtkChannels, and clients that die that of RadioCallbacks.               *)
(***************************************************************************)
EXTENDS RilTables, Functions

CONSTANTS
    Versions,       \* versions of the vendor's RIL_RadioFunctions
    MaxProfiles,    \* most data profiles in one setDataProfile
    MaxUnits        \* most units in a payload of the vendor's

\* What the constants are taken to be.
RadioConstants == Versions \subseteq 4..15 /\ MaxProfiles \in Nat /\ MaxUnits \in Nat

VARIABLES
    at,         \* the binder thread: idle, list, copy, vendor, returned,
                \* crashed; indicated while an indication is handed on instead
    call,       \* the method it serves and what is special about its arguments
    mem,        \* the fate of every block copied so far: null, held, lost, freed
    badFree,    \* free() got a pointer that no block starts at, or one twice
    request,    \* the RequestInfo: none, listed, sent, answered
    told,       \* what the client was told: callback and error
    decoded,    \* the last payload decoded: its units, those read, the error with it
    capability  \* s_lastRadioCapabilityValid

vars == <<at, call, mem, badFree, request, told, decoded, capability>>

NoCall ==
    [row |-> <<"none", "none", Void>>, version |-> 0, empty |-> {}, pCI |-> <<"none", "none", 0>>]
NothingDecoded == [units |-> 0, reads |-> {}, said |-> "SUCCESS", reported |-> "SUCCESS"]

-----------------------------------------------------------------------------
(* addRequestToList: the row of the command table a request is given.      *)

mtk_command_start == 0

RequestNumber(name) ==
    IF name \in DOMAIN VendorRequests THEN VendorRequests[name]
    ELSE CHOOSE n \in DOMAIN s_commands : s_commands[n][1] = name

CommandIndex(number) ==
    IF number < VENDOR_BASE THEN number ELSE number - VENDOR_BASE + mtk_command_start

CommandOf(name) == s_commands[CommandIndex(RequestNumber(name))]

-----------------------------------------------------------------------------
(* Decoding.  A payload is NULL or a number of units and perhaps a rest    *)
(* that fills no unit; good stands for contents the function accepts, tag   *)
(* is the cell type of the radio technology in a registration state or the *)
(* name of a CDMA information record.  The +ECPI stream always has ten     *)
(* fields; good ones announce a call (133).                                *)

CellTypes == {"none", "gsm", "wcdma", "tdscdma", "cdma", "lte"}

Shapes(kind) ==
    [null : {FALSE}, rest : BOOLEAN, good : BOOLEAN,
     units : IF kind \in {"ecpi", "callInfo"} THEN {10} ELSE 0..MaxUnits,
     tag : CASE kind \in {"voiceReg", "dataReg"} -> CellTypes
             [] kind = "records" -> DOMAIN InfoRecField \cup {"T53_RELEASE"}
             [] OTHER -> {"none"}]
    \cup [null : {TRUE}, rest : {FALSE}, good : {TRUE}, units : 0..1, tag : {"none"}]

NoPayload == [null |-> TRUE, rest |-> FALSE, good |-> TRUE, units |-> 0, tag |-> "none"]

\* fillCellIdentityFromVoiceRegStateResponseString and its twin for data: the
\* strings looked at by cell type, each behind convertResponseStringEntryToInt.
VoiceCellStrings ==
    [none |-> {}, gsm |-> {1, 2}, wcdma |-> {1, 2, 14}, tdscdma |-> {1, 2},
     cdma |-> {4, 5, 6, 8, 9}, lte |-> {1, 2}]

DataCellStrings ==
    [none |-> {}, gsm |-> {1, 2}, wcdma |-> {1, 2}, tdscdma |-> {1, 2},
     cdma |-> {}, lte |-> {6, 7, 8}]

\* Mutant: one string too many is taken to be there.
convertResponseStringEntryToIntPast(indices, numStrings) == {i \in indices : numStrings >= i}

convertResponseStringEntryToInt(indices, numStrings) == {i \in indices : numStrings > i}

VoiceStrings(p) ==
    {0, 3} \cup (IF p.units > 4 THEN {7, 10, 11, 12, 13} ELSE {})
           \cup convertResponseStringEntryToInt(VoiceCellStrings[p.tag], p.units)

DataStrings(p) ==
    {0, 3} \cup (IF p.units > 4 THEN {4, 5} ELSE {})
           \cup convertResponseStringEntryToInt(DataCellStrings[p.tag], p.units)

Counts == [ints1 |-> 1, ints2 |-> 2, strings4 |-> 4, strings5 |-> 5]

\* The test a response or indication function makes before it looks inside.
Fits(kind, v, p) ==
    LET whole == ~p.null /\ ~p.rest
    IN CASE kind \in {"none", "text"} -> TRUE
         [] kind \in {"int", "struct", "activity"} -> whole /\ p.units = 1
         [] kind = "records" -> whole /\ p.units = 1 /\ p.good /\ p.tag \in DOMAIN InfoRecField
         [] kind = "intOrEmpty" ->
                \/ whole /\ p.units = 1
                \/ p.null /\ p.units = 0
         [] kind \in DOMAIN Counts -> ~p.null /\ p.units = Counts[kind]
         [] kind \in {"list", "listHead", "networks"} -> whole
         [] kind = "listOrNull" -> whole \/ (p.null /\ p.units = 0)
         [] kind \in {"least", "stringsLeast", "bytes", "hex", "capability"} ->
                ~p.null /\ p.units >= 1
         [] kind = "ussd" -> whole /\ p.units >= 1 /\ p.good
         [] kind = "callRing" -> p.null \/ (p.units = 0 /\ ~p.rest) \/ (whole /\ p.units = 1)
         [] kind = "raw" -> ~p.null
         [] kind = "incomingCall" -> ~p.null /\ p.units >= 5 /\ p.good
         [] kind = "ecpi" -> whole /\ p.units = 10 /\ p.good
         [] kind = "callInfo" -> p.units = 10
         [] kind = "failCause" -> whole /\ p.units \in {1, 2}
         [] kind = "carriers" -> p.null \/ (whole /\ p.units = 1)
         [] kind = "voiceReg" -> IF v <= 14 THEN ~p.null /\ p.units >= 4
                                 ELSE whole /\ p.units = 1
         [] kind = "dataReg" -> IF v <= 14 THEN ~p.null /\ p.units \in {4, 6, 11}
                                ELSE whole /\ p.units = 1

\* The units read of a payload that fits.
Reads(kind, v, p) ==
    IF p.null THEN {}
    ELSE CASE kind \in {"none", "text", "raw"} -> {}
           [] kind = "voiceReg" /\ v <= 14 -> VoiceStrings(p)
           [] kind = "dataReg" /\ v <= 14 -> DataStrings(p)
           [] kind \in DOMAIN Counts -> 0..(Counts[kind] - 1)
           [] kind \in {"list", "listOrNull", "networks", "stringsLeast", "failCause", "hex"} ->
                  0..(p.units - 1)
           [] kind = "ussd" -> IF p.units >= 2 THEN {0, 1} ELSE {0}
           [] kind = "listHead" -> {0} \cup 0..(p.units - 1)
           [] kind = "incomingCall" -> {0, 3, 4}
           [] kind \in {"ecpi", "callInfo"} -> {0, 1, p.units - 1}
           [] kind = "callRing" -> IF p.units = 0 THEN {} ELSE {0}
           [] OTHER -> {0}

Decode(kind, v, p) == IF Fits(kind, v, p) THEN Reads(kind, v, p) ELSE {}

\* Mutant: an unusable payload hides the error it came with.
ReportedInvalid(kind, v, e, p, known) ==
    IF Fits(kind, v, p) \/ kind = "activity" THEN e
    ELSE IF kind = "capability" /\ known THEN "SUCCESS" ELSE "INVALID_RESPONSE"

\* populateResponseInfo and what the functions do to the error: a success
\* without a usable payload becomes INVALID_RESPONSE, a failure stays.  MTK's
\* activity info is zeros instead, and responseRadioCapability substitutes
\* the capability last indicated.
Reported(kind, v, e, p, known) ==
    LET usable == Fits(kind, v, p) /\ (kind = "networks" => p.good)
    IN CASE kind = "activity" -> e
         [] kind = "capability" /\ ~usable /\ known -> "SUCCESS"
         [] OTHER -> IF e = "SUCCESS" /\ ~usable THEN "INVALID_RESPONSE" ELSE e

KindOf(function) == (CHOOSE r \in Responses : r[1] = function)[2]

\* hangupForegroundResumeBackgroundResponse calls its neighbour's callback.
CallbackOf(function) ==
    IF function = "hangupForegroundResumeBackground" THEN "hangupWaitingOrBackground"
    ELSE function

\* The response function of the request's row, run with error e and payload p.
Respond(kind, e, p) ==
    LET function == call.pCI[2]
        reported == Reported(kind, call.version, e, p, capability)
    IN /\ told' = Append(told, [callback |-> CallbackOf(function), error |-> reported])
       /\ decoded' = [units |-> p.units, reads |-> Decode(kind, call.version, p),
                      said |-> e, reported |-> reported]

-----------------------------------------------------------------------------
(* The binder thread.                                                      *)

StringBlocks == {"str", "kept", "padded", "path"}
Blocks == call.row[3].blocks
Next1 == Blocks[Len(mem) + 1]

\* Which string arguments are empty: none, all, or one.
EmptyChoices(blocks) ==
    LET strings == {b \in DOMAIN blocks : blocks[b] \in StringBlocks}
    IN {{}, strings} \cup {{b} : b \in strings}

Init ==
    /\ at = "idle"
    /\ call = NoCall
    /\ mem = <<>>
    /\ badFree = FALSE
    /\ request = "none"
    /\ told = <<>>
    /\ decoded = NothingDecoded
    /\ capability \in BOOLEAN

Receive ==
    /\ at = "idle"
    /\ \E v \in Versions, num \in 0..MaxProfiles : \E row \in Methods(v, num) :
           \E empty \in EmptyChoices(row[3].blocks) :
               call' = [NoCall EXCEPT !.row = row, !.version = v, !.empty = empty]
    /\ at' = "list"
    /\ UNCHANGED <<mem, badFree, request, told, decoded, capability>>

AddRequestToList ==
    /\ at = "list"
    /\ at' = "copy"
    /\ request' = "listed"
    /\ call' = [call EXCEPT !.pCI = CommandOf(call.row[2])]
    /\ UNCHANGED <<mem, badFree, told, decoded, capability>>

\* calloc of the RequestInfo failed: the method returns without an answer.
\* sendDeviceState and setIndicationFilter do not look before they refuse.
AddRequestFails ==
    /\ at = "list"
    /\ at' = IF call.row[1] \in {"sendDeviceState", "setIndicationFilter"}
                /\ call.row[3] = NotSupported
             THEN "crashed" ELSE "returned"
    /\ UNCHANGED <<call, mem, badFree, request, told, decoded, capability>>

\* init starts rild again.
Restart ==
    /\ at = "crashed"
    /\ at' = "idle"
    /\ call' = NoCall
    /\ mem' = <<>>
    /\ badFree' = FALSE
    /\ request' = "none"
    /\ told' = <<>>
    /\ decoded' = NothingDecoded
    /\ capability' = FALSE

\* setInitialAttachApn pads the strings left NULL just before the number.
Pad(blocks) == [b \in DOMAIN blocks |-> IF blocks[b] = "null" THEN "held" ELSE blocks[b]]

CopyBlock ==
    /\ at = "copy"
    /\ Len(mem) < Len(Blocks)
    /\ LET empty == Len(mem) + 1 \in call.empty
       IN \/ /\ Next1 \in {"array", "kept"}
             /\ mem' = Append(mem, "held")
          \/ /\ Next1 \in {"str", "padded", "path"}
             /\ mem' = Append(mem, IF empty THEN "null" ELSE "held")
          \/ /\ Next1 = "path" /\ ~empty
             /\ mem' = Append(mem, "lost")
          \/ /\ Next1 = "number"
             /\ mem' = Append(Pad(mem), "held")
          \/ /\ Next1 = "mvno"
             /\ mem' = Append(mem, "null")
    /\ UNCHANGED <<at, call, badFree, request, told, decoded, capability>>

\* The error a block can end the method with, if any.
Failure(kind, empty) ==
    CASE kind \in {"array", "kept"} -> {"NO_MEMORY"}
      [] kind \in {"str", "padded", "path"} -> IF empty THEN {} ELSE {"NO_MEMORY"}
      [] kind \in {"mvno", "invalid"} -> {"INVALID_ARGUMENTS"}
      [] kind = "refuse" -> {"REQUEST_NOT_SUPPORTED"}
      [] OTHER -> {}

FreeHeld(blocks) == [b \in DOMAIN blocks |-> IF blocks[b] = "held" THEN "freed" ELSE blocks[b]]

\* Mutant: the method goes on after the error.
CopyFailsGoesOn ==
    /\ at = "copy"
    /\ Len(mem) < Len(Blocks)
    /\ \E e \in Failure(Next1, Len(mem) + 1 \in call.empty) :
           call.pCI[2] # "none" /\ Respond(KindOf(call.pCI[2]), e, NoPayload)
    /\ mem' = Append(mem, "null")
    /\ UNCHANGED <<at, call, badFree, request, capability>>

\* sendErrorResponse, and everything copied so far is freed.  The RequestInfo
\* stays on the list.  The row a SET_CALL_INDICATION is given has no response
\* function: its call goes through NULL.
CopyFails ==
    /\ at = "copy"
    /\ Len(mem) < Len(Blocks)
    /\ \E e \in Failure(Next1, Len(mem) + 1 \in call.empty) :
           IF call.pCI[2] = "none" THEN UNCHANGED <<told, decoded>> /\ at' = "crashed"
           ELSE Respond(KindOf(call.pCI[2]), e, NoPayload) /\ at' = "returned"
    /\ mem' = FreeHeld(mem)
    /\ UNCHANGED <<call, badFree, request, capability>>

\* my_enqueue calls onRequest on the binder thread.
Send ==
    /\ at = "copy"
    /\ Len(mem) = Len(Blocks)
    /\ at' = "vendor"
    /\ request' = "sent"
    /\ UNCHANGED <<call, mem, badFree, told, decoded, capability>>

\* Mutant: the last string of a block is forgotten.
clearPendingBufferShort(fmt, blocks) ==
    IF fmt = "STRS" THEN [b \in 1..(Len(blocks) - 2) |-> b + 1]
    ELSE [b \in DOMAIN blocks |-> b]

\* What clearPendingBuffer frees, in order; 0 is a pointer into a block, what
\* the pointer to a second or later data profile is.
clearPendingBuffer(fmt, blocks) ==
    LET n == Len(blocks)
        profiles == (n - 2) \div 4
    IN CASE fmt \in {"STR", "CallFWST", "IccAPDU", "SIMIO", "WrSMSSIM", "AttchAPN", "SIMAUTH"} ->
               [b \in 1..n |-> b]
         [] fmt = "STRS" -> [b \in 1..(n - 1) |-> b + 1]
         [] fmt = "ImsSms" -> <<2, 3, 1>>
         [] fmt = "DATAPROF" ->
               [k \in 1..(5 * profiles) |->
                   LET profile == (k - 1) \div 5
                       field == ((k - 1) % 5) + 1
                   IN IF field <= 4 THEN 2 + 4 * profile + field
                      ELSE IF profile = 0 THEN 1 ELSE 0]
         [] OTHER -> <<>>

\* ignoreBF of the dispatchers.
FreedByCleanup ==
    LET owner == call.row[3].owner
    IN owner = "cleanup" \/ (owner = "proxy" /\ call.pCI[3] \in {1, 3})

FreesAfterCall ==
    IF FreedByCleanup THEN clearPendingBuffer(call.row[3].fmt, Blocks)
    ELSE [b \in 1..Len(Blocks) |-> b]

\* A bad free() may abort rild or go unnoticed.
VendorReturns ==
    /\ at = "vendor"
    /\ LET frees == FreesAfterCall
           stale(i) == \/ frees[i] = 0
                       \/ mem[frees[i]] = "held" /\ \E j \in 1..(i - 1) : frees[j] = frees[i]
       IN /\ mem' = [b \in DOMAIN mem |->
                        IF mem[b] = "held" /\ b \in Range(frees) THEN "freed" ELSE mem[b]]
          /\ badFree' = \E i \in DOMAIN frees : stale(i)
    /\ at' \in {"returned"} \cup (IF badFree' THEN {"crashed"} ELSE {})
    /\ UNCHANGED <<call, request, told, decoded, capability>>

\* A local request: RIL_onRequestComplete tells the client nothing.
LocalCompletes ==
    /\ request = "sent" /\ at # "crashed" /\ call.row[1] = "local"
    /\ request' = "answered"
    /\ UNCHANGED <<at, call, mem, badFree, told, decoded, capability>>

\* RIL_onRequestComplete, from inside onRequest or from a thread of the vendor
\* at any time after it.  The mtk-ril is taken never to send a voice
\* registration state of 5 to 13 strings.
VendorCompletes ==
    /\ request = "sent" /\ at # "crashed" /\ call.row[1] # "local"
    /\ request' = "answered"
    /\ LET kind == KindOf(call.pCI[2])
       IN \E e \in {"SUCCESS", "GENERIC_FAILURE"}, p \in Shapes(kind) :
              /\ kind = "voiceReg" => p.units \notin 5..13
              /\ Respond(kind, e, p)
    /\ UNCHANGED <<at, call, mem, badFree, capability>>

Finish ==
    /\ at \in {"returned", "indicated"}
    /\ request # "sent"
    /\ at' = "idle"
    /\ call' = NoCall
    /\ mem' = <<>>
    /\ badFree' = FALSE
    /\ request' = "none"
    /\ told' = <<>>
    /\ decoded' = NothingDecoded
    /\ UNCHANGED capability

\* An indication function under send_unsolResponse.  radioCapabilityIndication
\* keeps what it is told; those of LocalRequests send a request of their own
\* and run addRequestToList and the dispatcher like a method.
Indicate ==
    /\ at = "idle"
    /\ \E r \in Indications : \E p \in Shapes(r[2]) :
           /\ IF r[1] \in DOMAIN LocalRequests /\ Fits(r[2], 0, p)
                  /\ (r[2] = "callInfo" => p.good)
              THEN at' = "list" /\ call' = [NoCall EXCEPT !.row = LocalRequests[r[1]]]
              ELSE at' = "indicated" /\ UNCHANGED call
           /\ decoded' = [NothingDecoded EXCEPT !.units = p.units,
                                                !.reads = Decode(r[2], 0, p)]
           /\ capability' = (capability \/ (r[1] = "radioCapabilityIndication"
                                            /\ Fits(r[2], 0, p)))
    /\ UNCHANGED <<mem, badFree, request, told>>

Next ==
    \/ Receive \/ AddRequestToList \/ AddRequestFails \/ Restart
    \/ CopyBlock \/ CopyFails \/ Send \/ VendorReturns
    \/ VendorCompletes \/ LocalCompletes \/ Finish \/ Indicate

Spec == Init /\ [][Next]_vars

-----------------------------------------------------------------------------
(* How the tables fit together.                                            *)

\* Two methods are spelled otherwise than their callbacks.
OwnName(method) ==
    CASE method = "getImsiForApp" -> "getIMSIForApp"
      [] method = "hangup" -> "hangupConnection"
      [] OTHER -> method

Kinds ==
    DOMAIN Counts \cup
    {"none", "text", "int", "struct", "activity", "records", "intOrEmpty", "list", "listHead",
     "networks", "listOrNull", "least", "stringsLeast", "bytes", "hex", "capability", "ussd",
     "callRing", "raw", "incomingCall", "ecpi", "callInfo", "failCause", "carriers",
     "voiceReg", "dataReg"}

BlockKinds == StringBlocks \cup {"array", "number", "mvno", "refuse", "invalid"}

\* What clearPendingBuffer expects of a payload in a format: pointers to strings
\* behind their array, three blocks of an SMS, no strings where it frees nothing.
FormatFits(p) ==
    /\ p.blocks \in Seq(BlockKinds)
    /\ p.owner \in {"cleanup", "proxy", "dispatcher"}
    /\ p.fmt = "STRS" => Len(p.blocks) > 0 /\ p.blocks[1] \notin StringBlocks
    /\ p.fmt = "ImsSms" => Len(p.blocks) = 3
    /\ p.fmt \in {"VOID", "INTS", "IGNORE"} /\ p.owner # "dispatcher" =>
           \A b \in DOMAIN p.blocks : p.blocks[b] \notin StringBlocks
    /\ p.fmt \in {"STR", "CallFWST", "IccAPDU", "SIMIO", "WrSMSSIM", "AttchAPN", "SIMAUTH",
                  "STRS", "ImsSms", "VOID", "INTS", "IGNORE"}

\* The row a request is given has a response function, of a kind Fits knows,
\* which calls back the method's own callback; only the radio capability has a
\* substitute; and the method whose response reads a unit unconditionally is
\* refused.
MethodAgrees(row) ==
    LET function == CommandOf(row[2])[2]
        kind == KindOf(function)
    IN /\ function # "none"
       /\ kind \in Kinds
       /\ kind = "capability" => row[1] \in {"getRadioCapability", "setRadioCapability"}
       /\ kind = "listHead" => row[3] = NotSupported
       /\ row[1] # "local"
       /\ row[1] # "setDataProfile" => FormatFits(row[3])
       /\ row[1] \notin {"setSimCardPower", "hangupForegroundResumeBackground"}
              => CallbackOf(function) = OwnName(row[1])

LocalAgrees(row) ==
    LET function == CommandOf(row[2])[2]
    IN /\ row[1] = "local"
       /\ FormatFits(row[3])
       /\ function # "none" => KindOf(function) \in Kinds \ {"capability"}

\* The requests of the command table and the response functions have one row
\* each, and the rows of the tables agree.
TablesAgree ==
    /\ \A m, n \in DOMAIN s_commands : s_commands[m][1] = s_commands[n][1] => m = n
    /\ \A r, s \in Responses : r[1] = s[1] => r = s
    /\ \A v \in {14, 15} : \A row \in Methods(v, 0) :
           /\ MethodAgrees(row)
           /\ row[1] = "setDataProfile" => row \in DataProfileMethods(v, 0)
    /\ \A name \in DOMAIN LocalRequests : LocalAgrees(LocalRequests[name])
    /\ \A r \in Indications : r[2] \in Kinds \ {"listHead", "voiceReg", "dataReg"}

-----------------------------------------------------------------------------
Settled == at = "returned" /\ request # "sent"

\* Every call that got a RequestInfo is answered exactly once, and through the
\* callback of its own method: the rows of the command table, the response
\* functions and the methods agree.  Two do not: the table has no rows for
\* MediaTek's own numbers, so that setSimCardPower is given the row of another
\* request, and hangupForegroundResumeBackground answers through
\* hangupWaitingOrBackgroundResponse.
AnsweredOnce ==
    /\ Len(told) <= 1
    /\ Settled /\ request # "none" /\ call.row[1] # "local" => Len(told) = 1
    /\ told # <<>> /\ call.row[1] \notin {"local", "setSimCardPower", "hangupForegroundResumeBackground"}
           => told[1].callback = OwnName(call.row[1])

\* When the method has returned no copy of a string argument (a PIN, a
\* password, an APDU) is left on the heap, whatever failed on the way, and
\* free() got only pointers that calloc returned, each once.  Two exceptions:
\* the bare MF path that iccIOForApp drops, and clearPendingBuffer on several
\* data profiles for a vendor of version 14 or older, which frees pointers
\* into the one array they were allocated as.
CopiesFreedOnce ==
    /\ at = "returned" =>
           \A b \in DOMAIN mem : Blocks[b] \in StringBlocks => mem[b] # "held"
    /\ badFree => call.row[1] = "setDataProfile" /\ call.version <= 14

\* A response or indication function reads only the units it was handed.
ReadsWhatCame == decoded.reads \subseteq 0..(decoded.units - 1)

\* An error of the vendor reaches the client as that error; only the radio
\* capability has its substitute.
OutcomeKept ==
    decoded.said # "SUCCESS" => \/ decoded.reported = decoded.said
                                \/ call.row[1] \in {"getRadioCapability", "setRadioCapability"}

=============================================================================
