----------------------------- MODULE PowerProofs -----------------------------
(***************************************************************************)
(* Theorems about the Power HAL on top of its engine, for every            *)
(* configuration that ParseConfig() accepts, every number of hint          *)
(* sessions and every order of binder calls, worker rounds and restarts.   *)
(***************************************************************************)
EXTENDS PowerHal, EngineProofs

\* A leaf is tried with Zenon first: most need no arithmetic.  The second round
\* is for slow machines.
USE ZenonT(5), SMTT(30), ZenonT(60), SMTT(90)

-----------------------------------------------------------------------------
(* The invariant.                                                          *)

\* The engine calls a binder call may still have to make.
Op == [op : {"set"}, source : Source, values : ValueMaps, hold : Holds, extend : BOOLEAN]
      \cup [op : {"clear"}, source : Source]
      \cup [op : {"clearAll"}]
      \cup [op : {"pulse", "skip"}, us : Pulses, node : PulseNodes]

SessionTable == [SessionId -> Session \cup {NULL}]

OfAdpf(o) == o.op \in {"set", "clear"} /\ o.source = "adpf"

\* A pending call fits the state that it was computed from: nothing is held with
\* the screen off, boosts extend, and the sessions' call is the one of mApplied.
Fits(o, screenOff, applied) ==
    /\ o.op = "set" => ~screenOff
    /\ o.op = "set" /\ o.source \in {"interaction", "fling"} => o.extend = TRUE
    /\ o.op = "set" /\ o.source = "adpf" => applied > 0 /\ o.values = Levels[applied]
    /\ o.op = "clear" /\ o.source = "adpf" => applied = 0

\* The call for the sessions is the last one.
AllFit ==
    \A i \in 1..Len(todo) : Fits(todo[i], mScreenOff, mApplied) /\ (OfAdpf(todo[i]) => i = Len(todo))

NothingHeld == \A s \in Source : mRequests[s] = NULL

ScreenInv == mScreenOff => NothingHeld \/ (todo # <<>> /\ todo[1].op = "clearAll")

\* The table has what mApplied says, or the call that puts it there is pending.
AdpfInv ==
    \/ mRequests["adpf"] # NULL =>
          mApplied > 0 /\ mRequests["adpf"].values = Levels[mApplied]
    \/ todo # <<>> /\ OfAdpf(todo[Len(todo)])

FrontType ==
    /\ mScreenOff \in BOOLEAN /\ mLowPower \in BOOLEAN /\ mSuppressed \in BOOLEAN
    /\ mSessions \in SessionTable
    /\ mApplied \in 0..MaxLevel
    /\ todo \in Seq(Op)

SessionInv ==
    /\ mSuppressed <=> mScreenOff \/ mLowPower
    /\ mApplied = GlobalLevel(mSessions, mSuppressed)
    /\ \A i \in SessionId \ issued : mSessions[i] = NULL

FrontInv == FrontType /\ SessionInv /\ AllFit /\ ScreenInv /\ AdpfInv

HalInv == TypeOK /\ FrontInv

-----------------------------------------------------------------------------
(* Levels.                                                                 *)

\* A non-empty set of levels has a greatest element.
LEMMA MaxOfLevels ==
    ASSUME NEW N \in Nat, NEW S \in SUBSET (0..N), S # {}
    PROVE  Max(S) \in S /\ \A x \in S : x <= Max(S)
<1> DEFINE T == {N - x : x \in S}
<1>1. \A x \in S : x \in Int /\ x <= N
  OBVIOUS
<1>2. T \in SUBSET Nat /\ T # {}
  <2>1. T \in SUBSET Nat
    BY <1>1
  <2>2. T # {}
    OBVIOUS
  <2> QED
    BY <2>1, <2>2
<1>3. Min(T) \in T /\ \A y \in T : Min(T) <= y
  BY <1>2, MinNat
<1>4. PICK x \in S : Min(T) = N - x
  BY <1>3
<1>5. \A y \in S : N - x <= N - y
  BY <1>1, <1>3, <1>4
<1>6. \A y \in S : x >= y
  BY <1>1, <1>5
<1> QED
  BY <1>6 DEF Max

\* The greatest of equal sets; Max is not an operator the provers rewrite under.
LEMMA MaxIs ==
    ASSUME NEW S \in SUBSET Int, NEW x \in S, \A y \in S : y <= x
    PROVE  Max(S) = x
<1>1. \E m \in S : \A y \in S : m >= y
  OBVIOUS
<1>2. Max(S) \in S /\ \A y \in S : Max(S) >= y
  BY <1>1 DEF Max
<1>3. PICK m \in Int : m = Max(S) /\ m >= x /\ m <= x
  BY <1>2
<1> QED
  BY <1>3

\* A boost is held for its duration or for the configured time.
LEMMA BoostHoldType ==
    ASSUME NEW fling \in BOOLEAN, NEW d \in Durations
    PROVE  BoostHold(fling, d) \in Holds
<1> DEFINE hold == IF fling THEN FlingMinMs ELSE HoldMs
<1>1. hold \in Holds /\ d \in Int /\ (d > 0 => d \in Holds) /\ Holds \in SUBSET Nat
  BY PowerConstants, EngineConstants
<1> HIDE DEF hold
<1>2. Max({d, hold}) = IF d > hold THEN d ELSE hold
  <2>1. CASE d > hold
    BY <1>1, <2>1, MaxIs
  <2>2. CASE ~(d > hold)
    BY <1>1, <2>2, MaxIs
  <2> QED
    BY <2>1, <2>2
<1>3. Max({d, hold}) \in Holds
  BY <1>1, <1>2
<1> QED
  BY <1>3 DEF BoostHold, hold

\* std::clamp to the range of levels.
LEMMA Clamped ==
    ASSUME NEW N \in Nat, NEW x \in Int
    PROVE  Max({0, Min({N, x})}) \in 0..N
<1>1. Min({N, x}) = IF x < N THEN x ELSE N
  <2>1. \E m \in {N, x} : \A y \in {N, x} : m <= y
    OBVIOUS
  <2> QED
    BY <2>1 DEF Min
<1>2. PICK m \in Int : m = Min({N, x}) /\ m <= N
  BY <1>1
<1>3. Max({0, m}) = IF m < 0 THEN 0 ELSE m
  <2>1. CASE m < 0
    BY <2>1, MaxIs
  <2>2. CASE ~(m < 0)
    BY <2>2, MaxIs
  <2> QED
    BY <2>1, <2>2
<1> QED
  BY <1>2, <1>3

\* MaxLevel is a natural.
LEMMA MaxLevelType == MaxLevel \in Nat
BY PowerConstants DEF MaxLevel

\* AdpfNextLevel() keeps a level in range, so it may index mConfig.levels.
LEMMA NextLevelType ==
    ASSUME NEW level \in 0..MaxLevel, NEW target, NEW actual
    PROVE  AdpfNextLevel(level, target, actual) \in 0..MaxLevel
<1> DEFINE step == IF \E a \in actual : 2 * a > 3 * target THEN 2
                   ELSE IF \E a \in actual : a > target THEN 1
                   ELSE IF \A a \in actual : a * 100 < LowWater * target THEN -1 ELSE 0
<1>1. step \in Int
  OBVIOUS
<1> HIDE DEF step
<1>2. level + step \in Int
  BY <1>1
<1>3. Max({0, Min({MaxLevel, level + step})}) \in 0..MaxLevel
  BY <1>2, Clamped, MaxLevelType
<1>4. AdpfNextLevel(level, target, actual) =
          IF target <= 0 \/ actual = {} THEN level ELSE Max({0, Min({MaxLevel, level + step})})
  BY DEF AdpfNextLevel, step
<1> QED
  BY <1>3, <1>4

\* The levels that count.
Counted(sessions) ==
    {0} \cup {sessions[i].level :
                i \in {j \in SessionId : sessions[j] # NULL /\ ~sessions[j].paused}}

\* recomputeLocked() computes a level in range.
LEMMA GlobalLevelType ==
    ASSUME NEW sessions \in SessionTable, NEW suppressed \in BOOLEAN
    PROVE  GlobalLevel(sessions, suppressed) \in 0..MaxLevel
<1>1. \A i \in SessionId : sessions[i] # NULL => sessions[i].level \in 0..MaxLevel
  BY DEF SessionTable, Session
<1>2. Counted(sessions) \in SUBSET (0..MaxLevel) /\ Counted(sessions) # {}
  BY <1>1, MaxLevelType DEF Counted
<1>3. Max(Counted(sessions)) \in 0..MaxLevel
  BY <1>2, MaxLevelType, MaxOfLevels
<1>4. GlobalLevel(sessions, suppressed) = IF suppressed THEN 0 ELSE Max(Counted(sessions))
  BY DEF GlobalLevel, Counted
<1> QED
  BY <1>3, <1>4, MaxLevelType

\* Two tables of sessions with the same levels have the same global level.
LEMMA SameLevel ==
    ASSUME NEW sessions, NEW others, NEW suppressed,
           Counted(sessions) = Counted(others)
    PROVE  GlobalLevel(sessions, suppressed) = GlobalLevel(others, suppressed)
BY DEF GlobalLevel, Counted

-----------------------------------------------------------------------------
(* The engine calls of a binder call.                                      *)

\* A sequence of calls that may be put before the sessions' one.
Leads(ops) == ops \in Seq(Op) /\ \A i \in 1..Len(ops) : Fits(ops[i], mScreenOff, mApplied) /\ ~OfAdpf(ops[i])

\* The fields of a call, by its kind.
LEMMA OpFields ==
    ASSUME NEW o \in Op
    PROVE  /\ o.op = "set" => /\ o.source \in Source /\ o.values \in ValueMaps
                              /\ o.hold \in Holds /\ o.extend \in BOOLEAN
           /\ o.op = "clear" => o.source \in Source
           /\ o.op = "pulse" => o.node \in Node /\ o.us \in Pulses
           /\ o.op \in {"set", "clear", "clearAll", "pulse", "skip"}
BY DEF Op, PulseNodes

\* The call of recomputeLocked() is one the engine is made for.
LEMMA AdpfOpsType ==
    ASSUME NEW level \in 0..MaxLevel
    PROVE  /\ AdpfOps(level) \in Seq(Op)
           /\ Len(AdpfOps(level)) \in {0, 1}
           /\ Len(AdpfOps(level)) = 1 =>
                 /\ OfAdpf(AdpfOps(level)[1])
                 /\ AdpfOps(level)[1].op = "set" =>
                       level > 0 /\ AdpfOps(level)[1].values = Levels[level]
                 /\ AdpfOps(level)[1].op = "clear" => level = 0
           /\ Len(AdpfOps(level)) = 0 => level = 0 /\ mApplied = 0
<1> DEFINE set == [op |-> "set", source |-> "adpf", values |-> Levels[level],
                   hold |-> StaleMs, extend |-> FALSE]
           clear == [op |-> "clear", source |-> "adpf"]
<1>1. level # 0 => Levels[level] \in ValueMaps
  BY PowerConstants, MaxLevelType DEF MaxLevel
<1>2. level # 0 => set \in Op
  BY <1>1, PowerConstants DEF Op
<1>3. clear \in Op
  BY PowerConstants DEF Op
<1>4. CASE level # 0
  <2>1. AdpfOps(level) = <<set>>
    BY <1>4 DEF AdpfOps
  <2> QED
    BY <1>2, <1>4, <2>1, MaxLevelType DEF OfAdpf
<1>5. CASE level = 0 /\ mApplied # 0
  <2>1. AdpfOps(level) = <<clear>>
    BY <1>5 DEF AdpfOps
  <2>2. Len(AdpfOps(level)) = 1 /\ AdpfOps(level)[1] = clear
    BY <2>1
  <2>3. OfAdpf(clear) /\ clear.op = "clear"
    BY DEF OfAdpf
  <2>4. AdpfOps(level) \in Seq(Op)
    BY <1>3, <2>1
  <2> HIDE DEF clear
  <2> QED
    BY <1>5, <2>2, <2>3, <2>4
<1>6. CASE level = 0 /\ mApplied = 0
  BY <1>6 DEF AdpfOps
<1> QED
  BY <1>4, <1>5, <1>6

\* A function on 1..n is a sequence.
LEMMA FunctionIsSeq ==
    ASSUME NEW S, NEW n \in Nat, NEW f \in [1..n -> S]
    PROVE  f \in Seq(S) /\ Len(f) = n
OBVIOUS

\* A pulse is a call to a pulse node or nothing.
LEMMA PulseOpsLead ==
    ASSUME NEW s \in DOMAIN Requests, NEW us \in Pulses, NEW off
    PROVE  Leads(PulseOps(s, us, off))
<1> DEFINE pulse == Requests[s].pulse
           ops == PulseOps(s, us, off)
<1>1. pulse \in Seq(PulseNodes)
  BY PowerConstants
<1>2. /\ ops = [i \in 1..Len(pulse) |-> [op |-> IF pulse[i] \in off THEN "skip" ELSE "pulse",
                                        us |-> us, node |-> pulse[i]]]
  BY DEF PulseOps
<1>3. \A i \in 1..Len(pulse) : ops[i] \in Op /\ ops[i].op \in {"pulse", "skip"}
  <2> SUFFICES ASSUME NEW i \in 1..Len(pulse)
               PROVE  ops[i] \in Op /\ ops[i].op \in {"pulse", "skip"}
    OBVIOUS
  <2>1. pulse[i] \in PulseNodes
    BY <1>1
  <2>2. ops[i] = [op |-> IF pulse[i] \in off THEN "skip" ELSE "pulse", us |-> us,
                  node |-> pulse[i]]
    BY <1>2
  <2> QED
    BY <2>1, <2>2 DEF Op
<1> HIDE DEF ops
<1>4. ops \in Seq(Op) /\ Len(ops) = Len(pulse)
  <2>1. Len(pulse) \in Nat
    BY <1>1
  <2>2. ops \in [1..Len(pulse) -> Op]
    BY <1>2, <1>3
  <2> QED
    BY <2>1, <2>2, FunctionIsSeq
<1>5. \A i \in 1..Len(ops) : Fits(ops[i], mScreenOff, mApplied) /\ ~OfAdpf(ops[i])
  BY <1>3, <1>4 DEF Fits, OfAdpf
<1> QED
  BY <1>4, <1>5 DEF Leads, ops

\* One more call after others.
LEMMA LeadsThen ==
    ASSUME NEW ops, Leads(ops), NEW o \in Op, Fits(o, mScreenOff, mApplied), ~OfAdpf(o)
    PROVE  Leads(ops \o <<o>>)
BY DEF Leads

\* setMode(LAUNCH) makes calls that fit.
LEMMA LaunchOpsLead ==
    ASSUME FrontType, NEW enabled \in BOOLEAN, NEW off \in OffLists, "launch" \in DOMAIN Requests
    PROVE  Leads(LaunchOps(enabled, off))
<1> USE PowerConstants
<1> DEFINE clear == [op |-> "clear", source |-> "launch"]
           set == [op |-> "set", source |-> "launch", hold |-> MaxMs, extend |-> FALSE,
                   values |-> Without(Requests["launch"].set, off)]
           pulses == PulseOps("launch", Min({PulseMs, PulseMaxMs}), off)
<1>1. CASE ~enabled \/ mScreenOff \/ "launch" \in off
  <2>1. LaunchOps(enabled, off) = <<clear>>
    BY <1>1 DEF LaunchOps
  <2>2. clear \in Op /\ Fits(clear, mScreenOff, mApplied) /\ ~OfAdpf(clear)
    BY DEF Op, Fits, OfAdpf
  <2> QED
    BY <2>1, <2>2 DEF Leads
<1>2. CASE ~(~enabled \/ mScreenOff \/ "launch" \in off)
  <2>1. LaunchOps(enabled, off) = pulses \o <<set>>
    BY <1>2 DEF LaunchOps
  <2>2. set \in Op
    BY DEF Op
  <2>3. Fits(set, mScreenOff, mApplied) /\ ~OfAdpf(set)
    BY <1>2 DEF Fits, OfAdpf
  <2>4. Leads(pulses)
    BY PulseOpsLead
  <2> HIDE DEF pulses, set
  <2> QED
    BY <2>1, <2>2, <2>3, <2>4, LeadsThen
<1> QED
  BY <1>1, <1>2

-----------------------------------------------------------------------------
(* The HAL is a client of the engine.                                      *)

\* The engine call a binder call makes is a step of the engine.
LEMMA CallIsEngineStep ==
    ASSUME HalInv, EngineCall
    PROVE  [Next]_vars
<1> DEFINE o == todo[1]
<1>1. o \in Op /\ Head(todo) = o
  BY DEF EngineCall, HalInv, FrontInv, FrontType
<1> HIDE DEF o
<1>2. /\ o.op = "set" => /\ o.source \in Source /\ o.values \in ValueMaps
                         /\ o.hold \in Holds /\ o.extend \in BOOLEAN
      /\ o.op = "clear" => o.source \in Source
      /\ o.op = "pulse" => o.node \in Node /\ o.us \in Pulses
  BY <1>1, OpFields
<1>3. \/ o.op = "set" /\ SetRequest(o.source, o.values, o.hold, o.extend)
      \/ o.op = "clear" /\ ClearRequest(o.source)
      \/ ClearAll
      \/ o.op = "pulse" /\ Pulse(o.node, o.us)
      \/ UNCHANGED vars
  BY <1>1 DEF EngineCall
<1> QED
  BY <1>2, <1>3 DEF Next, ClientNext

\* A method of Adpf samples the clock, or does not reach the engine.
LEMMA AdpfIsEngineStep ==
    ASSUME NEW sessions, AdpfCall(sessions)
    PROVE  [Next]_vars
<1>1. CASE todo' = <<>>
  BY <1>1 DEF AdpfCall, vars, threads
<1>2. CASE todo' # <<>>
  <2>1. Call
    BY <1>2 DEF AdpfCall, Idle, Call
  <2> QED
    BY <2>1 DEF Next, ClientNext
<1> QED
  BY <1>1, <1>2

\* Every step of the HAL is one of the engine or leaves the engine alone.
LEMMA HalStepIsEngineStep ==
    ASSUME HalInv, [HalNext]_hal
    PROVE  [Next]_vars
<1>1. CASE EngineCall
  BY <1>1, CallIsEngineStep
<1>2. CASE Sample \/ HalCrash
  BY <1>2 DEF Sample, HalCrash, Next, ClientNext, DeviceNext
<1>3. CASE Reset \/ NotifyAll \/ WorkerNext \/ Tick \/ EnvironmentNext
  BY <1>3 DEF Next, ClientNext, DeviceNext
<1>4. CASE UNCHANGED hal
  BY <1>4 DEF hal
<1>5. ASSUME NEW i \in SessionId, NEW a \in Batches, Report(i, a)
      PROVE  [Next]_vars
  BY <1>5, AdpfIsEngineStep DEF Report
<1>6. ASSUME NEW i \in SessionId, NEW paused \in BOOLEAN, SetPaused(i, paused)
      PROVE  [Next]_vars
  BY <1>6, AdpfIsEngineStep DEF SetPaused
<1>7. ASSUME NEW i \in SessionId, Close(i)
      PROVE  [Next]_vars
  BY <1>7, AdpfIsEngineStep DEF Close
<1>8. ASSUME NEW i \in SessionId, NEW t \in Targets, Open(i, t) \/ SetTarget(i, t)
      PROVE  UNCHANGED vars
  BY <1>8 DEF Open, SetTarget
<1>9. ASSUME NEW enabled \in BOOLEAN, SetLowPower(enabled)
      PROVE  UNCHANGED vars
  BY <1>9 DEF SetLowPower
<1>10. ASSUME NEW enabled \in BOOLEAN, NEW mode \in Modes, SetScreen(mode, enabled)
       PROVE  UNCHANGED vars
  BY <1>10 DEF SetScreen
<1>11. ASSUME NEW enabled \in BOOLEAN, NEW off \in OffLists, SetLaunch(enabled, off)
       PROVE  UNCHANGED vars
  BY <1>11 DEF SetLaunch
<1>12. ASSUME NEW d \in Durations, NEW off \in OffLists, SetBoost(d, off)
       PROVE  UNCHANGED vars
  BY <1>12 DEF SetBoost
<1> QED
  BY <1>1, <1>2, <1>3, <1>4, <1>5, <1>6, <1>7, <1>8, <1>9, <1>10, <1>11, <1>12
     DEF HalNext, BinderNext

-----------------------------------------------------------------------------
(* What happens to the request table.                                      *)

\* Requests are only dropped, never put there, other than by a call.
LEMMA TableKept ==
    ASSUME TypeOK, Reset \/ NotifyAll \/ WorkerNext \/ Tick \/ EnvironmentNext
    PROVE  \A s \in Source : mRequests'[s] \in {NULL, mRequests[s]}
<1>1. CASE Reset
  BY <1>1 DEF Reset, ApplyLocked, Live
<1>2. CASE NotifyAll
  BY <1>2 DEF NotifyAll, engine
<1>3. CASE WorkerNext
  <2>1. CASE WorkerRound
    <3>1. CASE mStop
      BY <2>1, <3>1 DEF WorkerRound
    <3>2. CASE ~mStop
      BY <2>1, <3>2 DEF WorkerRound, ApplyLocked, Live
    <3> QED
      BY <3>1, <3>2
  <2>2. CASE WorkerRecheck \/ SpuriousWakeup
    BY <2>2 DEF WorkerRecheck, SpuriousWakeup, engine
  <2> QED
    BY <1>3, <2>1, <2>2 DEF WorkerNext
<1>4. CASE Tick
  BY <1>4 DEF Tick, engine
<1>5. CASE EnvironmentNext
  BY <1>5 DEF EnvironmentNext, AccessChanges, CeilingMoves, ExternalWrite, engine
<1> QED
  BY <1>1, <1>2, <1>3, <1>4, <1>5

\* A call changes the request of its own source, or drops requests.
LEMMA CallEffect ==
    ASSUME HalInv, EngineCall
    PROVE  /\ \A s \in Source : \/ mRequests'[s] \in {NULL, mRequests[s]}
                                 \/ /\ todo[1].op = "set" /\ todo[1].source = s
                                    /\ mRequests'[s].values = todo[1].values
           /\ OfAdpf(todo[1]) => \/ mRequests'["adpf"] = NULL
                                 \/ /\ todo[1].op = "set"
                                    /\ mRequests'["adpf"].values = todo[1].values
           /\ todo[1].op = "clearAll" => \A s \in Source : mRequests'[s] = NULL
<1> DEFINE o == todo[1]
<1>1. o \in Op /\ Head(todo) = o
  BY DEF EngineCall, HalInv, FrontInv, FrontType
<1>2. mRequests \in [Source -> Request \cup {NULL}]
  BY DEF HalInv, TypeOK
<1> HIDE DEF o
<1>3. o.op \in {"set", "clear"} => o.source \in Source
  BY <1>1, OpFields
<1>4. CASE o.op = "set"
  <2> DEFINE r == [values |-> o.values,
                   until |-> Until(mRequests[o.source], client.now + o.hold, o.extend, client.now)]
  <2>1. ApplyLocked([mRequests EXCEPT ![o.source] = r], client.now)
    BY <1>1, <1>4 DEF EngineCall, SetRequest, Change
  <2>2. r.values = o.values
    OBVIOUS
  <2> HIDE DEF r
  <2>3. \A s \in Source :
            mRequests'[s] \in {NULL, IF s = o.source THEN r ELSE mRequests[s]}
    <3>1. \A s \in Source : mRequests'[s] \in {NULL, [mRequests EXCEPT ![o.source] = r][s]}
      BY <2>1 DEF ApplyLocked, Live
    <3> QED
      BY <1>2, <3>1
  <2>4. ASSUME NEW s \in Source
        PROVE  \/ mRequests'[s] \in {NULL, mRequests[s]}
               \/ o.source = s /\ mRequests'[s].values = o.values
    BY <2>2, <2>3
  <2>5. o.source = "adpf" => mRequests'["adpf"] = NULL \/ mRequests'["adpf"].values = o.values
    BY <1>3, <1>4, <2>2, <2>3
  <2> QED
    BY <1>4, <2>4, <2>5 DEF o, OfAdpf
<1>5. CASE o.op = "clear"
  <2>1. ClearRequest(o.source)
    BY <1>1, <1>5 DEF EngineCall
  <2>2. CASE mRequests[o.source] = NULL
    <3>1. mRequests' = mRequests
      BY <2>1, <2>2 DEF ClearRequest, Return, engine
    <3> QED
      BY <1>5, <2>2, <3>1 DEF o, OfAdpf
  <2>3. CASE mRequests[o.source] # NULL
    <3>1. ApplyLocked([mRequests EXCEPT ![o.source] = NULL], client.now)
      BY <2>1, <2>3 DEF ClearRequest, Change
    <3>2. \A s \in Source : mRequests'[s] \in {NULL, [mRequests EXCEPT ![o.source] = NULL][s]}
      BY <3>1 DEF ApplyLocked, Live
    <3>3. \A s \in Source : [mRequests EXCEPT ![o.source] = NULL][s] =
                               IF s = o.source THEN NULL ELSE mRequests[s]
      BY <1>2
    <3> QED
      BY <1>3, <1>5, <3>2, <3>3 DEF o, OfAdpf
  <2> QED
    BY <2>2, <2>3
<1>6. CASE o.op = "clearAll"
  <2>1. ClearAll
    BY <1>1, <1>6 DEF EngineCall
  <2>2. \A s \in Source : mRequests'[s] = NULL
    BY <2>1 DEF ClearAll, Change, Return, ApplyLocked, Live, engine
  <2> QED
    BY <1>6, <2>2 DEF o, OfAdpf
<1>7. CASE o.op \in {"pulse", "skip"}
  <2>1. mRequests' = mRequests
    BY <1>1, <1>7 DEF EngineCall, Pulse, vars, engine
  <2> QED
    BY <1>7, <2>1 DEF o, OfAdpf
<1> QED
  BY <1>1, <1>4, <1>5, <1>6, <1>7, OpFields

-----------------------------------------------------------------------------
(* Every step keeps the invariant.                                         *)

\* A step that leaves Power and Adpf alone and at most drops requests.
LEMMA FrontKept ==
    ASSUME FrontInv, UNCHANGED front,
           \A s \in Source : mRequests'[s] \in {NULL, mRequests[s]}
    PROVE  FrontInv'
<1> USE PowerConstants
<1>1. UNCHANGED <<mScreenOff, mLowPower, mSuppressed, mSessions, issued, mApplied, todo>>
  BY DEF front, power, adpf
<1>2. FrontType' /\ SessionInv' /\ AllFit'
  BY <1>1 DEF FrontInv, FrontType, SessionInv, AllFit, Fits, GlobalLevel
<1>3. ScreenInv'
  BY <1>1 DEF FrontInv, ScreenInv, NothingHeld
<1>4. AdpfInv'
  BY <1>1 DEF FrontInv, AdpfInv
<1> QED
  BY <1>2, <1>3, <1>4 DEF FrontInv

\* An engine call.
LEMMA CallKeepsInv ==
    ASSUME HalInv, EngineCall
    PROVE  FrontInv'
<1> DEFINE o == todo[1]
<1>1. UNCHANGED <<mScreenOff, mLowPower, mSuppressed, mSessions, issued, mApplied>>
  BY DEF EngineCall, power, adpf
<1>2. /\ todo \in Seq(Op) /\ todo # <<>> /\ todo' = Tail(todo)
      /\ todo' \in Seq(Op) /\ Len(todo') = Len(todo) - 1 /\ Len(todo) \in Nat \ {0}
      /\ \A i \in 1..Len(todo') : todo'[i] = todo[i + 1]
  BY DEF EngineCall, HalInv, FrontInv, FrontType
<1>3. FrontType' /\ SessionInv'
  BY <1>1, <1>2 DEF HalInv, FrontInv, FrontType, SessionInv, GlobalLevel
<1>4. AllFit'
  <2> SUFFICES ASSUME NEW i \in 1..Len(todo')
               PROVE  Fits(todo'[i], mScreenOff', mApplied') /\ (OfAdpf(todo'[i]) => i = Len(todo'))
    BY DEF AllFit
  <2>1. todo'[i] = todo[i + 1] /\ i + 1 \in 1..Len(todo)
    BY <1>2
  <2>2. Fits(todo[i + 1], mScreenOff, mApplied) /\ (OfAdpf(todo[i + 1]) => i + 1 = Len(todo))
    BY <2>1 DEF HalInv, FrontInv, AllFit
  <2>3. Fits(todo'[i], mScreenOff', mApplied')
    BY <1>1, <2>1, <2>2
  <2>4. i + 1 = Len(todo) => i = Len(todo')
    <3>1. Len(todo') = Len(todo) - 1 /\ Len(todo) \in Int /\ i \in Int
      BY <1>2
    <3> QED
      BY <3>1
  <2> QED
    BY <2>1, <2>2, <2>3, <2>4
<1>5. Fits(o, mScreenOff, mApplied) /\ (OfAdpf(o) => Len(todo) = 1)
  <2>1. 1 \in 1..Len(todo)
    BY <1>2
  <2>2. Fits(todo[1], mScreenOff, mApplied) /\ (OfAdpf(todo[1]) => 1 = Len(todo))
    BY <2>1, Zenon DEF HalInv, FrontInv, AllFit
  <2> QED
    BY <2>2
<1>6. ScreenInv'
  <2> SUFFICES ASSUME mScreenOff PROVE NothingHeld'
    BY <1>1 DEF ScreenInv
  <2>1. o.op # "set"
    BY <1>5 DEF Fits
  <2>2. NothingHeld \/ o.op = "clearAll"
    BY DEF HalInv, FrontInv, ScreenInv
  <2> QED
    BY <2>1, <2>2, CallEffect DEF NothingHeld
<1>7. AdpfInv'
  <2>1. CASE OfAdpf(o)
    BY <1>1, <1>5, <2>1, CallEffect DEF Fits, OfAdpf, AdpfInv
  <2>2. CASE ~OfAdpf(o) /\ todo # <<>> /\ OfAdpf(todo[Len(todo)])
    <3>1. Len(todo) # 1
      BY <2>2
    <3>2. Len(todo') \in 1..Len(todo') /\ Len(todo') + 1 = Len(todo)
      BY <1>2, <3>1
    <3>3. todo'[Len(todo')] = todo[Len(todo)]
      BY <1>2, <3>2
    <3>4. todo' # <<>>
      BY <3>2
    <3> QED
      BY <2>2, <3>3, <3>4 DEF AdpfInv
  <2>3. CASE /\ ~OfAdpf(o)
             /\ mRequests["adpf"] # NULL =>
                   mApplied > 0 /\ mRequests["adpf"].values = Levels[mApplied]
    <3>0. "adpf" \in Source
      BY PowerConstants
    <3>1. mRequests'["adpf"] \in {NULL, mRequests["adpf"]}
      BY <2>3, <3>0, CallEffect DEF OfAdpf
    <3> QED
      BY <1>1, <2>3, <3>1 DEF AdpfInv
  <2> QED
    BY <2>1, <2>2, <2>3 DEF HalInv, FrontInv, AdpfInv
<1> QED
  BY <1>3, <1>4, <1>6, <1>7 DEF FrontInv

\* Calls made by a binder call that leaves Adpf and the screen alone.
LEMMA LeadsKeepsInv ==
    ASSUME FrontInv, todo = <<>>, UNCHANGED <<power, adpf, mRequests>>, Leads(todo')
    PROVE  FrontInv'
<1>1. UNCHANGED <<mScreenOff, mLowPower, mSuppressed, mSessions, issued, mApplied, mRequests>>
  BY DEF power, adpf
<1>2. FrontType' /\ SessionInv'
  BY <1>1 DEF FrontInv, FrontType, SessionInv, GlobalLevel, Leads
<1>3. AllFit'
  BY <1>1 DEF AllFit, Leads
<1>4. ScreenInv' /\ AdpfInv'
  BY <1>1 DEF FrontInv, ScreenInv, NothingHeld, AdpfInv
<1> QED
  BY <1>2, <1>3, <1>4 DEF FrontInv

\* recomputeLocked() after calls that only clear.
LEMMA RecomputeKeepsInv ==
    ASSUME FrontInv, todo = <<>>, UNCHANGED mRequests,
           NEW sessions \in SessionTable, NEW suppressed \in BOOLEAN,
           NEW before \in Seq(Op),
           \A i \in 1..Len(before) :
               before[i].op \in {"clear", "clearAll"} /\ ~OfAdpf(before[i]),
           mScreenOff' \in BOOLEAN, mLowPower' \in BOOLEAN,
           suppressed <=> mScreenOff' \/ mLowPower',
           mScreenOff' => mScreenOff \/ (before # <<>> /\ before[1].op = "clearAll"),
           \A i \in SessionId \ issued' : sessions[i] = NULL,
           Recompute(before, sessions, suppressed)
    PROVE  FrontInv'
<1> DEFINE level == GlobalLevel(sessions, suppressed)
           last == AdpfOps(level)
<1>1. /\ mSessions' = sessions /\ mSuppressed' = suppressed
      /\ mApplied' = level /\ todo' = before \o last
  BY DEF Recompute
<1>2. level \in 0..MaxLevel /\ (suppressed => level = 0)
  BY GlobalLevelType DEF GlobalLevel
<1>3. /\ last \in Seq(Op) /\ Len(last) \in {0, 1}
      /\ Len(last) = 1 => /\ OfAdpf(last[1])
                          /\ last[1].op = "set" => level > 0 /\ last[1].values = Levels[level]
                          /\ last[1].op = "clear" => level = 0
      /\ Len(last) = 0 => level = 0 /\ mApplied = 0
  BY <1>2, AdpfOpsType
<1>4. SessionInv'
  BY <1>1 DEF SessionInv, GlobalLevel
<1> HIDE DEF level, last
<1>5. /\ todo' \in Seq(Op) /\ Len(todo') = Len(before) + Len(last)
      /\ \A i \in 1..Len(before) : todo'[i] = before[i]
      /\ Len(last) = 1 => todo'[Len(before) + 1] = last[1]
  BY <1>1, <1>3
<1>6. FrontType'
  BY <1>1, <1>2, <1>5 DEF FrontType
<1>7. AllFit'
  <2> SUFFICES ASSUME NEW i \in 1..Len(todo')
               PROVE  /\ Fits(todo'[i], mScreenOff', mApplied')
                      /\ OfAdpf(todo'[i]) => i = Len(todo')
    BY DEF AllFit
  <2>1. CASE i \in 1..Len(before)
    <3>1. todo'[i].op \in {"clear", "clearAll"} /\ ~OfAdpf(todo'[i])
      BY <1>5, <2>1
    <3> QED
      BY <3>1 DEF Fits, OfAdpf
  <2>2. CASE i \notin 1..Len(before)
    <3>1. Len(last) = 1 /\ i = Len(before) + 1
      <4>1. Len(before) \in Nat
        OBVIOUS
      <4>2. Len(last) = 0 => Len(todo') = Len(before)
        BY <1>5, <4>1
      <4>3. Len(last) = 1 => Len(todo') = Len(before) + 1
        BY <1>5
      <4>4. Len(last) # 0
        BY <2>2, <4>2
      <4> QED
        BY <1>3, <2>2, <4>1, <4>3, <4>4
    <3>2. todo'[i] = last[1] /\ i = Len(todo')
      BY <1>5, <3>1
    <3>3. last[1].op = "set" => ~mScreenOff'
      BY <1>2, <1>3, <3>1
    <3> QED
      BY <1>1, <1>3, <3>1, <3>2, <3>3 DEF Fits, OfAdpf
  <2> QED
    BY <2>1, <2>2
<1>8. ScreenInv'
  <2> SUFFICES ASSUME mScreenOff'
               PROVE  NothingHeld' \/ (todo' # <<>> /\ todo'[1].op = "clearAll")
    BY DEF ScreenInv
  <2>1. CASE mScreenOff
    BY <2>1 DEF FrontInv, ScreenInv, NothingHeld
  <2>2. CASE before # <<>> /\ before[1].op = "clearAll"
    <3>1. Len(before) \in Nat \ {0}
      BY <2>2
    <3>2. todo'[1] = before[1] /\ todo' # <<>>
      BY <1>3, <1>5, <3>1
    <3> QED
      BY <2>2, <3>2
  <2> QED
    BY <2>1, <2>2
<1>9. AdpfInv'
  <2>1. CASE Len(last) = 1
    <3>1. todo' # <<>> /\ todo'[Len(todo')] = last[1]
      BY <1>5, <2>1
    <3> QED
      BY <1>3, <2>1, <3>1 DEF AdpfInv
  <2>2. CASE Len(last) = 0
    <3>1. mRequests["adpf"] # NULL => mApplied > 0
      BY DEF FrontInv, AdpfInv
    <3>2. mRequests["adpf"] = NULL
      BY <1>3, <2>2, <3>1
    <3> QED
      BY <3>2 DEF AdpfInv
  <2> QED
    BY <1>3, <2>1, <2>2
<1> QED
  BY <1>4, <1>6, <1>7, <1>8, <1>9 DEF FrontInv

\* A method of Adpf that recomputes.
LEMMA AdpfCallKeepsInv ==
    ASSUME FrontInv, NEW sessions \in SessionTable, AdpfCall(sessions),
           \A i \in SessionId \ issued : sessions[i] = NULL
    PROVE  FrontInv'
<1>1. /\ todo = <<>> /\ Recompute(<<>>, sessions, mSuppressed)
      /\ UNCHANGED <<mScreenOff, mLowPower, issued, mRequests>>
  BY DEF AdpfCall, Idle, power, engine
<1>2. /\ mSuppressed \in BOOLEAN /\ mScreenOff' \in BOOLEAN /\ mLowPower' \in BOOLEAN
      /\ mSuppressed <=> mScreenOff' \/ mLowPower'
  BY <1>1 DEF FrontInv, FrontType, SessionInv
<1> DEFINE before == <<>>
<1>3. before \in Seq(Op) /\ Len(before) = 0
  OBVIOUS
<1>4. \A i \in 1..Len(before) : before[i].op \in {"clear", "clearAll"} /\ ~OfAdpf(before[i])
  BY <1>3
<1>5. Recompute(before, sessions, mSuppressed)
  BY <1>1, <1>3
<1>6. \A i \in SessionId \ issued' : sessions[i] = NULL
  BY <1>1
<1>7. mScreenOff' => mScreenOff
  BY <1>1
<1> HIDE DEF before
<1> QED
  BY <1>1, <1>2, <1>3, <1>4, <1>5, <1>6, <1>7, RecomputeKeepsInv

\* The methods of a session that recompute.
LEMMA SessionCallKeepsInv ==
    ASSUME HalInv, NEW i \in SessionId,
           \/ \E a \in Batches : Report(i, a)
           \/ \E paused \in BOOLEAN : SetPaused(i, paused)
           \/ Close(i)
    PROVE  FrontInv'
<1>1. /\ FrontInv /\ clock \in Nat /\ mSessions \in SessionTable
      /\ \A j \in SessionId \ issued : mSessions[j] = NULL
  BY DEF HalInv, TypeOK, FrontInv, FrontType, SessionInv
<1>2. mSessions[i] \in Session /\ i \in issued
  BY <1>1 DEF Report, SetPaused, Close, SessionTable
<1>3. ASSUME NEW r \in Session \cup {NULL}, AdpfCall([mSessions EXCEPT ![i] = r])
      PROVE  FrontInv'
  <2>1. [mSessions EXCEPT ![i] = r] \in SessionTable
    BY <1>1 DEF SessionTable
  <2>2. \A j \in SessionId \ issued : [mSessions EXCEPT ![i] = r][j] = NULL
    BY <1>1, <1>2 DEF SessionTable
  <2> QED
    BY <1>1, <1>3, <2>1, <2>2, AdpfCallKeepsInv
<1>4. ASSUME NEW a \in Batches, Report(i, a)
      PROVE  FrontInv'
  <2> DEFINE s == mSessions[i]
             next == AdpfNextLevel(BaseLevel(s), s.targetNs, a)
  <2>1. BaseLevel(s) \in 0..MaxLevel
    BY <1>2, MaxLevelType DEF BaseLevel, Session
  <2>2. next \in 0..MaxLevel
    BY <2>1, NextLevelType
  <2>3. AdpfCall([mSessions EXCEPT ![i] = [s EXCEPT !.lastReport = clock, !.level = next]])
    BY <1>4 DEF Report
  <2> HIDE DEF next
  <2>4. [s EXCEPT !.lastReport = clock, !.level = next] \in Session
    BY <1>1, <1>2, <2>2 DEF Session
  <2> QED
    BY <1>3, <2>3, <2>4
<1>5. ASSUME NEW paused \in BOOLEAN, SetPaused(i, paused)
      PROVE  FrontInv'
  <2> DEFINE r == [mSessions[i] EXCEPT !.paused = paused,
                                       !.level = IF paused THEN 0 ELSE @]
  <2>1. r \in Session
    <3>1. mSessions[i].level \in 0..MaxLevel /\ 0 \in 0..MaxLevel
      BY <1>2, MaxLevelType DEF Session
    <3>2. PICK l \in 0..MaxLevel : l = IF paused THEN 0 ELSE mSessions[i].level
      BY <3>1
    <3>3. r = [mSessions[i] EXCEPT !.paused = paused, !.level = l]
      BY <1>2, <3>2 DEF Session
    <3> QED
      BY <1>2, <3>3 DEF Session
  <2>2. AdpfCall([mSessions EXCEPT ![i] = r])
    BY <1>1, <1>5 DEF SetPaused, SessionTable
  <2> QED
    BY <1>3, <2>1, <2>2
<1>6. CASE Close(i)
  BY <1>3, <1>6 DEF Close
<1> QED
  BY <1>4, <1>5, <1>6

\* A new session, and a new target: no level changes.
LEMMA QuietSessionKeepsInv ==
    ASSUME HalInv, NEW i \in SessionId, NEW t \in Targets, Open(i, t) \/ SetTarget(i, t)
    PROVE  FrontInv'
<1>1. /\ FrontInv /\ clock \in Nat /\ mSessions \in SessionTable
      /\ \A j \in SessionId \ issued : mSessions[j] = NULL
      /\ NULL \notin Session
  BY PowerConstants DEF HalInv, TypeOK, FrontInv, FrontType, SessionInv
<1>2. UNCHANGED <<mScreenOff, mLowPower, mSuppressed, mApplied, todo, mRequests>>
  BY DEF Open, SetTarget, power, vars, engine
<1>3. SUFFICES /\ mSessions' \in SessionTable
               /\ Counted(mSessions') = Counted(mSessions)
               /\ \A j \in SessionId \ issued' : mSessions'[j] = NULL
  <2>1. GlobalLevel(mSessions', mSuppressed) = GlobalLevel(mSessions, mSuppressed)
    BY <1>3, SameLevel
  <2>2. FrontType' /\ SessionInv'
    <3>1. mApplied' = GlobalLevel(mSessions, mSuppressed)
      BY <1>1, <1>2 DEF FrontInv, SessionInv
    <3>2. mApplied' = GlobalLevel(mSessions', mSuppressed')
      BY <1>2, <2>1, <3>1
    <3> QED
      BY <1>1, <1>2, <1>3, <3>2 DEF FrontInv, FrontType, SessionInv, GlobalLevel
  <2>3. AllFit' /\ ScreenInv' /\ AdpfInv'
    BY <1>1, <1>2 DEF FrontInv, AllFit, Fits, ScreenInv, NothingHeld, AdpfInv
  <2> QED
    BY <2>2, <2>3 DEF FrontInv
<1>4. CASE Open(i, t)
  <2> DEFINE r == [targetNs |-> t, level |-> 0, paused |-> FALSE, lastReport |-> clock]
  <2>1. /\ mSessions' = [mSessions EXCEPT ![i] = r] /\ issued' = issued \cup {i}
        /\ mSessions[i] = NULL
    BY <1>1, <1>4 DEF Open
  <2>2. r \in Session /\ r.level = 0
    BY <1>1, MaxLevelType DEF Session
  <2> HIDE DEF r
  <2>3. \A j \in SessionId : mSessions'[j] = IF j = i THEN r ELSE mSessions[j]
    BY <1>1, <2>1 DEF SessionTable
  <2>4. mSessions' \in SessionTable
    BY <1>1, <2>1, <2>2 DEF SessionTable
  <2>5. Counted(mSessions') = Counted(mSessions)
    BY <1>1, <2>1, <2>2, <2>3 DEF Counted
  <2> QED
    BY <1>1, <2>1, <2>3, <2>4, <2>5
<1>5. CASE SetTarget(i, t)
  <2> DEFINE r == [mSessions[i] EXCEPT !.targetNs = t]
  <2>1. /\ mSessions' = [mSessions EXCEPT ![i] = r] /\ issued' = issued
        /\ mSessions[i] \in Session
    BY <1>1, <1>5 DEF SetTarget, SessionTable
  <2>2. r \in Session /\ r.level = mSessions[i].level /\ r.paused = mSessions[i].paused
    BY <2>1 DEF Session
  <2> HIDE DEF r
  <2>3. \A j \in SessionId : mSessions'[j] = IF j = i THEN r ELSE mSessions[j]
    BY <1>1, <2>1 DEF SessionTable
  <2>4. mSessions' \in SessionTable
    BY <1>1, <2>1, <2>2 DEF SessionTable
  <2>5. Counted(mSessions') = Counted(mSessions)
    BY <1>1, <2>1, <2>2, <2>3 DEF Counted
  <2> QED
    BY <1>1, <2>1, <2>3, <2>4, <2>5
<1> QED
  BY <1>4, <1>5

\* setMode() of the screen and of battery saver.
LEMMA ModeKeepsInv ==
    ASSUME FrontInv, NEW enabled \in BOOLEAN,
           SetLowPower(enabled) \/ \E mode \in Modes : SetScreen(mode, enabled)
    PROVE  FrontInv'
<1> USE PowerConstants
<1>1. /\ todo = <<>> /\ UNCHANGED <<mRequests, issued>>
      /\ mSessions \in SessionTable /\ mScreenOff \in BOOLEAN /\ mLowPower \in BOOLEAN
      /\ \A i \in SessionId \ issued : mSessions[i] = NULL
  BY DEF SetLowPower, SetScreen, Idle, vars, engine, FrontInv, FrontType, SessionInv
<1>2. CASE SetLowPower(enabled)
  <2> DEFINE before == LowPowerOps(enabled)
  <2>1. /\ before \in Seq(Op)
        /\ \A i \in 1..Len(before) :
              before[i].op \in {"clear", "clearAll"} /\ ~OfAdpf(before[i])
    <3> DEFINE a == [op |-> "clear", source |-> "interaction"]
               b == [op |-> "clear", source |-> "fling"]
    <3>1. a \in Op /\ b \in Op /\ a.op = "clear" /\ b.op = "clear" /\ ~OfAdpf(a) /\ ~OfAdpf(b)
      BY DEF Op, OfAdpf
    <3>2. before = IF ~enabled THEN <<>> ELSE <<a, b>>
      BY DEF LowPowerOps
    <3> HIDE DEF a, b, before
    <3>3. CASE ~enabled
      BY <3>2, <3>3
    <3>4. CASE enabled
      BY <3>1, <3>2, <3>4
    <3> QED
      BY <3>3, <3>4
  <2>2. /\ mLowPower' = enabled /\ mScreenOff' = mScreenOff
        /\ Recompute(before, mSessions, mScreenOff \/ enabled)
    BY <1>2 DEF SetLowPower
  <2> HIDE DEF before
  <2>3. (mScreenOff \/ enabled) \in BOOLEAN
    OBVIOUS
  <2> QED
    BY <1>1, <2>1, <2>2, <2>3, RecomputeKeepsInv
<1>3. CASE \E mode \in Modes : SetScreen(mode, enabled)
  <2> DEFINE before == IF enabled THEN <<[op |-> "clearAll"]>> ELSE <<>>
  <2>1. /\ before \in Seq(Op)
        /\ \A i \in 1..Len(before) :
              before[i].op \in {"clear", "clearAll"} /\ ~OfAdpf(before[i])
        /\ enabled => before # <<>> /\ before[1].op = "clearAll"
    <3> DEFINE a == [op |-> "clearAll"]
    <3>1. a \in Op /\ a.op = "clearAll" /\ ~OfAdpf(a)
      BY DEF Op, OfAdpf
    <3>2. before = IF enabled THEN <<a>> ELSE <<>>
      OBVIOUS
    <3> HIDE DEF a, before
    <3>3. CASE ~enabled
      BY <3>2, <3>3
    <3>4. CASE enabled
      BY <3>1, <3>2, <3>4
    <3> QED
      BY <3>3, <3>4
  <2>2. /\ mLowPower' = mLowPower /\ mScreenOff' = enabled
        /\ Recompute(before, mSessions, enabled \/ mLowPower)
    BY <1>3 DEF SetScreen
  <2> HIDE DEF before
  <2>3. (enabled \/ mLowPower) \in BOOLEAN
    OBVIOUS
  <2> QED
    BY <1>1, <2>1, <2>2, <2>3, RecomputeKeepsInv
<1> QED
  BY <1>2, <1>3

\* setMode(LAUNCH) and setBoost().
LEMMA HoldKeepsInv ==
    ASSUME FrontInv, NEW off \in OffLists,
           \/ \E enabled \in BOOLEAN : SetLaunch(enabled, off)
           \/ \E d \in Durations : SetBoost(d, off)
    PROVE  FrontInv'
<1>1. todo = <<>> /\ UNCHANGED <<power, adpf, mRequests>> /\ FrontType
  BY DEF SetLaunch, SetBoost, Idle, vars, engine, FrontInv
<1>2. ASSUME NEW enabled \in BOOLEAN, SetLaunch(enabled, off)
      PROVE  Leads(todo')
  BY <1>1, <1>2, LaunchOpsLead DEF SetLaunch
<1>3. ASSUME NEW d \in Durations, SetBoost(d, off)
      PROVE  Leads(todo')
  <2> DEFINE fling == d > 0 /\ "fling" \in DOMAIN Requests
             source == IF fling THEN "fling" ELSE "interaction"
             set == Without(Requests[source].set, off)
             pulses == PulseOps(source, BoostPulse(d), off)
             o == [op |-> "set", source |-> source, values |-> set,
                   hold |-> BoostHold(fling, d), extend |-> Extends]
  <2>1. /\ todo' = pulses \o (IF IsEmpty(set) THEN <<>> ELSE <<o>>)
        /\ source \in DOMAIN Requests /\ ~mScreenOff
    BY <1>3 DEF SetBoost
  <2>2. Leads(pulses)
    BY <2>1, PowerConstants, PulseOpsLead
  <2>3. o \in Op
    <3>1. fling \in BOOLEAN /\ source \in Source
      BY PowerConstants
    <3>2. set \in ValueMaps /\ Extends \in BOOLEAN
      BY <2>1, PowerConstants DEF Extends
    <3>3. BoostHold(fling, d) \in Holds
      BY <3>1, BoostHoldType
    <3> HIDE DEF fling, source, set
    <3> QED
      BY <3>1, <3>2, <3>3 DEF Op
  <2>4. Fits(o, mScreenOff, mApplied) /\ ~OfAdpf(o)
    <3>1. o.op = "set" /\ o.source # "adpf" /\ o.extend = TRUE
      BY DEF Extends
    <3> HIDE DEF o
    <3> QED
      BY <2>1, <3>1 DEF Fits, OfAdpf
  <2> HIDE DEF o, pulses, set
  <2>5. CASE IsEmpty(set)
    <3>1. todo' = pulses \o <<>>
      BY <2>1, <2>5
    <3>2. pulses \in Seq(Op)
      BY <2>2 DEF Leads
    <3>3. pulses \o <<>> = pulses
      BY <3>2
    <3> QED
      BY <2>2, <3>1, <3>3
  <2>6. CASE ~IsEmpty(set)
    BY <2>1, <2>2, <2>3, <2>4, <2>6, LeadsThen
  <2> QED
    BY <2>5, <2>6
<1> QED
  BY <1>1, <1>2, <1>3, LeadsKeepsInv

\* The state main() starts with, also after a restart.
LEMMA StartInv == FrontInit /\ NothingHeld => FrontInv
<1> SUFFICES ASSUME FrontInit, NothingHeld PROVE FrontInv
  OBVIOUS
<1> USE PowerConstants, MaxLevelType
<1>1. mSessions \in SessionTable /\ \A i \in SessionId : mSessions[i] = NULL
  BY DEF FrontInit, SessionTable
<1>2. Counted(mSessions) = {0}
  BY <1>1 DEF Counted
<1>3. GlobalLevel(mSessions, FALSE) = 0
  <2>1. Max({0}) = 0
    BY MaxIs
  <2> QED
    BY <1>2, <2>1 DEF GlobalLevel, Counted
<1>4. FrontType
  <2>1. <<>> \in Seq(Op) /\ 0 \in 0..MaxLevel
    OBVIOUS
  <2> QED
    BY <1>1, <2>1 DEF FrontInit, FrontType
<1>5. SessionInv
  BY <1>1, <1>3 DEF FrontInit, SessionInv
<1>6. AllFit /\ ScreenInv /\ AdpfInv
  BY DEF FrontInit, AllFit, ScreenInv, AdpfInv, NothingHeld
<1> QED
  BY <1>4, <1>5, <1>6 DEF FrontInv

\* init's restart.
LEMMA CrashKeepsInv == HalCrash => FrontInv'
<1>1. HalCrash => (FrontInit /\ NothingHeld)'
  BY DEF HalCrash, FrontInit, NothingHeld, Crash
<1> QED
  BY <1>1, StartInv, PTL

\* Every step of the HAL keeps the invariant.
LEMMA NextHalInv == HalInv /\ [HalNext]_hal => HalInv'
<1> SUFFICES ASSUME HalInv, [HalNext]_hal PROVE HalInv'
  OBVIOUS
<1>1. TypeOK /\ FrontInv
  BY DEF HalInv
<1>2. TypeOK'
  BY <1>1, HalStepIsEngineStep, NextTypeOK
<1> SUFFICES FrontInv'
  BY <1>2 DEF HalInv
<1>3. CASE EngineCall
  BY <1>3, CallKeepsInv
<1>4. CASE Sample \/ UNCHANGED hal
  <2>1. UNCHANGED front /\ UNCHANGED mRequests
    BY <1>4 DEF Sample, hal, Call, vars, engine
  <2> QED
    BY <1>1, <2>1, FrontKept
<1>5. CASE HalCrash
  BY <1>5, CrashKeepsInv
<1>6. CASE /\ Reset \/ NotifyAll \/ WorkerNext \/ Tick \/ EnvironmentNext
           /\ UNCHANGED front
  BY <1>1, <1>6, TableKept, FrontKept
<1>7. CASE BinderNext
  BY <1>1, <1>7, SessionCallKeepsInv, QuietSessionKeepsInv, ModeKeepsInv, HoldKeepsInv
     DEF BinderNext
<1> QED
  BY <1>3, <1>4, <1>5, <1>6, <1>7 DEF HalNext

\* It holds when the service starts.
LEMMA InitHalInv == HalInit => HalInv
<1> SUFFICES ASSUME HalInit PROVE HalInv
  OBVIOUS
<1>1. FrontInit /\ NothingHeld
  BY DEF HalInit, Init, NothingHeld
<1> QED
  BY <1>1, StartInv, InitTypeOK DEF HalInit, HalInv

\* The invariant holds in every behaviour.
LEMMA AlwaysHalInv == HalSpec => []HalInv
BY InitHalInv, NextHalInv, PTL DEF HalSpec

\* Everything the framework may call, in any order, reaches the engine as calls
\* of one thread with the sets, holds and durations that the engine is made for.
THEOREM HalIsClient == HalSpec => ClientOfEngine
<1>1. HalInit => Init
  BY DEF HalInit
<1>2. HalInv /\ [HalNext]_hal => [Next]_vars
  BY HalStepIsEngineStep
<1> QED
  BY <1>1, <1>2, AlwaysHalInv, PTL DEF HalSpec, ClientOfEngine, Spec

\* A node that the engine wrote goes back to its default with the screen.
THEOREM ScreenOffReleases == HalSpec => []ScreenOffHoldsNothing
<1>1. HalInv /\ NodeHoldsAggregate => ScreenOffHoldsNothing
  <2> SUFFICES ASSUME HalInv, NodeHoldsAggregate, Idle, mScreenOff,
                      NEW n \in Node \ External,
                      Kind[n] = "default", mNodes[n].written # NULL
               PROVE  hw[n] = DefaultValue[n]
    BY DEF ScreenOffHoldsNothing
  <2>1. NothingHeld
    BY DEF HalInv, FrontInv, ScreenInv, Idle
  <2>2. Tokens(mRequests, n) = {}
    BY <2>1 DEF NothingHeld, Tokens
  <2>3. hw[n] = MaxInt(n, {})
    BY <2>2 DEF NodeHoldsAggregate
  <2> QED
    BY <2>3 DEF MaxInt, Numbers
<1> QED
  BY <1>1, AlwaysHalInv, HalIsClient, HoldsAggregate, PTL DEF ClientOfEngine

\* mApplied, the sessions and the engine's table agree between two calls, however
\* the calls, the deadlines and clearAll() come.
THEOREM FloorFollowsSessions == HalSpec => []AdpfFollowsSessions
<1>1. HalInv => AdpfFollowsSessions
  BY DEF HalInv, FrontInv, SessionInv, AdpfInv, AdpfFollowsSessions, Idle
<1> QED
  BY <1>1, AlwaysHalInv, PTL

\* A request that an engine call replaces: only that call's source, with the
\* deadline setRequest() computes.
LEMMA SetEffect ==
    ASSUME HalInv, EngineCall, NEW s \in Source,
           mRequests[s] # NULL, mRequests'[s] # NULL, mRequests'[s] # mRequests[s]
    PROVE  /\ todo[1].op = "set" /\ todo[1].source = s /\ todo[1].hold \in Nat
           /\ mRequests'[s].until = Until(mRequests[s], client.now + todo[1].hold,
                                          todo[1].extend, client.now)
<1> DEFINE o == todo[1]
           r == [values |-> o.values,
                 until |-> Until(mRequests[s], client.now + o.hold, o.extend, client.now)]
<1>1. o.op = "set" /\ o.source = s
  BY CallEffect
<1>2. o \in Op /\ Head(todo) = o
  <2>1. todo # <<>>
    BY DEF EngineCall
  <2>2. todo \in Seq(Op)
    BY DEF HalInv, FrontInv, FrontType
  <2> QED
    BY <2>1, <2>2
<1>3. o.hold \in Nat
  BY <1>1, <1>2, OpFields, EngineConstants
<1>4. ApplyLocked([mRequests EXCEPT ![s] = r], client.now)
  BY <1>1, <1>2 DEF EngineCall, SetRequest, Change
<1>5. r.until = Until(mRequests[s], client.now + o.hold, o.extend, client.now)
  OBVIOUS
<1> HIDE DEF r
<1>6. mRequests' = Live([mRequests EXCEPT ![s] = r], client.now)
  BY <1>4 DEF ApplyLocked
<1>7. mRequests'[s] = r
  BY <1>6 DEF Live, HalInv, TypeOK
<1> QED
  BY <1>1, <1>3, <1>5, <1>7

\* A boost that is live is not cut short by a later one, wherever the clock was
\* sampled.
THEOREM BoostsExtend == HalSpec => BoostKeepsEnd
<1>1. ASSUME HalInv, [HalNext]_hal, NEW s \in {"interaction", "fling"},
             mRequests[s] # NULL, mRequests'[s] # NULL, mRequests[s].until > client.now
      PROVE  mRequests'[s].until >= mRequests[s].until
  <2>1. s \in Source /\ TypeOK
    BY <1>1, PowerConstants DEF HalInv
  <2>2. mRequests[s] \in Request /\ mRequests[s].until \in Nat /\ client.now \in Nat
    BY <1>1, <2>1 DEF TypeOK, Request
  <2>3. CASE mRequests'[s] = mRequests[s]
    BY <2>2, <2>3
  <2>4. CASE EngineCall /\ mRequests'[s] # mRequests[s]
    <3>1. /\ todo[1].op = "set" /\ todo[1].source = s /\ todo[1].hold \in Nat
          /\ mRequests'[s].until = Until(mRequests[s], client.now + todo[1].hold,
                                         todo[1].extend, client.now)
      BY <1>1, <2>1, <2>4, SetEffect
    <3>2. todo[1].extend = TRUE
      <4>1. 1 \in 1..Len(todo)
        BY <1>1, <2>4 DEF EngineCall, HalInv, FrontInv, FrontType
      <4> QED
        BY <1>1, <3>1, <4>1 DEF HalInv, FrontInv, AllFit, Fits
    <3> QED
      BY <1>1, <2>2, <3>1, <3>2 DEF Until
  <2>5. CASE Reset \/ NotifyAll \/ WorkerNext \/ Tick \/ EnvironmentNext
    BY <1>1, <2>1, <2>3, <2>5, TableKept
  <2>6. CASE Sample \/ UNCHANGED hal
    BY <2>3, <2>6 DEF Sample, Call, hal, vars, engine
  <2>7. CASE HalCrash
    BY <1>1, <2>1, <2>7 DEF HalCrash, Crash
  <2>8. CASE BinderNext
    <3>1. mRequests' = mRequests
      BY <2>8 DEF BinderNext, SetLaunch, SetLowPower, SetScreen, SetBoost, Open, SetTarget,
         Report, SetPaused, Close, AdpfCall, vars, engine
    <3> QED
      BY <2>3, <3>1
  <2> QED
    BY <1>1, <2>3, <2>4, <2>5, <2>6, <2>7, <2>8 DEF HalNext
<1>2. HalInv /\ [HalNext]_hal =>
          [\A s \in {"interaction", "fling"} :
              mRequests[s] # NULL /\ mRequests'[s] # NULL /\ mRequests[s].until > client.now
                  => mRequests'[s].until >= mRequests[s].until]_hal
  BY <1>1
<1> QED
  BY <1>2, AlwaysHalInv, PTL DEF HalSpec, BoostKeepsEnd

=============================================================================
