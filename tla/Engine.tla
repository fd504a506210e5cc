------------------------------- MODULE Engine -------------------------------
(***************************************************************************)
(* The arbiter of the fleet Power HAL (src/power-fleet/Engine.cpp).  It    *)
(* keeps one request per source, each with a deadline, and makes every     *)
(* kernel node hold the aggregate of the live requests.  The callers' own  *)
(* thread and a worker thread share the state under mLock; the worker      *)
(* sleeps on a condition variable until the next deadline.                 *)
(*                                                                         *)
(* A step of the model is one region under mLock.  Sampling the clock and  *)
(* notify_all() happen outside the lock in the code and are steps of their *)
(* own.                                                                    *)
(***************************************************************************)
EXTENDS Integers, FiniteSetsExt

CONSTANTS
    Node,           \* names of the configured kernel nodes
    Source,         \* names of the request sources
    Kind,           \* Kind[n]: the type of a node and, for a value, its release
    DefaultValue,   \* DefaultValue[n]: released value of a value node
    MinKhz,         \* MinKhz[n]: cpuinfo_min_freq of a cpufreq floor
    Ceilings,       \* Ceilings[n]: values the scaling_max_freq of n takes
    ValueMaps,      \* the value maps callers pass to setRequest
    Holds,          \* how far in the future callers put a deadline
    Pulses,         \* pulse durations callers ask for
    AccessModes,    \* AccessModes[n]: the access the process has to n, at one time or another
    External,       \* nodes that another process also writes
    ExternalValues, \* what it writes
    MaxValue,       \* largest number a token or a node holds
    MaxTime,        \* bound on the clock
    RetryPeriod,    \* kRetryPeriod
    RetryWindow,    \* kRetryWindow
    CanCrash,       \* whether the process may die and be restarted
    NULL            \* std::nullopt

Kinds == {"cpufreq", "ppm", "default", "none", "capture", "pulse"}

\* What the process may do with the files of a node; "read": not handed over by
\* init yet, "none": not created yet.
Access == {"none", "read", "write"}

\* A number, "max", "pct:NN", or text that is none of these.
Token == [kind : {"num", "max", "pct", "junk"}, arg : 0..MaxValue]

\* What a node may hold; -1 is the released value of a PPM floor.
Value == -1..MaxValue

ValueMap == [Node -> Token \cup {NULL}]
Request == [values : ValueMap, until : Nat]

ASSUME EngineConstants ==
    /\ NULL \notin Int
    /\ NULL \notin Request \cup Token
    /\ MaxValue \in Nat /\ MaxTime \in Nat
    /\ RetryPeriod \in Nat /\ RetryWindow \in Nat
    /\ Kind \in [Node -> Kinds]
    /\ DefaultValue \in [Node -> 0..MaxValue]
    /\ MinKhz \in [Node -> 0..MaxValue]
    /\ Ceilings \in [Node -> SUBSET (0..MaxValue)]
    /\ Holds \subseteq Nat
    /\ Pulses \subseteq 0..MaxValue
    /\ AccessModes \in [Node -> SUBSET Access]
    /\ External \subseteq Node
    /\ ExternalValues \subseteq 0..MaxValue
    /\ CanCrash \in BOOLEAN

\* A Set or a level never names a pulse node (CheckSet in Config.cpp).
ASSUME ValueMapsChecked ==
    /\ ValueMaps \subseteq ValueMap
    /\ \A m \in ValueMaps, n \in Node : Kind[n] = "pulse" => m[n] = NULL

VARIABLES
    clock,       \* steady_clock
    access,      \* access[n]: what the process may do with the node's files
    ceil,        \* ceil[n]: content of the node's MaxPath
    hw,          \* hw[n]: content of the node (of DurationPath for a pulse)
    outside,     \* outside[n]: hw[n] as the other processes left it
    mNodes,      \* mNodes[n]: the NodeState of n
    mRequests,   \* mRequests[s]: the request of s, or NULL
    mDirty,
    mStop,
    mRetryUntil,
    worker,      \* where the worker thread is
    wakeAt,      \* the time point it waits for, or NULL for time_point::max()
    client       \* the calling thread: [pc, now], now sampled before the lock

environment == <<access, ceil, outside>>
engine == <<hw, mNodes, mRequests, mDirty, mStop, mRetryUntil>>
threads == <<worker, wakeAt, client>>
vars == <<clock, environment, engine, threads>>

NodeState == [written : Value \cup {NULL}, captured : Value \cup {NULL},
              pulseUs : Value \cup {NULL}, wrote : BOOLEAN]

FreshNode == [written |-> NULL, captured |-> NULL, pulseUs |-> NULL, wrote |-> FALSE]

TypeOK ==
    /\ clock \in Nat
    /\ access \in [Node -> Access]
    /\ ceil \in [Node -> 0..MaxValue]
    /\ hw \in [Node -> Value]
    /\ outside \in [Node -> Value]
    /\ mNodes \in [Node -> NodeState]
    /\ mRequests \in [Source -> Request \cup {NULL}]
    /\ mDirty \in BOOLEAN
    /\ mStop \in BOOLEAN
    /\ mRetryUntil \in Nat
    /\ worker \in {"off", "new", "again", "asleep", "signalled", "done"}
    /\ wakeAt \in Nat \cup {NULL}
    /\ client \in [pc : {"boot", "idle", "called", "notify", "gone"}, now : Nat]

Readable(n) == access[n] # "none"
Writable(n) == access[n] = "write"

-----------------------------------------------------------------------------
(* Targets: what the requests make of a node.                              *)

\* kHz of a floor token under a ceiling, or NULL.
ResolveKhz(token, ceiling) ==
    CASE token.kind = "num" -> token.arg
      [] token.kind = "max" -> ceiling
      [] token.kind = "pct" ->
            IF ceiling = NULL THEN NULL
            ELSE (ceiling * (IF token.arg > 100 THEN 100 ELSE token.arg)) \div 100
      [] OTHER -> NULL

ParseInt(token) == IF token.kind = "num" THEN token.arg ELSE NULL

\* The tokens the requests hold for node n.
Tokens(requests, n) ==
    {requests[s].values[n] : s \in {r \in Source : requests[r] # NULL}} \ {NULL}

Numbers(tokens, n, ceiling) ==
    {IF Kind[n] \in {"cpufreq", "ppm"} THEN ResolveKhz(t, ceiling) ELSE ParseInt(t)
        : t \in tokens} \ {NULL}

AtMost(value, ceiling) == IF value > ceiling THEN ceiling ELSE value

\* Mutant: the floor of the requests is not clamped.
CpufreqTargetUnclamped(n, tokens) ==
    IF ~Readable(n) THEN NULL ELSE Max(Numbers(tokens, n, ceil[n]) \cup {MinKhz[n]})

CpufreqTarget(n, tokens) ==
    IF ~Readable(n) THEN NULL
    ELSE AtMost(Max(Numbers(tokens, n, ceil[n]) \cup {MinKhz[n]}), ceil[n])

PpmTarget(n, tokens) ==
    LET ceiling == IF Readable(n) THEN ceil[n] ELSE NULL
        khz == Numbers(tokens, n, ceiling)
    IN  IF khz = {} THEN -1
        ELSE IF ceiling = NULL THEN Max(khz) ELSE AtMost(Max(khz), ceiling)

\* Aggregate max_int of the tokens of a value node.
MaxInt(n, tokens) ==
    LET best == Numbers(tokens, n, NULL)
    IN  IF best = {} THEN DefaultValue[n] ELSE Max(best)

ReleaseTarget(n) ==
    CASE Kind[n] = "default" -> DefaultValue[n]
      [] Kind[n] = "none" -> NULL
      [] OTHER -> IF mNodes[n].written = mNodes[n].captured THEN NULL
                  ELSE mNodes[n].captured

\* The capture before the first write of a hold needs to read the node.
CannotCapture(n) ==
    Kind[n] = "capture" /\ mNodes[n].captured = NULL /\ ~Readable(n)

ValueTarget(n, tokens) ==
    IF tokens = {} THEN ReleaseTarget(n)
    ELSE IF CannotCapture(n) THEN NULL ELSE MaxInt(n, tokens)

\* The value the node should hold now, or NULL if it cannot be computed.
Target(n, tokens) ==
    CASE Kind[n] = "cpufreq" -> CpufreqTarget(n, tokens)
      [] Kind[n] = "ppm" -> PpmTarget(n, tokens)
      [] Kind[n] = "pulse" -> NULL
      [] OTHER -> ValueTarget(n, tokens)

\* Mutant: every hold captures, also the one that follows before the put-back.
PreparedRecapture(n, tokens) ==
    IF Kind[n] = "capture" /\ tokens # {} /\ Readable(n)
    THEN [mNodes[n] EXCEPT !.captured = hw[n]] ELSE mNodes[n]

\* The node state after the assignments targetLocked() itself makes.
Prepared(n, tokens) ==
    CASE Kind[n] = "none" /\ tokens = {} -> [mNodes[n] EXCEPT !.written = NULL]
      [] Kind[n] = "capture" /\ tokens = {} ->
            IF mNodes[n].written = mNodes[n].captured
            THEN [mNodes[n] EXCEPT !.captured = NULL] ELSE mNodes[n]
      [] Kind[n] = "capture" /\ tokens # {} /\ mNodes[n].captured = NULL /\ Readable(n) ->
            [mNodes[n] EXCEPT !.captured = hw[n]]
      [] OTHER -> mNodes[n]

-----------------------------------------------------------------------------
(* applyLocked                                                             *)

\* Mutant: dropped one unit early.
LiveEarly(requests, now) ==
    [s \in Source |-> IF requests[s] # NULL /\ requests[s].until <= now + 1
                      THEN NULL ELSE requests[s]]

\* The requests left when those due at time now are dropped.
Live(requests, now) ==
    [s \in Source |-> IF requests[s] # NULL /\ requests[s].until <= now
                      THEN NULL ELSE requests[s]]

\* Mutant: only what a request asks for is written.
MustWriteAsked(n, tokens) == tokens # {} /\ Prepared(n, tokens).written # Target(n, tokens)

\* Whether apply writes node n: there is a target and it is not there already.
MustWrite(n, tokens) ==
    LET target == Target(n, tokens)
    IN  target # NULL /\ Prepared(n, tokens).written # target

\* Mutant: a refused write is remembered as done.
WriteNodeOptimistic(n, state, value) == [state EXCEPT !.written = value, !.wrote = TRUE]

\* writeLocked() of a node that is not a pulse.
WriteNode(n, state, value) ==
    IF Writable(n) THEN [state EXCEPT !.written = value, !.wrote = TRUE]
    ELSE [state EXCEPT !.written = NULL]

NodeAfter(n, tokens) ==
    IF MustWrite(n, tokens)
    THEN WriteNode(n, Prepared(n, tokens), Target(n, tokens))
    ELSE Prepared(n, tokens)

HwAfter(n, tokens) ==
    IF MustWrite(n, tokens) /\ Writable(n) THEN Target(n, tokens) ELSE hw[n]

ApplyLocked(requests, now) ==
    LET live == Live(requests, now)
    IN  /\ mRequests' = live
        /\ mNodes' = [n \in Node |-> NodeAfter(n, Tokens(live, n))]
        /\ hw' = [n \in Node |-> HwAfter(n, Tokens(live, n))]

\* A node whose very first write is refused is tried again shortly.
Pending(requests, now) ==
    \E n \in Node : /\ MustWrite(n, Tokens(Live(requests, now), n))
                    /\ ~Writable(n)
                    /\ ~mNodes[n].wrote

\* Mutant: no retry of refused first writes.
DeadlinesNoRetry(requests, now) ==
    {requests[s].until : s \in {r \in Source : Live(requests, now)[r] # NULL}}

\* applyLocked's result: the next time point there is something to do.
Deadlines(requests, now) ==
    {requests[s].until : s \in {r \in Source : Live(requests, now)[r] # NULL}}
    \cup (IF Pending(requests, now) /\ now < mRetryUntil THEN {now + RetryPeriod} ELSE {})

\* Mutant: the last deadline instead of the first.
NextDeadlineLast(requests, now) ==
    IF Deadlines(requests, now) = {} THEN NULL ELSE Max(Deadlines(requests, now))

NextDeadline(requests, now) ==
    IF Deadlines(requests, now) = {} THEN NULL ELSE Min(Deadlines(requests, now))

-----------------------------------------------------------------------------
(* The callers' thread.                                                    *)

\* The worker keeps mLock between two rounds when it does not have to wait.
Unlocked == worker # "again"

Init ==
    /\ clock = 0
    /\ access \in {a \in [Node -> Access] : \A n \in Node : a[n] \in AccessModes[n]}
    /\ ceil \in {c \in [Node -> 0..MaxValue] : \A n \in Node : c[n] \in Ceilings[n]}
    /\ hw \in [Node -> ExternalValues]
    /\ outside = hw
    /\ mNodes = [n \in Node |-> FreshNode]
    /\ mRequests = [s \in Source |-> NULL]
    /\ mDirty = FALSE
    /\ mStop = FALSE
    /\ mRetryUntil = 0
    /\ worker = "off"
    /\ wakeAt = NULL
    /\ client = [pc |-> "boot", now |-> 0]

\* main(): reset() of the engine just constructed, then start().
Reset ==
    /\ client.pc = "boot"
    /\ ApplyLocked([s \in Source |-> NULL], clock)
    /\ mRetryUntil' = clock + RetryWindow
    /\ worker' = "new"
    /\ client' = [client EXCEPT !.pc = "idle"]
    /\ UNCHANGED <<clock, environment, mDirty, mStop, wakeAt>>

\* Every call takes Clock::now() before it takes mLock.
Call ==
    /\ client.pc = "idle"
    /\ client' = [pc |-> "called", now |-> clock]
    /\ UNCHANGED <<clock, environment, engine, worker, wakeAt>>

\* Mutant: the worker's predicate is not set.
ChangeQuietly(requests) ==
    /\ ApplyLocked(requests, client.now)
    /\ client' = [client EXCEPT !.pc = "notify"]
    /\ UNCHANGED <<clock, environment, mDirty, mStop, mRetryUntil, worker, wakeAt>>

\* The locked region of a call that changes the requests.
Change(requests) ==
    /\ ApplyLocked(requests, client.now)
    /\ mDirty' = TRUE
    /\ client' = [client EXCEPT !.pc = "notify"]
    /\ UNCHANGED <<clock, environment, mStop, mRetryUntil, worker, wakeAt>>

\* A call that finds nothing to change.
Return ==
    /\ client' = [client EXCEPT !.pc = "idle"]
    /\ UNCHANGED <<clock, environment, engine, worker, wakeAt>>

\* The deadline of a request that replaces old; extend keeps the later one.
Until(old, until, extend, now) ==
    IF extend /\ old # NULL /\ old.until > now /\ old.until > until
    THEN old.until ELSE until

SetRequest(source, values, hold, extend) ==
    /\ client.pc = "called" /\ Unlocked
    /\ LET until == Until(mRequests[source], client.now + hold, extend, client.now)
       IN  Change([mRequests EXCEPT ![source] = [values |-> values, until |-> until]])

ClearRequest(source) ==
    /\ client.pc = "called" /\ Unlocked
    /\ IF mRequests[source] = NULL THEN Return
       ELSE Change([mRequests EXCEPT ![source] = NULL])

ClearAll ==
    /\ client.pc = "called" /\ Unlocked
    /\ IF \A s \in Source : mRequests[s] = NULL THEN Return
       ELSE Change([s \in Source |-> NULL])

\* The duration only when it changed, then "1".
PulseNode(n, us) ==
    IF ~Writable(n) THEN [mNodes[n] EXCEPT !.written = NULL]
    ELSE [mNodes[n] EXCEPT !.pulseUs = us, !.wrote = TRUE]

Pulse(n, us) ==
    /\ client.pc = "called" /\ Unlocked
    /\ Kind[n] = "pulse"
    /\ mNodes' = [mNodes EXCEPT ![n] = PulseNode(n, us)]
    /\ hw' = [hw EXCEPT ![n] = IF Writable(n) /\ mNodes[n].pulseUs # us THEN us ELSE @]
    /\ client' = [client EXCEPT !.pc = "idle"]
    /\ UNCHANGED <<clock, environment, mRequests, mDirty, mStop, mRetryUntil,
                   worker, wakeAt>>

\* mCv.notify_all(), after mLock is released.
NotifyAll ==
    /\ client.pc = "notify"
    /\ worker' = IF worker = "asleep" THEN "signalled" ELSE worker
    /\ client' = [client EXCEPT !.pc = IF mStop THEN "gone" ELSE "idle"]
    /\ UNCHANGED <<clock, environment, engine, wakeAt>>

\* Mutant: joins without notifying.
DestroyQuietly ==
    /\ client.pc = "idle" /\ Unlocked
    /\ mStop' = TRUE
    /\ client' = [client EXCEPT !.pc = "gone"]
    /\ UNCHANGED <<clock, environment, hw, mNodes, mRequests, mDirty, mRetryUntil,
                   worker, wakeAt>>

\* ~Engine(): tell the worker to stop; the join is what "gone" waits in.
Destroy ==
    /\ client.pc = "idle" /\ Unlocked
    /\ mStop' = TRUE
    /\ client' = [client EXCEPT !.pc = "notify"]
    /\ UNCHANGED <<clock, environment, hw, mNodes, mRequests, mDirty, mRetryUntil,
                   worker, wakeAt>>

-----------------------------------------------------------------------------
(* The worker thread.                                                      *)

\* The wait of loop() returns: a true predicate after a notification, or time.
Awake ==
    \/ worker \in {"new", "again"}
    \/ worker = "signalled" /\ (mDirty \/ mStop)
    \/ worker \in {"asleep", "signalled"} /\ wakeAt # NULL /\ wakeAt <= clock

\* From the return of one wait to the start of the next, under mLock throughout.
\* In the first round mDirty may be set already: the wait then returns at once.
WorkerRound ==
    /\ Awake
    /\ mDirty' = IF worker = "new" THEN mDirty ELSE FALSE
    /\ IF mStop
       THEN /\ worker' = "done"
            /\ UNCHANGED <<hw, mNodes, mRequests, wakeAt>>
       ELSE /\ ApplyLocked(mRequests, clock)
            /\ wakeAt' = NextDeadline(mRequests, clock)
            /\ worker' = IF worker = "new" /\ mDirty THEN "again" ELSE "asleep"
    /\ UNCHANGED <<clock, environment, mStop, mRetryUntil, client>>

\* A condition variable may wake its waiter without a notification.
SpuriousWakeup ==
    /\ worker = "asleep"
    /\ worker' = "signalled"
    /\ UNCHANGED <<clock, environment, engine, wakeAt, client>>

\* A wake-up that finds the predicate false: back to sleep.
WorkerRecheck ==
    /\ worker = "signalled" /\ ~mDirty /\ ~mStop
    /\ worker' = "asleep"
    /\ UNCHANGED <<clock, environment, engine, wakeAt, client>>

-----------------------------------------------------------------------------
(* The rest of the device.                                                 *)

Tick ==
    /\ clock < MaxTime
    /\ clock' = clock + 1
    /\ UNCHANGED <<environment, engine, threads>>

\* init hands a node over, the kernel creates it, or a driver refuses for a while.
AccessChanges(n) ==
    /\ access' \in {[access EXCEPT ![n] = a] : a \in AccessModes[n] \ {access[n]}}
    /\ UNCHANGED <<clock, ceil, outside, engine, threads>>

\* The thermal driver moves a ceiling.
CeilingMoves(n) ==
    /\ Kind[n] \in {"cpufreq", "ppm"}
    /\ ceil' \in {[ceil EXCEPT ![n] = c] : c \in Ceilings[n] \ {ceil[n]}}
    /\ UNCHANGED <<clock, access, outside, engine, threads>>

\* Another process writes a node that nothing holds.
ExternalWrite(n) ==
    /\ Tokens(mRequests, n) = {}
    /\ \E v \in ExternalValues \ {hw[n]} :
          /\ hw' = [hw EXCEPT ![n] = v]
          /\ outside' = [outside EXCEPT ![n] = v]
    /\ UNCHANGED <<clock, access, ceil, mNodes, mRequests, mDirty, mStop, mRetryUntil,
                   threads>>

\* The process dies and init starts it again; the kernel nodes stay as they are.
Crash ==
    /\ CanCrash /\ client.pc # "boot"
    /\ mNodes' = [n \in Node |-> FreshNode]
    /\ mRequests' = [s \in Source |-> NULL]
    /\ mDirty' = FALSE
    /\ mStop' = FALSE
    /\ mRetryUntil' = 0
    /\ worker' = "off"
    /\ wakeAt' = NULL
    /\ client' = [pc |-> "boot", now |-> clock]
    /\ UNCHANGED <<clock, environment, hw>>

ClientNext ==
    \/ Reset \/ Call \/ ClearAll \/ NotifyAll \/ Destroy
    \/ \E s \in Source : ClearRequest(s)
    \/ \E n \in Node, us \in Pulses : Pulse(n, us)
    \/ \E s \in Source, m \in ValueMaps, h \in Holds, extend \in BOOLEAN :
          SetRequest(s, m, h, extend)

EnvironmentNext ==
    \/ \E n \in Node : AccessChanges(n) \/ CeilingMoves(n)
    \/ \E n \in External : ExternalWrite(n)

DeviceNext == Tick \/ Crash \/ EnvironmentNext

WorkerNext == WorkerRound \/ WorkerRecheck \/ SpuriousWakeup

Next == WorkerNext \/ DeviceNext \/ ClientNext

Spec == Init /\ [][Next]_vars

\* A thread that can run does: the scheduler starves neither the worker nor a
\* caller that is past the locked region; time passes.
Fairness == WF_vars(NotifyAll) /\ WF_vars(WorkerRound) /\ WF_vars(Tick)

FairSpec == Spec /\ Fairness

-----------------------------------------------------------------------------
(* Properties.                                                             *)

\* A value node that was written and that nobody else writes holds the maximum
\* the requests in the table ask for, and its default when none asks, at every
\* moment mLock is free: every change of mRequests is followed by applyLocked in
\* the same region, and `written` never vouches for a value that is not there.
\* A PPM floor is gone with its last request, and pulseUs is the duration the
\* pulse node has.
NodeHoldsAggregate ==
    \A n \in Node \ External :
        LET tokens == Tokens(mRequests, n)
        IN  /\ mNodes[n].written # NULL =>
              /\ Kind[n] = "default" \/ (Kind[n] = "capture" /\ tokens # {}
                                           /\ mNodes[n].captured # NULL)
                    => hw[n] = MaxInt(n, tokens)
              /\ Kind[n] = "none" => tokens # {} /\ hw[n] = MaxInt(n, tokens)
              /\ Kind[n] = "ppm" /\ tokens = {} => hw[n] = -1
            /\ mNodes[n].pulseUs # NULL => hw[n] = mNodes[n].pulseUs

\* A floor is clamped to the ceiling the thermal driver sets at that moment,
\* whatever ceiling it was asked for under (targetLocked).
FloorUnderCeiling ==
    [][\A n \in Node \ External :
          Kind[n] \in {"cpufreq", "ppm"} /\ hw'[n] # hw[n] /\ Readable(n)
              => hw'[n] <= ceil[n]]_vars

\* A sleeping worker that has not been told of a change wakes by the first
\* deadline, and within kRetryPeriod while a node still waits for its first
\* write inside the start-up window.
WakesInTime ==
    worker \in {"asleep", "signalled"} /\ ~mDirty =>
        /\ \A s \in Source : mRequests[s] # NULL =>
              wakeAt # NULL /\ wakeAt <= mRequests[s].until
        /\ \A n \in Node :
              /\ Kind[n] \in {"default", "ppm"}
              /\ ~mNodes[n].wrote
              /\ clock < mRetryUntil
              => wakeAt # NULL /\ wakeAt <= clock + RetryPeriod

\* mDirty and mStop are never set behind the back of a sleeping worker: the
\* notify_all() that follows the locked region is still to come.
NotificationComes ==
    worker = "asleep" /\ (mDirty \/ mStop) => client.pc = "notify"

\* Release::Capture: a node that nobody else touches gets back the value it had
\* before the hold, whatever the order of holds, releases and refused writes.
CapturePutsBack ==
    \A n \in Node :
        /\ Kind[n] = "capture"
        /\ Tokens(mRequests, n) = {}
        /\ mNodes[n].written # NULL
        => hw[n] = outside[n]

\* reset(): "writes the released value of every node that exists: a restarted
\* HAL must not leave a floor behind" (Engine.h).
RestartLeavesNoFloor ==
    [][Reset => \A n \in Node : Writable(n) =>
                  /\ Kind[n] = "default" => hw'[n] = DefaultValue[n]
                  /\ Kind[n] = "ppm" => hw'[n] = -1
                  /\ Kind[n] = "cpufreq" => hw'[n] = AtMost(MinKhz[n], ceil[n])
                  /\ Kind[n] = "capture" => hw'[n] = outside[n]]_vars

\* A request that is due is dropped, without any further call (the worker is
\* there for this), unless the engine is being destroyed.
ExpiredIsDropped ==
    \A s \in Source :
        (mRequests[s] # NULL /\ mRequests[s].until <= clock)
            ~> (mRequests[s] = NULL \/ mRequests[s].until > clock \/ mStop)

\* A node handed over inside the start-up window is written without waiting for
\* the first touch, if it stays writable (and the horizon leaves the time).
RetryLands ==
    \A n \in {m \in Node : Kind[m] \in {"default", "ppm"}} :
        (/\ client.pc # "boot" /\ Writable(n) /\ ~mNodes[n].wrote
         /\ clock < mRetryUntil /\ clock + RetryPeriod <= MaxTime)
            ~> (mNodes[n].wrote \/ ~Writable(n) \/ mStop \/ client.pc = "boot")

\* ~Engine(): the worker sees mStop and ends, so the join returns.
StopEnds == mStop ~> (worker = "done" \/ client.pc = "boot")

-----------------------------------------------------------------------------
(* The engine implements the arbiter, for the nodes that it alone writes   *)
(* and whose released value it knows.                                      *)

Owned == {n \in Node \ External : Kind[n] \in {"default", "cpufreq", "ppm"}}

\* What a table makes of an owned node that can be read.
Aggregate(n, requests, ceiling) ==
    LET tokens == Tokens(requests, n)
        khz == Numbers(tokens, n, ceiling)
    IN  CASE Kind[n] = "default" -> MaxInt(n, tokens)
          [] Kind[n] = "cpufreq" -> AtMost(Max(khz \cup {MinKhz[n]}), ceiling)
          [] Kind[n] = "ppm" -> IF khz = {} THEN -1 ELSE AtMost(Max(khz), ceiling)

Arbiter == INSTANCE FloorArbiter WITH
    Node <- Owned,
    ceil <- [n \in Owned |-> ceil[n]],
    writable <- {n \in Owned : Writable(n)},
    requests <- mRequests,
    shown <- [n \in Owned |-> hw[n]]

\* The locked regions of calls, the worker's rounds and a restart change the
\* request table and the nodes only the way the arbiter may.
ImplementsArbiter == Arbiter!Spec

=============================================================================
