------------------------------ MODULE PowerHal ------------------------------
(***************************************************************************)
(* The Power HAL: Power.cpp (modes and boosts), Adpf.cpp and               *)
(* HintSession.cpp (hint sessions) on top of Engine.  The thread pool has  *)
(* one thread (main.cpp), the client of Engine.  A binder call decides     *)
(* what it wants of the engine in one step and then makes its engine calls *)
(* one by one; the worker runs, and time passes, in between.               *)
(***************************************************************************)
EXTENDS Engine, Sequences

CONSTANTS
    Modes,          \* mConfig.modes
    Requests,       \* mConfig.requests: source -> [set, pulse, ignoreZero]
    HoldMs, FlingMinMs, MaxMs,    \* holds of interaction, fling and launch
    PulseMs, PulseMaxMs,
    Durations,      \* durationMs the framework passes to setBoost
    Levels,         \* mConfig.adpf.levels
    StaleMs,        \* mConfig.adpf.staleMs
    LowWater,       \* mConfig.adpf.lowWater, in percent
    Targets,        \* target durations of sessions
    Batches,        \* sets of actual durations in one report
    SessionId,      \* ids of hint sessions
    OffLists        \* what OffList() returns at one time or another

VARIABLES
    mScreenOff, mLowPower,
    mSessions,   \* mSessions[id]: a session, or NULL
    issued,      \* the ids below mNextId
    mSuppressed, mApplied,
    todo         \* the engine calls the current binder call still makes

power == <<mScreenOff, mLowPower>>
adpf == <<mSessions, issued, mSuppressed, mApplied>>
front == <<power, adpf, todo>>
hal == <<vars, front>>

MaxLevel == Len(Levels)

Session == [targetNs : Targets, level : 0..MaxLevel, paused : BOOLEAN, lastReport : Nat]

-----------------------------------------------------------------------------
(* Adpf                                                                    *)

\* One batch of reports to the next level of a session.
AdpfNextLevel(level, target, actual) ==
    LET step == IF \E a \in actual : 2 * a > 3 * target THEN 2
                ELSE IF \E a \in actual : a > target THEN 1
                ELSE IF \A a \in actual : a * 100 < LowWater * target THEN -1 ELSE 0
    IN  IF target <= 0 \/ actual = {} THEN level
        ELSE Max({0, Min({MaxLevel, level + step})})

\* The highest level of the running sessions.
GlobalLevel(sessions, suppressed) ==
    IF suppressed THEN 0
    ELSE Max({0} \cup {sessions[i].level :
                         i \in {j \in SessionId : sessions[j] # NULL /\ ~sessions[j].paused}})

\* Mutant: a floor that is no longer wanted is left to its deadline.
AdpfOpsLazy(level) ==
    IF level = 0 THEN <<>>
    ELSE <<[op |-> "set", source |-> "adpf", values |-> Levels[level], hold |-> StaleMs,
            extend |-> FALSE]>>

\* The engine call of recomputeLocked() for a global level.
AdpfOps(level) ==
    IF level # 0
    THEN <<[op |-> "set", source |-> "adpf", values |-> Levels[level], hold |-> StaleMs,
            extend |-> FALSE]>>
    ELSE IF mApplied # 0 THEN <<[op |-> "clear", source |-> "adpf"]>> ELSE <<>>

\* recomputeLocked(), after the given calls of the same binder call.
Recompute(before, sessions, suppressed) ==
    LET level == GlobalLevel(sessions, suppressed)
    IN  /\ mSessions' = sessions
        /\ mSuppressed' = suppressed
        /\ mApplied' = level
        /\ todo' = before \o AdpfOps(level)

Idle == client.pc = "idle" /\ todo = <<>>

\* A method of Adpf samples the clock first and gives it to the engine.
AdpfCall(sessions) ==
    /\ Idle
    /\ Recompute(<<>>, sessions, mSuppressed)
    /\ client' = IF todo' = <<>> THEN client ELSE [pc |-> "called", now |-> clock]
    /\ UNCHANGED <<clock, environment, engine, worker, wakeAt, power, issued>>

\* No id is given out twice.
Open(id, target) ==
    /\ Idle
    /\ id \notin issued
    /\ mSessions' = [mSessions EXCEPT ![id] =
           [targetNs |-> target, level |-> 0, paused |-> FALSE, lastReport |-> clock]]
    /\ issued' = issued \cup {id}
    /\ UNCHANGED <<vars, power, mSuppressed, mApplied, todo>>

SetTarget(id, target) ==
    /\ Idle
    /\ mSessions[id] # NULL /\ target > 0
    /\ mSessions' = [mSessions EXCEPT ![id].targetNs = target]
    /\ UNCHANGED <<vars, power, issued, mSuppressed, mApplied, todo>>

\* A session that was quiet for long starts from zero.
BaseLevel(session) == IF clock - session.lastReport > StaleMs THEN 0 ELSE session.level

Report(id, actual) ==
    /\ mSessions[id] # NULL
    /\ LET s == mSessions[id]
       IN  AdpfCall([mSessions EXCEPT ![id] =
               [s EXCEPT !.lastReport = clock,
                         !.level = AdpfNextLevel(BaseLevel(s), s.targetNs, actual)]])

SetPaused(id, paused) ==
    /\ mSessions[id] # NULL
    /\ AdpfCall([mSessions EXCEPT ![id].paused = paused,
                                  ![id].level = IF paused THEN 0 ELSE @])

\* HintSession::close(), also from its destructor; the second one does nothing.
Close(id) ==
    /\ mSessions[id] # NULL
    /\ AdpfCall([mSessions EXCEPT ![id] = NULL])

-----------------------------------------------------------------------------
(* Power                                                                   *)

\* The set of a request without the nodes in the off list.
Without(set, off) == [n \in Node |-> IF n \in off THEN NULL ELSE set[n]]

IsEmpty(set) == \A n \in Node : set[n] = NULL

\* The loop over the pulse nodes of a request: one engine call for each that is
\* not off.
PulseOps(source, ms, off) ==
    LET pulse == Requests[source].pulse
    IN  [i \in 1..Len(pulse) |-> [op |-> IF pulse[i] \in off THEN "skip" ELSE "pulse",
                                  us |-> ms, node |-> pulse[i]]]

\* Mutant: the launch floor outlives the screen.
LaunchOpsAnyScreen(enabled, off) ==
    IF ~enabled \/ "launch" \in off THEN <<[op |-> "clear", source |-> "launch"]>>
    ELSE PulseOps("launch", Min({PulseMs, PulseMaxMs}), off)
         \o <<[op |-> "set", source |-> "launch", hold |-> MaxMs, extend |-> FALSE,
               values |-> Without(Requests["launch"].set, off)]>>

LaunchOps(enabled, off) ==
    IF ~enabled \/ mScreenOff \/ "launch" \in off
    THEN <<[op |-> "clear", source |-> "launch"]>>
    ELSE PulseOps("launch", Min({PulseMs, PulseMaxMs}), off)
         \o <<[op |-> "set", source |-> "launch", hold |-> MaxMs, extend |-> FALSE,
               values |-> Without(Requests["launch"].set, off)]>>

SetLaunch(enabled, off) ==
    /\ Idle
    /\ "LAUNCH" \in Modes /\ "launch" \in DOMAIN Requests
    /\ todo' = LaunchOps(enabled, off)
    /\ UNCHANGED <<vars, power, adpf>>

\* setMode(INTERACTIVE, ~screenOff) and setMode(DISPLAY_INACTIVE, screenOff).
SetScreen(mode, screenOff) ==
    /\ Idle
    /\ mode \in Modes \cap {"INTERACTIVE", "DISPLAY_INACTIVE"}
    /\ mScreenOff' = screenOff
    /\ Recompute(IF screenOff THEN <<[op |-> "clearAll"]>> ELSE <<>>,
                 mSessions, screenOff \/ mLowPower)
    /\ UNCHANGED <<vars, mLowPower, issued>>

LowPowerOps(enabled) ==
    IF ~enabled THEN <<>>
    ELSE <<[op |-> "clear", source |-> "interaction"], [op |-> "clear", source |-> "fling"]>>

SetLowPower(enabled) ==
    /\ Idle
    /\ "LOW_POWER" \in Modes
    /\ mLowPower' = enabled
    /\ Recompute(LowPowerOps(enabled), mSessions, mScreenOff \/ enabled)
    /\ UNCHANGED <<vars, mScreenOff, issued>>

\* Mutant: a later boost replaces the end of the earlier one.
ExtendsNever == FALSE

\* setRequest's extend, as setBoost passes it.
Extends == TRUE

\* Mutant: a fling holds exactly as long as it says, a touch not at all.
BoostHoldBare(fling, durationMs) == durationMs

BoostHold(fling, durationMs) == Max({durationMs, IF fling THEN FlingMinMs ELSE HoldMs})

BoostPulse(durationMs) ==
    Max({1, Min({PulseMaxMs, IF durationMs > 0 THEN durationMs ELSE PulseMs})})

SetBoost(durationMs, off) ==
    LET fling == durationMs > 0 /\ "fling" \in DOMAIN Requests
        source == IF fling THEN "fling" ELSE "interaction"
        set == Without(Requests[source].set, off)
    IN  /\ Idle
        /\ ~mScreenOff /\ ~mLowPower
        /\ source \in DOMAIN Requests /\ source \notin off
        /\ durationMs > 0 \/ ~Requests[source].ignoreZero
        /\ todo' = PulseOps(source, BoostPulse(durationMs), off)
                   \o (IF IsEmpty(set) THEN <<>>
                       ELSE <<[op |-> "set", source |-> source, values |-> set,
                               hold |-> BoostHold(fling, durationMs), extend |-> Extends]>>)
        /\ UNCHANGED <<vars, power, adpf>>

-----------------------------------------------------------------------------
(* What ParseConfig() accepts: the sets and levels name known nodes that   *)
(* are not pulses, the pulses name pulse nodes, and what is left of a set  *)
(* when nodes are off is a set.  The holds and durations that the binder   *)
(* calls compute are those the engine is a model for.                      *)

PulseNodes == {n \in Node : Kind[n] = "pulse"}

ASSUME PowerConstants ==
    /\ {"interaction", "fling", "launch", "adpf"} \subseteq Source
    /\ DOMAIN Requests \subseteq {"interaction", "fling", "launch"}
    /\ \A s \in DOMAIN Requests :
          /\ Requests[s].pulse \in Seq(PulseNodes)
          /\ \A off \in OffLists : Without(Requests[s].set, off) \in ValueMaps
    /\ Levels \in Seq(ValueMaps)
    /\ {StaleMs, MaxMs, HoldMs, FlingMinMs} \cup {d \in Durations : d > 0} \subseteq Holds
    /\ {Min({PulseMs, PulseMaxMs})} \cup {BoostPulse(d) : d \in Durations} \subseteq Pulses
    /\ Durations \subseteq Int
    /\ NULL \notin Session

-----------------------------------------------------------------------------
(* The engine calls.                                                       *)

\* The next engine call of the binder call in progress.
EngineCall ==
    /\ todo # <<>>
    /\ LET o == Head(todo)
       IN  \/ o.op = "set" /\ SetRequest(o.source, o.values, o.hold, o.extend)
           \/ o.op = "clear" /\ ClearRequest(o.source)
           \/ o.op = "clearAll" /\ ClearAll
           \/ o.op = "pulse" /\ Pulse(o.node, o.us)
           \/ o.op = "skip" /\ client.pc = "idle" /\ UNCHANGED vars
    /\ todo' = Tail(todo)
    /\ UNCHANGED <<power, adpf>>

\* Clock::now() before an engine call that was not given the time.
Sample ==
    /\ todo # <<>> /\ Head(todo).op # "skip"
    /\ Call
    /\ UNCHANGED front

-----------------------------------------------------------------------------
FrontInit ==
    /\ mScreenOff = FALSE
    /\ mLowPower = FALSE
    /\ mSessions = [i \in SessionId |-> NULL]
    /\ issued = {}
    /\ mSuppressed = FALSE
    /\ mApplied = 0
    /\ todo = <<>>

HalInit == Init /\ FrontInit

HalCrash ==
    /\ Crash
    /\ mScreenOff' = FALSE /\ mLowPower' = FALSE
    /\ mSessions' = [i \in SessionId |-> NULL] /\ issued' = {}
    /\ mSuppressed' = FALSE /\ mApplied' = 0
    /\ todo' = <<>>

BinderNext ==
    \/ \E enabled \in BOOLEAN, off \in OffLists : SetLaunch(enabled, off)
    \/ \E enabled \in BOOLEAN : SetLowPower(enabled)
    \/ \E mode \in Modes, enabled \in BOOLEAN : SetScreen(mode, enabled)
    \/ \E d \in Durations, off \in OffLists : SetBoost(d, off)
    \/ \E i \in SessionId, t \in Targets : Open(i, t) \/ SetTarget(i, t)
    \/ \E i \in SessionId, a \in Batches : Report(i, a)
    \/ \E i \in SessionId, paused \in BOOLEAN : SetPaused(i, paused)
    \/ \E i \in SessionId : Close(i)

HalNext ==
    \/ BinderNext \/ EngineCall \/ Sample \/ HalCrash
    \/ /\ Reset \/ NotifyAll \/ WorkerNext \/ Tick \/ EnvironmentNext
       /\ UNCHANGED front

HalSpec == HalInit /\ [][HalNext]_hal

-----------------------------------------------------------------------------
(* Properties.                                                             *)

\* With the screen off, once the call that said so has returned, no node that the
\* HAL alone writes is held above its default, whatever launches, boosts and reports came before or since
\* and wherever the worker is.
ScreenOffHoldsNothing ==
    Idle /\ mScreenOff =>
        \A n \in Node \ External : Kind[n] = "default" /\ mNodes[n].written # NULL
                                       => hw[n] = DefaultValue[n]

\* The floor of the hint sessions is that of the highest level of the running
\* sessions, and none without one: mApplied, the sessions and the engine's table
\* agree whenever no call is in progress.
AdpfFollowsSessions ==
    Idle => /\ mApplied = GlobalLevel(mSessions, mSuppressed)
            /\ mRequests["adpf"] # NULL =>
                  mApplied > 0 /\ mRequests["adpf"].values = Levels[mApplied]

\* "a short touch right after a long fling keeps the fling's end" (setBoost): a
\* boost that is live is never cut short by a later one.
BoostKeepsEnd ==
    [][\A s \in {"interaction", "fling"} :
          mRequests[s] # NULL /\ mRequests'[s] # NULL /\ mRequests[s].until > client.now
              => mRequests'[s].until >= mRequests[s].until]_hal

\* The HAL is a client the engine is made for: whatever the framework calls, the
\* engine sees calls of one thread, one after the other, each with a checked set,
\* a configured hold and its notification, so what holds of Engine holds here.
ClientOfEngine == Spec

=============================================================================
