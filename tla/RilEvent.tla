------------------------------ MODULE RilEvent ------------------------------
(***************************************************************************)
(* The event loop of libril: ril_event.cpp and its use in ril.cpp.  One    *)
(* thread runs the loop; any thread may ask for a timed callback, which    *)
(* puts a timer into a sorted list and pops the loop out of select() with  *)
(* a byte on a pipe.  The loop itself computes its timeout without the     *)
(* list's mutex.                                                           *)
(*                                                                         *)
(* The pipe's read end is the only file the loop watches in this tree, and *)
(* it is watched for good (rilEventAddWakeup has one caller).              *)
(***************************************************************************)
EXTENDS Integers, Sequences

CONSTANTS
    Thread,      \* threads other than the loop's that ask for callbacks
    Delays,      \* relative times they ask for
    MaxTimers,   \* bound on the number of callbacks asked for
    MaxTime,     \* bound on the clock
    NULL

\* What the constants are taken to be.
EventConstants ==
    Delays \subseteq Nat /\ MaxTimers \in Nat /\ MaxTime \in Nat /\ NULL \notin Nat

VARIABLES
    clock,
    timer_list,    \* sequence of [id, timeout], in list order
    pending_list,  \* timers to fire, in order; WAKEUP stands for s_wakeupfd_event
    nextId,        \* identity of the next UserCallbackInfo
    loop,          \* where the loop thread is
    tv,            \* when its select() returns by itself, or NULL for never
    wakeFd,        \* whether s_fdWakeupWrite has been assigned
    pipe,          \* whether the pipe holds a byte
    caller,        \* caller[t]: where thread t is in internalRequestTimedCallback
    fired          \* ids of the timers that have been handed over to their callback

vars == <<clock, timer_list, pending_list, nextId, loop, tv, wakeFd, pipe, caller, fired>>

WAKEUP == [id |-> 0, timeout |-> 0]
Timer == [id : 1..MaxTimers, timeout : Nat]

TypeOK ==
    /\ clock \in 0..MaxTime
    /\ timer_list \in Seq(Timer)
    /\ pending_list \in Seq(Timer \cup {WAKEUP})
    /\ nextId \in 1..MaxTimers + 1
    /\ loop \in {"started", "calc", "select", "timeouts", "ready", "fire"}
    /\ tv \in Nat \cup {NULL}
    /\ wakeFd \in BOOLEAN /\ pipe \in BOOLEAN
    /\ caller \in [Thread -> {"idle", "trigger"}]
    /\ fired \subseteq 1..MaxTimers

Init ==
    /\ clock = 0
    /\ timer_list = <<>> /\ pending_list = <<>>
    /\ nextId = 1
    /\ loop = "started"   \* RIL_startEventLoop() has returned: s_started is 1
    /\ tv = NULL
    /\ wakeFd = FALSE /\ pipe = FALSE
    /\ caller = [t \in Thread |-> "idle"]
    /\ fired = {}

-----------------------------------------------------------------------------
(* Asking for a callback.                                                  *)

\* How many timers a walk from the head of the list passes that goes on while
\* they are due before a time.
Passed(list, time) ==
    CHOOSE i \in 0..Len(list) :
        /\ \A j \in 1..i : list[j].timeout < time
        /\ i < Len(list) => list[i + 1].timeout >= time

\* ril_timer_add: before the first timer that is not due earlier.
Insert(list, timer) ==
    LET n == Passed(list, timer.timeout)
    IN  SubSeq(list, 1, n) \o <<timer>> \o SubSeq(list, n + 1, Len(list))

AddTimer(delay) ==
    /\ nextId <= MaxTimers
    /\ timer_list' = Insert(timer_list, [id |-> nextId, timeout |-> clock + delay])
    /\ nextId' = nextId + 1

\* internalRequestTimedCallback on a thread of the vendor or of binder.
RequestTimedCallback(t, delay) ==
    /\ caller[t] = "idle"
    /\ AddTimer(delay)
    /\ caller' = [caller EXCEPT ![t] = "trigger"]
    /\ UNCHANGED <<clock, pending_list, loop, tv, wakeFd, pipe, fired>>

\* triggerEvLoop: before eventLoop() has made the pipe the byte goes to fd 0.
TriggerEvLoop(t) ==
    /\ caller[t] = "trigger"
    /\ pipe' = (pipe \/ wakeFd)
    /\ caller' = [caller EXCEPT ![t] = "idle"]
    /\ UNCHANGED <<clock, timer_list, pending_list, nextId, loop, tv, wakeFd, fired>>

-----------------------------------------------------------------------------
(* The loop thread.                                                        *)

\* eventLoop after s_started: the pipe, and its event in the watch table.
MakePipe ==
    /\ loop = "started"
    /\ wakeFd' = TRUE
    /\ loop' = "calc"
    /\ UNCHANGED <<clock, timer_list, pending_list, nextId, tv, pipe, caller, fired>>

\* Mutant: the last timer instead of the first.
NextTimeoutLast ==
    IF timer_list = <<>> THEN NULL
    ELSE LET last == timer_list[Len(timer_list)].timeout
         IN  IF last > clock THEN last ELSE clock

\* calcNextTimeout, as the time point the wait ends at.
NextTimeout ==
    IF timer_list = <<>> THEN NULL
    ELSE IF Head(timer_list).timeout > clock THEN Head(timer_list).timeout ELSE clock

CalcNextTimeout ==
    /\ loop = "calc"
    /\ tv' = NextTimeout
    /\ loop' = "select"
    /\ UNCHANGED <<clock, timer_list, pending_list, nextId, wakeFd, pipe, caller, fired>>

\* Mutant: a select() that timed out is taken for one that failed.
SelectReturnsContinue ==
    /\ loop = "select"
    /\ pipe \/ (tv # NULL /\ tv <= clock)
    /\ loop' = IF pipe THEN "ready" ELSE "calc"
    /\ UNCHANGED <<clock, timer_list, pending_list, nextId, tv, wakeFd, pipe, caller, fired>>

\* select() returns: the pipe is readable, or the timeout has passed.
SelectReturns ==
    /\ loop = "select"
    /\ pipe \/ (tv # NULL /\ tv <= clock)
    /\ loop' = IF pipe THEN "ready" ELSE "timeouts"
    /\ UNCHANGED <<clock, timer_list, pending_list, nextId, tv, wakeFd, pipe, caller, fired>>

\* What processTimeouts takes off: the timers before the first that is not past.
Expired == SubSeq(timer_list, 1, Passed(timer_list, clock))

\* processTimeouts, and processReadReadies when select() said the pipe is readable.
ProcessTimeouts ==
    /\ loop \in {"timeouts", "ready"}
    /\ pending_list' = pending_list \o Expired
                         \o (IF loop = "ready" THEN <<WAKEUP>> ELSE <<>>)
    /\ timer_list' = SubSeq(timer_list, Len(Expired) + 1, Len(timer_list))
    /\ loop' = "fire"
    /\ UNCHANGED <<clock, nextId, tv, wakeFd, pipe, caller, fired>>

\* firePending: userTimerCallback hands the timer over to a proxy thread of
\* librilmtk.  RILChannelId is an unsigned type, so its test cid >= RIL_URC holds
\* of every timer and no callback runs on the loop itself.
FireTimer ==
    /\ loop = "fire" /\ pending_list # <<>> /\ Head(pending_list) # WAKEUP
    /\ pending_list' = Tail(pending_list)
    /\ fired' = fired \cup {Head(pending_list).id}
    /\ UNCHANGED <<clock, timer_list, nextId, loop, tv, wakeFd, pipe, caller>>

\* firePending: processWakeupCallback empties the pipe.
FireWakeup ==
    /\ loop = "fire" /\ pending_list # <<>> /\ Head(pending_list) = WAKEUP
    /\ pending_list' = Tail(pending_list)
    /\ pipe' = FALSE
    /\ UNCHANGED <<clock, timer_list, nextId, loop, tv, wakeFd, caller, fired>>

FireDone ==
    /\ loop = "fire" /\ pending_list = <<>>
    /\ loop' = "calc"
    /\ UNCHANGED <<clock, timer_list, pending_list, nextId, tv, wakeFd, pipe, caller, fired>>

Tick ==
    /\ clock < MaxTime
    /\ clock' = clock + 1
    /\ UNCHANGED <<timer_list, pending_list, nextId, loop, tv, wakeFd, pipe, caller, fired>>

LoopNext ==
    \/ MakePipe \/ CalcNextTimeout \/ SelectReturns \/ ProcessTimeouts
    \/ FireTimer \/ FireWakeup \/ FireDone

Next ==
    \/ LoopNext \/ Tick
    \/ \E t \in Thread : TriggerEvLoop(t) \/ \E d \in Delays : RequestTimedCallback(t, d)

Spec == Init /\ [][Next]_vars

\* Every thread that can run does, and time passes.
FairSpec ==
    /\ Spec
    /\ WF_vars(LoopNext) /\ WF_vars(Tick)
    /\ \A t \in Thread : WF_vars(TriggerEvLoop(t))

-----------------------------------------------------------------------------
(* Properties.                                                             *)

Listed == {timer_list[i] : i \in DOMAIN timer_list}
PendingTimers == {pending_list[i] : i \in DOMAIN pending_list} \ {WAKEUP}

\* The loop never sleeps past a timer: while it is in select() with a timeout
\* later than a listed timer, a byte is in the pipe or the thread that added
\* the timer is about to write one.  Neither the unlocked calcNextTimeout, nor
\* the byte written before the pipe exists, nor the byte that processWakeupCallback
\* drains on behalf of several callers loses a wake-up.
NoLostWakeup ==
    loop = "select" =>
        \A e \in Listed :
            \/ tv # NULL /\ (tv <= e.timeout \/ tv <= clock)
            \/ pipe
            \/ \E t \in Thread : caller[t] = "trigger"

\* Every timer is handed over (if the horizon leaves the time).
EveryTimerFires ==
    \A id \in 1..MaxTimers :
        (\E e \in Listed : e.id = id /\ e.timeout < MaxTime) ~> id \in fired

=============================================================================
