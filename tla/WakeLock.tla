------------------------------ MODULE WakeLock ------------------------------
(***************************************************************************)
(* libril's partial wake lock (ril.cpp).  A response or indication the     *)
(* framework has to acknowledge takes the lock, the acknowledgement gives  *)
(* it back, and a timer (TIMEVAL_WAKE_TIMEOUT) gives it back when none     *)
(* comes.  Vendor libraries from RIL version 13 on use a count under       *)
(* s_wakeLockCountMutex; older ones take the lock and arm the timer after  *)
(* the indication has been delivered, without a mutex.                     *)
(*                                                                         *)
(* A timer is its UserCallbackInfo, named by its address.  The event loop  *)
(* hands a due one to librilmtk, which runs the callback on a thread of    *)
(* its own and frees the structure; s_last_wake_timeout_info keeps the     *)
(* address.                                                                *)
(***************************************************************************)
EXTENDS Integers, FiniteSets

CONSTANTS
    Info,       \* addresses calloc() may return for a UserCallbackInfo
    Thread,     \* vendor threads that deliver responses and indications
    Versions,   \* whether version >= 13, for the vendor libraries considered
    Reuse,      \* whether calloc() may return an address that was freed
    AllocFails, \* whether calloc() may fail
    NULL

ASSUME WakeConstants ==
    /\ Versions \subseteq BOOLEAN /\ Reuse \in BOOLEAN /\ AllocFails \in BOOLEAN
    /\ NULL \notin Info

VARIABLES
    version13,                \* s_callbacksSocket.version >= 13
    held,                     \* the kernel's wake lock is held
    s_wakelock_count,
    s_last_wake_timeout_info, \* the timer armed last: an address, or NULL
    info,                     \* info[i]: "new", "armed", "handed", "param0" or "freed"
    userParam,                \* userParam[i] = 1: the timer has been cancelled
    arming                    \* arming[t]: what thread t is arming (version < 13)

wakeVars == <<version13, held, s_wakelock_count, s_last_wake_timeout_info, info, userParam,
              arming>>

WakeTypeOK ==
    /\ version13 \in Versions
    /\ held \in BOOLEAN
    /\ s_wakelock_count \in 0..Cardinality(Info)
    /\ s_last_wake_timeout_info \in Info \cup {NULL}
    /\ info \in [Info -> {"new", "armed", "handed", "param0", "freed"}]
    /\ userParam \in [Info -> 0..1]
    /\ arming \in [Thread -> Info \cup {"idle", "response", NULL}]

WakeInit ==
    /\ version13 \in Versions
    /\ held = FALSE
    /\ s_wakelock_count = 0
    /\ s_last_wake_timeout_info = NULL
    /\ info = [i \in Info |-> "new"]
    /\ userParam = [i \in Info |-> 0]
    /\ arming = [t \in Thread |-> "idle"]

-----------------------------------------------------------------------------

\* What calloc() may return.
Allocatable == {i \in Info : info[i] = "new" \/ (Reuse /\ info[i] = "freed")}

\* internalRequestTimedCallback(wakeTimeoutCallback, NULL, TIMEVAL_WAKE_TIMEOUT, -1)
Arm(i) == info' = [info EXCEPT ![i] = "armed"]

\* s_last_wake_timeout_info->userParam = (void *)1, once the fresh timer i (if any)
\* has been set up.  Through a stale pointer this writes to memory that has been
\* freed, or given out again.
CancelLast(i) ==
    userParam' = [j \in Info |-> CASE j = s_last_wake_timeout_info -> 1
                                   [] j = i /\ j # s_last_wake_timeout_info -> 0
                                   [] OTHER -> userParam[j]]

\* grabPartialWakeLock.
GrabPartialWakeLock(t) ==
    /\ version13 /\ arming[t] = "idle"
    /\ \/ \E i \in Allocatable :
              /\ Arm(i)
              /\ CancelLast(i)
              /\ s_last_wake_timeout_info' = i
              /\ held' = TRUE
              /\ s_wakelock_count' = s_wakelock_count + 1
       \/ /\ AllocFails
          /\ held' = FALSE
          /\ UNCHANGED <<s_wakelock_count, s_last_wake_timeout_info, info, userParam>>
    /\ UNCHANGED <<version13, arming>>

\* send_unsolResponse before version 13: take the lock and deliver the indication ...
OldGrab(t) ==
    /\ ~version13 /\ arming[t] = "idle" /\ Allocatable # {}
    /\ held' = TRUE
    /\ arming' = [arming EXCEPT ![t] = "response"]
    /\ UNCHANGED <<version13, s_wakelock_count, s_last_wake_timeout_info, info, userParam>>

\* ... arm a timer (or give the lock back at once) and cancel the one before ...
OldArm(t) ==
    /\ arming[t] = "response"
    /\ \/ \E i \in Allocatable :
              /\ Arm(i)
              /\ CancelLast(i)
              /\ arming' = [arming EXCEPT ![t] = i]
              /\ UNCHANGED held
       \/ /\ AllocFails
          /\ held' = FALSE
          /\ arming' = [arming EXCEPT ![t] = "idle"]
          /\ UNCHANGED <<info, userParam>>
    /\ UNCHANGED <<version13, s_wakelock_count, s_last_wake_timeout_info>>

\* ... and remember it.
OldRemember(t) ==
    /\ arming[t] \in Info
    /\ s_last_wake_timeout_info' = arming[t]
    /\ arming' = [arming EXCEPT ![t] = "idle"]
    /\ UNCHANGED <<version13, held, s_wakelock_count, info, userParam>>

\* releaseWakeLock: responseAcknowledgement() from the framework.
ReleaseWakeLock ==
    /\ IF version13 /\ s_wakelock_count > 1
       THEN s_wakelock_count' = s_wakelock_count - 1 /\ UNCHANGED <<held, userParam>>
       ELSE IF version13
       THEN /\ s_wakelock_count' = 0
            /\ held' = FALSE
            /\ CancelLast(NULL)
       ELSE held' = FALSE /\ UNCHANGED <<s_wakelock_count, userParam>>
    /\ UNCHANGED <<version13, s_last_wake_timeout_info, info, arming>>

-----------------------------------------------------------------------------
(* The timer.                                                              *)

\* The event loop: userTimerCallback hands it to librilmtk (every channel id is
\* >= RIL_URC, the type being unsigned).
UserTimerCallback(i) ==
    /\ info[i] = "armed"
    /\ info' = [info EXCEPT ![i] = "handed"]
    /\ UNCHANGED <<version13, held, s_wakelock_count, s_last_wake_timeout_info, userParam, arming>>

\* librilmtk calls p_callback(userParam), which returns at once if cancelled.
RunCallback(i) ==
    /\ info[i] = "handed"
    /\ info' = [info EXCEPT ![i] = IF userParam[i] = 0 THEN "param0" ELSE "freed"]
    /\ UNCHANGED <<version13, held, s_wakelock_count, s_last_wake_timeout_info, userParam, arming>>

\* Mutant: while the lock is held the timer is armed again.
WakeTimeoutCallbackRearm(i) ==
    /\ info[i] = "param0"
    /\ info' = [info EXCEPT ![i] = IF held THEN "armed" ELSE "freed"]
    /\ UNCHANGED <<version13, held, s_wakelock_count, s_last_wake_timeout_info, userParam, arming>>

\* wakeTimeoutCallback with param == NULL: give the lock back, whatever the count.
WakeTimeoutCallback(i) ==
    /\ info[i] = "param0"
    /\ info' = [info EXCEPT ![i] = "freed"]
    /\ held' = FALSE
    /\ s_wakelock_count' = IF version13 THEN 0 ELSE s_wakelock_count
    /\ UNCHANGED <<version13, s_last_wake_timeout_info, userParam, arming>>

GrabSteps == \E t \in Thread : GrabPartialWakeLock(t) \/ OldGrab(t)
ArmSteps == \E t \in Thread : OldArm(t) \/ OldRemember(t)
TimerSteps == \E i \in Info : \/ UserTimerCallback(i) \/ RunCallback(i)
                              \/ WakeTimeoutCallback(i)

WakeNext == GrabSteps \/ ArmSteps \/ ReleaseWakeLock \/ TimerSteps

WakeSpec == WakeInit /\ [][WakeNext]_wakeVars

\* A thread that took the lock goes on to arm the timer, and due timers run (the
\* event loop and librilmtk's threads never stop); acknowledgements need not come.
WakeFairSpec == WakeSpec /\ WF_wakeVars(ArmSteps) /\ WF_wakeVars(TimerSteps)

-----------------------------------------------------------------------------
(* Properties.                                                             *)

\* The timer that will give the lock back: armed or on its way, and not cancelled.
Live(i) == \/ info[i] = "param0"
           \/ info[i] \in {"armed", "handed"} /\ userParam[i] = 0

\* "as we exit we'll either release it immediately or set a timer to release it
\* later" (send_unsolResponse): whoever holds the lock, a live timer will give it
\* back, even after any number of grabs, acknowledgements and cancellations.
HeldHasTimer ==
    held => (\E i \in Info : Live(i)) \/ \E t \in Thread : arming[t] = "response"

\* The lock does not stay: without further indications the device can sleep
\* ("Timer callback to put us back to sleep before the default timeout").
EventuallyReleased == held ~> ~held

=============================================================================
