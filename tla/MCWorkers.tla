----------------------------- MODULE MCWorkers ------------------------------
(***************************************************************************)
(* The threads that must keep running, each beside its callers and one at  *)
(* a time: the RIL event loop, the thermal poller and the composer's vsync *)
(* thread.  They share nothing, so a behaviour is one of the component     *)
(* which names; the others stay in their initial state.                    *)
(***************************************************************************)
EXTENDS Thermal

CONSTANTS
    Thread, Delays, MaxTimers, MaxTime             \* of RilEvent

VARIABLES which,
    clock, timer_list, pending_list, nextId, loop, tv, wakeFd, pipe, asking, fired,
    caller, pc, lock, signalled, vsync_on, stop, procs, held, wanted

Event == INSTANCE RilEvent WITH caller <- asking
Vsync == INSTANCE HwcVsync

ASSUME WorkerConstants == Event!EventConstants

\* A zone without a sensor, and thresholds of both sensors.
Readings == {-127, 45, 100}

eventVars == <<clock, timer_list, pending_list, nextId, loop, tv, wakeFd, pipe, asking, fired>>
vsyncVars == <<caller, pc, lock, signalled, vsync_on, stop, procs, held, wanted>>
all == <<which, vars, eventVars, vsyncVars>>

\* The sensors are found after the start, as hot as each other; in a behaviour of
\* another component they are cool.
WorkersInit ==
    /\ which \in {"event", "thermal", "vsync"}
    /\ Init /\ Event!Init /\ Vsync!Init
    /\ zone = {}
    /\ \E t \in {45, 100} :
           (which # "thermal" => t = 45) /\ \A s \in Sensor : temp[s] = t

WorkersNext ==
    /\ UNCHANGED which
    /\ \/ which = "thermal" /\ Next /\ UNCHANGED <<eventVars, vsyncVars>>
       \/ which = "event" /\ Event!Next /\ UNCHANGED <<vars, vsyncVars>>
       \/ which = "vsync" /\ Vsync!Next /\ UNCHANGED <<vars, eventVars>>

\* The fairness of the components, each for its own behaviours.
Workers ==
    /\ WorkersInit /\ [][WorkersNext]_all
    /\ WF_vars(which = "thermal" /\ PollerNext)
    /\ WF_eventVars(which = "event" /\ Event!LoopNext) /\ WF_eventVars(which = "event" /\ Event!Tick)
    /\ \A t \in Thread : WF_eventVars(which = "event" /\ Event!TriggerEvLoop(t))
    /\ WF_vsyncVars(which = "vsync" /\ Vsync!VsyncThread)
    /\ WF_vsyncVars(which = "vsync" /\ (Vsync!fhwc_event_control \/ Vsync!Stop \/ Vsync!Join))

-----------------------------------------------------------------------------
(* The properties of the instances; Thermal's own are ClientsInStep and    *)
(* SeverityCatchesUp.                                                      *)

\* The event loop never sleeps past a timer.
NoLostWakeup == Event!NoLostWakeup

\* A timed callback that was asked for is called.
EveryTimerFires == Event!EveryTimerFires

\* The vsync thread never touches a device that has been given back.
ThreadHasDevice == Vsync!ThreadHasDevice

\* A close that has stopped the vsync thread returns.
CloseReturns == Vsync!CloseReturns

=============================================================================
