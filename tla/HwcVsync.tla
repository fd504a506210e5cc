------------------------------ MODULE HwcVsync ------------------------------
(***************************************************************************)
(* The life of a forge_hwc.c device: fhwc_open takes the files, the        *)
(* display session and the gralloc library and starts the vsync thread;    *)
(* eventControl and registerProcs steer it; fhwc_close stops it, waits for *)
(* it and gives everything back.  The caller (the composer service) makes  *)
(* its calls one after the other; the vsync thread runs beside them.       *)
(***************************************************************************)
EXTENDS Integers, FiniteSets

VARIABLES
    caller,     \* where the composer's thread is
    pc,         \* where the vsync thread is
    lock,       \* holder of hwc->lock: "none", "caller" or "vsync"
    signalled,  \* a waiter of hwc->cond has been woken
    vsync_on, stop,
    procs,      \* hwc->procs is set
    held,       \* what the device has taken and not given back
    wanted      \* the value of the eventControl call under way

vars == <<caller, pc, lock, signalled, vsync_on, stop, procs, held, wanted>>

Resources == {"hwc", "disp", "fb", "session", "lib", "thread"}
Files == {"disp", "fb"}

Init ==
    /\ caller = "closed" /\ pc = "none" /\ lock = "none"
    /\ signalled = FALSE /\ vsync_on = FALSE /\ stop = FALSE /\ procs = FALSE
    /\ held = {} /\ wanted = FALSE

-----------------------------------------------------------------------------
(* fhwc_open.                                                              *)

thread == <<pc, lock, signalled, vsync_on, stop, procs, wanted>>

\* calloc and the device files; without fb0 only blank() is lost.
Open ==
    /\ caller = "closed"
    /\ \/ held' = held /\ caller' = "closed"        \* no memory, no disp device
       \/ /\ \E fb \in {{}, {"fb"}} : held' = held \cup {"hwc", "disp"} \cup fb
          /\ caller' = "session"
    /\ UNCHANGED thread

\* The session, or nothing: it may be created and its information refused.  A
\* failed open closes the files; the session, and later the library, it leaves.
engine_open_session ==
    /\ caller = "session"
    /\ \/ /\ held' = held \cup {"session"}
          /\ caller' = "library"
       \/ \E created \in {{}, {"session"}} :
              /\ held' = (held \cup created) \ ({"hwc"} \cup Files)
              /\ caller' = "closed"
    /\ UNCHANGED thread

\* The gralloc library is optional; the vsync thread is not.
StartThread ==
    /\ caller = "library"
    /\ \E lib \in {{}, {"lib"}} :
           \/ /\ held' = held \cup lib \cup {"thread"}
              /\ pc' = "lock"
              /\ caller' = "open"
           \/ /\ held' = (held \cup lib) \ ({"hwc"} \cup Files)
              /\ caller' = "closed"
              /\ UNCHANGED pc
    /\ UNCHANGED <<lock, signalled, vsync_on, stop, procs, wanted>>

-----------------------------------------------------------------------------
(* The calls on an open device.                                            *)

fhwc_register_procs ==
    /\ caller = "open" /\ ~procs
    /\ procs' = TRUE
    /\ UNCHANGED <<caller, pc, lock, signalled, vsync_on, stop, held, wanted>>

\* eventControl and close begin by taking the lock.
TakeLock(to) ==
    /\ caller = "open" /\ lock = "none"
    /\ lock' = "caller"
    /\ caller' = to
    /\ UNCHANGED <<pc, signalled, vsync_on, stop, procs, held>>

EventControl == \E on \in BOOLEAN : TakeLock("event") /\ wanted' = on
Close == TakeLock("stop") /\ UNCHANGED wanted

\* pthread_cond_signal reaches the vsync thread if it waits and is lost if not.
Signal == signalled' = (pc = "wait")

fhwc_event_control ==
    /\ caller = "event"
    /\ vsync_on' = wanted
    /\ Signal
    /\ lock' = "none"
    /\ caller' = "open"
    /\ UNCHANGED <<pc, stop, procs, held, wanted>>

Stop ==
    /\ caller = "stop"
    /\ stop' = TRUE
    /\ Signal
    /\ lock' = "none"
    /\ caller' = "join"
    /\ UNCHANGED <<pc, vsync_on, procs, held, wanted>>

\* Mutant: the session and the files go before the thread has ended.
JoinEarly ==
    /\ caller = "join"
    /\ \/ /\ "session" \in held
          /\ held' = held \ ({"session"} \cup Files)
          /\ UNCHANGED <<caller, pc, vsync_on, stop, procs>>
       \/ /\ pc = "ended"
          /\ held' = {} /\ pc' = "none" /\ caller' = "closed"
          /\ vsync_on' = FALSE /\ stop' = FALSE /\ procs' = FALSE
    /\ UNCHANGED <<lock, signalled, wanted>>

\* pthread_join, then the session, the files, the library and the device go;
\* the next open starts from zeroed memory.
Join ==
    /\ caller = "join" /\ pc = "ended"
    /\ held' = {} /\ pc' = "none" /\ caller' = "closed"
    /\ vsync_on' = FALSE /\ stop' = FALSE /\ procs' = FALSE
    /\ UNCHANGED <<lock, signalled, wanted>>

-----------------------------------------------------------------------------
(* vsync_thread_fn.                                                        *)

caller_vars == <<caller, vsync_on, stop, procs, held, wanted>>

Lock ==
    /\ pc = "lock" /\ lock = "none"
    /\ lock' = "vsync"
    /\ pc' = "test"
    /\ UNCHANGED <<signalled, caller_vars>>

\* Under the lock: wait while there is nothing to do.
Test ==
    /\ pc = "test"
    /\ lock' = "none"
    /\ pc' = IF ~vsync_on /\ ~stop THEN "wait" ELSE "stop?"
    /\ signalled' = FALSE
    /\ UNCHANGED caller_vars

Wake ==
    /\ pc = "wait" /\ signalled /\ lock = "none"
    /\ lock' = "vsync"
    /\ signalled' = FALSE
    /\ pc' = "test"
    /\ UNCHANGED caller_vars

\* Mutant: a device with vsync on does not look at stop.
StopOrGoOnBusy ==
    /\ pc = "stop?"
    /\ pc' = IF stop /\ ~vsync_on THEN "ended" ELSE "ioctl"
    /\ UNCHANGED <<lock, signalled, caller_vars>>

\* stop is read after the unlock.
StopOrGoOn ==
    /\ pc = "stop?"
    /\ pc' = IF stop THEN "ended" ELSE "ioctl"
    /\ UNCHANGED <<lock, signalled, caller_vars>>

\* WAIT_FOR_VSYNC fails, or its time stamp did not advance: sleep and go round;
\* or there is news, and procs are called if vsync is still on.
WaitForVsync ==
    /\ pc = "ioctl"
    /\ pc' \in {"lock", "news"}
    /\ UNCHANGED <<lock, signalled, caller_vars>>

Report ==
    /\ pc = "news"
    /\ pc' = IF vsync_on /\ procs THEN "vsync" ELSE "lock"
    /\ UNCHANGED <<lock, signalled, caller_vars>>

\* The callback returns.
Reported ==
    /\ pc = "vsync"
    /\ pc' = "lock"
    /\ UNCHANGED <<lock, signalled, caller_vars>>

VsyncThread == Lock \/ Test \/ Wake \/ StopOrGoOn \/ WaitForVsync \/ Report \/ Reported

Next ==
    \/ Open \/ engine_open_session \/ StartThread
    \/ fhwc_register_procs \/ EventControl \/ Close
    \/ fhwc_event_control \/ Stop \/ Join
    \/ VsyncThread

\* Both threads are scheduled; the kernel returns from WAIT_FOR_VSYNC and the
\* callback returns.  The mutex is not fair, but close holds it once only.
Fairness ==
    /\ WF_vars(VsyncThread)
    /\ WF_vars(fhwc_event_control \/ Stop \/ Join)

Spec == Init /\ [][Next]_vars /\ Fairness

-----------------------------------------------------------------------------
\* The vsync thread never touches a device that has been given back: while it
\* runs the memory and the display file are there, and the session until it is
\* past its last ioctl.  A closed device holds no file.
ThreadHasDevice ==
    /\ pc \notin {"none", "ended"} => {"hwc", "disp", "session"} \subseteq held
    /\ caller = "closed" => held \cap (Files \cup {"hwc", "thread"}) = {}

\* A close that has stopped the thread returns: the thread is woken wherever
\* it waits, and leaves at its next look at stop.
CloseReturns == (caller = "join") ~> (caller = "closed")

=============================================================================
