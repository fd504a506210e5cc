----------------------------- MODULE WorkerProofs ----------------------------
(***************************************************************************)
(* Theorems about the threads of MCWorkers, for every set of sensors,      *)
(* clients and calling threads and every bound: the thermal poller, the    *)
(* RIL event loop and the composer's vsync thread.                         *)
(***************************************************************************)
EXTENDS MCWorkers, Sequences, WellFoundedInduction, TLAPS

\* A leaf is tried with Zenon first: most need no arithmetic.  The second round
\* is for slow machines.
USE ZenonT(5), SMTT(30), ZenonT(60), SMTT(90)

-----------------------------------------------------------------------------
(* The thermal poller.                                                     *)

\* What a client that missed nothing knows of a sensor it wants, or is about to be
\* told; of the others it knows nothing, and what is still said to it on behalf of
\* an earlier registration is NONE as well.
InStep(cb, s) ==
    IF Wants(cb, s)
    THEN \/ told[cb.client][s] = lastSeverity[s]
         \/ \E ch \in changed : ch.sensor = s
         \/ \E n \in calls : n.client = cb.client /\ n.sensor = s
    ELSE /\ told[cb.client][s] = None
         /\ \A n \in calls : n.client = cb.client /\ n.sensor = s => n.severity = None

OneEach == \A a, b \in callbacks_ : a.client = b.client => a = b

\* What the poller has in hand is what the sensors say.
InHand ==
    /\ poller \in {"poll", "sleep"} => changed = {} /\ calls = {}
    /\ poller = "copy" => calls = {}
    /\ poller = "notify" => changed = {}
    /\ \A ch \in changed : ch.severity = lastSeverity[ch.sensor]
    /\ \A n \in calls : n.severity = lastSeverity[n.sensor]

Synced ==
    /\ synced \subseteq Registered
    /\ \A cb \in callbacks_ : cb.client \in synced => \A s \in Sensor : InStep(cb, s)

ThermalInv == TypeOK /\ OneEach /\ InHand /\ Synced

\* Among severities there is a highest.
LEMMA MaxSeverity ==
    ASSUME NEW S \in SUBSET Severity, S # {}
    PROVE  Max(S) \in S /\ \A v \in S : v <= Max(S)
<1>1. \E m \in S : \A v \in S : m >= v
  <2> SUFFICES ASSUME \A m \in S : \E v \in S : v > m PROVE FALSE
    BY DEF Severity
  <2>1. 6 \notin S
    BY DEF Severity
  <2>2. 5 \notin S
    BY <2>1 DEF Severity
  <2>3. 4 \notin S
    BY <2>1, <2>2 DEF Severity
  <2>4. 3 \notin S
    BY <2>1, <2>2, <2>3 DEF Severity
  <2>5. 2 \notin S
    BY <2>1, <2>2, <2>3, <2>4 DEF Severity
  <2>6. 1 \notin S
    BY <2>1, <2>2, <2>3, <2>4, <2>5 DEF Severity
  <2>7. \A v \in S : v = 0
    BY <2>1, <2>2, <2>3, <2>4, <2>5, <2>6 DEF Severity
  <2> QED
    BY <2>7
<1>2. Max(S) \in S /\ \A v \in S : Max(S) >= v
  BY <1>1 DEF Max
<1> QED
  BY <1>2 DEF Severity

\* The thresholds of kSensors.
LEMMA Thresholds ==
    ASSUME NEW s \in Sensor, NEW h \in kSensors[s].hot
    PROVE  h[1] \in 1..6 /\ h[2] \in Int
BY ThermalConstants DEF kSensors

\* severityOf() answers the severity that the thresholds give the reading: its own
\* threshold is reached, and none of a higher severity.
THEOREM SeverityIsDeserved ==
    ASSUME NEW s \in Sensor, NEW t \in Int
    PROVE  SeverityOf(s, t) \in Severity /\ Deserves(s, t, SeverityOf(s, t))
<1> DEFINE hits == {h[1] : h \in {g \in kSensors[s].hot : t >= g[2]}}
           v == Max(hits \cup {None})
<1>1. hits \cup {None} \in SUBSET Severity
  BY Thresholds DEF Severity, None
<1>2. v \in hits \cup {None} /\ \A w \in hits \cup {None} : w <= v
  BY <1>1, MaxSeverity
<1>3. v = SeverityOf(s, t)
  BY DEF SeverityOf
<1>4. v \in Severity
  BY <1>1, <1>2
<1>5. v = None \/ \E h \in kSensors[s].hot : h[1] = v /\ h[2] <= t
  BY <1>2, Thresholds
<1>6. ASSUME NEW h \in kSensors[s].hot, h[1] > v, ~(h[2] > t)
      PROVE  FALSE
  <2>1. h[1] \in 1..6 /\ h[2] \in Int /\ t >= h[2]
    BY <1>6, Thresholds
  <2>2. h[1] \in hits
    BY <2>1
  <2>3. h[1] <= v
    BY <1>2, <2>2
  <2> HIDE DEF v
  <2> QED
    BY <1>4, <1>6, <2>1, <2>3 DEF Severity
<1> HIDE DEF v
<1> QED
  BY <1>3, <1>4, <1>5, <1>6 DEF Deserves

\* A poll puts what moved in hand.
LEMMA PollStep == ThermalInv /\ Poll => ThermalInv'
<1> SUFFICES ASSUME ThermalInv, Poll PROVE ThermalInv'
  OBVIOUS
<1>1. /\ changed = {} /\ calls = {} /\ calls' = {}
      /\ UNCHANGED <<callbacks_, told, synced, temp, zone, changes>>
  BY DEF ThermalInv, InHand, Poll
<1>2. \A s \in Sensor : temp[s] \in Int /\ SeverityOf(s, temp[s]) \in Severity
  BY SeverityIsDeserved, ThermalConstants DEF ThermalInv, TypeOK
<1>3. \A s \in Sensor : s \notin MovedSensors => lastSeverity'[s] = lastSeverity[s]
  BY DEF Poll
<1>4. lastSeverity' \in [Sensor -> Severity] /\ MovedSensors \subseteq Sensor
  BY <1>2 DEF Poll, ThermalInv, TypeOK, MovedSensors
<1>5. changed' = {[sensor |-> s, severity |-> lastSeverity'[s]] : s \in MovedSensors}
  BY DEF Poll
<1>6. /\ changed' \subseteq [sensor : Sensor, severity : Severity]
      /\ \A ch \in changed' : ch.severity = lastSeverity'[ch.sensor]
      /\ \A s \in MovedSensors : \E ch \in changed' : ch.sensor = s
  <2>1. ASSUME NEW ch \in changed'
        PROVE  \E s \in MovedSensors : ch = [sensor |-> s, severity |-> lastSeverity'[s]]
    BY <1>5
  <2>2. ASSUME NEW s \in MovedSensors
        PROVE  [sensor |-> s, severity |-> lastSeverity'[s]] \in changed'
    BY <1>5
  <2>3. ASSUME NEW s \in MovedSensors
        PROVE  [sensor |-> s, severity |-> lastSeverity'[s]] \in [sensor : Sensor, severity : Severity]
    BY <1>4
  <2>4. changed' \subseteq [sensor : Sensor, severity : Severity]
    BY <2>1, <2>3
  <2>5. \A ch \in changed' : ch.severity = lastSeverity'[ch.sensor]
    BY <2>1
  <2>6. \A s \in MovedSensors : \E ch \in changed' : ch.sensor = s
    BY <2>2
  <2> QED
    BY <2>4, <2>5, <2>6
<1>7. poller' \in {"copy", "sleep"} /\ (poller' = "sleep" => changed' = {}) /\ tempPath' = zone
  BY <1>5 DEF Poll
<1>8. TypeOK' /\ OneEach'
  BY <1>1, <1>4, <1>6, <1>7 DEF ThermalInv, TypeOK, OneEach
<1>9. InHand'
  BY <1>1, <1>6, <1>7 DEF InHand
<1>10. ASSUME NEW cb \in callbacks_, cb.client \in synced, NEW s \in Sensor
       PROVE  InStep(cb, s)'
  <2>1. InStep(cb, s)
    BY <1>10 DEF ThermalInv, Synced
  <2>2. Wants(cb, s)' <=> Wants(cb, s)
    BY DEF Wants
  <2> QED
    BY <1>1, <1>3, <1>6, <2>1, <2>2 DEF InStep
<1>11. Synced'
  BY <1>1, <1>10 DEF ThermalInv, Synced, Registered
<1> QED
  BY <1>8, <1>9, <1>11 DEF ThermalInv

\* Copying the callbacks turns what changed into calls to those who want it.
LEMMA CopyStep == ThermalInv /\ CopyCallbacks => ThermalInv'
<1> SUFFICES ASSUME ThermalInv, CopyCallbacks PROVE ThermalInv'
  OBVIOUS
<1>1. /\ changed' = {} /\ calls = {} /\ poller' = "notify" /\ UNCHANGED sensors
      /\ UNCHANGED <<callbacks_, told, synced>>
  BY DEF ThermalInv, InHand, CopyCallbacks
<1>2. /\ callbacks_ \subseteq [client : Client, type : Filter]
      /\ changed \subseteq [sensor : Sensor, severity : Severity]
  BY DEF ThermalInv, TypeOK
<1>3. ASSUME NEW n \in calls'
      PROVE  \E cb \in callbacks_, ch \in changed :
                 /\ Wants(cb, ch.sensor)
                 /\ n = [client |-> cb.client, sensor |-> ch.sensor, severity |-> ch.severity]
  <2>1. PICK p \in callbacks_ \X changed :
            /\ Wants(p[1], p[2].sensor)
            /\ n = [client |-> p[1].client, sensor |-> p[2].sensor, severity |-> p[2].severity]
    BY DEF CopyCallbacks, CallsFor
  <2>2. p[1] \in callbacks_ /\ p[2] \in changed
    OBVIOUS
  <2> QED
    BY <2>1, <2>2
<1>4. ASSUME NEW cb \in callbacks_, NEW ch \in changed, Wants(cb, ch.sensor)
      PROVE  [client |-> cb.client, sensor |-> ch.sensor, severity |-> ch.severity] \in calls'
  <2> DEFINE p == <<cb, ch>>
  <2>1. p \in callbacks_ \X changed /\ p[1] = cb /\ p[2] = ch
    OBVIOUS
  <2> HIDE DEF p
  <2> QED
    BY <1>4, <2>1 DEF CopyCallbacks, CallsFor
<1>5. calls' \subseteq [client : Client, sensor : Sensor, severity : Severity]
  BY <1>2, <1>3
<1>6. TypeOK' /\ OneEach'
  BY <1>1, <1>5 DEF ThermalInv, TypeOK, OneEach, sensors
<1>7. \A n \in calls' : n.severity = lastSeverity[n.sensor]
  BY <1>3 DEF ThermalInv, InHand
<1>8. InHand'
  BY <1>1, <1>7 DEF InHand, sensors
<1>9. ASSUME NEW cb \in callbacks_, cb.client \in synced, NEW s \in Sensor
      PROVE  InStep(cb, s)'
  <2>1. InStep(cb, s) /\ lastSeverity' = lastSeverity
    BY <1>1, <1>9 DEF ThermalInv, Synced, sensors
  <2>2. Wants(cb, s)' <=> Wants(cb, s)
    BY DEF Wants
  <2>3. CASE Wants(cb, s)
    <3>1. ASSUME NEW ch \in changed, ch.sensor = s
          PROVE  \E n \in calls' : n.client = cb.client /\ n.sensor = s
      BY <1>4, <2>3, <3>1
    <3> QED
      BY <1>1, <2>1, <2>2, <2>3, <3>1 DEF InStep
  <2>4. CASE ~Wants(cb, s)
    <3>1. ASSUME NEW n \in calls', n.client = cb.client, n.sensor = s
          PROVE  FALSE
      <4>1. PICK c \in callbacks_, ch \in changed :
                /\ Wants(c, ch.sensor)
                /\ n = [client |-> c.client, sensor |-> ch.sensor, severity |-> ch.severity]
        BY <1>3
      <4>2. c.client = cb.client /\ ch.sensor = s
        BY <3>1, <4>1
      <4>3. c = cb
        BY <4>2 DEF ThermalInv, OneEach
      <4> QED
        BY <2>4, <4>1, <4>2, <4>3
    <3> QED
      BY <1>1, <2>1, <2>2, <2>4, <3>1 DEF InStep
  <2> QED
    BY <2>3, <2>4
<1>10. Synced'
  BY <1>1, <1>9 DEF ThermalInv, Synced, Registered
<1> QED
  BY <1>6, <1>8, <1>10 DEF ThermalInv

\* A call tells its client what the sensor has, or takes it off the clients that
\* missed nothing.
LEMMA NotifyStep ==
    ASSUME ThermalInv, NEW n \in calls, Notify(n)
    PROVE  ThermalInv'
<1>1. /\ poller = "notify" /\ changed = {} /\ calls' = calls \ {n}
      /\ UNCHANGED <<poller, changed, callbacks_>> /\ UNCHANGED sensors
  BY DEF ThermalInv, InHand, Notify
<1>2. /\ n \in [client : Client, sensor : Sensor, severity : Severity]
      /\ n.severity = lastSeverity[n.sensor]
      /\ told \in [Client -> [Sensor -> Severity]]
  BY DEF ThermalInv, TypeOK, InHand
<1>3. \/ told' = [told EXCEPT ![n.client][n.sensor] = n.severity] /\ synced' = synced
      \/ synced' = synced \ {n.client} /\ told' = told
  BY DEF Notify
<1>4. told' \in [Client -> [Sensor -> Severity]]
  BY <1>2, <1>3
<1>5. synced' \subseteq synced
  BY <1>3
<1>6. TypeOK' /\ OneEach'
  BY <1>1, <1>4, <1>5 DEF ThermalInv, TypeOK, OneEach, sensors
<1>7. InHand'
  BY <1>1 DEF ThermalInv, InHand, sensors
<1>8. ASSUME NEW cb \in callbacks_, cb.client \in synced', NEW s \in Sensor
      PROVE  InStep(cb, s)'
  <2>1. InStep(cb, s) /\ lastSeverity' = lastSeverity /\ changed' = {}
    BY <1>1, <1>5, <1>8 DEF ThermalInv, Synced, sensors
  <2>2. cb.client \in Client
    BY DEF ThermalInv, TypeOK
  <2>3. Wants(cb, s)' <=> Wants(cb, s)
    BY DEF Wants
  <2>4. CASE n.client = cb.client /\ n.sensor = s
    <3>1. told'[cb.client][s] = n.severity
      BY <1>2, <1>3, <1>8, <2>2, <2>4
    <3> QED
      BY <1>1, <1>2, <2>1, <2>3, <2>4, <3>1 DEF InStep
  <2>5. CASE ~(n.client = cb.client /\ n.sensor = s)
    <3>1. told'[cb.client][s] = told[cb.client][s]
      BY <1>2, <1>3, <2>2, <2>5
    <3>2. \A m \in calls : m.client = cb.client /\ m.sensor = s => m \in calls'
      BY <1>1, <2>5
    <3> QED
      BY <1>1, <2>1, <2>3, <3>1, <3>2 DEF InStep
  <2> QED
    BY <2>4, <2>5
<1>9. Synced'
  BY <1>1, <1>5, <1>8 DEF ThermalInv, Synced, Registered
<1> QED
  BY <1>6, <1>7, <1>9 DEF ThermalInv

\* A client that registers has missed nothing if no sensor is above NONE.
LEMMA RegisterStep ==
    ASSUME ThermalInv, NEW c \in Client, NEW type \in Filter, Register(c, type)
    PROVE  ThermalInv'
<1> DEFINE new == [client |-> c, type |-> type]
<1>1. /\ UNCHANGED sensors /\ UNCHANGED <<poller, changed, calls>>
      /\ callbacks_' = callbacks_ \cup {new} /\ \A cb \in callbacks_ : cb.client # c
      /\ told' = [told EXCEPT ![c] = [s \in Sensor |-> None]]
  BY DEF Register, Registered
<1>2. /\ synced' \subseteq synced \cup {c}
      /\ c \in synced' => c \in synced \/ \A s \in Sensor : lastSeverity[s] = None
  BY DEF Register
<1>3. new \in [client : Client, type : Filter] /\ new.client = c
  OBVIOUS
<1>4. told \in [Client -> [Sensor -> Severity]] /\ c \notin synced
  BY <1>1 DEF ThermalInv, TypeOK, Synced, Registered
<1> HIDE DEF new
<1>5. told' \in [Client -> [Sensor -> Severity]]
  <2>1. [s \in Sensor |-> None] \in [Sensor -> Severity]
    BY DEF None, Severity
  <2> QED
    BY <1>1, <1>4, <2>1
<1>6. TypeOK'
  BY <1>1, <1>2, <1>3, <1>5 DEF ThermalInv, TypeOK, sensors
<1>7. OneEach'
  BY <1>1, <1>3 DEF ThermalInv, OneEach
<1>8. InHand'
  BY <1>1 DEF ThermalInv, InHand, sensors
<1>9. ASSUME NEW cb \in callbacks_', cb.client \in synced', NEW s \in Sensor
      PROVE  InStep(cb, s)'
  <2>1. lastSeverity' = lastSeverity /\ (Wants(cb, s)' <=> Wants(cb, s))
    BY <1>1 DEF sensors, Wants
  <2>2. CASE cb = new
    <3>1. told'[cb.client][s] = None /\ lastSeverity[s] = None
      BY <1>1, <1>2, <1>3, <1>4, <1>9, <2>2
    <3>2. \A n \in calls' : n.sensor = s => n.severity = None
      BY <1>1, <3>1 DEF ThermalInv, InHand
    <3> QED
      BY <2>1, <3>1, <3>2 DEF InStep
  <2>3. CASE cb \in callbacks_
    <3>1. cb.client # c /\ cb.client \in Client
      BY <1>1, <2>3 DEF ThermalInv, TypeOK
    <3>2. told'[cb.client][s] = told[cb.client][s]
      BY <1>1, <1>4, <3>1
    <3>3. InStep(cb, s)
      BY <1>2, <1>9, <2>3, <3>1 DEF ThermalInv, Synced
    <3> QED
      BY <1>1, <2>1, <3>2, <3>3 DEF InStep
  <2> QED
    BY <1>1, <2>2, <2>3
<1>10. synced' \subseteq Registered'
  BY <1>1, <1>2, <1>3 DEF ThermalInv, Synced, Registered
<1> QED
  BY <1>6, <1>7, <1>8, <1>9, <1>10 DEF ThermalInv, Synced

\* The sensors, the sleep and a client that leaves.
LEMMA QuietThermalStep ==
    ASSUME ThermalInv,
           \/ Sleep \/ WakeUp \/ UNCHANGED vars
           \/ \E s \in Sensor : ZoneAppears(s) \/ \E t \in Temperature : TemperatureMoves(s, t)
           \/ \E c \in Client : Unregister(c)
    PROVE  ThermalInv'
<1>1. /\ UNCHANGED <<lastSeverity, changed, calls, told>>
      /\ callbacks_' \subseteq callbacks_ /\ synced' \subseteq synced
      /\ poller' = poller \/ (poller = "notify" /\ calls = {} /\ poller' = "sleep")
                         \/ (poller = "sleep" /\ poller' = "poll")
  BY DEF Sleep, WakeUp, vars, ZoneAppears, TemperatureMoves, Unregister, sensors
<1>2. /\ temp' \in [Sensor -> Temperature] /\ zone' \subseteq Sensor /\ tempPath' \subseteq zone'
      /\ changes' \in 0..MaxChanges
  BY ThermalConstants
     DEF Sleep, WakeUp, vars, ZoneAppears, TemperatureMoves, Unregister, sensors, ThermalInv, TypeOK
<1>3. \A cb \in callbacks_ : cb.client \in synced' => cb \in callbacks_'
  BY DEF Sleep, WakeUp, vars, ZoneAppears, TemperatureMoves, Unregister, sensors
<1>4. TypeOK' /\ OneEach'
  BY <1>1, <1>2 DEF ThermalInv, TypeOK, OneEach
<1>5. InHand'
  BY <1>1 DEF ThermalInv, InHand
<1>6. Synced'
  BY <1>1, <1>3 DEF ThermalInv, Synced, InStep, Registered, Wants
<1> QED
  BY <1>4, <1>5, <1>6 DEF ThermalInv

\* Whatever the sensors, the clients and the failing calls do, a client that missed
\* nothing is in step whenever the poller sleeps.
THEOREM ClientsKeptInStep == Workers => []ClientsInStep
<1>1. WorkersInit => ThermalInv
  BY ThermalConstants
     DEF WorkersInit, Init, ThermalInv, TypeOK, OneEach, InHand, Synced, Registered, None, Severity
<1>2. ThermalInv /\ [WorkersNext]_all => ThermalInv'
  <2> SUFFICES ASSUME ThermalInv, [WorkersNext]_all PROVE ThermalInv'
    OBVIOUS
  <2>1. Next \/ UNCHANGED vars
    BY DEF WorkersNext, all
  <2> QED
    BY <2>1, PollStep, CopyStep, NotifyStep, RegisterStep, QuietThermalStep DEF Next, PollerNext
<1>3. ThermalInv => ClientsInStep
  BY DEF ThermalInv, TypeOK, InHand, Synced, InStep, Wants, ClientsInStep
<1> QED
  BY <1>1, <1>2, <1>3, PTL DEF Workers

-----------------------------------------------------------------------------
(* The vsync thread.                                                       *)

\* The thread exists on an open device only, whose files and session are held.
VsyncInv ==
    /\ caller \in {"closed", "session", "library", "open", "event", "stop", "join"}
    /\ caller \in {"closed", "session", "library"} => pc = "none"
    /\ caller \notin {"closed", "session", "library"} => {"hwc", "disp", "session"} \subseteq held
    /\ caller = "closed" => held \cap (Vsync!Files \cup {"hwc", "thread"}) = {}
    /\ caller \in {"session", "library"} => {"hwc", "disp"} \subseteq held /\ "thread" \notin held
    /\ caller = "library" => "session" \in held

\* A step of the device or of its thread keeps what the thread relies on.
LEMMA VsyncStep == VsyncInv /\ [Vsync!Next]_vsyncVars => VsyncInv'
<1> SUFFICES ASSUME VsyncInv, [Vsync!Next]_vsyncVars PROVE VsyncInv'
  OBVIOUS
<1> USE DEF VsyncInv, Vsync!Files
<1>1. CASE Vsync!Open
  BY <1>1 DEF Vsync!Open, Vsync!thread
<1>2. CASE Vsync!engine_open_session
  BY <1>2 DEF Vsync!engine_open_session, Vsync!thread
<1>3. CASE Vsync!StartThread
  BY <1>3 DEF Vsync!StartThread
<1>4. CASE Vsync!fhwc_register_procs
  BY <1>4 DEF Vsync!fhwc_register_procs
<1>5. CASE Vsync!EventControl \/ Vsync!Close
  BY <1>5 DEF Vsync!EventControl, Vsync!Close, Vsync!TakeLock
<1>6. CASE Vsync!fhwc_event_control \/ Vsync!Stop
  BY <1>6 DEF Vsync!fhwc_event_control, Vsync!Stop
<1>7. CASE Vsync!Join
  BY <1>7 DEF Vsync!Join
<1>8. CASE Vsync!VsyncThread
  BY <1>8 DEF Vsync!VsyncThread, Vsync!Lock, Vsync!Test, Vsync!Wake, Vsync!StopOrGoOn,
              Vsync!WaitForVsync, Vsync!Report, Vsync!Reported, Vsync!caller_vars
<1>9. CASE UNCHANGED vsyncVars
  BY <1>9 DEF vsyncVars
<1> QED
  BY <1>1, <1>2, <1>3, <1>4, <1>5, <1>6, <1>7, <1>8, <1>9 DEF Vsync!Next

\* However the composer opens and closes the device and wherever an open fails, the
\* vsync thread has the memory, the display file and the session it uses.
THEOREM ThreadKeepsDevice == Workers => []ThreadHasDevice
<1>1. WorkersInit => VsyncInv
  BY DEF WorkersInit, Vsync!Init, VsyncInv
<1>2. VsyncInv /\ [WorkersNext]_all => VsyncInv'
  <2> SUFFICES ASSUME [WorkersNext]_all PROVE [Vsync!Next]_vsyncVars
    BY VsyncStep
  <2> QED
    BY DEF WorkersNext, all, vsyncVars
<1>3. VsyncInv => ThreadHasDevice
  BY DEF VsyncInv, ThreadHasDevice, Vsync!ThreadHasDevice
<1> QED
  BY <1>1, <1>2, <1>3, PTL DEF Workers

-----------------------------------------------------------------------------
(* The event loop.                                                         *)

\* The list is sorted: ril_timer_add keeps it so and calcNextTimeout relies on it.
Sorted(list) == \A i, j \in 1..Len(list) : i < j => list[i].timeout <= list[j].timeout

\* A timer with this id is listed, waits to be fired or has been handed over.
Known(id) ==
    \/ id \in fired
    \/ \E i \in 1..Len(timer_list) : timer_list[i].id = id
    \/ \E i \in 1..Len(pending_list) : pending_list[i].id = id

EventInv ==
    /\ Event!TypeOK
    /\ Sorted(timer_list)
    /\ loop # "started" => wakeFd
    /\ NoLostWakeup
    /\ \A id \in 1..(nextId - 1) : Known(id)

\* A timer that was asked for is in a list or has been handed over: what
\* EveryTimerFires starts from.
NoTimerLost ==
    \A id \in 1..(nextId - 1) :
        id \in fired \/ \E e \in Event!Listed \cup Event!PendingTimers : e.id = id

\* A walk from the head passes the timers that are due earlier and no other.
LEMMA PassedIs ==
    ASSUME NEW list \in Seq(Event!Timer), NEW time \in Nat
    PROVE  /\ Event!Passed(list, time) \in 0..Len(list)
           /\ \A i \in 1..Event!Passed(list, time) : list[i].timeout < time
           /\ Event!Passed(list, time) < Len(list) =>
                 list[Event!Passed(list, time) + 1].timeout >= time
<1> DEFINE S == {i \in 0..Len(list) : i = Len(list) \/ list[i + 1].timeout >= time}
           R == OpToRel(<, Nat)
<1>1. S \in SUBSET Nat /\ Len(list) \in S
  OBVIOUS
<1>2. \A x, y \in Nat : x < y => <<x, y>> \in R
  BY DEF OpToRel
<1>3. IsWellFoundedOn(R, Nat)
  BY NatLessThanWellFounded
<1> HIDE DEF R
<1>4. PICK k \in S : \A j \in S : ~(<<j, k>> \in R)
  BY <1>1, <1>3, WFMin
<1>5. \A j \in S : k <= j
  <2>1. TAKE j \in S
  <2>2. j \in Nat /\ k \in Nat /\ ~(j < k)
    BY <1>1, <1>2, <1>4
  <2> QED
    BY <2>2
<1>8. k \in 0..Len(list) /\ (k < Len(list) => list[k + 1].timeout >= time)
  OBVIOUS
<1>9. ASSUME NEW i \in 1..k PROVE list[i].timeout < time
  <2>1. i - 1 \in 0..Len(list) /\ i - 1 < k /\ i \in 1..Len(list) /\ i - 1 + 1 = i
    BY <1>8
  <2>2. ~(i - 1 \in S)
    BY <1>5, <1>8, <2>1
  <2>3. list[i] \in Event!Timer /\ list[i].timeout \in Nat
    <3>1. list[i] \in Event!Timer
      BY <2>1
    <3> QED
      BY <3>1 DEF Event!Timer
  <2>4. ~(list[i].timeout >= time)
    BY <2>1, <2>2
  <2> QED
    BY <2>3, <2>4
<1> HIDE DEF S
<1> QED
  BY <1>8, <1>9 DEF Event!Passed

\* What a concatenation holds.
LEMMA ConcatIs ==
    ASSUME NEW T, NEW a \in Seq(T), NEW b \in Seq(T)
    PROVE  /\ a \o b \in Seq(T) /\ Len(a \o b) = Len(a) + Len(b)
           /\ \A i \in 1..Len(a) : (a \o b)[i] = a[i]
           /\ \A i \in 1..Len(b) : (a \o b)[Len(a) + i] = b[i]
<1>1. a \o b \in Seq(T) /\ Len(a \o b) = Len(a) + Len(b)
  OBVIOUS
<1>2. \A i \in 1..Len(a) : (a \o b)[i] = a[i]
  OBVIOUS
<1>3. ASSUME NEW i \in 1..Len(b) PROVE (a \o b)[Len(a) + i] = b[i]
  OBVIOUS
<1> QED
  BY <1>1, <1>2, <1>3

\* The list with a timer behind the first k.
Inserted(list, k, e) == SubSeq(list, 1, k) \o <<e>> \o SubSeq(list, k + 1, Len(list))

\* What it holds.
LEMMA InsertedIs ==
    ASSUME NEW list \in Seq(Event!Timer), NEW e \in Event!Timer, NEW k \in 0..Len(list)
    PROVE  /\ Inserted(list, k, e) \in Seq(Event!Timer)
           /\ Len(Inserted(list, k, e)) = Len(list) + 1
           /\ Inserted(list, k, e)[k + 1] = e
           /\ \A i \in 1..k : Inserted(list, k, e)[i] = list[i]
           /\ \A i \in (k + 2)..(Len(list) + 1) : Inserted(list, k, e)[i] = list[i - 1]
<1> DEFINE before == SubSeq(list, 1, k)
           after == SubSeq(list, k + 1, Len(list))
           new == Inserted(list, k, e)
<1>1. before \in Seq(Event!Timer) /\ Len(before) = k /\ \A i \in 1..k : before[i] = list[i]
  OBVIOUS
<1>2. /\ after \in Seq(Event!Timer) /\ Len(after) = Len(list) - k
      /\ \A i \in 1..(Len(list) - k) : after[i] = list[k + i]
  OBVIOUS
<1>3. new = before \o <<e>> \o after
  BY DEF Inserted
<1> HIDE DEF before, after, new
<1> DEFINE lead == before \o <<e>>
<1>4. /\ lead \in Seq(Event!Timer) /\ Len(lead) = k + 1 /\ lead[k + 1] = e
      /\ \A i \in 1..k : lead[i] = list[i]
  BY <1>1
<1>5. new = lead \o after
  BY <1>3
<1> HIDE DEF lead
<1>6. new \in Seq(Event!Timer) /\ Len(new) = Len(list) + 1
  <2>1. new \in Seq(Event!Timer) /\ Len(new) = Len(lead) + Len(after)
    BY <1>2, <1>4, <1>5, ConcatIs
  <2>2. (k + 1) + (Len(list) - k) = Len(list) + 1
    OBVIOUS
  <2> QED
    BY <1>2, <1>4, <2>1, <2>2
<1>7. \A i \in 1..(k + 1) : new[i] = lead[i]
  BY <1>2, <1>4, <1>5
<1>8. ASSUME NEW i \in (k + 2)..(Len(list) + 1) PROVE new[i] = list[i - 1]
  <2>1. i - (k + 1) \in 1..(Len(list) - k) /\ k + (i - (k + 1)) = i - 1
    OBVIOUS
  <2>2. new[i] = after[i - (k + 1)]
    BY <1>2, <1>4, <1>5
  <2> QED
    BY <1>2, <2>1, <2>2
<1>9. new[k + 1] = e /\ \A i \in 1..k : new[i] = list[i]
  BY <1>4, <1>7
<1> QED
  BY <1>6, <1>8, <1>9 DEF new

\* ril_timer_add keeps the list sorted and adds its timer to it.
LEMMA InsertKeepsSorted ==
    ASSUME NEW list \in Seq(Event!Timer), NEW e \in Event!Timer, Sorted(list)
    PROVE  LET new == Event!Insert(list, e)
           IN  /\ new \in Seq(Event!Timer) /\ Sorted(new)
               /\ \E i \in 1..Len(new) : new[i] = e
               /\ \A i \in 1..Len(list) : \E j \in 1..Len(new) : new[j] = list[i]
<1> DEFINE new == Event!Insert(list, e)
           k == Event!Passed(list, e.timeout)
<1>1. e.timeout \in Nat /\ \A i \in 1..Len(list) : list[i].timeout \in Nat
  <2>1. \A t \in Event!Timer : t.timeout \in Nat
    BY DEF Event!Timer
  <2>2. \A i \in 1..Len(list) : list[i] \in Event!Timer
    OBVIOUS
  <2> QED
    BY <2>1, <2>2
<1>2. /\ k \in 0..Len(list) /\ (k < Len(list) => list[k + 1].timeout >= e.timeout)
      /\ \A i \in 1..k : list[i].timeout < e.timeout
  BY <1>1, PassedIs
<1>3. /\ new \in Seq(Event!Timer) /\ Len(new) = Len(list) + 1 /\ new[k + 1] = e
      /\ \A i \in 1..k : new[i] = list[i]
      /\ \A i \in (k + 2)..(Len(list) + 1) : new[i] = list[i - 1]
  <2>1. new = Inserted(list, k, e)
    BY DEF Event!Insert, Inserted
  <2>2. k \in 0..Len(list)
    BY <1>2
  <2> HIDE DEF k, new
  <2>3. /\ Inserted(list, k, e) \in Seq(Event!Timer)
        /\ Len(Inserted(list, k, e)) = Len(list) + 1
        /\ Inserted(list, k, e)[k + 1] = e
        /\ \A i \in 1..k : Inserted(list, k, e)[i] = list[i]
        /\ \A i \in (k + 2)..(Len(list) + 1) : Inserted(list, k, e)[i] = list[i - 1]
    BY <2>2, InsertedIs
  <2> QED
    BY <2>1, <2>3
<1> HIDE DEF k, new
<1>4. Len(list) \in Nat
  OBVIOUS
<1>5. ASSUME NEW i \in (k + 1)..Len(list) PROVE list[i].timeout >= e.timeout
  <2>1. k + 1 \in 1..Len(list) /\ i \in 1..Len(list) /\ k < Len(list)
    BY <1>2, <1>4
  <2>2. i = k + 1 \/ k + 1 < i
    BY <1>2
  <2>3. list[k + 1].timeout <= list[i].timeout
    BY <1>1, <2>1, <2>2 DEF Sorted
  <2> QED
    BY <1>1, <1>2, <2>1, <2>3
<1>6. ASSUME NEW i \in 1..Len(new), NEW j \in 1..Len(new), i < j
      PROVE  new[i].timeout <= new[j].timeout
  <2>1. CASE j <= k
    <3>1. i \in 1..k /\ j \in 1..k /\ i \in 1..Len(list) /\ j \in 1..Len(list)
      BY <1>2, <1>3, <1>4, <1>6, <2>1
    <3> QED
      BY <1>3, <1>6, <3>1 DEF Sorted
  <2>2. CASE j = k + 1
    <3>1. i \in 1..k /\ i \in 1..Len(list)
      BY <1>2, <1>3, <1>4, <1>6, <2>2
    <3> QED
      BY <1>1, <1>2, <1>3, <2>2, <3>1
  <2>3. CASE j > k + 1
    <3>1. j \in (k + 2)..(Len(list) + 1) /\ j - 1 \in (k + 1)..Len(list) /\ j - 1 \in 1..Len(list)
      BY <1>2, <1>3, <1>4, <1>6, <2>3
    <3>2. new[j] = list[j - 1]
      BY <1>3, <3>1
    <3>3. CASE i <= k
      <4>1. i \in 1..k /\ i \in 1..Len(list) /\ i < j - 1
        BY <1>2, <1>3, <1>4, <1>6, <2>3, <3>3
      <4> QED
        BY <1>3, <3>1, <3>2, <4>1 DEF Sorted
    <3>4. CASE i = k + 1
      BY <1>1, <1>3, <1>5, <3>1, <3>2, <3>4
    <3>5. CASE i > k + 1
      <4>1. i \in (k + 2)..(Len(list) + 1) /\ i - 1 \in 1..Len(list) /\ i - 1 < j - 1
        BY <1>2, <1>3, <1>4, <1>6, <3>5
      <4>2. new[i] = list[i - 1]
        BY <1>3, <4>1
      <4> QED
        BY <3>1, <3>2, <4>1, <4>2 DEF Sorted
    <3> QED
      BY <1>2, <1>3, <1>4, <3>3, <3>4, <3>5
  <2> QED
    BY <1>2, <1>3, <1>4, <2>1, <2>2, <2>3
<1>7. k + 1 \in 1..Len(new)
  BY <1>2, <1>3, <1>4
<1>8. ASSUME NEW i \in 1..Len(list) PROVE \E j \in 1..Len(new) : new[j] = list[i]
  <2>1. CASE i <= k
    <3>1. i \in 1..k /\ i \in 1..Len(new)
      BY <1>2, <1>3, <1>4, <2>1
    <3> QED
      BY <1>3, <3>1
  <2>2. CASE i > k
    <3>1. i + 1 \in (k + 2)..(Len(list) + 1) /\ i + 1 \in 1..Len(new) /\ (i + 1) - 1 = i
      BY <1>2, <1>3, <1>4, <2>2
    <3> QED
      BY <1>3, <3>1
  <2> QED
    BY <1>2, <2>1, <2>2
<1>9. Sorted(new)
  BY <1>6 DEF Sorted
<1> QED
  BY <1>3, <1>7, <1>8, <1>9 DEF new

\* A new timer: the list stays sorted, and its thread is about to write the byte.
LEMMA RequestStep ==
    ASSUME EventInv, NEW t \in Thread, NEW d \in Delays, Event!RequestTimedCallback(t, d)
    PROVE  EventInv'
<1> DEFINE e == [id |-> nextId, timeout |-> clock + d]
<1>1. /\ timer_list' = Event!Insert(timer_list, e) /\ nextId <= MaxTimers /\ nextId' = nextId + 1
      /\ asking' = [asking EXCEPT ![t] = "trigger"]
      /\ UNCHANGED <<clock, pending_list, loop, tv, wakeFd, pipe, fired>>
  BY DEF Event!RequestTimedCallback, Event!AddTimer
<1>2. Event!TypeOK /\ Sorted(timer_list)
  BY DEF EventInv
<1>3. timer_list \in Seq(Event!Timer) /\ nextId \in 1..MaxTimers + 1 /\ MaxTimers \in Nat
  BY <1>2, WorkerConstants DEF Event!TypeOK, Event!EventConstants
<1>4. e \in Event!Timer
  <2>1. clock + d \in Nat
    BY <1>2, WorkerConstants DEF Event!TypeOK, Event!EventConstants
  <2>2. nextId \in 1..MaxTimers
    BY <1>1, <1>3
  <2> QED
    BY <2>1, <2>2 DEF Event!Timer
<1>5. /\ timer_list' \in Seq(Event!Timer) /\ Sorted(timer_list')
      /\ \E i \in 1..Len(timer_list') : timer_list'[i] = e
      /\ \A i \in 1..Len(timer_list) : \E j \in 1..Len(timer_list') : timer_list'[j] = timer_list[i]
  <2> HIDE DEF e
  <2> QED
    BY <1>1, <1>2, <1>3, <1>4, InsertKeepsSorted
<1>6. Event!TypeOK'
  <2>1. asking' \in [Thread -> {"idle", "trigger"}] /\ nextId' \in 1..MaxTimers + 1
    BY <1>1, <1>2, <1>3 DEF Event!TypeOK
  <2> QED
    BY <1>1, <1>2, <1>5, <2>1 DEF Event!TypeOK
<1>7. NoLostWakeup'
  <2>1. asking'[t] = "trigger"
    BY <1>1, <1>2 DEF Event!TypeOK
  <2> QED
    BY <2>1 DEF NoLostWakeup, Event!NoLostWakeup
<1>8. ASSUME NEW id \in 1..(nextId' - 1) PROVE Known(id)'
  <2>1. id = nextId \/ id \in 1..(nextId - 1)
    BY <1>1, <1>3
  <2>2. CASE id = nextId
    <3>1. e.id = id
      BY <2>2
    <3> QED
      BY <1>5, <3>1 DEF Known
  <2>3. CASE id \in 1..(nextId - 1)
    <3>1. Known(id)
      BY <2>3 DEF EventInv
    <3> QED
      BY <1>1, <1>5, <3>1 DEF Known
  <2> QED
    BY <2>1, <2>2, <2>3
<1> QED
  BY <1>1, <1>5, <1>6, <1>7, <1>8 DEF EventInv

\* processTimeouts moves a prefix of the list.
LEMMA ProcessStep ==
    ASSUME EventInv, Event!ProcessTimeouts
    PROVE  EventInv'
<1> DEFINE k == Event!Passed(timer_list, clock)
           T == Event!Timer \cup {Event!WAKEUP}
           rest == IF loop = "ready" THEN <<Event!WAKEUP>> ELSE <<>>
           head == SubSeq(timer_list, 1, k)
           tail == SubSeq(timer_list, k + 1, Len(timer_list))
<1>1. /\ Event!TypeOK /\ timer_list \in Seq(Event!Timer) /\ pending_list \in Seq(T) /\ clock \in Nat
      /\ Sorted(timer_list) /\ \A id \in 1..(nextId - 1) : Known(id)
  BY WorkerConstants DEF EventInv, Event!TypeOK, Event!EventConstants
<1>2. k \in 0..Len(timer_list)
  BY <1>1, PassedIs
<1> HIDE DEF k
<1>3. /\ head \in Seq(Event!Timer) /\ head \in Seq(T) /\ Len(head) = k
      /\ \A i \in 1..k : head[i] = timer_list[i]
  BY <1>1, <1>2
<1>4. /\ tail \in Seq(Event!Timer) /\ Len(tail) = Len(timer_list) - k
      /\ \A i \in 1..(Len(timer_list) - k) : tail[i] = timer_list[k + i]
  BY <1>1, <1>2
<1>5. /\ pending_list' = pending_list \o head \o rest /\ timer_list' = tail /\ loop' = "fire"
      /\ loop # "started" /\ UNCHANGED <<clock, nextId, tv, wakeFd, pipe, asking, fired>>
  <2>1. Event!Expired = head
    BY DEF Event!Expired, k
  <2>2. Len(Event!Expired) = k
    BY <1>3, <2>1
  <2> QED
    BY <2>1, <2>2 DEF Event!ProcessTimeouts
<1>6. rest \in Seq(T)
  <2>1. Event!WAKEUP \in T
    OBVIOUS
  <2> HIDE DEF T
  <2>2. <<>> \in Seq(T) /\ <<Event!WAKEUP>> \in Seq(T)
    BY <2>1
  <2> QED
    BY <2>2
<1> HIDE DEF head, tail, rest, T
<1>7. /\ pending_list \o head \in Seq(T)
      /\ Len(pending_list \o head) = Len(pending_list) + k
      /\ \A i \in 1..Len(pending_list) : (pending_list \o head)[i] = pending_list[i]
      /\ \A i \in 1..k : (pending_list \o head)[Len(pending_list) + i] = head[i]
  <2>1. pending_list \in Seq(T) /\ head \in Seq(T)
    BY <1>1, <1>3
  <2>2. /\ pending_list \o head \in Seq(T)
        /\ Len(pending_list \o head) = Len(pending_list) + Len(head)
        /\ \A i \in 1..Len(pending_list) : (pending_list \o head)[i] = pending_list[i]
        /\ \A i \in 1..Len(head) : (pending_list \o head)[Len(pending_list) + i] = head[i]
    <3>1. /\ pending_list \o head \in Seq(T)
          /\ Len(pending_list \o head) = Len(pending_list) + Len(head)
      BY <2>1, ConcatIs
    <3>2. \A i \in 1..Len(pending_list) : (pending_list \o head)[i] = pending_list[i]
      BY <2>1, ConcatIs
    <3>3. \A i \in 1..Len(head) : (pending_list \o head)[Len(pending_list) + i] = head[i]
      BY <2>1, ConcatIs
    <3> QED
      BY <3>1, <3>2, <3>3
  <2>3. Len(head) = k
    BY <1>3
  <2> QED
    BY <2>2, <2>3
<1> DEFINE both == pending_list \o head
<1> HIDE DEF both
<1>8. /\ pending_list' \in Seq(T) /\ Len(pending_list') >= Len(both)
      /\ \A i \in 1..Len(both) : pending_list'[i] = both[i]
  BY <1>5, <1>6, <1>7 DEF both
<1>9. Event!TypeOK'
  BY <1>1, <1>4, <1>5, <1>8 DEF Event!TypeOK, T
<1>10. Sorted(timer_list')
  <2> SUFFICES ASSUME NEW i \in 1..Len(tail), NEW j \in 1..Len(tail), i < j
               PROVE  tail[i].timeout <= tail[j].timeout
    BY <1>5 DEF Sorted
  <2>1. k + i \in 1..Len(timer_list) /\ k + j \in 1..Len(timer_list) /\ k + i < k + j
    BY <1>1, <1>2, <1>4
  <2> QED
    BY <1>1, <1>4, <2>1 DEF Sorted
<1>11. ASSUME NEW id \in 1..(nextId - 1) PROVE Known(id)'
  <2>1. CASE id \in fired
    BY <1>5, <2>1 DEF Known
  <2>2. ASSUME NEW i \in 1..Len(pending_list), pending_list[i].id = id PROVE Known(id)'
    <3>1. i \in 1..Len(both) /\ both[i] = pending_list[i]
      BY <1>1, <1>2, <1>7 DEF both
    <3>2. i \in 1..Len(pending_list') /\ pending_list'[i] = pending_list[i]
      BY <1>7, <1>8, <3>1 DEF both
    <3> QED
      BY <2>2, <3>2 DEF Known
  <2>3. ASSUME NEW i \in 1..Len(timer_list), timer_list[i].id = id PROVE Known(id)'
    <3>1. CASE i <= k
      <4>1. i \in 1..k /\ Len(pending_list) \in Nat
        BY <1>1, <1>2, <3>1
      <4>2. Len(pending_list) + i \in 1..Len(both) /\ both[Len(pending_list) + i] = timer_list[i]
        BY <1>2, <1>3, <1>7, <4>1 DEF both
      <4>3. pending_list'[Len(pending_list) + i] = timer_list[i]
        BY <1>8, <4>2
      <4>4. Len(pending_list) + i \in 1..Len(pending_list')
        BY <1>7, <1>8, <4>2 DEF both
      <4> QED
        BY <2>3, <4>3, <4>4 DEF Known
    <3>2. CASE i > k
      <4>1. i - k \in 1..(Len(timer_list) - k) /\ k + (i - k) = i
        BY <1>1, <1>2, <3>2
      <4>2. tail[i - k] = timer_list[i] /\ i - k \in 1..Len(tail)
        BY <1>4, <4>1
      <4> QED
        BY <1>5, <2>3, <4>2 DEF Known
    <3> QED
      BY <1>2, <3>1, <3>2
  <2> QED
    BY <1>1, <2>1, <2>2, <2>3 DEF Known
<1>12. NoLostWakeup' /\ wakeFd'
  BY <1>5 DEF NoLostWakeup, Event!NoLostWakeup, EventInv
<1> QED
  BY <1>5, <1>9, <1>10, <1>11, <1>12 DEF EventInv

\* firePending hands a timer over, or empties the pipe.
LEMMA FireStep ==
    ASSUME EventInv, Event!FireTimer \/ Event!FireWakeup
    PROVE  EventInv'
<1> DEFINE T == Event!Timer \cup {Event!WAKEUP}
           first == Head(pending_list)
<1>1. /\ Event!TypeOK /\ pending_list \in Seq(T) /\ pending_list # <<>>
      /\ pending_list' = Tail(pending_list) /\ loop' = "fire" /\ loop = "fire"
      /\ pipe' \in {pipe, FALSE}
      /\ UNCHANGED <<clock, timer_list, nextId, tv, wakeFd, asking>>
  BY DEF EventInv, Event!TypeOK, Event!FireTimer, Event!FireWakeup
<1>2. /\ fired \subseteq fired' /\ (first # Event!WAKEUP => fired' = fired \cup {first.id})
      /\ (first = Event!WAKEUP => fired' = fired)
  BY DEF Event!FireTimer, Event!FireWakeup
<1>3. first \in T /\ first = pending_list[1]
  BY <1>1
<1> HIDE DEF T, first
<1>4. /\ pending_list' \in Seq(T) /\ Len(pending_list') = Len(pending_list) - 1
      /\ Len(pending_list) \in Nat \ {0}
      /\ \A i \in 1..(Len(pending_list) - 1) : pending_list'[i] = pending_list[i + 1]
  BY <1>1
<1>5. first # Event!WAKEUP => first.id \in 1..MaxTimers
  BY <1>3 DEF T, Event!Timer
<1>6. Event!TypeOK'
  <2>1. fired' \subseteq 1..MaxTimers
    BY <1>1, <1>2, <1>5 DEF Event!TypeOK
  <2> QED
    BY <1>1, <1>4, <2>1 DEF Event!TypeOK, T
<1>7. ASSUME NEW id \in 1..(nextId - 1) PROVE Known(id)'
  <2>1. Known(id)
    BY DEF EventInv
  <2>2. ASSUME NEW i \in 1..Len(pending_list), pending_list[i].id = id PROVE Known(id)'
    <3>1. CASE i = 1
      <4>1. first.id = id
        BY <1>3, <2>2, <3>1
      <4>2. first # Event!WAKEUP
        BY <4>1 DEF Event!WAKEUP
      <4> QED
        BY <1>2, <4>1, <4>2 DEF Known
    <3>2. CASE i # 1
      <4>1. /\ i - 1 \in 1..(Len(pending_list) - 1) /\ (i - 1) + 1 = i
            /\ i - 1 \in 1..Len(pending_list')
        BY <1>4, <3>2
      <4>2. pending_list'[i - 1] = pending_list[i]
        BY <1>4, <4>1
      <4> QED
        BY <2>2, <4>1, <4>2 DEF Known
    <3> QED
      BY <3>1, <3>2
  <2> QED
    BY <1>1, <1>2, <2>1, <2>2 DEF Known
<1>8. NoLostWakeup' /\ wakeFd' = wakeFd
  BY <1>1 DEF NoLostWakeup, Event!NoLostWakeup
<1> QED
  BY <1>1, <1>6, <1>7, <1>8 DEF EventInv

\* calcNextTimeout ends the wait no later than any timer is due.
LEMMA CalcStep ==
    ASSUME EventInv, Event!CalcNextTimeout
    PROVE  EventInv'
<1>1. /\ Event!TypeOK /\ timer_list \in Seq(Event!Timer) /\ clock \in Nat /\ Sorted(timer_list)
      /\ loop = "calc" /\ loop' = "select" /\ tv' = Event!NextTimeout /\ wakeFd
      /\ UNCHANGED <<clock, timer_list, pending_list, nextId, wakeFd, pipe, asking, fired>>
  BY WorkerConstants DEF EventInv, Event!TypeOK, Event!EventConstants, Event!CalcNextTimeout
<1>2. \A i \in 1..Len(timer_list) : timer_list[i].timeout \in Nat
  <2>1. \A i \in 1..Len(timer_list) : timer_list[i] \in Event!Timer
    BY <1>1
  <2> QED
    BY <2>1 DEF Event!Timer
<1>3. CASE timer_list = <<>>
  <2>1. tv' = NULL /\ Len(timer_list) = 0
    BY <1>1, <1>3 DEF Event!NextTimeout
  <2>2. Event!TypeOK'
    BY <1>1, <2>1 DEF Event!TypeOK
  <2>3. NoLostWakeup'
    BY <1>1, <2>1 DEF NoLostWakeup, Event!NoLostWakeup, Event!Listed
  <2> QED
    BY <1>1, <2>2, <2>3 DEF EventInv, Known
<1>4. CASE timer_list # <<>>
  <2> DEFINE first == timer_list[1].timeout
  <2>1. 1 \in 1..Len(timer_list) /\ Head(timer_list) = timer_list[1] /\ first \in Nat
    BY <1>1, <1>2, <1>4
  <2>2. tv' = IF first > clock THEN first ELSE clock
    BY <1>1, <1>4, <2>1 DEF Event!NextTimeout
  <2>3. tv' \in Nat /\ tv' # NULL
    BY <1>1, <2>1, <2>2, WorkerConstants DEF Event!EventConstants
  <2>4. Event!TypeOK'
    BY <1>1, <2>3 DEF Event!TypeOK
  <2>5. ASSUME NEW i \in 1..Len(timer_list)
        PROVE  tv' <= timer_list[i].timeout \/ tv' <= clock
    <3>1. first <= timer_list[i].timeout
      BY <1>1, <1>2, <2>1 DEF Sorted
    <3> QED
      BY <1>1, <1>2, <2>1, <2>2, <3>1
  <2>6. NoLostWakeup'
    BY <1>1, <2>3, <2>5 DEF NoLostWakeup, Event!NoLostWakeup, Event!Listed
  <2> QED
    BY <1>1, <2>4, <2>6 DEF EventInv, Known
<1> QED
  BY <1>3, <1>4

\* The byte that triggerEvLoop writes while the loop waits is in the pipe.
LEMMA TriggerStep ==
    ASSUME EventInv, NEW t \in Thread, Event!TriggerEvLoop(t)
    PROVE  EventInv'
<1>1. /\ Event!TypeOK /\ pipe' = (pipe \/ wakeFd) /\ (loop # "started" => wakeFd)
      /\ asking' = [asking EXCEPT ![t] = "idle"]
      /\ UNCHANGED <<clock, timer_list, pending_list, nextId, loop, tv, wakeFd, fired>>
  BY DEF EventInv, Event!TriggerEvLoop
<1>2. pipe' \in BOOLEAN /\ asking' \in [Thread -> {"idle", "trigger"}]
  BY <1>1 DEF Event!TypeOK
<1>3. Event!TypeOK'
  BY <1>1, <1>2 DEF Event!TypeOK
<1>4. loop' = "select" => pipe'
  BY <1>1
<1>5. NoLostWakeup'
  BY <1>4 DEF NoLostWakeup, Event!NoLostWakeup
<1> QED
  BY <1>1, <1>3, <1>5 DEF EventInv, Known

\* Time passes while the loop waits.
LEMMA TickStep ==
    ASSUME EventInv, Event!Tick
    PROVE  EventInv'
<1>1. /\ Event!TypeOK /\ clock' = clock + 1 /\ clock \in Nat /\ tv \in Nat \cup {NULL}
      /\ clock < MaxTime /\ MaxTime \in Nat
      /\ UNCHANGED <<timer_list, pending_list, nextId, loop, tv, wakeFd, pipe, asking, fired>>
  BY WorkerConstants DEF EventInv, Event!Tick, Event!TypeOK, Event!EventConstants
<1>2. Event!TypeOK'
  BY <1>1 DEF Event!TypeOK
<1>3. tv # NULL /\ tv <= clock => tv <= clock'
  BY <1>1
<1>4. NoLostWakeup'
  BY <1>1, <1>3 DEF EventInv, NoLostWakeup, Event!NoLostWakeup, Event!Listed
<1> QED
  BY <1>1, <1>2, <1>4 DEF EventInv, Known

\* The loop starts, leaves select() or has fired everything.
LEMMA QuietEventStep ==
    ASSUME EventInv,
           Event!MakePipe \/ Event!SelectReturns \/ Event!FireDone \/ UNCHANGED eventVars
    PROVE  EventInv'
<1>1. /\ loop' = loop \/ loop' \in {"calc", "timeouts", "ready"}
      /\ wakeFd' = wakeFd \/ wakeFd' = TRUE
      /\ loop' # "started" => wakeFd'
      /\ UNCHANGED <<clock, timer_list, pending_list, nextId, tv, pipe, asking, fired>>
  BY DEF EventInv, Event!MakePipe, Event!SelectReturns, Event!FireDone, eventVars
<1>2. Event!TypeOK'
  BY <1>1 DEF EventInv, Event!TypeOK
<1>3. NoLostWakeup'
  BY <1>1 DEF EventInv, NoLostWakeup, Event!NoLostWakeup, Event!Listed
<1> QED
  BY <1>1, <1>2, <1>3 DEF EventInv, Known

\* The event loop's invariant.
LEMMA AlwaysEventInv == Workers => []EventInv
<1>1. WorkersInit => EventInv
  <2> SUFFICES ASSUME WorkersInit PROVE EventInv
    OBVIOUS
  <2>1. /\ clock = 0 /\ timer_list = <<>> /\ pending_list = <<>> /\ nextId = 1 /\ loop = "started"
        /\ tv = NULL /\ wakeFd = FALSE /\ pipe = FALSE /\ fired = {}
        /\ asking = [t \in Thread |-> "idle"]
    BY DEF WorkersInit, Event!Init
  <2>2. /\ timer_list \in Seq(Event!Timer) /\ Len(timer_list) = 0
        /\ pending_list \in Seq(Event!Timer \cup {Event!WAKEUP})
    BY <2>1
  <2>3. Event!TypeOK
    <3>1. clock \in 0..MaxTime /\ nextId \in 1..MaxTimers + 1
      BY <2>1, WorkerConstants DEF Event!EventConstants
    <3>2. asking \in [Thread -> {"idle", "trigger"}]
      BY <2>1
    <3>3. tv \in Nat \cup {NULL} /\ wakeFd \in BOOLEAN /\ pipe \in BOOLEAN /\ fired \subseteq 1..MaxTimers
      BY <2>1
    <3> QED
      BY <2>1, <2>2, <3>1, <3>2, <3>3 DEF Event!TypeOK
  <2>4. Sorted(timer_list)
    BY <2>2 DEF Sorted
  <2> QED
    BY <2>1, <2>3, <2>4 DEF EventInv, NoLostWakeup, Event!NoLostWakeup
<1>2. EventInv /\ [WorkersNext]_all => EventInv'
  <2> SUFFICES ASSUME EventInv, [WorkersNext]_all PROVE EventInv'
    OBVIOUS
  <2>1. Event!Next \/ UNCHANGED eventVars
    BY DEF WorkersNext, all
  <2> QED
    BY <2>1, RequestStep, ProcessStep, FireStep, CalcStep, TriggerStep, TickStep, QuietEventStep
       DEF Event!Next, Event!LoopNext
<1> QED
  BY <1>1, <1>2, PTL DEF Workers

\* For every number of threads, timers and delays: no wake-up is lost between the
\* unlocked calcNextTimeout and select().
THEOREM NoWakeupLost == Workers => []NoLostWakeup
<1>1. EventInv => NoLostWakeup
  BY DEF EventInv
<1> QED
  BY <1>1, AlwaysEventInv, PTL

\* No timer is lost between the lists: each one asked for is listed, waits to be
\* fired or has been handed over.
THEOREM TimersKept == Workers => []NoTimerLost
<1>1. EventInv => NoTimerLost
  <2> SUFFICES ASSUME EventInv, NEW id \in 1..(nextId - 1), id \notin fired
               PROVE  \E e \in Event!Listed \cup Event!PendingTimers : e.id = id
    BY DEF NoTimerLost
  <2>1. timer_list \in Seq(Event!Timer) /\ pending_list \in Seq(Event!Timer \cup {Event!WAKEUP})
    BY DEF EventInv, Event!TypeOK
  <2>2. CASE \E i \in 1..Len(timer_list) : timer_list[i].id = id
    BY <2>1, <2>2 DEF Event!Listed
  <2>3. CASE \E i \in 1..Len(pending_list) : pending_list[i].id = id
    <3>1. PICK i \in 1..Len(pending_list) : pending_list[i].id = id
      BY <2>3
    <3>2. pending_list[i] # Event!WAKEUP
      BY <3>1 DEF Event!WAKEUP
    <3> QED
      BY <2>1, <3>1, <3>2 DEF Event!PendingTimers
  <2> QED
    BY <2>2, <2>3 DEF EventInv, Known
<1> QED
  BY <1>1, AlwaysEventInv, PTL

=============================================================================
