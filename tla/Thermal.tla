------------------------------ MODULE Thermal -------------------------------
(***************************************************************************)
(* The thermal HAL (thermal/Thermal.cpp).  A poller thread reads the       *)
(* sensors every five seconds and tells the registered callbacks of every  *)
(* sensor whose throttling severity changed; binder threads register and   *)
(* unregister callbacks.  sensors_mutex_ and thermal_callback_mutex_ each  *)
(* cover one step of the poller, and no lock is held while callbacks run.  *)
(*                                                                         *)
(* Temperatures are whole degrees Celsius; a severity is the index         *)
(* 0 (NONE) .. 6 (SHUTDOWN) of ThrottlingSeverity.  The vectors of         *)
(* callbacks and of changes are sets: a client is in callbacks_ once and a *)
(* sensor among the changes once, so no two calls of a poll tell a client  *)
(* of the same sensor, and their order is left open.                       *)
(***************************************************************************)
EXTENDS Integers, FiniteSetsExt

CONSTANTS
    Sensor,       \* the sensors of kSensors that are looked at
    Client,       \* processes that register a callback
    Temperature,  \* what a zone may read
    MaxChanges,   \* bound on the changes of the sensors
    NotifyFails,  \* whether notifyThrottling() may fail
    NULL

Severity == 0..6
None == 0

\* The thresholds of kSensors; a severity that is not mentioned is NAN.
kSensors ==
    [cpu     |-> [type |-> "CPU",     hot |-> {<<3, 85>>, <<4, 100>>}],
     battery |-> [type |-> "BATTERY", hot |-> {<<5, 60>>}],
     skin    |-> [type |-> "SKIN",    hot |-> {<<2, 45>>, <<5, 95>>}]]

Filter == {kSensors[s].type : s \in Sensor} \cup {NULL}

ASSUME ThermalConstants ==
    /\ Sensor \subseteq DOMAIN kSensors /\ Temperature \subseteq Int
    /\ MaxChanges \in Nat /\ NotifyFails \in BOOLEAN

VARIABLES
    temp,         \* temp[s]: what the zone of s reads
    zone,         \* the sensors whose zone the kernel has registered
    tempPath,     \* the sensors whose zone has been found
    lastSeverity, \* sensors_[s].lastSeverity
    callbacks_,   \* the registered callbacks: [client, type] (type NULL: no filter)
    poller,       \* "poll", "copy", "notify" or "sleep"
    changed,      \* the sensors the poll found changed, with their severity
    calls,        \* the calls of notifyThrottling() still to make: [client, sensor, severity]
    told,         \* told[c][s]: the severity client c was told of last
    synced,       \* clients that have been told everything (history variable)
    changes

vars == <<temp, zone, tempPath, lastSeverity, callbacks_, poller, changed, calls, told,
          synced, changes>>
sensors == <<temp, zone, tempPath, lastSeverity, changes>>

TypeOK ==
    /\ temp \in [Sensor -> Temperature]
    /\ zone \subseteq Sensor /\ tempPath \subseteq zone
    /\ lastSeverity \in [Sensor -> Severity]
    /\ callbacks_ \subseteq [client : Client, type : Filter]
    /\ poller \in {"poll", "copy", "notify", "sleep"}
    /\ changed \subseteq [sensor : Sensor, severity : Severity]
    /\ calls \subseteq [client : Client, sensor : Sensor, severity : Severity]
    /\ told \in [Client -> [Sensor -> Severity]]
    /\ synced \subseteq Client /\ changes \in 0..MaxChanges

\* The constructor.  Some zones appear only later (resolveZones).
Init ==
    /\ temp \in [Sensor -> Temperature]
    /\ zone \in SUBSET Sensor /\ tempPath = zone
    /\ lastSeverity = [s \in Sensor |-> None]
    /\ callbacks_ = {}
    /\ poller = "poll" /\ changed = {} /\ calls = {}
    /\ told = [c \in Client |-> [s \in Sensor |-> None]]
    /\ synced = {} /\ changes = 0

-----------------------------------------------------------------------------
(* The sensors.                                                            *)

TemperatureMoves(s, t) ==
    /\ changes < MaxChanges
    /\ changes' = changes + 1
    /\ temp' = [temp EXCEPT ![s] = t]
    /\ UNCHANGED <<zone, tempPath, lastSeverity, callbacks_, poller, changed, calls, told, synced>>

ZoneAppears(s) ==
    /\ s \notin zone
    /\ zone' = zone \cup {s}
    /\ UNCHANGED <<temp, tempPath, lastSeverity, changes, callbacks_, poller, changed, calls,
                   told, synced>>

\* readSensor: the zones without a sensor read -127 degrees.
Readable(s) == s \in tempPath' /\ temp[s] >= -40 /\ temp[s] <= 200

\* Mutant: a reading has to exceed the threshold.
SeverityOfAbove(s, t) ==
    LET hits == {h[1] : h \in {g \in kSensors[s].hot : t > g[2]}}
    IN  Max(hits \cup {None})

\* severityOf: the highest severity whose threshold has been reached.
SeverityOf(s, t) ==
    LET hits == {h[1] : h \in {g \in kSensors[s].hot : t >= g[2]}}
    IN  Max(hits \cup {None})

-----------------------------------------------------------------------------
(* The poller.                                                             *)

\* The sensors a poll finds with another severity.
MovedSensors ==
    {s \in Sensor : Readable(s) /\ SeverityOf(s, temp[s]) # lastSeverity[s]}

\* pollLoop under sensors_mutex_: look for missing zones, read every sensor.
Poll ==
    /\ poller = "poll"
    /\ tempPath' = zone
    /\ lastSeverity' = [s \in Sensor |-> IF s \in MovedSensors
                                         THEN SeverityOf(s, temp[s]) ELSE lastSeverity[s]]
    /\ changed' = {[sensor |-> s, severity |-> lastSeverity'[s]] : s \in MovedSensors}
    /\ poller' = IF MovedSensors = {} THEN "sleep" ELSE "copy"
    /\ UNCHANGED <<temp, zone, changes, callbacks_, calls, told, synced>>

\* Mutant: the filter is ignored.
WantsAll(c, s) == TRUE

\* if (c.is_filter_type && c.type != t.type) continue
Wants(c, s) == c.type \in {NULL, kSensors[s].type}

\* The calls the two loops make for what changed.
CallsFor(pairs) ==
    {[client |-> p[1].client, sensor |-> p[2].sensor, severity |-> p[2].severity] :
        p \in {q \in pairs : Wants(q[1], q[2].sensor)}}

\* ... under thermal_callback_mutex_: copy the callbacks.
CopyCallbacks ==
    /\ poller = "copy"
    /\ calls' = CallsFor(callbacks_ \X changed)
    /\ changed' = {}
    /\ poller' = "notify"
    /\ UNCHANGED <<sensors, callbacks_, told, synced>>

\* One notifyThrottling(); a failure is logged.
Notify(n) ==
    /\ poller = "notify"
    /\ \/ /\ told' = [told EXCEPT ![n.client][n.sensor] = n.severity]
          /\ UNCHANGED synced
       \/ /\ NotifyFails
          /\ synced' = synced \ {n.client}
          /\ UNCHANGED told
    /\ calls' = calls \ {n}
    /\ UNCHANGED <<sensors, callbacks_, poller, changed>>

Sleep ==
    /\ poller = "notify" /\ calls = {}
    /\ poller' = "sleep"
    /\ UNCHANGED <<sensors, callbacks_, changed, calls, told, synced>>

WakeUp ==
    /\ poller = "sleep"
    /\ poller' = "poll"
    /\ UNCHANGED <<sensors, callbacks_, changed, calls, told, synced>>

-----------------------------------------------------------------------------
(* The callbacks.                                                          *)

Registered == {cb.client : cb \in callbacks_}

\* registerThermalChangedCallback; "registered already" changes nothing.  A client
\* that comes while every sensor is at NONE has missed nothing.
Register(c, type) ==
    /\ c \notin Registered
    /\ callbacks_' = callbacks_ \cup {[client |-> c, type |-> type]}
    /\ told' = [told EXCEPT ![c] = [s \in Sensor |-> None]]
    /\ synced' = IF \A s \in Sensor : lastSeverity[s] = None THEN synced \cup {c} ELSE synced
    /\ UNCHANGED <<sensors, poller, changed, calls>>

\* unregisterThermalChangedCallback.
Unregister(c) ==
    /\ c \in Registered
    /\ callbacks_' = {cb \in callbacks_ : cb.client # c}
    /\ synced' = synced \ {c}
    /\ UNCHANGED <<sensors, poller, changed, calls, told>>

PollerNext == Poll \/ CopyCallbacks \/ Sleep \/ WakeUp \/ \E n \in calls : Notify(n)

Next ==
    \/ PollerNext
    \/ \E s \in Sensor : ZoneAppears(s) \/ \E t \in Temperature : TemperatureMoves(s, t)
    \/ \E c \in Client : Unregister(c) \/ \E type \in Filter : Register(c, type)

\* The poller thread runs; nothing is assumed of the kernel and the clients.
Spec == Init /\ [][Next]_vars /\ WF_vars(PollerNext)

-----------------------------------------------------------------------------
(* Properties.                                                             *)

\* Whenever the poller has nothing left to say, every client that missed nothing
\* knows the last severity of the sensors it asked for, and of those only: no
\* change is lost or said to the wrong client, although the callbacks are copied
\* after the sensors have been read and called without a lock.
ClientsInStep ==
    poller = "sleep" =>
        \A cb \in callbacks_ : cb.client \in synced =>
            \A s \in Sensor :
                told[cb.client][s] = IF cb.type \in Filter \ {NULL, kSensors[s].type}
                                     THEN None ELSE lastSeverity[s]

\* v is what the thresholds say of a reading: its own is reached, no higher one is.
Deserves(s, t, v) ==
    /\ v = None \/ \E h \in kSensors[s].hot : h[1] = v /\ h[2] <= t
    /\ \A h \in kSensors[s].hot : h[1] > v => h[2] > t

\* A temperature that stays is found out: the severity the HAL goes by becomes that
\* of the reading (which ClientsInStep passes on to the clients).
SeverityCatchesUp ==
    \A s \in Sensor, t \in Temperature :
        []<>(\/ temp[s] # t \/ s \notin zone \/ t < -40
             \/ Deserves(s, t, lastSeverity[s]))

=============================================================================
