---------------------------- MODULE BluetoothHci ----------------------------
(***************************************************************************)
(* bluetooth/bluetooth_hci.cc: the HCI service over the vendor interface.  *)
(* One binder thread serves every call, the death notifications included.  *)
(* VendorInterface (external) is one object of the process: Initialize     *)
(* refuses when it is there already, Shutdown and Send need it.            *)
(***************************************************************************)
EXTENDS Integers, FiniteSets

CONSTANTS
    Client,     \* processes of the Bluetooth stack, each may die and come back
    Prompt      \* a client's death is handled before the next one's initialize

None == "none"

VARIABLES
    state,      \* state[c]: new, waiting, failed, ready, closed, dead
    v1_0,       \* clients that came through the old initialize
    links,      \* links[c]: how often death_recipient_ is linked to c
    notices,    \* deaths reported by the kernel and not yet handled
    has_died_,
    unlink_cb_, \* the client unlink_cb_ has captured
    vendor,     \* the client the vendor interface calls back, or None
    starting,   \* its firmware is loading
    absent,     \* Shutdown or Send found no interface
    iso,        \* clients that an ISO packet reached
    sent        \* clients that have sent a packet

vars == <<state, v1_0, links, notices, has_died_, unlink_cb_, vendor, starting, absent, iso, sent>>

Init ==
    /\ state = [c \in Client |-> "new"] /\ v1_0 = {}
    /\ links = [c \in Client |-> 0] /\ notices = {}
    /\ has_died_ \in BOOLEAN        \* the constructor leaves it as it is
    /\ unlink_cb_ = None
    /\ vendor = None /\ starting = FALSE
    /\ absent = FALSE /\ iso = {} /\ sent = {}

Alive(c) == state[c] # "dead"
Tell(c, s) == state' = [state EXCEPT ![c] = IF Alive(c) THEN s ELSE @]

\* initialize wraps the old callbacks and goes the same way.
initialize_1_1(c, old) ==
    /\ state[c] \in {"new", "closed"}
    /\ Prompt => notices = {} /\ \A o \in Client : state[o] \in {"new", "closed", "dead"}
    /\ v1_0' = IF old THEN v1_0 \cup {c} ELSE v1_0 \ {c}
    /\ has_died_' = FALSE
    /\ links' = [links EXCEPT ![c] = @ + 1]
    /\ unlink_cb_' = c
    /\ \/ /\ vendor = None          \* opened; the firmware will report
          /\ vendor' = c /\ starting' = TRUE
          /\ Tell(c, "waiting")
       \/ /\ vendor' = IF vendor = None THEN c ELSE vendor
          /\ Tell(c, "failed")      \* INITIALIZATION_ERROR
          /\ UNCHANGED starting
    /\ UNCHANGED <<notices, absent, iso, sent>>

\* VendorInterface reports through the lambda that captured the client.
InitializationComplete ==
    /\ starting
    /\ starting' = FALSE
    /\ \E s \in {"ready", "failed"} : Tell(vendor, s)
    /\ UNCHANGED <<v1_0, links, notices, has_died_, unlink_cb_, vendor, absent, iso, sent>>

Shutdown ==
    /\ absent' = (absent \/ vendor = None)
    /\ vendor' = None /\ starting' = FALSE

\* Mutant: close leaves the death recipient linked.
closeStaysLinked(c) ==
    /\ state[c] \in {"waiting", "failed", "ready"}
    /\ Tell(c, "closed")
    /\ Shutdown
    /\ UNCHANGED <<v1_0, links, notices, has_died_, unlink_cb_, iso, sent>>

close(c) ==
    /\ state[c] \in {"waiting", "failed", "ready"}
    /\ links' = IF has_died_ THEN links
                ELSE [links EXCEPT ![unlink_cb_] = IF @ > 0 THEN @ - 1 ELSE 0]
    /\ Tell(c, "closed")
    /\ Shutdown
    /\ UNCHANGED <<v1_0, notices, has_died_, unlink_cb_, iso, sent>>

Die(c) ==
    /\ state[c] \notin {"new", "dead"}
    /\ state' = [state EXCEPT ![c] = "dead"]
    /\ notices' = IF links[c] > 0 THEN notices \cup {c} ELSE notices
    /\ UNCHANGED <<v1_0, links, has_died_, unlink_cb_, vendor, starting, absent, iso, sent>>

\* The process starts again: a new client to the service.
Restart(c) ==
    /\ state[c] = "dead" /\ c \notin notices
    /\ state' = [state EXCEPT ![c] = "new"]
    /\ links' = [links EXCEPT ![c] = 0]
    /\ iso' = iso \ {c} /\ sent' = sent \ {c}
    /\ UNCHANGED <<v1_0, notices, has_died_, unlink_cb_, vendor, starting, absent>>

\* serviceDied, once per link: has_died_, then close without the unlink.
serviceDied(c) ==
    /\ c \in notices
    /\ has_died_' = TRUE
    /\ links' = [links EXCEPT ![c] = @ - 1]
    /\ notices' = IF links[c] = 1 THEN notices \ {c} ELSE notices
    /\ Shutdown
    /\ UNCHANGED <<state, v1_0, unlink_cb_, iso, sent>>

\* sendHciCommand, sendAclData, sendScoData, sendIsoData.
sendDataToController(c) ==
    /\ state[c] = "ready" /\ c \notin sent
    /\ sent' = sent \cup {c}
    /\ absent' = (absent \/ vendor = None)
    /\ UNCHANGED <<state, v1_0, links, notices, has_died_, unlink_cb_, vendor, starting, iso>>

\* An ISO packet; the wrapper of an old client drops it.  The other packets
\* reach every client the same way.
isoDataReceived ==
    /\ vendor # None /\ ~starting /\ vendor \notin iso \cup v1_0
    /\ iso' = iso \cup {vendor}
    /\ UNCHANGED <<state, v1_0, links, notices, has_died_, unlink_cb_, vendor, starting, absent, sent>>

Next ==
    \/ \E c \in Client :
           \/ \E old \in BOOLEAN : initialize_1_1(c, old)
           \/ close(c) \/ Die(c) \/ Restart(c) \/ serviceDied(c)
           \/ sendDataToController(c)
    \/ InitializationComplete \/ isoDataReceived

Spec == Init /\ [][Next]_vars

-----------------------------------------------------------------------------
\* Every session ends once: neither a client's close nor its death, in either
\* order, shuts down an interface that is already down, and a client that was
\* told SUCCESS never sends into one that is gone.
EndsOnce == ~absent

=============================================================================
