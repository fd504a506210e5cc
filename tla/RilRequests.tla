---------------------------- MODULE RilRequests -----------------------------
(***************************************************************************)
(* The life of a radio request in libril (ril.cpp): addRequestToList puts  *)
(* a token on its slot's pending list and my_enqueue hands it to           *)
(* mtk-ril.so, which may acknowledge it and then completes it from one of  *)
(* its threads; RIL_onRequestComplete takes the token off the list, sends  *)
(* the response to the framework and frees it.  Requests with serial -1    *)
(* are libril's own: their answers stay here.                              *)
(*                                                                         *)
(* On top of that sits the emulation of DEVICE_IDENTITY, which mtk-ril.so  *)
(* does not know: getDeviceIdentity first asks for the IMEI and IMEISV     *)
(* itself, and the completion of DEVICE_IDENTITY is then answered from     *)
(* what those left in Device_ID.  A property switches it on and off.       *)
(*                                                                         *)
(* Asynchronous responses take the wake lock of WakeLock.                  *)
(***************************************************************************)
EXTENDS WakeLock, Sequences

CONSTANTS
    Slot,        \* SIM slots
    MaxRequests, \* bound on the requests
    MaxAcks      \* bound on the requests mtk-ril.so acknowledges

ASSUME RequestConstants == MaxRequests \in Nat /\ MaxAcks \in Nat /\ NULL \notin Nat

Request == 1..MaxRequests
Local == {"IMEI", "IMEISV"}      \* RIL_REQUEST_GET_IMEI, RIL_REQUEST_GET_IMEISV
Kind == Local \cup {"IDENTITY", "OTHER"}

VARIABLES
    issued,            \* how many requests there have been; a token is its number
    request,           \* request[r]: its slot, kind, wasAckSent, and whether its answer had data
    s_pendingRequests, \* s_pendingRequests[s]: the tokens on the list of slot s
    work,              \* work[t]: the completion vendor thread t is in
    emu,               \* persist.vendor.ril.mtk_devid_emu
    Device_ID,         \* Device_ID[s][k]: the string kept, named by its request, or NULL
    freedStrings,      \* strings freed since
    responses          \* responses sent to the framework

reqVars == <<issued, request, s_pendingRequests, work, emu, Device_ID, freedStrings, responses>>
allVars == <<wakeVars, reqVars>>

NoWork == [pc |-> "idle", req |-> NULL, data |-> NULL, ackExp |-> FALSE]
Vendors == NULL          \* in place of data: whatever mtk-ril.so completed the request with
Empty == [k \in Local |-> NULL]

RequestTypeOK ==
    /\ issued \in 0..MaxRequests
    /\ \A r \in 1..issued : /\ request[r].slot \in Slot /\ request[r].kind \in Kind
                            /\ {request[r].wasAckSent, request[r].ok} \subseteq BOOLEAN
    /\ s_pendingRequests \in [Slot -> SUBSET Request]
    /\ \A t \in Thread : /\ work[t].pc \in {"idle", "dequeued", "respond"}
                         /\ work[t].req \in Request \cup {NULL}
    /\ emu \in BOOLEAN
    /\ Device_ID \in [Slot -> [Local -> Request \cup {NULL}]]
    /\ freedStrings \subseteq Request

RequestInit ==
    /\ WakeInit
    /\ issued = 0
    /\ request = [r \in Request |-> NULL]
    /\ s_pendingRequests = [s \in Slot |-> {}]
    /\ work = [t \in Thread |-> NoWork]
    /\ emu \in BOOLEAN
    /\ Device_ID = [s \in Slot |-> Empty]
    /\ freedStrings = {}
    /\ responses = {}

-----------------------------------------------------------------------------
(* Requests.                                                               *)

\* addRequestToList and my_enqueue, for the requests of one call in turn.
AddRequests(s, kinds) ==
    LET new == 1..Len(kinds)
    IN  /\ issued + Len(kinds) <= MaxRequests
        /\ issued' = issued + Len(kinds)
        /\ request' = [r \in Request |->
               IF r - issued \in new
               THEN [slot |-> s, kind |-> kinds[r - issued], wasAckSent |-> FALSE, ok |-> TRUE]
               ELSE request[r]]
        /\ s_pendingRequests' = [s_pendingRequests EXCEPT ![s] = @ \cup {issued + n : n \in new}]
        /\ UNCHANGED <<wakeVars, work, emu, Device_ID, freedStrings, responses>>

SendRequest(s) == AddRequests(s, <<"OTHER">>)

\* Mutant: only the IMEI is asked for.
GetDeviceIdentityShort(s) ==
    AddRequests(s, IF emu THEN <<"IMEI", "IDENTITY">> ELSE <<"IDENTITY">>)

GetDeviceIdentity(s) ==
    AddRequests(s, IF emu THEN <<"IMEI", "IMEISV", "IDENTITY">> ELSE <<"IDENTITY">>)

\* The emulation property is changed.
SetProperty ==
    /\ emu' = ~emu
    /\ UNCHANGED <<wakeVars, issued, request, s_pendingRequests, work, Device_ID,
                   freedStrings, responses>>

-----------------------------------------------------------------------------
(* mtk-ril.so answers.                                                     *)

Busy(r) == \E t \in Thread : work[t].req = r

\* mtk-ril.so serves the requests of a slot one by one, in order.
Turn(r) ==
    \A q \in 1..issued : request[q].slot = request[r].slot
        => ~Busy(q) /\ (q < r => q \notin s_pendingRequests[request[q].slot])

\* RIL_onRequestAck, of a request that is not being completed.
OnRequestAck(r) ==
    /\ r \in s_pendingRequests[request[r].slot]
    /\ request[r].kind \notin Local
    /\ ~request[r].wasAckSent
    /\ Cardinality({q \in 1..issued : request[q].wasAckSent}) < MaxAcks
    /\ request' = [request EXCEPT ![r].wasAckSent = TRUE]
    /\ UNCHANGED <<wakeVars, issued, s_pendingRequests, work, emu, Device_ID, freedStrings,
                   responses>>

\* Mutant: a token that is not on the list is answered all the same.
DequeueAny(t, r) ==
    s_pendingRequests' = [s_pendingRequests EXCEPT ![request[r].slot] = @ \ {r}]

\* checkAndDequeueRequestInfoIfAck: only what is on its slot's list is completed.
Dequeue(t, r) ==
    /\ r \in s_pendingRequests[request[r].slot]
    /\ s_pendingRequests' = [s_pendingRequests EXCEPT ![request[r].slot] = @ \ {r}]

\* RIL_onRequestComplete: the token leaves the list.  ok: there is a response; told
\* apart only where libril looks into it.
OnRequestComplete(t, r, ok) ==
    /\ work[t] = NoWork /\ Turn(r)
    /\ request[r].kind \notin Local => ok
    /\ Dequeue(t, r)
    /\ request' = [request EXCEPT ![r].ok = ok]
    /\ work' = [work EXCEPT ![t] = [NoWork EXCEPT !.pc = "dequeued", !.req = r]]
    /\ UNCHANGED <<wakeVars, issued, emu, Device_ID, freedStrings, responses>>

Current(t) == request[work[t].req]

\* Mutant: an answer without data leaves the string of an earlier query.
KeepIdentityOld(s, k, str) ==
    IF str = NULL THEN UNCHANGED <<Device_ID, freedStrings>>
    ELSE /\ Device_ID' = [Device_ID EXCEPT ![s][k] = str]
         /\ freedStrings' = freedStrings \cup ({Device_ID[s][k]} \ {NULL})

\* free(Device_ID[i].imei); Device_ID[i].imei = response ? strdup(response) : NULL
KeepIdentity(s, k, str) ==
    /\ Device_ID' = [Device_ID EXCEPT ![s][k] = str]
    /\ freedStrings' = freedStrings \cup ({Device_ID[s][k]} \ {NULL})

\* A request of libril's own: keep its answer.
CompleteLocal(t) ==
    /\ work[t].pc = "dequeued" /\ Current(t).kind \in Local
    /\ KeepIdentity(Current(t).slot, Current(t).kind,
                    IF Current(t).ok THEN work[t].req ELSE NULL)
    /\ work' = [work EXCEPT ![t] = NoWork]
    /\ UNCHANGED <<wakeVars, issued, request, s_pendingRequests, emu, responses>>

Overrides(t) == Current(t).kind = "IDENTITY" /\ emu

\* The answer of any other: replaced for DEVICE_IDENTITY; after an acknowledgement
\* it takes the wake lock and asks for one in return.
Prepare(t) ==
    /\ work[t].pc = "dequeued" /\ Current(t).kind \notin Local
    /\ work' = [work EXCEPT ![t] =
           [@ EXCEPT !.pc = "respond",
                     !.data = IF Overrides(t) THEN Device_ID[Current(t).slot] ELSE Vendors,
                     !.ackExp = version13 /\ Current(t).wasAckSent]]
    /\ IF version13 /\ Current(t).wasAckSent
       THEN GrabPartialWakeLock(t) ELSE UNCHANGED wakeVars
    /\ UNCHANGED <<issued, request, s_pendingRequests, emu, Device_ID, freedStrings, responses>>

\* responseFunction() reads the data and sends it; the token is freed.
Respond(t) ==
    /\ work[t].pc = "respond"
    /\ responses' = responses \cup
           {[req |-> work[t].req, slot |-> Current(t).slot,
             data |-> work[t].data, ackExp |-> work[t].ackExp,
             dangling |-> work[t].data # Vendors
                          /\ \E k \in Local : work[t].data[k] \in freedStrings]}
    /\ work' = [work EXCEPT ![t] = NoWork]
    /\ UNCHANGED <<wakeVars, issued, request, s_pendingRequests, emu, Device_ID, freedStrings>>

\* responseAcknowledgement() of the framework.
ResponseAcknowledgement ==
    /\ \E p \in responses : p.ackExp
    /\ ReleaseWakeLock
    /\ UNCHANGED reqVars

RequestNext ==
    \/ \E s \in Slot : SendRequest(s) \/ GetDeviceIdentity(s)
    \/ SetProperty
    \/ \E r \in 1..issued : OnRequestAck(r)
    \/ \E r \in 1..issued, t \in Thread, ok \in BOOLEAN : OnRequestComplete(t, r, ok)
    \/ \E t \in Thread : CompleteLocal(t) \/ Prepare(t) \/ Respond(t)
    \/ ResponseAcknowledgement
    \/ TimerSteps /\ UNCHANGED reqVars

RequestSpec == RequestInit /\ [][RequestNext]_allVars

-----------------------------------------------------------------------------
(* Properties.                                                             *)

\* A response belongs to a request of the framework, goes to the slot it came
\* from, and is the only one, even if mtk-ril.so completes a token twice
\* ("invalid RIL_Token"); what libril asked for itself never reaches it.
RespondedOnce ==
    \A p \in responses :
        /\ request[p.req].kind \notin Local /\ p.slot = request[p.req].slot
        /\ \A q \in responses : q.req = p.req => q = p
        /\ \A t \in Thread : work[t].req # p.req
        /\ p.req \notin s_pendingRequests[p.slot]

\* Whether getDeviceIdentity asked for the parts of identity request r first.
Emulated(r) == r > 1 /\ request[r - 1].kind \in Local

\* "handing the framework RIL_E_SUCCESS with four NULL pointers ... is strictly
\* worse than the crash it replaces" (Device_ID): a DEVICE_IDENTITY that was asked
\* for in parts and is reported as a success from Device_ID has an IMEI and an
\* IMEISV, unless the modem did not give them to an earlier request.
IdentityNeverEmptySuccess ==
    \A p \in responses : Emulated(p.req) /\ p.data # Vendors =>
        \A k \in Local : p.data[k] = NULL =>
            \E q \in 1..p.req : request[q].kind = k /\ request[q].slot = p.slot /\ ~request[q].ok

\* The identity reported belongs to the slot that was asked, and is what
\* the modem gave for this request or, where it did not, none: never what an earlier
\* query left behind.  Its strings have not been freed: "Storing it raw left
\* Device_ID[i] dangling, and the override below then handed that dangling pointer
\* to the framework".
IdentityFresh ==
    \A p \in responses : Emulated(p.req) /\ p.data # Vendors =>
        /\ ~p.dangling
        /\ \A k \in Local : p.data[k] # NULL =>
               /\ request[p.data[k]].slot = p.slot /\ request[p.data[k]].kind = k
               /\ p.req - p.data[k] <= Cardinality(Local)

=============================================================================
