----------------------------- MODULE MalServer ------------------------------
(***************************************************************************)
(* The rild-mal socket server of ril.cpp: mtkmal connects, sends frames    *)
(* and reads answers; malDispatch passes an AT command on to mtk-ril.so,   *)
(* waits for its completion, tries again when it failed, and answers.  The *)
(* completion comes on a thread of mtk-ril.so through                      *)
(* RIL_onRequestComplete, which first looks the token up in the in-flight  *)
(* table without a lock (malClaim) and then fills the slot under           *)
(* s_malDoneMutex (malComplete).                                           *)
(*                                                                         *)
(* A request is named by the order it was read in; that number is also its *)
(* serial and its RequestInfo.                                             *)
(***************************************************************************)
EXTENDS Integers, FiniteSets, FiniteSetsExt

CONSTANTS
    Inflight,      \* slots of s_malInflight, 1..MAL_MAX_INFLIGHT
    MaxAttempts,   \* MAL_MAX_ATTEMPTS
    ClaimMayLag,   \* whether a slot may be given back between malClaim and malComplete
    MaxRequests,   \* bound on the frames the clients send
    MaxClients,    \* bound on the connections
    NULL

\* What the constants are taken to be.
MalConstants ==
    /\ Inflight \in SUBSET Nat /\ MaxAttempts \in Nat \ {0}
    /\ ClaimMayLag \in BOOLEAN /\ MaxRequests \in Nat /\ MaxClients \in Nat
    /\ NULL \notin Nat

VARIABLES
    client,        \* the connection accept() returned last; 0 before the first
    peerOpen,      \* whether mtkmal still has its end open
    s_malClientFd, \* that connection, or NULL
    server,        \* the server thread: where it is, and its local variables
    requests,      \* how many requests have been read
    askedBy,       \* askedBy[r]: the connection request r was read from
    s_malInflight, \* the in-flight table
    vendor,        \* vendor[r]: what mtk-ril.so is doing with the token of r
    claimed,       \* claimed[r]: the slot malClaim returned for it
    result,        \* result[r]: the error it is completing r with
    freed,         \* requests whose command string has been freed
    freedTokens,   \* requests whose RequestInfo has been freed
    answers        \* answers written: [req, to, err, of]; of: whose reply the text is

table == <<s_malInflight, freed, freedTokens>>
modem == <<vendor, claimed, result>>
socket == <<client, peerOpen, s_malClientFd>>
vars == <<socket, server, requests, askedBy, table, modem, answers>>

Request == 1..MaxRequests
Failure == 2     \* RIL_E_GENERIC_FAILURE
Errors == {0, Failure}

ServerIdle == [pc |-> "accept", req |-> NULL, slot |-> NULL, attempt |-> 0,
               timedOut |-> FALSE, err |-> 0, text |-> NULL]

FreeSlot == [inUse |-> FALSE, pRI |-> NULL, done |-> FALSE, err |-> 0, text |-> NULL]

Ref == Request \cup {NULL}
ServerStates ==
    [pc : {"accept", "read", "send", "wait", "take", "answer"}, req : Ref,
     slot : Inflight \cup {NULL}, attempt : 0..MaxAttempts, timedOut : BOOLEAN,
     err : Errors, text : Ref]
SlotStates == [inUse : BOOLEAN, pRI : Ref, done : BOOLEAN, err : Errors, text : Ref]
AnswerFrames == [req : Request, to : 1..MaxClients, err : Errors, of : Ref]

TypeOK ==
    /\ client \in 0..MaxClients /\ peerOpen \in BOOLEAN
    /\ s_malClientFd \in 1..MaxClients \cup {NULL}
    /\ server \in ServerStates
    /\ requests \in 0..MaxRequests /\ askedBy \in [Request -> 0..MaxClients]
    /\ s_malInflight \in [Inflight -> SlotStates]
    /\ vendor \in [Request -> {"none", "running", "claimed", "done"}]
    /\ claimed \in [Request -> Inflight \cup {NULL}] /\ result \in [Request -> Errors]
    /\ freed \subseteq Request /\ freedTokens \subseteq Request
    /\ answers \subseteq AnswerFrames

Init ==
    /\ client = 0 /\ peerOpen = FALSE /\ s_malClientFd = NULL
    /\ server = ServerIdle
    /\ requests = 0
    /\ askedBy = [r \in Request |-> 0]
    /\ s_malInflight = [i \in Inflight |-> FreeSlot]
    /\ vendor = [r \in Request |-> "none"]
    /\ claimed = [r \in Request |-> NULL]
    /\ result = [r \in Request |-> 0]
    /\ freed = {} /\ freedTokens = {}
    /\ answers = {}

-----------------------------------------------------------------------------
(* The client.                                                             *)

\* Mutant: connections are accepted while a request is being served.
AcceptAnytime ==
    /\ client < MaxClients
    /\ client' = client + 1
    /\ peerOpen' = TRUE
    /\ s_malClientFd' = client + 1
    /\ server' = IF server.pc = "accept" THEN [server EXCEPT !.pc = "read"] ELSE server
    /\ UNCHANGED <<requests, askedBy, table, modem, answers>>

\* mtkmal connects; the server thread is blocked in accept().
Accept ==
    /\ server.pc = "accept" /\ client < MaxClients
    /\ client' = client + 1
    /\ peerOpen' = TRUE
    /\ s_malClientFd' = client + 1
    /\ server' = [server EXCEPT !.pc = "read"]
    /\ UNCHANGED <<requests, askedBy, table, modem, answers>>

PeerCloses ==
    /\ peerOpen
    /\ peerOpen' = FALSE
    /\ UNCHANGED <<client, s_malClientFd, server, requests, askedBy, table, modem, answers>>

-----------------------------------------------------------------------------
(* The server thread.                                                      *)

\* malReadAll fails, or the frame's lengths do not fit.
Disconnect ==
    /\ server.pc = "read"
    /\ s_malClientFd' = NULL
    /\ peerOpen' = FALSE
    /\ server' = [server EXCEPT !.pc = "accept"]
    /\ UNCHANGED <<client, requests, askedBy, table, modem, answers>>

\* Mutant: failures are not answered.
SendFrameQuiet(req, err, text) ==
    answers' = IF s_malClientFd # NULL /\ peerOpen /\ err = 0
               THEN answers \cup {[req |-> req, to |-> s_malClientFd, err |-> err, of |-> text]}
               ELSE answers

\* malSendFrame: an answer to whoever is connected; lost when the peer is gone.
SendFrame(req, err, text) ==
    answers' = IF s_malClientFd # NULL /\ peerOpen
               THEN answers \cup {[req |-> req, to |-> s_malClientFd, err |-> err, of |-> text]}
               ELSE answers

ReadRequest ==
    /\ server.pc = "read" /\ peerOpen /\ requests < MaxRequests
    /\ requests' = requests + 1
    /\ askedBy' = [askedBy EXCEPT ![requests + 1] = client]

FreeSlots == {i \in Inflight : ~s_malInflight[i].inUse}

\* A request that is not served, has a bad payload or finds no slot.
Refuse ==
    /\ ReadRequest
    /\ SendFrame(requests + 1, Failure, NULL)
    /\ UNCHANGED <<socket, server, table, modem>>

\* The table entry and token of an AT command.
Dispatch ==
    /\ ReadRequest
    /\ FreeSlots # {}
    /\ LET i == Min(FreeSlots)
       IN  /\ s_malInflight' = [s_malInflight EXCEPT ![i] =
                  [inUse |-> TRUE, pRI |-> requests + 1, done |-> FALSE, err |-> 0, text |-> NULL]]
           /\ server' = [pc |-> "send", req |-> requests + 1, slot |-> i, attempt |-> 1,
                         timedOut |-> FALSE, err |-> 0, text |-> NULL]
    /\ UNCHANGED <<socket, freed, freedTokens, modem, answers>>

ServedSlot == s_malInflight[server.slot]

\* Mutant: a retry waits for the completion of the attempt before it.
SendNoReset ==
    /\ server.pc = "send"
    /\ vendor' = [vendor EXCEPT ![server.req] = "running"]
    /\ server' = [server EXCEPT !.pc = "wait"]
    /\ UNCHANGED <<socket, requests, askedBy, table, claimed, result, answers>>

\* One attempt: done = 0, then onRequest() under the channel's mutex.
Send ==
    /\ server.pc = "send"
    /\ s_malInflight' = [s_malInflight EXCEPT ![server.slot].done = FALSE]
    /\ vendor' = [vendor EXCEPT ![server.req] = "running"]
    /\ server' = [server EXCEPT !.pc = "wait"]
    /\ UNCHANGED <<socket, requests, askedBy, freed, freedTokens, claimed, result, answers>>

\* Mutant: a wake-up is taken for the completion.
WaitDoneOnce ==
    /\ server.pc = "wait"
    /\ server' = [server EXCEPT !.pc = "take"]
    /\ UNCHANGED <<socket, requests, askedBy, table, modem, answers>>

\* The wait returns with done set: answer, or try once more.
WaitDone ==
    /\ server.pc = "wait" /\ ServedSlot.done
    /\ server' = IF ServedSlot.err = 0 \/ server.attempt >= MaxAttempts
                 THEN [server EXCEPT !.pc = "take"]
                 ELSE [server EXCEPT !.pc = "send", !.attempt = @ + 1]
    /\ UNCHANGED <<socket, requests, askedBy, table, modem, answers>>

\* MAL_COMPLETE_WAIT_S have passed.
WaitTimesOut ==
    /\ server.pc = "wait" /\ ~ServedSlot.done
    /\ server' = [server EXCEPT !.pc = "take", !.timedOut = TRUE]
    /\ UNCHANGED <<socket, requests, askedBy, table, modem, answers>>

\* The end of malDispatch, under s_malDoneMutex: the answer leaves the slot.
Take ==
    /\ server.pc = "take"
    /\ server' = [server EXCEPT !.pc = "answer", !.text = ServedSlot.text,
                                !.err = IF server.timedOut THEN Failure ELSE ServedSlot.err]
    /\ s_malInflight' = [s_malInflight EXCEPT ![server.slot].text = NULL]
    /\ UNCHANGED <<socket, requests, askedBy, freed, freedTokens, modem, answers>>

\* ... is sent, and the slot is released.  The token of a request that timed out
\* is leaked.
Answer ==
    /\ server.pc = "answer"
    /\ vendor[server.req] = "claimed" => ClaimMayLag
    /\ SendFrame(server.req, server.err, server.text)
    /\ freed' = freed \cup {server.req}
    /\ freedTokens' = freedTokens \cup (IF server.timedOut THEN {} ELSE {server.req})
    /\ s_malInflight' = [s_malInflight EXCEPT ![server.slot] =
           [@ EXCEPT !.inUse = FALSE, !.pRI = NULL]]
    /\ server' = [ServerIdle EXCEPT !.pc = "read"]
    /\ UNCHANGED <<socket, requests, askedBy, modem>>

-----------------------------------------------------------------------------
(* mtk-ril.so                                                              *)

\* malClaim: the entries that hold the token.
Claim(r) == {i \in Inflight : s_malInflight[i].inUse /\ s_malInflight[i].pRI = r}

\* RIL_onRequestComplete up to malClaim.  A token that is in no slot any more is
\* not on the pending list either ("invalid RIL_Token").
OnRequestComplete(r, err) ==
    /\ vendor[r] = "running"
    /\ IF Claim(r) = {}
       THEN /\ vendor' = [vendor EXCEPT ![r] = "done"]
            /\ UNCHANGED <<claimed, result>>
       ELSE /\ vendor' = [vendor EXCEPT ![r] = "claimed"]
            /\ claimed' = [claimed EXCEPT ![r] = Min(Claim(r))]
            /\ result' = [result EXCEPT ![r] = err]
    /\ UNCHANGED <<socket, server, requests, askedBy, table, answers>>

\* malComplete: parks the answer in the slot and wakes malDispatch.
MalComplete(r) ==
    /\ vendor[r] = "claimed"
    /\ s_malInflight' = [s_malInflight EXCEPT ![claimed[r]] =
           [@ EXCEPT !.text = r, !.err = result[r], !.done = TRUE]]
    /\ vendor' = [vendor EXCEPT ![r] = "done"]
    /\ UNCHANGED <<socket, server, requests, askedBy, freed, freedTokens, claimed, result,
                   answers>>

-----------------------------------------------------------------------------
ServerNext == Disconnect \/ Refuse \/ Dispatch \/ Send \/ WaitDone \/ WaitTimesOut
              \/ Take \/ Answer

VendorNext == \E r \in Request : MalComplete(r) \/ \E e \in Errors : OnRequestComplete(r, e)

Next == Accept \/ PeerCloses \/ ServerNext \/ VendorNext

Spec == Init /\ [][Next]_vars

\* The server thread runs, a wait ends by its deadline at the latest, and
\* mtk-ril.so finishes what it has started to complete.
FairSpec ==
    /\ Spec
    /\ WF_vars(Send) /\ WF_vars(WaitDone) /\ WF_vars(WaitTimesOut)
    /\ WF_vars(Take) /\ WF_vars(Answer)
    /\ WF_vars(VendorNext)

-----------------------------------------------------------------------------
(* Properties.                                                             *)

\* An answer carries the reply to its own request: the text parked in a slot is
\* never that of an earlier user of the slot, or of the attempt of another
\* request ("[u32 serial] ... echoed back so the client can match").
AnswerIsOwn == \A a \in answers : a.of \in {a.req, NULL} /\ (a.err = 0 => a.of = a.req)

\* A request is answered at most once, and an answer goes to the connection its
\* request came from, although the connection is looked up when the answer is
\* written: a client that reconnects never sees the answers of its predecessor.
AnswerToAsker ==
    \A a \in answers : a.to = askedBy[a.req] /\ \A b \in answers : b.req = a.req => b = a

\* The token outlives every use by mtk-ril.so ("leaking one RequestInfo beats a
\* use-after-free").
TokenOutlivesUse ==
    \A r \in freedTokens : vendor[r] \notin {"running", "claimed"}

\* Every request that is read is answered, unless its client went away.
EveryRequestAnswered ==
    \A r \in Request :
        (requests >= r) ~> \/ \E a \in answers : a.req = r
                           \/ ~peerOpen \/ client # askedBy[r]

=============================================================================
