-------------------------------- MODULE Sap --------------------------------
(***************************************************************************)
(* SIM access for Bluetooth: sap_service.cpp (SapImpl), RilSapSocket.cpp   *)
(* and its queue in rilSocketQueue.h.  A binder thread encodes a request   *)
(* and hands it to the vendor library; a vendor thread completes it, finds *)
(* the client's callback and answers, and frees what the request took.     *)
(***************************************************************************)
EXTENDS Integers, Sequences, Functions

CONSTANTS
    Token,      \* tokens of the client's requests, one use at a time
    Late,       \* the vendor completes a request after its dispatch has returned
    Steady      \* a client comes back after its predecessor's callback is reset

Crash == "crash"

VARIABLES
    sapCallback,    \* none, live or stale (its process is dead)
    req,            \* req[t]: the message id of the request, or "none"
    binder,         \* the binder thread: idle, or <<step, token>>
    vendor,         \* the vendor thread: idle, or <<step, token>>
    mem,            \* mem[t][p]: none, live, freed
    afterFree,      \* tokens with memory freed twice or used after it was freed
    queue,          \* pendingResponseQueue: the tokens in it
    said,           \* said[t]: what the modem answered
    told            \* told[t]: the answers the client was given, or why none

vars == <<sapCallback, req, binder, vendor, mem, afterFree, queue, said, told>>

Idle == <<"idle", "none">>
Pointers == {"msg", "command", "buffer", "payload", "request"}
Nothing == [p \in Pointers |-> "none"]

Init ==
    /\ sapCallback = "none"
    /\ req = [t \in Token |-> "none"]
    /\ binder = Idle /\ vendor = Idle
    /\ mem = [t \in Token |-> Nothing]
    /\ afterFree = {} /\ queue = {}
    /\ said = [t \in Token |-> "none"]
    /\ told = [t \in Token |-> <<>>]

-----------------------------------------------------------------------------
(* The messages.                                                           *)

\* The request methods: the message each sends and the memory it takes for it.
Encoded == {"msg", "buffer", "payload"}
SessionMethods == [CONNECT |-> Encoded, DISCONNECT |-> Encoded]
ApduMethods == [APDU |-> Encoded \cup {"command"}]
CardMethods == [TRANSFER_ATR |-> Encoded, POWER |-> Encoded, RESET_SIM |-> Encoded]
ReaderMethods == [TRANSFER_CARD_READER_STATUS |-> Encoded, SET_TRANSFER_PROTOCOL |-> Encoded]

MsgId == DOMAIN SessionMethods \cup DOMAIN ApduMethods \cup DOMAIN CardMethods
         \cup DOMAIN ReaderMethods
Taken(m) ==
    CASE m \in DOMAIN SessionMethods -> SessionMethods[m]
      [] m \in DOMAIN ApduMethods -> ApduMethods[m]
      [] m \in DOMAIN CardMethods -> CardMethods[m]
      [] m \in DOMAIN ReaderMethods -> ReaderMethods[m]

\* sendFailedResponse: what the client is told when a request fails on its way.
FailedCode(m) ==
    CASE m = "CONNECT" -> "CONNECT_FAILURE"
      [] m = "DISCONNECT" -> "disconnected"
      [] m = "SET_TRANSFER_PROTOCOL" -> "NOT_SUPPORTED"
      [] OTHER -> "GENERIC_FAILURE"

\* The convert...ProtoToHal functions; what a table leaves out is a failure.
convertApduResponseProtoToHal ==
    [SUCCESS |-> "SUCCESS", SIM_ABSENT |-> "CARD_REMOVED",
     SIM_ALREADY_POWERED_OFF |-> "CARD_ALREADY_POWERED_OFF",
     SIM_NOT_READY |-> "CARD_NOT_ACCESSSIBLE"]
convertTransferAtrResponseProtoToHal ==
    [SUCCESS |-> "SUCCESS", SIM_ABSENT |-> "CARD_REMOVED",
     SIM_ALREADY_POWERED_OFF |-> "CARD_ALREADY_POWERED_OFF",
     SIM_DATA_NOT_AVAILABLE |-> "DATA_NOT_AVAILABLE"]
convertPowerResponseProtoToHal ==
    [SUCCESS |-> "SUCCESS", SIM_ABSENT |-> "CARD_REMOVED",
     SIM_ALREADY_POWERED_OFF |-> "CARD_ALREADY_POWERED_OFF",
     SIM_ALREADY_POWERED_ON |-> "CARD_ALREADY_POWERED_ON"]
convertResetSimResponseProtoToHal == convertApduResponseProtoToHal
convertTransferCardReaderStatusResponseProtoToHal ==
    [SUCCESS |-> "SUCCESS", SIM_DATA_NOT_AVAILABLE |-> "DATA_NOT_AVAILABLE"]

Table(m) ==
    CASE m = "APDU" -> convertApduResponseProtoToHal
      [] m = "TRANSFER_ATR" -> convertTransferAtrResponseProtoToHal
      [] m = "POWER" -> convertPowerResponseProtoToHal
      [] m = "RESET_SIM" -> convertResetSimResponseProtoToHal
      [] m = "TRANSFER_CARD_READER_STATUS" -> convertTransferCardReaderStatusResponseProtoToHal
      [] OTHER -> [SUCCESS |-> "SUCCESS"]

\* What the modem may say; Undecodable is a payload pb_decode rejects, such as
\* the empty one of a failed request.
Undecodable == "undecodable"
Protos(m) == DOMAIN Table(m) \cup {"FAILURE", Undecodable}

\* Mutant: an unknown result is a success.
CodeHopeful(m, p) ==
    CASE m = "DISCONNECT" -> "disconnected"
      [] p = Undecodable -> Crash
      [] m = "CONNECT" -> p
      [] OTHER -> IF p \in DOMAIN Table(m) THEN Table(m)[p] ELSE "SUCCESS"

\* sapDecodeMessage and processResponse: the code the client gets.  A response
\* that cannot be decoded is dereferenced all the same; only the answer to
\* DISCONNECT does not look at it.
Code(m, p) ==
    CASE m = "DISCONNECT" -> "disconnected"
      [] p = Undecodable -> Crash
      [] m = "CONNECT" -> p
      [] OTHER -> IF p \in DOMAIN Table(m) THEN Table(m)[p]
                  ELSE FailedCode(m)

-----------------------------------------------------------------------------
(* Memory.                                                                 *)

Take(t, ps) == [p \in Pointers |-> IF p \in ps THEN "live" ELSE mem[t][p]]
Drop(block, ps) == [p \in Pointers |-> IF p \in ps /\ block[p] # "none" THEN "freed" ELSE block[p]]
Misused(t, ps) == IF \E p \in ps : mem[t][p] # "live" THEN afterFree \cup {t} ELSE afterFree

-----------------------------------------------------------------------------
(* The client.                                                             *)

setCallback ==
    /\ sapCallback # "live"
    /\ Steady => sapCallback = "none" /\ vendor[1] # "reset"
    /\ sapCallback' = "live"
    /\ UNCHANGED <<req, binder, vendor, mem, afterFree, queue, said, told>>

Die ==
    /\ sapCallback = "live"
    /\ sapCallback' = "stale"
    /\ UNCHANGED <<req, binder, vendor, mem, afterFree, queue, said, told>>

\* The client is done with a token.
TokenAgain(t) ==
    /\ told[t] # <<>> /\ t \notin queue /\ binder[2] # t /\ vendor[2] # t
    /\ req' = [req EXCEPT ![t] = "none"]
    /\ mem' = [mem EXCEPT ![t] = Nothing]
    /\ said' = [said EXCEPT ![t] = "none"]
    /\ told' = [told EXCEPT ![t] = <<>>]
    /\ afterFree' = afterFree \ {t}
    /\ UNCHANGED <<sapCallback, binder, vendor, queue>>

-----------------------------------------------------------------------------
(* The binder thread.                                                      *)

\* A request method as far as addPayloadAndDispatchRequest's own allocation: the
\* header, an APDU's command, the buffer it is encoded into, the payload.
Encode(t, m) ==
    /\ binder = Idle /\ req[t] = "none" /\ sapCallback = "live"
    /\ req' = [req EXCEPT ![t] = m]
    /\ mem' = [mem EXCEPT ![t] = Take(t, Taken(m))]
    /\ binder' = <<"dispatch", t>>
    /\ UNCHANGED <<sapCallback, vendor, afterFree, queue, said, told>>

\* The answer of sendFailedResponse; a dead client's callback fails and is reset.
Answer(t, code) ==
    told' = [told EXCEPT ![t] = Append(@, IF sapCallback = "live" THEN code ELSE "unreachable")]

\* Any of the steps of Encode fails: what was taken is freed, but for the
\* APDU's command once the request has been encoded.
sendFailedResponse(t, m) ==
    /\ binder = Idle /\ req[t] = "none" /\ sapCallback = "live"
    /\ req' = [req EXCEPT ![t] = m]
    /\ \E encoded \in BOOLEAN :
           mem' = [mem EXCEPT ![t] = Drop(Take(t, Taken(m)),
                                          Pointers \ IF encoded THEN {"command"} ELSE {})]
    /\ Answer(t, FailedCode(m))
    /\ UNCHANGED <<sapCallback, binder, vendor, afterFree, queue, said>>

\* RilSapSocket::dispatchRequest: into the queue and to the vendor ...
dispatchRequest ==
    /\ binder[1] = "dispatch"
    /\ LET t == binder[2]
       IN /\ mem' = [mem EXCEPT ![t] = Take(t, {"request"})]
          /\ queue' = queue \cup {t}
    /\ binder' = <<"free", binder[2]>>
    /\ UNCHANGED <<sapCallback, req, vendor, afterFree, said, told>>

\* ... or, without memory for the record, the header is freed and nobody told.
DispatchFails ==
    /\ binder[1] = "dispatch"
    /\ LET t == binder[2]
       IN /\ mem' = [mem EXCEPT ![t] = Drop(@, {"msg"})]
          /\ told' = [told EXCEPT ![t] = Append(@, "nomemory")]
    /\ binder' = <<"free", binder[2]>>
    /\ UNCHANGED <<sapCallback, req, vendor, afterFree, queue, said>>

\* Back in addPayloadAndDispatchRequest: free(msg->payload), free(reqPtr).
addPayloadAndDispatchRequest ==
    /\ binder[1] = "free"
    /\ LET t == binder[2]
       IN /\ afterFree' = Misused(t, {"msg", "payload", "buffer"})
          /\ mem' = [mem EXCEPT ![t] = Drop(@, {"payload", "buffer"})]
    /\ binder' = Idle
    /\ UNCHANGED <<sapCallback, req, vendor, queue, said, told>>

-----------------------------------------------------------------------------
(* The vendor thread.                                                      *)

\* onRequestComplete as far as the call of the client: without memory for the
\* response there is none, nor without a callback.
onRequestComplete(t) ==
    /\ vendor = Idle /\ t \in queue
    /\ Late => binder[2] # t
    /\ \E p \in Protos(req[t]) :
           /\ said' = [said EXCEPT ![t] = p]
           /\ \/ told' = [told EXCEPT ![t] = Append(@, "nomemory")] /\ vendor' = <<"free", t>>
              \/ /\ sapCallback = "none"
                 /\ told' = [told EXCEPT ![t] = Append(@, "unreachable")] /\ vendor' = <<"free", t>>
              \/ /\ sapCallback # "none"
                 /\ vendor' = <<"call", t>>
                 /\ UNCHANGED told
    /\ UNCHANGED <<sapCallback, req, binder, mem, afterFree, queue>>

processResponse ==
    /\ vendor[1] = "call"
    /\ LET t == vendor[2]
           code == Code(req[t], said[t])
       IN IF code = Crash THEN vendor' = <<Crash, t>> /\ UNCHANGED told
          ELSE /\ Answer(t, code)
               /\ vendor' = <<IF sapCallback = "live" THEN "free" ELSE "reset", t>>
    /\ UNCHANGED <<sapCallback, req, binder, mem, afterFree, queue, said>>

\* "Remote process hosting the callback must be dead."
checkReturnStatus ==
    /\ vendor[1] = "reset"
    /\ sapCallback' = "none"
    /\ vendor' = <<"free", vendor[2]>>
    /\ UNCHANGED <<req, binder, mem, afterFree, queue, said, told>>

\* checkAndDequeue frees the record, the caller the header.
checkAndDequeue ==
    /\ vendor[1] = "free"
    /\ LET t == vendor[2]
       IN /\ afterFree' = Misused(t, {"request", "msg"})
          /\ mem' = [mem EXCEPT ![t] = Drop(@, {"request", "msg"})]
          /\ queue' = queue \ {t}
    /\ vendor' = Idle
    /\ UNCHANGED <<sapCallback, req, binder, said, told>>

\* onUnsolicitedResponse: a DISCONNECT or STATUS indication for the client.
onUnsolicitedResponse ==
    /\ vendor = Idle /\ sapCallback = "stale"
    /\ vendor' = <<"lost", "none">>
    /\ UNCHANGED <<sapCallback, req, binder, mem, afterFree, queue, said, told>>

IndicationLost ==
    /\ vendor[1] = "lost"
    /\ sapCallback' = "none"
    /\ vendor' = Idle
    /\ UNCHANGED <<req, binder, mem, afterFree, queue, said, told>>

\* rild dies of the undecoded response and is started again.
Restart ==
    /\ vendor[1] = Crash
    /\ sapCallback' = "none"
    /\ req' = [t \in Token |-> "none"]
    /\ binder' = Idle /\ vendor' = Idle
    /\ mem' = [t \in Token |-> Nothing]
    /\ afterFree' = {} /\ queue' = {}
    /\ said' = [t \in Token |-> "none"]
    /\ told' = [t \in Token |-> <<>>]

Next ==
    \/ setCallback \/ Die
    \/ \E t \in Token : TokenAgain(t) \/ onRequestComplete(t)
    \/ \E t \in Token, m \in MsgId : Encode(t, m) \/ sendFailedResponse(t, m)
    \/ dispatchRequest \/ DispatchFails \/ addPayloadAndDispatchRequest
    \/ processResponse \/ checkReturnStatus \/ checkAndDequeue
    \/ onUnsolicitedResponse \/ IndicationLost \/ Restart

Spec == Init /\ [][Next]_vars

-----------------------------------------------------------------------------
Settled(t) == req[t] # "none" /\ told[t] # <<>> /\ t \notin queue /\ binder[2] # t /\ vendor[2] # t

\* However its threads interleave, a request is answered at most once, with
\* SUCCESS only if the modem said so; when it is over its memory has been freed,
\* once, and not been read since.  Exceptions: the command of an APDU that was
\* encoded is never freed, and a request dispatchRequest had no memory for.
SapSettled ==
    \A t \in Token :
        /\ Len(told[t]) <= 1
        /\ "SUCCESS" \in Range(told[t]) => said[t] = "SUCCESS"
        /\ t \in afterFree => "nomemory" \in Range(told[t])
        /\ Settled(t) => \A p \in Pointers \ {"command"} : mem[t][p] # "live"

=============================================================================
