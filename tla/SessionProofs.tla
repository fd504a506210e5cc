--------------------------- MODULE SessionProofs ----------------------------
(***************************************************************************)
(* Theorems about the services whose clients come and go: the SAP service, *)
(* for any number of tokens, the data calls, for any number of interfaces, *)
(* and the Bluetooth sessions.                                             *)
(***************************************************************************)
EXTENDS MCSessions, FiniteSetTheorems, WellFoundedInduction, TLAPS

\* A leaf is tried with Zenon first: most need no arithmetic.  The second round
\* is for slow machines.
USE ZenonT(5), SMTT(30), ZenonT(60), SMTT(90)

-----------------------------------------------------------------------------
(* The SAP service: where a request is.                                    *)

Block == [Pointers -> {"none", "live", "freed"}]

SapTypeOK ==
    /\ sapCallback \in {"none", "live", "stale"}
    /\ req \in [Token -> MsgId \cup {"none"}]
    /\ mem \in [Token -> Block]
    /\ afterFree \subseteq Token /\ queue \subseteq Token
    /\ DOMAIN said = Token /\ DOMAIN told = Token

\* The threads are at no request, or at one of the client's.
Threads ==
    /\ binder = Idle \/ \E t \in Token : binder \in {<<"dispatch", t>>, <<"free", t>>}
    /\ \/ vendor \in {Idle, <<"lost", "none">>}
       \/ \E t \in Token : vendor \in {<<"call", t>>, <<"reset", t>>, <<"free", t>>, <<Crash, t>>}

Live(t, ps) == \A p \in ps : mem[t][p] = "live"
Gone(t, ps) == \A p \in ps : mem[t][p] # "live"
Untold(t) == told[t] = <<>> /\ t \notin afterFree
Told(t) == \E x : told[t] = <<x>> /\ (x = "SUCCESS" => said[t] = "SUCCESS")

\* The token is not in use.
Unused(t) ==
    /\ req[t] = "none" /\ Untold(t) /\ mem[t] = Nothing
    /\ binder[2] # t /\ vendor[2] # t /\ t \notin queue

\* The binder thread has encoded the request.
Dispatching(t) ==
    /\ req[t] # "none" /\ Untold(t) /\ Live(t, Encoded) /\ mem[t]["request"] = "none"
    /\ binder = <<"dispatch", t>> /\ vendor[2] # t /\ t \notin queue

\* It has handed it to the vendor, and has yet to free its own part ...
Handed(t) ==
    /\ req[t] # "none" /\ Untold(t) /\ Live(t, Encoded \cup {"request"})
    /\ binder = <<"free", t>> /\ vendor[2] # t /\ t \in queue

\* ... or had no memory to.
Unhanded(t) ==
    /\ req[t] # "none" /\ told[t] = <<"nomemory">> /\ t \notin afterFree
    /\ Gone(t, {"msg", "request"})
    /\ binder = <<"free", t>> /\ vendor[2] # t /\ t \notin queue

\* The vendor has the request to itself, up to the answer ...
Waiting(t) ==
    /\ req[t] # "none" /\ Untold(t) /\ Live(t, {"msg", "request"}) /\ Gone(t, {"buffer", "payload"})
    /\ binder[2] # t /\ t \in queue
    /\ vendor[2] = t => vendor[1] \in {"call", Crash}

\* ... and from there on.
Answering(t) ==
    /\ req[t] # "none" /\ Told(t) /\ t \notin afterFree
    /\ Live(t, {"msg", "request"}) /\ Gone(t, {"buffer", "payload"})
    /\ binder[2] # t /\ t \in queue
    /\ vendor \in {<<"reset", t>>, <<"free", t>>}

\* The request is over.
Over(t) ==
    /\ req[t] # "none" /\ Told(t) /\ (t \in afterFree => told[t] = <<"nomemory">>)
    /\ Gone(t, Pointers \ {"command"})
    /\ binder[2] # t /\ vendor[2] # t /\ t \notin queue

Placed(t) ==
    \/ Unused(t) \/ Dispatching(t) \/ Handed(t) \/ Unhanded(t) \/ Waiting(t) \/ Answering(t)
    \/ Over(t)

SapInv == SapTypeOK /\ Threads /\ \A t \in Token : Placed(t)

\* A step leaves the requests it is not about where they are.
LEMMA Elsewhere ==
    ASSUME NEW u \in Token, Placed(u),
           req'[u] = req[u], mem'[u] = mem[u], said'[u] = said[u], told'[u] = told[u],
           u \in queue' <=> u \in queue, u \in afterFree' <=> u \in afterFree,
           binder' = binder \/ (binder[2] # u /\ binder'[2] # u),
           vendor' = vendor \/ (vendor[2] # u /\ vendor'[2] # u)
    PROVE  Placed(u)'
<1>1. CASE Unused(u)
  BY <1>1 DEF Unused, Untold, Placed
<1>2. CASE Dispatching(u)
  BY <1>2 DEF Dispatching, Untold, Live, Placed
<1>3. CASE Handed(u)
  BY <1>3 DEF Handed, Untold, Live, Placed
<1>4. CASE Unhanded(u)
  BY <1>4 DEF Unhanded, Gone, Placed
<1>5. CASE Waiting(u)
  BY <1>5 DEF Waiting, Untold, Live, Gone, Placed
<1>6. CASE Answering(u)
  BY <1>6 DEF Answering, Told, Live, Gone, Placed
<1>7. CASE Over(u)
  BY <1>7 DEF Over, Told, Gone, Placed
<1> QED
  BY <1>1, <1>2, <1>3, <1>4, <1>5, <1>6, <1>7 DEF Placed

\* The client hears of a success only when the modem reported one: no
\* convert...ProtoToHal function makes one of anything else, nor does a failure.
LEMMA SuccessIsSaid ==
    ASSUME NEW m \in MsgId, NEW p
    PROVE  /\ Code(m, p) = "SUCCESS" => p = "SUCCESS"
           /\ FailedCode(m) # "SUCCESS"
<1>1. FailedCode(m) # "SUCCESS"
  BY DEF FailedCode
<1>2. ASSUME p \in DOMAIN Table(m), Table(m)[p] = "SUCCESS" PROVE p = "SUCCESS"
  BY <1>2 DEF Table, convertApduResponseProtoToHal, convertTransferAtrResponseProtoToHal,
              convertPowerResponseProtoToHal, convertResetSimResponseProtoToHal,
              convertTransferCardReaderStatusResponseProtoToHal
<1> QED
  BY <1>1, <1>2 DEF Code, Crash

\* What is taken ...
LEMMA TakeIs ==
    ASSUME SapTypeOK, NEW t \in Token, NEW ps \in SUBSET Pointers
    PROVE  /\ Take(t, ps) \in Block
           /\ \A p \in Pointers : Take(t, ps)[p] = IF p \in ps THEN "live" ELSE mem[t][p]
<1>1. mem[t] \in Block
  BY DEF SapTypeOK
<1> QED
  BY <1>1 DEF Take, Block

\* ... and freed.
LEMMA DropIs ==
    ASSUME NEW b \in Block, NEW ps \in SUBSET Pointers
    PROVE  /\ Drop(b, ps) \in Block
           /\ \A p \in ps : Drop(b, ps)[p] # "live"
           /\ \A p \in Pointers \ ps : Drop(b, ps)[p] = b[p]
BY DEF Drop, Block

\* What a request method takes.
LEMMA TakenIs ==
    ASSUME NEW m \in MsgId
    PROVE  Encoded \subseteq Taken(m) /\ Taken(m) \subseteq Pointers \ {"request"} /\ m # "none"
BY DEF MsgId, Taken, SessionMethods, ApduMethods, CardMethods, ReaderMethods, Encoded, Pointers

\* A thread that is at a request.
LEMMA Working ==
    ASSUME Threads, "none" \notin Token
    PROVE  /\ binder[1] # "idle" => binder[2] \in Token /\ binder = <<binder[1], binder[2]>>
           /\ vendor[1] \notin {"idle", "lost"} =>
                 vendor[2] \in Token /\ vendor = <<vendor[1], vendor[2]>>
           /\ vendor[1] = "lost" => vendor = <<"lost", "none">>
BY DEF Threads, Idle, Crash

-----------------------------------------------------------------------------
(* Its steps.                                                              *)

\* A method encodes its request.
LEMMA EncodeStep ==
    ASSUME SapInv, "none" \notin Token, NEW t \in Token, NEW m \in MsgId, Encode(t, m)
    PROVE  SapInv'
<1>1. /\ binder = Idle /\ req[t] = "none" /\ binder' = <<"dispatch", t>>
      /\ req' = [req EXCEPT ![t] = m] /\ mem' = [mem EXCEPT ![t] = Take(t, Taken(m))]
      /\ UNCHANGED <<sapCallback, vendor, afterFree, queue, said, told>>
      /\ SapTypeOK /\ Threads /\ \A u \in Token : Placed(u)
  BY DEF Encode, SapInv
<1>2. Unused(t)
  BY <1>1 DEF Placed, Unused, Dispatching, Handed, Unhanded, Waiting, Answering, Over
<1>3. /\ Encoded \subseteq Taken(m) /\ Taken(m) \subseteq Pointers \ {"request"} /\ m # "none"
      /\ Take(t, Taken(m)) \in Block
      /\ \A p \in Pointers : Take(t, Taken(m))[p] = IF p \in Taken(m) THEN "live" ELSE mem[t][p]
  BY <1>1, TakenIs, TakeIs
<1>4. SapTypeOK' /\ Threads'
  BY <1>1, <1>3 DEF SapTypeOK, Threads
<1>5. Placed(t)'
  <2>1. req'[t] = m /\ mem'[t] = Take(t, Taken(m))
    BY <1>1 DEF SapTypeOK
  <2>2. Encoded \subseteq Pointers /\ mem[t]["request"] = "none" /\ "request" \in Pointers
    BY <1>2 DEF Unused, Nothing, Pointers, Encoded
  <2>3. (\A p \in Encoded : mem'[t][p] = "live") /\ mem'[t]["request"] = "none"
    BY <1>3, <2>1, <2>2
  <2> QED
    BY <1>1, <1>2, <1>3, <2>1, <2>3 DEF Placed, Dispatching, Unused, Untold, Live
<1>6. ASSUME NEW u \in Token, u # t PROVE Placed(u)'
  <2>1. binder[2] # u /\ binder'[2] # u
    BY <1>1, <1>6 DEF Idle
  <2>2. req'[u] = req[u] /\ mem'[u] = mem[u]
    BY <1>1, <1>6 DEF SapTypeOK
  <2> QED
    BY <1>1, <2>1, <2>2, Elsewhere
<1> QED
  BY <1>4, <1>5, <1>6 DEF SapInv

\* Encoding fails.
LEMMA FailStep ==
    ASSUME SapInv, "none" \notin Token, NEW t \in Token, NEW m \in MsgId, sendFailedResponse(t, m)
    PROVE  SapInv'
<1>1. PICK encoded \in BOOLEAN :
         mem' = [mem EXCEPT ![t] = Drop(Take(t, Taken(m)),
                                        Pointers \ IF encoded THEN {"command"} ELSE {})]
  BY DEF sendFailedResponse
<1> DEFINE rest == Pointers \ IF encoded THEN {"command"} ELSE {}
           said1 == IF sapCallback = "live" THEN FailedCode(m) ELSE "unreachable"
<1>2. /\ req[t] = "none" /\ req' = [req EXCEPT ![t] = m]
      /\ told' = [told EXCEPT ![t] = Append(@, said1)]
      /\ UNCHANGED <<sapCallback, binder, vendor, afterFree, queue, said>>
      /\ SapTypeOK /\ Threads /\ \A u \in Token : Placed(u)
  BY DEF sendFailedResponse, Answer, SapInv
<1>3. Unused(t)
  BY <1>2 DEF Placed, Unused, Dispatching, Handed, Unhanded, Waiting, Answering, Over
<1>4. m # "none" /\ said1 # "SUCCESS" /\ Taken(m) \subseteq Pointers
  BY TakenIs, SuccessIsSaid
<1>5. rest \subseteq Pointers /\ \A p \in Pointers : p # "command" => p \in rest
  OBVIOUS
<1> HIDE DEF said1, rest
<1>6. /\ mem' = [mem EXCEPT ![t] = Drop(Take(t, Taken(m)), rest)]
      /\ Drop(Take(t, Taken(m)), rest) \in Block
      /\ \A p \in rest : Drop(Take(t, Taken(m)), rest)[p] # "live"
  <2>1. mem' = [mem EXCEPT ![t] = Drop(Take(t, Taken(m)), rest)]
    BY <1>1 DEF rest
  <2>2. Take(t, Taken(m)) \in Block
    BY <1>2, <1>4, TakeIs
  <2> QED
    BY <1>5, <2>1, <2>2, DropIs
<1>7. told'[t] = <<said1>>
  <2>1. told[t] = <<>> /\ told'[t] = Append(told[t], said1)
    BY <1>2, <1>3 DEF Unused, Untold, SapTypeOK
  <2> QED
    BY <2>1
<1>8. SapTypeOK' /\ Threads'
  BY <1>2, <1>6 DEF SapTypeOK, Threads
<1>9. Placed(t)'
  <2>1. req'[t] = m /\ \A p \in rest : mem'[t][p] # "live"
    BY <1>2, <1>6 DEF SapTypeOK
  <2>2. Gone(t, Pointers \ {"command"})'
    BY <1>5, <2>1 DEF Gone
  <2> QED
    BY <1>2, <1>3, <1>4, <1>7, <2>1, <2>2 DEF Placed, Over, Told, Unused, Untold
<1>10. ASSUME NEW u \in Token, u # t PROVE Placed(u)'
  <2>1. req'[u] = req[u] /\ mem'[u] = mem[u] /\ told'[u] = told[u]
    BY <1>2, <1>6, <1>10 DEF SapTypeOK
  <2> QED
    BY <1>2, <2>1, Elsewhere
<1> QED
  BY <1>8, <1>9, <1>10 DEF SapInv

\* The request is handed over ...
LEMMA DispatchStep ==
    ASSUME SapInv, "none" \notin Token, dispatchRequest
    PROVE  SapInv'
<1>1. PICK t \in Token : binder = <<"dispatch", t>>
  BY Working DEF dispatchRequest, SapInv
<1>2. /\ binder[2] = t /\ binder' = <<"free", t>>
      /\ mem' = [mem EXCEPT ![t] = Take(t, {"request"})] /\ queue' = queue \cup {t}
      /\ UNCHANGED <<sapCallback, req, vendor, afterFree, said, told>>
      /\ SapTypeOK /\ Threads /\ \A u \in Token : Placed(u)
  BY <1>1 DEF dispatchRequest, SapInv
<1>3. Dispatching(t)
  BY <1>1, <1>2 DEF Placed, Unused, Dispatching, Handed, Unhanded, Waiting, Answering, Over
<1>4. /\ Take(t, {"request"}) \in Block /\ Encoded \subseteq Pointers /\ "request" \in Pointers
      /\ \A p \in Pointers :
             Take(t, {"request"})[p] = IF p \in {"request"} THEN "live" ELSE mem[t][p]
  <2>1. {"request"} \subseteq Pointers /\ Encoded \subseteq Pointers
    BY DEF Pointers, Encoded
  <2> QED
    BY <1>1, <1>2, <2>1, TakeIs
<1>5. SapTypeOK' /\ Threads'
  BY <1>1, <1>2, <1>4 DEF SapTypeOK, Threads
<1>6. Placed(t)'
  <2>1. mem'[t] = Take(t, {"request"})
    BY <1>1, <1>2 DEF SapTypeOK
  <2>2. Live(t, Encoded \cup {"request"})'
    BY <1>3, <1>4, <2>1 DEF Live, Dispatching
  <2> QED
    BY <1>1, <1>2, <1>3, <2>2 DEF Placed, Handed, Dispatching, Untold
<1>7. ASSUME NEW u \in Token, u # t PROVE Placed(u)'
  <2>1. binder[2] # u /\ binder'[2] # u /\ mem'[u] = mem[u] /\ (u \in queue' <=> u \in queue)
    BY <1>1, <1>2, <1>7 DEF SapTypeOK
  <2> QED
    BY <1>2, <2>1, Elsewhere
<1> QED
  BY <1>5, <1>6, <1>7 DEF SapInv

\* ... or there is no memory for it.
LEMMA DispatchFailsStep ==
    ASSUME SapInv, "none" \notin Token, DispatchFails
    PROVE  SapInv'
<1>1. PICK t \in Token : binder = <<"dispatch", t>>
  BY Working DEF DispatchFails, SapInv
<1>2. /\ binder[2] = t /\ binder' = <<"free", t>>
      /\ mem' = [mem EXCEPT ![t] = Drop(@, {"msg"})]
      /\ told' = [told EXCEPT ![t] = Append(@, "nomemory")]
      /\ UNCHANGED <<sapCallback, req, vendor, afterFree, queue, said>>
      /\ SapTypeOK /\ Threads /\ \A u \in Token : Placed(u)
  BY <1>1 DEF DispatchFails, SapInv
<1>3. Dispatching(t)
  BY <1>1, <1>2 DEF Placed, Unused, Dispatching, Handed, Unhanded, Waiting, Answering, Over
<1>4. /\ mem[t] \in Block /\ Drop(mem[t], {"msg"}) \in Block
      /\ Drop(mem[t], {"msg"})["msg"] # "live"
      /\ Drop(mem[t], {"msg"})["request"] = mem[t]["request"]
  <2>1. {"msg"} \subseteq Pointers /\ "request" \in Pointers /\ "msg" \in Pointers
    BY DEF Pointers
  <2>2. mem[t] \in Block
    BY <1>1, <1>2 DEF SapTypeOK
  <2> QED
    BY <2>1, <2>2, DropIs
<1>5. SapTypeOK' /\ Threads'
  BY <1>1, <1>2, <1>4 DEF SapTypeOK, Threads
<1>6. Placed(t)'
  <2>1. mem'[t] = Drop(mem[t], {"msg"}) /\ told'[t] = Append(told[t], "nomemory")
    BY <1>1, <1>2 DEF SapTypeOK
  <2>2. told'[t] = <<"nomemory">>
    <3>1. told[t] = <<>>
      BY <1>3 DEF Dispatching, Untold
    <3> QED
      BY <2>1, <3>1
  <2>3. Gone(t, {"msg", "request"})'
    BY <1>3, <1>4, <2>1 DEF Gone, Dispatching
  <2> QED
    BY <1>1, <1>2, <1>3, <2>2, <2>3 DEF Placed, Unhanded, Dispatching, Untold
<1>7. ASSUME NEW u \in Token, u # t PROVE Placed(u)'
  <2>1. binder[2] # u /\ binder'[2] # u /\ mem'[u] = mem[u] /\ told'[u] = told[u]
    BY <1>1, <1>2, <1>7 DEF SapTypeOK
  <2> QED
    BY <1>2, <2>1, Elsewhere
<1> QED
  BY <1>5, <1>6, <1>7 DEF SapInv

\* The binder thread frees its part: nothing of it has been freed, unless there
\* was no memory.
LEMMA AddPayloadStep ==
    ASSUME SapInv, "none" \notin Token, addPayloadAndDispatchRequest
    PROVE  SapInv'
<1> DEFINE used == {"msg", "payload", "buffer"}
           own == {"payload", "buffer"}
<1>1. PICK t \in Token : binder = <<"free", t>>
  BY Working DEF addPayloadAndDispatchRequest, SapInv
<1>2. /\ binder[2] = t /\ binder' = Idle
      /\ afterFree' = Misused(t, used)
      /\ mem' = [mem EXCEPT ![t] = Drop(@, own)]
      /\ UNCHANGED <<sapCallback, req, vendor, queue, said, told>>
      /\ SapTypeOK /\ Threads /\ \A u \in Token : Placed(u)
  BY <1>1 DEF addPayloadAndDispatchRequest, SapInv
<1>3. Handed(t) \/ Unhanded(t)
  BY <1>1, <1>2 DEF Placed, Unused, Dispatching, Handed, Unhanded, Waiting, Answering, Over
<1>4. /\ mem[t] \in Block /\ Drop(mem[t], own) \in Block
      /\ \A p \in own : Drop(mem[t], own)[p] # "live"
      /\ \A p \in {"msg", "request"} : Drop(mem[t], own)[p] = mem[t][p]
  <2>1. own \subseteq Pointers /\ {"msg", "request"} \subseteq Pointers \ own
    BY DEF Pointers
  <2>2. mem[t] \in Block
    BY <1>1, <1>2 DEF SapTypeOK
  <2> QED
    BY <2>1, <2>2, DropIs
<1>5. mem'[t] = Drop(mem[t], own) /\ binder'[2] = "none"
  BY <1>1, <1>2 DEF SapTypeOK, Idle
<1>6. SapTypeOK' /\ Threads'
  BY <1>1, <1>2, <1>4 DEF SapTypeOK, Threads, Misused
<1>7. ASSUME Handed(t) PROVE Placed(t)'
  <2>1. t \notin afterFree'
    BY <1>2, <1>7 DEF Misused, Handed, Untold, Live, Encoded
  <2>2. Live(t, {"msg", "request"})' /\ Gone(t, {"buffer", "payload"})'
    BY <1>4, <1>5, <1>7 DEF Handed, Live, Gone, Encoded
  <2> QED
    <3>1. Untold(t)'
      BY <1>2, <1>7, <2>1 DEF Handed, Untold
    <3>2. Waiting(t)'
      BY <1>2, <1>5, <1>7, <2>2, <3>1 DEF Waiting, Handed
    <3> QED
      BY <3>2 DEF Placed
<1>8. ASSUME Unhanded(t) PROVE Placed(t)'
  <2>1. Gone(t, Pointers \ {"command"})'
    BY <1>4, <1>5, <1>8 DEF Unhanded, Gone, Pointers
  <2> QED
    <3>1. told'[t] = <<"nomemory">>
      BY <1>2, <1>8 DEF Unhanded
    <3>2. Told(t)'
      BY <3>1 DEF Told
    <3>3. Over(t)'
      BY <1>2, <1>5, <1>8, <2>1, <3>1, <3>2 DEF Over, Unhanded
    <3> QED
      BY <3>3 DEF Placed
<1>9. ASSUME NEW u \in Token, u # t PROVE Placed(u)'
  <2>1. /\ binder[2] # u /\ binder'[2] # u /\ mem'[u] = mem[u]
        /\ u \in afterFree' <=> u \in afterFree
    BY <1>1, <1>2, <1>5, <1>9 DEF SapTypeOK, Misused
  <2> QED
    BY <1>2, <2>1, Elsewhere
<1>10. Placed(t)'
  BY <1>3, <1>7, <1>8
<1> QED
  BY <1>6, <1>9, <1>10 DEF SapInv

\* The modem answers a request of the vendor's.
LEMMA CompleteStep ==
    ASSUME SapInv, Late, "none" \notin Token, NEW t \in Token, onRequestComplete(t)
    PROVE  SapInv'
<1>1. /\ vendor = Idle /\ t \in queue /\ binder[2] # t
      /\ \E p \in Protos(req[t]) : said' = [said EXCEPT ![t] = p]
      /\ \/ /\ \E x \in {"nomemory", "unreachable"} : told' = [told EXCEPT ![t] = Append(@, x)]
            /\ vendor' = <<"free", t>>
         \/ vendor' = <<"call", t>> /\ told' = told
      /\ UNCHANGED <<sapCallback, req, binder, mem, afterFree, queue>>
      /\ SapTypeOK /\ Threads /\ \A u \in Token : Placed(u)
  BY DEF onRequestComplete, SapInv
<1>2. Waiting(t)
  BY <1>1 DEF Placed, Unused, Dispatching, Handed, Unhanded, Waiting, Answering, Over, Idle
<1>3. SapTypeOK' /\ Threads'
  BY <1>1 DEF SapTypeOK, Threads
<1>4. ASSUME vendor' = <<"call", t>>, told' = told PROVE Placed(t)'
  BY <1>1, <1>2, <1>4 DEF Placed, Waiting, Untold, Live, Gone
<1>5. ASSUME NEW x \in {"nomemory", "unreachable"}, told' = [told EXCEPT ![t] = Append(@, x)],
             vendor' = <<"free", t>>
      PROVE  Placed(t)'
  <2>1. told'[t] = Append(told[t], x) /\ told[t] = <<>>
    BY <1>1, <1>2, <1>5 DEF SapTypeOK, Waiting, Untold
  <2>2. told'[t] = <<x>> /\ x # "SUCCESS"
    BY <2>1
  <2>3. Told(t)'
    BY <2>2 DEF Told
  <2>4. Answering(t)'
    BY <1>1, <1>2, <1>5, <2>3 DEF Answering, Waiting, Untold, Live, Gone
  <2> QED
    BY <2>4 DEF Placed
<1>6. ASSUME NEW u \in Token, u # t PROVE Placed(u)'
  <2>1. vendor[2] # u /\ vendor'[2] # u /\ said'[u] = said[u] /\ told'[u] = told[u]
    BY <1>1, <1>6 DEF SapTypeOK, Idle
  <2> QED
    BY <1>1, <2>1, Elsewhere
<1> QED
  BY <1>1, <1>3, <1>4, <1>5, <1>6 DEF SapInv

\* The client is called with the answer.
LEMMA ResponseStep ==
    ASSUME SapInv, "none" \notin Token, processResponse
    PROVE  SapInv'
<1>1. PICK t \in Token : vendor = <<"call", t>>
  BY Working DEF processResponse, SapInv
<1> DEFINE code == Code(req[t], said[t])
           x == IF sapCallback = "live" THEN code ELSE "unreachable"
<1>2. /\ vendor[1] = "call" /\ vendor[2] = t
      /\ \/ vendor' = <<Crash, t>> /\ told' = told
         \/ /\ told' = [told EXCEPT ![t] = Append(@, x)]
            /\ vendor' \in {<<"free", t>>, <<"reset", t>>}
      /\ UNCHANGED <<sapCallback, req, binder, mem, afterFree, queue, said>>
      /\ SapTypeOK /\ Threads /\ \A u \in Token : Placed(u)
  BY <1>1 DEF processResponse, Answer, SapInv
<1>3. Waiting(t)
  <2>1. Placed(t)
    BY <1>2
  <2> QED
    BY <1>1, <1>2, <2>1
       DEF Placed, Unused, Dispatching, Handed, Unhanded, Waiting, Answering, Over
<1>4. x = "SUCCESS" => said[t] = "SUCCESS"
  <2>1. req[t] \in MsgId
    BY <1>2, <1>3 DEF Waiting, SapTypeOK
  <2> QED
    BY <2>1, SuccessIsSaid
<1> HIDE DEF x, code
<1>5. SapTypeOK' /\ Threads'
  BY <1>2 DEF SapTypeOK, Threads
<1>6. ASSUME vendor' = <<Crash, t>>, told' = told PROVE Placed(t)'
  BY <1>2, <1>3, <1>6 DEF Placed, Waiting, Untold, Live, Gone
<1>7. ASSUME told' = [told EXCEPT ![t] = Append(@, x)], vendor' \in {<<"free", t>>, <<"reset", t>>}
      PROVE  Placed(t)'
  <2>1. told'[t] = Append(told[t], x) /\ told[t] = <<>>
    BY <1>2, <1>3, <1>7 DEF SapTypeOK, Waiting, Untold
  <2>2. told'[t] = <<x>>
    BY <2>1
  <2>3. Told(t)'
    BY <1>2, <1>4, <2>2 DEF Told
  <2>4. Answering(t)'
    BY <1>2, <1>3, <1>7, <2>3 DEF Answering, Waiting, Untold, Live, Gone
  <2> QED
    BY <2>4 DEF Placed
<1>8. ASSUME NEW u \in Token, u # t PROVE Placed(u)'
  <2>1. vendor[2] # u /\ vendor'[2] # u /\ told'[u] = told[u]
    BY <1>2, <1>8 DEF SapTypeOK
  <2> QED
    BY <1>2, <2>1, Elsewhere
<1> QED
  BY <1>2, <1>5, <1>6, <1>7, <1>8 DEF SapInv

\* The vendor frees the rest: nobody has freed it before.
LEMMA DequeueStep ==
    ASSUME SapInv, "none" \notin Token, checkAndDequeue
    PROVE  SapInv'
<1> DEFINE own == {"request", "msg"}
<1>1. PICK t \in Token : vendor = <<"free", t>>
  BY Working DEF checkAndDequeue, SapInv
<1>2. /\ vendor[1] = "free" /\ vendor[2] = t /\ vendor' = Idle
      /\ afterFree' = Misused(t, own)
      /\ mem' = [mem EXCEPT ![t] = Drop(@, own)]
      /\ queue' = queue \ {t}
      /\ UNCHANGED <<sapCallback, req, binder, said, told>>
      /\ SapTypeOK /\ Threads /\ \A u \in Token : Placed(u)
  BY <1>1 DEF checkAndDequeue, SapInv
<1>3. Answering(t)
  <2>1. Placed(t)
    BY <1>2
  <2> QED
    BY <1>1, <1>2, <2>1
       DEF Placed, Unused, Dispatching, Handed, Unhanded, Waiting, Answering, Over, Crash
<1>4. /\ Drop(mem[t], own) \in Block /\ \A p \in own : Drop(mem[t], own)[p] # "live"
      /\ \A p \in {"buffer", "payload"} : Drop(mem[t], own)[p] = mem[t][p]
  <2>1. own \subseteq Pointers /\ {"buffer", "payload"} \subseteq Pointers \ own
    BY DEF Pointers
  <2>2. mem[t] \in Block
    BY <1>2 DEF SapTypeOK
  <2> QED
    BY <2>1, <2>2, DropIs
<1>5. mem'[t] = Drop(mem[t], own) /\ vendor'[2] = "none" /\ afterFree' = afterFree
  BY <1>2, <1>3 DEF SapTypeOK, Idle, Misused, Answering, Live
<1>6. SapTypeOK' /\ Threads'
  BY <1>2, <1>4, <1>5 DEF SapTypeOK, Threads
<1>7. Placed(t)'
  <2>1. Gone(t, Pointers \ {"command"})'
    BY <1>3, <1>4, <1>5 DEF Answering, Gone, Pointers
  <2>2. Told(t)'
    BY <1>2, <1>3 DEF Answering, Told
  <2>3. Over(t)'
    BY <1>2, <1>3, <1>5, <2>1, <2>2 DEF Over, Answering
  <2> QED
    BY <2>3 DEF Placed
<1>8. ASSUME NEW u \in Token, u # t PROVE Placed(u)'
  <2>1. /\ vendor[2] # u /\ vendor'[2] # u /\ mem'[u] = mem[u]
        /\ u \in queue' <=> u \in queue
    BY <1>2, <1>5, <1>8 DEF SapTypeOK
  <2> QED
    BY <1>2, <1>5, <2>1, Elsewhere
<1> QED
  BY <1>6, <1>7, <1>8 DEF SapInv

\* The callback comes and goes.
LEMMA ClientStep ==
    ASSUME SapInv, "none" \notin Token,
           setCallback \/ Die \/ onUnsolicitedResponse \/ IndicationLost
    PROVE  SapInv'
<1>1. /\ UNCHANGED <<req, binder, mem, afterFree, queue, said, told>>
      /\ sapCallback' \in {"none", "live", "stale"}
      /\ vendor' = vendor \/ {vendor, vendor'} = {Idle, <<"lost", "none">>}
      /\ SapTypeOK /\ Threads /\ \A u \in Token : Placed(u)
  BY Working DEF SapInv, SapTypeOK, setCallback, Die, onUnsolicitedResponse, IndicationLost
<1>2. SapTypeOK' /\ Threads'
  BY <1>1 DEF SapTypeOK, Threads
<1>3. ASSUME NEW u \in Token PROVE Placed(u)'
  <2>1. vendor' = vendor \/ (vendor[2] # u /\ vendor'[2] # u)
    BY <1>1 DEF Idle
  <2> QED
    BY <1>1, <2>1, Elsewhere
<1> QED
  BY <1>2, <1>3 DEF SapInv

\* A dead client's callback is reset.
LEMMA ResetStep ==
    ASSUME SapInv, "none" \notin Token, checkReturnStatus
    PROVE  SapInv'
<1>1. PICK t \in Token : vendor = <<"reset", t>>
  BY Working DEF checkReturnStatus, SapInv
<1>2. /\ vendor[1] = "reset" /\ vendor[2] = t /\ vendor' = <<"free", t>> /\ sapCallback' = "none"
      /\ UNCHANGED <<req, binder, mem, afterFree, queue, said, told>>
      /\ SapTypeOK /\ Threads /\ \A u \in Token : Placed(u)
  BY <1>1 DEF checkReturnStatus, SapInv
<1>3. Answering(t)
  <2>1. Placed(t)
    BY <1>2
  <2> QED
    BY <1>1, <1>2, <2>1
       DEF Placed, Unused, Dispatching, Handed, Unhanded, Waiting, Answering, Over, Crash
<1>4. SapTypeOK' /\ Threads'
  BY <1>2 DEF SapTypeOK, Threads
<1>5. Placed(t)'
  BY <1>2, <1>3 DEF Placed, Answering, Told, Live, Gone
<1>6. ASSUME NEW u \in Token, u # t PROVE Placed(u)'
  <2>1. vendor[2] # u /\ vendor'[2] # u
    BY <1>2, <1>6
  <2> QED
    BY <1>2, <2>1, Elsewhere
<1> QED
  BY <1>4, <1>5, <1>6 DEF SapInv

\* A token is used again.
LEMMA AgainStep ==
    ASSUME SapInv, "none" \notin Token, NEW t \in Token, TokenAgain(t)
    PROVE  SapInv'
<1>1. /\ t \notin queue /\ binder[2] # t /\ vendor[2] # t
      /\ req' = [req EXCEPT ![t] = "none"] /\ mem' = [mem EXCEPT ![t] = Nothing]
      /\ said' = [said EXCEPT ![t] = "none"] /\ told' = [told EXCEPT ![t] = <<>>]
      /\ afterFree' = afterFree \ {t} /\ UNCHANGED <<sapCallback, binder, vendor, queue>>
      /\ SapTypeOK /\ Threads /\ \A u \in Token : Placed(u)
  BY DEF TokenAgain, SapInv
<1>2. Nothing \in Block
  BY DEF Nothing, Block
<1>3. SapTypeOK' /\ Threads'
  BY <1>1, <1>2 DEF SapTypeOK, Threads
<1>4. Placed(t)'
  <2>1. req'[t] = "none" /\ mem'[t] = Nothing /\ told'[t] = <<>>
    BY <1>1 DEF SapTypeOK
  <2> QED
    BY <1>1, <2>1 DEF Placed, Unused, Untold
<1>5. ASSUME NEW u \in Token, u # t PROVE Placed(u)'
  <2>1. /\ req'[u] = req[u] /\ mem'[u] = mem[u] /\ said'[u] = said[u] /\ told'[u] = told[u]
        /\ u \in afterFree' <=> u \in afterFree
    BY <1>1, <1>5 DEF SapTypeOK
  <2> QED
    BY <1>1, <2>1, Elsewhere
<1> QED
  BY <1>3, <1>4, <1>5 DEF SapInv

\* The service starts, for the first time or again.
LEMMA StartStep ==
    ASSUME "none" \notin Token
    PROVE  (Init => SapInv) /\ (Restart => SapInv')
<1>1. Nothing \in Block /\ Idle[2] = "none"
  BY DEF Nothing, Block, Idle
<1>2. Init => SapInv
  <2> SUFFICES ASSUME Init PROVE SapInv
    OBVIOUS
  <2>1. SapTypeOK /\ Threads
    BY <1>1 DEF Init, SapTypeOK, Threads
  <2>2. \A t \in Token : Placed(t)
    BY <1>1 DEF Init, Placed, Unused, Untold
  <2> QED
    BY <2>1, <2>2 DEF SapInv
<1>3. Restart => SapInv'
  <2> SUFFICES ASSUME Restart PROVE SapInv'
    OBVIOUS
  <2>1. SapTypeOK' /\ Threads'
    BY <1>1 DEF Restart, SapTypeOK, Threads
  <2>2. \A t \in Token : Placed(t)'
    BY <1>1 DEF Restart, Placed, Unused, Untold
  <2> QED
    BY <2>1, <2>2 DEF SapInv
<1> QED
  BY <1>2, <1>3

\* A SAP request is answered once, with a success only if the modem said so, and
\* RilSapSocket and SapImpl together free its memory once, whichever tokens and
\* clients come, if the vendor completes a request after its dispatch has returned.
THEOREM SapSettles == Late /\ "none" \notin Token => (Spec => []SapSettled)
<1> SUFFICES ASSUME Late, "none" \notin Token PROVE Spec => []SapSettled
  OBVIOUS
<1>1. Init => SapInv
  BY StartStep
<1>2. SapInv /\ [Next]_vars => SapInv'
  <2> SUFFICES ASSUME SapInv, [Next]_vars PROVE SapInv'
    OBVIOUS
  <2>1. CASE \E t \in Token : TokenAgain(t) \/ onRequestComplete(t)
    BY <2>1, AgainStep, CompleteStep
  <2>2. CASE \E t \in Token, m \in MsgId : Encode(t, m) \/ sendFailedResponse(t, m)
    BY <2>2, EncodeStep, FailStep
  <2>3. CASE dispatchRequest \/ DispatchFails \/ addPayloadAndDispatchRequest
    BY <2>3, DispatchStep, DispatchFailsStep, AddPayloadStep
  <2>4. CASE processResponse \/ checkReturnStatus \/ checkAndDequeue
    BY <2>4, ResponseStep, ResetStep, DequeueStep
  <2>5. CASE setCallback \/ Die \/ onUnsolicitedResponse \/ IndicationLost
    BY <2>5, ClientStep
  <2>6. CASE Restart
    BY <2>6, StartStep
  <2>7. CASE UNCHANGED vars
    <3>1. SapTypeOK' /\ Threads'
      BY <2>7 DEF SapInv, SapTypeOK, Threads, vars
    <3>2. ASSUME NEW u \in Token PROVE Placed(u)'
      BY <2>7, Elsewhere DEF SapInv, vars
    <3> QED
      BY <3>1, <3>2 DEF SapInv
  <2> QED
    BY <2>1, <2>2, <2>3, <2>4, <2>5, <2>6, <2>7 DEF Next
<1>3. SapInv => SapSettled
  <2> SUFFICES ASSUME SapInv, NEW t \in Token
               PROVE  /\ Len(told[t]) <= 1
                      /\ "SUCCESS" \in Range(told[t]) => said[t] = "SUCCESS"
                      /\ t \in afterFree => "nomemory" \in Range(told[t])
                      /\ Settled(t) => \A p \in Pointers \ {"command"} : mem[t][p] # "live"
    BY DEF SapSettled
  <2>1. Placed(t)
    BY DEF SapInv
  <2>2. told[t] = <<>> => Len(told[t]) = 0 /\ Range(told[t]) = {}
    BY DEF Range
  <2>3. \A x : told[t] = <<x>> => Len(told[t]) = 1 /\ Range(told[t]) = {x}
    BY DEF Range
  <2>4. CASE Untold(t)
    BY <2>2, <2>4 DEF Untold, Settled
  <2>5. CASE Answering(t)
    BY <2>3, <2>5 DEF Answering, Told, Settled
  <2>6. CASE Over(t)
    BY <2>3, <2>6 DEF Over, Told, Gone
  <2>7. CASE Unhanded(t)
    BY <2>3, <2>7 DEF Unhanded, Settled
  <2> QED
    BY <2>1, <2>4, <2>5, <2>6, <2>7
       DEF Placed, Unused, Dispatching, Handed, Waiting, Answering
<1> QED
  BY <1>1, <1>2, <1>3, PTL DEF Spec

-----------------------------------------------------------------------------
(* The data calls: how many entries of the list are in use.                *)

Used == {e \in Data!Entries : dataCallCids[e] # Data!Free}
UsedBy(i) == {e \in Data!Entries : dataCallCids[e] = i}
Calls == {c \in Data!Interfaces \X (1..MaxCalls) : c[2] <= cids[c[1]]}

\* The list has an entry for every call there can be.
DataConstants == Ordinary \in Nat /\ MaxCalls \in Nat /\ MaxCalls <= Ordinary + 1

\* Each call has its entry, and the framework's bound holds: so there is a free
\* entry whenever a setup is at the modem.
DataInv ==
    /\ dataCallCids \in [Data!Entries -> Data!Interfaces \cup {Data!Free}]
    /\ setups \in Seq(Data!Interfaces \cup {-1})
    /\ cids \in [Data!Interfaces -> 0..MaxCalls]
    /\ \A i \in Data!Interfaces : Cardinality(UsedBy(i)) = cids[i]
    /\ Cardinality(Used) = Cardinality(Calls)
    /\ Len(setups) + Cardinality(Calls) <= MaxCalls

\* The cardinality DataCalls counts with is that of the theorems.
LEMMA SameCount == ASSUME NEW S PROVE Data!Cardinality(S) = Cardinality(S)
  BY DEF Data!Cardinality, Cardinality

\* A set of entries has a least one.
LEMMA LeastEntry ==
    ASSUME NEW S \in SUBSET Nat, S # {}
    PROVE  Data!Min(S) \in S
<1> DEFINE R == OpToRel(<, Nat)
<1>1. IsWellFoundedOn(R, Nat)
  BY NatLessThanWellFounded
<1>2. \A x, y \in Nat : x < y => <<x, y>> \in R
  BY DEF OpToRel
<1> HIDE DEF R
<1>3. PICK k \in S : \A j \in S : ~(<<j, k>> \in R)
  BY <1>1, WFMin
<1>4. \A j \in S : k <= j
  <2>1. TAKE j \in S
  <2>2. j \in Nat /\ k \in Nat /\ ~(j < k)
    BY <1>2, <1>3
  <2> QED
    BY <2>2
<1> QED
  BY <1>4 DEF Data!Min

\* The sets counted are finite.
LEMMA Counted ==
    ASSUME DataConstants
    PROVE  /\ IsFiniteSet(Data!Entries) /\ Cardinality(Data!Entries) = Ordinary + 1
           /\ IsFiniteSet(Used) /\ \A i : IsFiniteSet(UsedBy(i))
           /\ IsFiniteSet(Calls) /\ Cardinality(Calls) \in Nat
<1>1. IsFiniteSet(Data!Entries) /\ Cardinality(Data!Entries) = Ordinary + 1
  BY FS_Interval DEF DataConstants, Data!Entries
<1>2. IsFiniteSet(Used)
  BY <1>1, FS_Subset DEF Used
<1>3. ASSUME NEW i PROVE IsFiniteSet(UsedBy(i))
  BY <1>1, FS_Subset DEF UsedBy
<1>4. IsFiniteSet(Data!Interfaces) /\ IsFiniteSet(1..MaxCalls)
  BY FS_Interval DEF DataConstants, Data!Interfaces, Data!IMS
<1>5. IsFiniteSet(Data!Interfaces \X (1..MaxCalls))
  BY <1>4, FS_Product
<1>6. IsFiniteSet(Calls)
  BY <1>5, FS_Subset DEF Calls
<1> QED
  BY <1>1, <1>2, <1>3, <1>6, FS_CardinalityType

\* A cid enters the list ...
LEMMA EntryTaken ==
    ASSUME DataConstants, DataInv, NEW i \in Data!Interfaces, NEW e \in Data!Entries,
           dataCallCids[e] = Data!Free, dataCallCids' = [dataCallCids EXCEPT ![e] = i]
    PROVE  /\ dataCallCids' \in [Data!Entries -> Data!Interfaces \cup {Data!Free}]
           /\ Cardinality(Used)' = Cardinality(Used) + 1
           /\ Cardinality(UsedBy(i))' = Cardinality(UsedBy(i)) + 1
           /\ \A j \in Data!Interfaces \ {i} : UsedBy(j)' = UsedBy(j)
<1>1. /\ dataCallCids \in [Data!Entries -> Data!Interfaces \cup {Data!Free}]
      /\ Data!Free \notin Data!Interfaces
  BY DEF DataInv, DataConstants, Data!Interfaces, Data!IMS, Data!Free
<1>2. Used' = Used \cup {e} /\ e \notin Used
  BY <1>1 DEF Used
<1>3. UsedBy(i)' = UsedBy(i) \cup {e} /\ e \notin UsedBy(i)
  BY <1>1 DEF UsedBy
<1>4. \A j \in Data!Interfaces \ {i} : UsedBy(j)' = UsedBy(j)
  BY <1>1 DEF UsedBy
<1>5. IsFiniteSet(Used) /\ IsFiniteSet(UsedBy(i))
  BY Counted
<1>6. Cardinality(Used)' = Cardinality(Used) + 1
  BY <1>2, <1>5, FS_AddElement
<1>7. Cardinality(UsedBy(i))' = Cardinality(UsedBy(i)) + 1
  BY <1>3, <1>5, FS_AddElement
<1> QED
  BY <1>1, <1>4, <1>6, <1>7

\* ... and leaves it.
LEMMA EntryFreed ==
    ASSUME DataConstants, DataInv, NEW i \in Data!Interfaces, NEW e \in Data!Entries,
           dataCallCids[e] = i, dataCallCids' = [dataCallCids EXCEPT ![e] = Data!Free]
    PROVE  /\ dataCallCids' \in [Data!Entries -> Data!Interfaces \cup {Data!Free}]
           /\ Cardinality(Used)' = Cardinality(Used) - 1
           /\ Cardinality(UsedBy(i))' = Cardinality(UsedBy(i)) - 1
           /\ \A j \in Data!Interfaces \ {i} : UsedBy(j)' = UsedBy(j)
<1>1. /\ dataCallCids \in [Data!Entries -> Data!Interfaces \cup {Data!Free}]
      /\ Data!Free \notin Data!Interfaces
  BY DEF DataInv, DataConstants, Data!Interfaces, Data!IMS, Data!Free
<1>2. Used' = Used \ {e} /\ e \in Used
  BY <1>1 DEF Used
<1>3. UsedBy(i)' = UsedBy(i) \ {e} /\ e \in UsedBy(i)
  BY <1>1 DEF UsedBy
<1>4. \A j \in Data!Interfaces \ {i} : UsedBy(j)' = UsedBy(j)
  BY <1>1 DEF UsedBy
<1>5. IsFiniteSet(Used) /\ IsFiniteSet(UsedBy(i))
  BY Counted
<1>6. Cardinality(Used)' = Cardinality(Used) - 1
  BY <1>2, <1>5, FS_RemoveElement
<1>7. Cardinality(UsedBy(i))' = Cardinality(UsedBy(i)) - 1
  BY <1>3, <1>5, FS_RemoveElement
<1> QED
  BY <1>1, <1>4, <1>6, <1>7

\* The framework has one call more ...
LEMMA CallAdded ==
    ASSUME DataConstants, DataInv, NEW i \in Data!Interfaces, cids[i] < MaxCalls,
           cids' = [cids EXCEPT ![i] = @ + 1]
    PROVE  Cardinality(Calls)' = Cardinality(Calls) + 1
<1>1. cids \in [Data!Interfaces -> 0..MaxCalls] /\ MaxCalls \in Nat
  BY DEF DataInv, DataConstants
<1>2. \A k \in 1..MaxCalls : k <= cids[i] + 1 <=> k <= cids[i] \/ k = cids[i] + 1
  BY <1>1
<1>3. cids[i] + 1 \in 1..MaxCalls /\ ~(cids[i] + 1 <= cids[i])
  BY <1>1
<1>4. Calls' = Calls \cup {<<i, cids[i] + 1>>} /\ <<i, cids[i] + 1>> \notin Calls
  BY <1>1, <1>2, <1>3 DEF Calls
<1> QED
  BY <1>4, Counted, FS_AddElement

\* ... and one less.
LEMMA CallEnded ==
    ASSUME DataConstants, DataInv, NEW i \in Data!Interfaces, cids[i] > 0,
           cids' = [cids EXCEPT ![i] = @ - 1]
    PROVE  Cardinality(Calls)' = Cardinality(Calls) - 1
<1>1. cids \in [Data!Interfaces -> 0..MaxCalls] /\ MaxCalls \in Nat
  BY DEF DataInv, DataConstants
<1>2. \A k \in 1..MaxCalls : k <= cids[i] - 1 <=> k <= cids[i] /\ k # cids[i]
  BY <1>1
<1>3. cids[i] \in 1..MaxCalls /\ cids[i] <= cids[i]
  BY <1>1
<1>4. Calls' = Calls \ {<<i, cids[i]>>} /\ <<i, cids[i]>> \in Calls
  BY <1>1, <1>2, <1>3 DEF Calls
<1> QED
  BY <1>4, Counted, FS_RemoveElement

\* A setup is asked for.
LEMMA SetupStep ==
    ASSUME DataConstants, DataInv, NEW ims \in BOOLEAN, Data!setupDataCall(ims)
    PROVE  DataInv'
<1>1. Data!mtkSetupInterface(ims) \in Data!Interfaces \cup {-1}
  <2> DEFINE free == (Data!Interfaces \ {Data!IMS}) \ {dataCallCids[i] : i \in Data!Entries}
  <2>1. free \in SUBSET Nat /\ free \subseteq Data!Interfaces /\ Data!IMS \in Data!Interfaces
    BY DEF DataConstants, Data!Interfaces, Data!IMS
  <2>2. free # {} => Data!Min(free) \in free
    BY <2>1, LeastEntry
  <2>3. Data!mtkSetupInterface(ims) =
            IF ims THEN Data!IMS ELSE IF free = {} THEN -1 ELSE Data!Min(free)
    BY DEF Data!mtkSetupInterface
  <2> QED
    BY <2>1, <2>2, <2>3
<1>2. /\ setups' = Append(setups, Data!mtkSetupInterface(ims))
      /\ UNCHANGED <<dataCallCids, cids>>
      /\ Len(setups) + Cardinality(Calls) < MaxCalls
  <2>1. Data!Held = Cardinality(Calls)
    BY SameCount DEF Data!Held, Calls
  <2> QED
    BY <2>1 DEF Data!setupDataCall
<1>3. setups' \in Seq(Data!Interfaces \cup {-1}) /\ Len(setups') = Len(setups) + 1
  BY <1>1, <1>2 DEF DataInv
<1>4. Used' = Used /\ Calls' = Calls /\ \A i : UsedBy(i)' = UsedBy(i)
  BY <1>2 DEF Used, Calls, UsedBy
<1>5. Cardinality(Calls) \in Nat /\ Len(setups) \in Nat /\ MaxCalls \in Nat
  BY Counted DEF DataConstants, DataInv
<1>6. Len(setups') + Cardinality(Calls) <= MaxCalls
  BY <1>2, <1>3, <1>5
<1> QED
  BY <1>2, <1>3, <1>4, <1>6 DEF DataInv

\* It is set up.
LEMMA SetUpStep ==
    ASSUME DataConstants, DataInv, Data!setupDataCallResponse
    PROVE  DataInv'
<1>0. PICK i \in Data!Interfaces : i = Head(setups)
  BY DEF Data!setupDataCallResponse, Data!Accepted
<1> DEFINE free == {e \in Data!Entries : dataCallCids[e] = Data!Free}
<1>1. /\ setups \in Seq(Data!Interfaces \cup {-1}) /\ setups # <<>> /\ setups' = Tail(setups)
      /\ cids' = [cids EXCEPT ![i] = @ + 1]
      /\ dataCallCids' = IF free = {} THEN dataCallCids
                         ELSE [dataCallCids EXCEPT ![Data!Min(free)] = i]
  BY <1>0 DEF DataInv, Data!setupDataCallResponse, Data!Store
<1>2. /\ setups' \in Seq(Data!Interfaces \cup {-1}) /\ Len(setups') = Len(setups) - 1
      /\ Len(setups) \in Nat /\ Len(setups) >= 1
  BY <1>1
<1>3. /\ Cardinality(Calls) \in Nat /\ Ordinary \in Nat /\ MaxCalls \in Nat
      /\ MaxCalls <= Ordinary + 1
      /\ Cardinality(Used) = Cardinality(Calls) /\ Len(setups) + Cardinality(Calls) <= MaxCalls
  BY Counted DEF DataConstants, DataInv
<1>4. Cardinality(Used) < Ordinary + 1 /\ Cardinality(Used) < MaxCalls
  BY <1>2, <1>3
<1>5. free # {}
  <2>1. SUFFICES ASSUME free = {} PROVE FALSE
    OBVIOUS
  <2>2. Used = Data!Entries
    BY <2>1 DEF Used
  <2> QED
    BY <1>3, <1>4, <2>2, Counted
<1>6. PICK e \in Data!Entries :
          dataCallCids[e] = Data!Free /\ dataCallCids' = [dataCallCids EXCEPT ![e] = i]
  <2>1. free \in SUBSET Nat
    BY DEF Data!Entries
  <2>2. Data!Min(free) \in free
    BY <1>5, <2>1, LeastEntry
  <2> QED
    BY <1>1, <1>5, <2>2
<1>7. cids[i] < MaxCalls
  <2>1. UsedBy(i) \in SUBSET Used
    BY <1>1 DEF UsedBy, Used, DataConstants, Data!Interfaces, Data!IMS, Data!Free
  <2>2. Cardinality(UsedBy(i)) <= Cardinality(Used)
    BY <2>1, Counted, FS_Subset
  <2>3. cids[i] = Cardinality(UsedBy(i)) /\ cids[i] \in Nat
    BY <1>1 DEF DataInv
  <2> QED
    BY <1>3, <1>4, <2>2, <2>3
<1> HIDE DEF free
<1>8. Cardinality(Calls)' = Cardinality(Calls) + 1
  BY <1>1, <1>7, CallAdded
<1>9. /\ dataCallCids' \in [Data!Entries -> Data!Interfaces \cup {Data!Free}]
      /\ Cardinality(Used)' = Cardinality(Used) + 1
      /\ Cardinality(UsedBy(i))' = Cardinality(UsedBy(i)) + 1
      /\ \A j \in Data!Interfaces \ {i} : UsedBy(j)' = UsedBy(j)
  BY <1>1, <1>6, EntryTaken
<1>10. cids' \in [Data!Interfaces -> 0..MaxCalls]
  BY <1>1, <1>3, <1>7 DEF DataInv
<1>11. ASSUME NEW j \in Data!Interfaces PROVE Cardinality(UsedBy(j))' = cids'[j]
  <2>1. Cardinality(UsedBy(j)) = cids[j] /\ cids'[j] = IF j = i THEN cids[j] + 1 ELSE cids[j]
    BY <1>1 DEF DataInv
  <2> QED
    BY <1>9, <2>1
<1>12. Cardinality(Used)' = Cardinality(Calls)' /\ Len(setups') + Cardinality(Calls)' <= MaxCalls
  BY <1>2, <1>3, <1>8, <1>9
<1> QED
  BY <1>2, <1>9, <1>10, <1>11, <1>12 DEF DataInv

\* The framework gives a call up.
LEMMA DeactivateStep ==
    ASSUME DataConstants, DataInv, NEW i \in Data!Interfaces, Data!deactivateDataCall(i)
    PROVE  DataInv'
<1> DEFINE at == {e \in Data!Entries : dataCallCids[e] = i}
<1>1. /\ cids[i] > 0 /\ cids' = [cids EXCEPT ![i] = @ - 1] /\ setups' = setups
      /\ dataCallCids' = IF at = {} THEN dataCallCids
                         ELSE [dataCallCids EXCEPT ![Data!Min(at)] = Data!Free]
  BY DEF Data!deactivateDataCall
<1>2. /\ Cardinality(Calls) \in Nat /\ MaxCalls \in Nat /\ Len(setups) \in Nat
      /\ Cardinality(Used) = Cardinality(Calls) /\ Len(setups) + Cardinality(Calls) <= MaxCalls
      /\ cids \in [Data!Interfaces -> 0..MaxCalls] /\ Cardinality(at) = cids[i]
      /\ setups \in Seq(Data!Interfaces \cup {-1})
  BY Counted DEF DataConstants, DataInv, UsedBy
<1>3. at # {}
  <2>1. Cardinality({}) = 0
    BY FS_EmptySet
  <2>2. cids[i] # 0
    BY <1>1, <1>2
  <2> QED
    BY <1>2, <2>1, <2>2
<1>4. PICK e \in Data!Entries :
          dataCallCids[e] = i /\ dataCallCids' = [dataCallCids EXCEPT ![e] = Data!Free]
  <2>1. at \in SUBSET Nat
    BY DEF Data!Entries
  <2>2. Data!Min(at) \in at
    BY <1>3, <2>1, LeastEntry
  <2> QED
    BY <1>1, <1>3, <2>2
<1> HIDE DEF at
<1>5. Cardinality(Calls)' = Cardinality(Calls) - 1
  BY <1>1, CallEnded
<1>6. /\ dataCallCids' \in [Data!Entries -> Data!Interfaces \cup {Data!Free}]
      /\ Cardinality(Used)' = Cardinality(Used) - 1
      /\ Cardinality(UsedBy(i))' = Cardinality(UsedBy(i)) - 1
      /\ \A j \in Data!Interfaces \ {i} : UsedBy(j)' = UsedBy(j)
  BY <1>4, EntryFreed
<1>7. cids' \in [Data!Interfaces -> 0..MaxCalls]
  BY <1>1, <1>2
<1>8. ASSUME NEW j \in Data!Interfaces PROVE Cardinality(UsedBy(j))' = cids'[j]
  <2>1. Cardinality(UsedBy(j)) = cids[j] /\ cids'[j] = IF j = i THEN cids[j] - 1 ELSE cids[j]
    BY <1>1, <1>2 DEF DataInv
  <2> QED
    BY <1>6, <2>1
<1>9. Cardinality(Used)' = Cardinality(Calls)' /\ Len(setups') + Cardinality(Calls)' <= MaxCalls
  BY <1>1, <1>2, <1>5, <1>6
<1> QED
  BY <1>1, <1>2, <1>6, <1>7, <1>8, <1>9 DEF DataInv

\* The list, and the calls, stay: a setup is refused, or a call is gone.
LEMMA ListStays ==
    ASSUME DataConstants, DataInv, UNCHANGED <<dataCallCids, cids>>,
           setups' = setups \/ (setups # <<>> /\ setups' = Tail(setups))
    PROVE  DataInv'
<1>1. setups \in Seq(Data!Interfaces \cup {-1})
  BY DEF DataInv
<1>2. setups' \in Seq(Data!Interfaces \cup {-1}) /\ Len(setups') <= Len(setups)
      /\ Len(setups) \in Nat /\ Len(setups') \in Nat
  BY <1>1
<1>3. Used' = Used /\ Calls' = Calls /\ \A i : UsedBy(i)' = UsedBy(i)
  BY DEF Used, Calls, UsedBy
<1>4. Len(setups') + Cardinality(Calls) <= MaxCalls
  BY <1>2, Counted DEF DataInv, DataConstants
<1> QED
  BY <1>2, <1>3, <1>4 DEF DataInv

\* The list is empty at first.
LEMMA ListStarts ==
    ASSUME DataConstants, Data!Init
    PROVE  DataInv
<1>1. /\ dataCallCids = [e \in Data!Entries |-> Data!Free] /\ setups = <<>>
      /\ cids = [i \in Data!Interfaces |-> 0] /\ Data!Free \notin Data!Interfaces
      /\ MaxCalls \in Nat
  BY DEF Data!Init, DataConstants, Data!Interfaces, Data!IMS, Data!Free
<1>2. Used = {} /\ Calls = {} /\ \A i \in Data!Interfaces : UsedBy(i) = {}
  BY <1>1 DEF Used, Calls, UsedBy
<1>3. Cardinality({}) = 0 /\ Len(setups) = 0
  BY <1>1, FS_EmptySet
<1>4. Len(setups) + Cardinality(Calls) <= MaxCalls /\ setups \in Seq(Data!Interfaces \cup {-1})
  BY <1>1, <1>2, <1>3
<1>5. \A i \in Data!Interfaces : Cardinality(UsedBy(i)) = cids[i]
  BY <1>1, <1>2, <1>3
<1>6. /\ dataCallCids \in [Data!Entries -> Data!Interfaces \cup {Data!Free}]
      /\ cids \in [Data!Interfaces -> 0..MaxCalls]
  BY <1>1
<1> QED
  BY <1>2, <1>4, <1>5, <1>6 DEF DataInv

\* dataCallCids holds exactly the calls the framework has, for any number of
\* interfaces, however setups, answers, deactivations and drops overlap, as long
\* as the framework asks for no more calls than the list has entries.
THEOREM ListHoldsCalls == DataConstants => (Data!Spec => []ListIsCalls)
<1> SUFFICES ASSUME DataConstants PROVE Data!Spec => []ListIsCalls
  OBVIOUS
<1>1. Data!Init => DataInv
  BY ListStarts
<1>2. DataInv /\ [Data!Next]_(Data!vars) => DataInv'
  <2> SUFFICES ASSUME DataInv, [Data!Next]_(Data!vars) PROVE DataInv'
    OBVIOUS
  <2>1. CASE \E ims \in BOOLEAN : Data!setupDataCall(ims)
    BY <2>1, SetupStep
  <2>2. CASE Data!setupDataCallResponse
    BY <2>2, SetUpStep
  <2>3. CASE Data!SetupRefused \/ UNCHANGED Data!vars
    BY <2>3, ListStays DEF Data!SetupRefused, Data!vars
  <2>4. CASE \E i \in Data!Interfaces : Data!deactivateDataCall(i)
    BY <2>4, DeactivateStep
  <2>5. CASE \E i \in Data!Interfaces : Data!Deactivated(i) \/ Data!Dropped(i)
    BY <2>5, ListStays DEF Data!Deactivated, Data!Dropped
  <2> QED
    BY <2>1, <2>2, <2>3, <2>4, <2>5 DEF Data!Next
<1>3. DataInv => ListIsCalls
  BY SameCount DEF DataInv, ListIsCalls, Data!ListIsCalls, UsedBy
<1> QED
  BY <1>1, <1>2, <1>3, PTL DEF Data!Spec

-----------------------------------------------------------------------------
(***************************************************************************)
(* The sessions of the Bluetooth HAL, for any set of stacks that come, die *)
(* and come back, as long as a death is handled before the next            *)
(* initialize (Prompt).  The members of BluetoothHci do not say whose      *)
(* session is up; the proof goes by the vendor interface: while it is      *)
(* there, one client has it, is linked once and is either in session or    *)
(* dead with its notice on the way, and without it there is neither a      *)
(* session nor a link.                                                     *)
(***************************************************************************)

Active == {"waiting", "failed", "ready"}

BluetoothTypeOK ==
    /\ state \in [Client -> {"new", "waiting", "failed", "ready", "closed", "dead"}]
    /\ links \in [Client -> Nat] /\ notices \subseteq Client
    /\ has_died_ \in BOOLEAN /\ starting \in BOOLEAN
    /\ interface \in Client \cup {Bluetooth!None}

\* The vendor interface is down: nothing is open, linked or to be reported.
Down ==
    /\ notices = {} /\ starting = FALSE
    /\ \A c \in Client : state[c] \notin Active /\ links[c] = 0

\* It is up, for the one client in session or whose death is to be reported.
Up ==
    /\ links[interface] = 1
    /\ \A c \in Client \ {interface} : state[c] \notin Active /\ links[c] = 0
    /\ \/ state[interface] \in Active /\ notices = {} /\ has_died_ = FALSE /\ unlink_cb_ = interface
       \/ state[interface] = "dead" /\ notices = {interface}

BluetoothInv ==
    /\ BluetoothTypeOK /\ Bluetooth!EndsOnce
    /\ interface = Bluetooth!None => Down
    /\ interface # Bluetooth!None => Up

\* The service has been created and nobody has called it.
LEMMA BluetoothStarts == Bluetooth!Init => BluetoothInv
<1> SUFFICES ASSUME Bluetooth!Init PROVE BluetoothInv
  OBVIOUS
<1>1. BluetoothTypeOK
  BY DEF Bluetooth!Init, BluetoothTypeOK
<1>2. Bluetooth!EndsOnce /\ Down
  BY DEF Bluetooth!Init, Bluetooth!EndsOnce, Down, Active
<1> QED
  BY <1>1, <1>2 DEF Bluetooth!Init, BluetoothInv

\* A session starts from Down: everybody else has ended and been reported.
LEMMA initialize_1_1Inv ==
    ASSUME Prompt, Bluetooth!None \notin Client, BluetoothInv, NEW c \in Client,
           NEW old \in BOOLEAN,
           Bluetooth!initialize_1_1(c, old)
    PROVE BluetoothInv'
<1>1. interface = Bluetooth!None
  BY DEF BluetoothInv, BluetoothTypeOK, Up, Active, Bluetooth!initialize_1_1
<1>2. interface' = c /\ starting' \in BOOLEAN /\ state[c] # "dead"
  BY <1>1 DEF BluetoothInv, BluetoothTypeOK, Bluetooth!initialize_1_1
<1>3. \E s \in {"waiting", "failed"} : state' = [state EXCEPT ![c] = s]
  BY <1>2
     DEF BluetoothInv, BluetoothTypeOK, Bluetooth!initialize_1_1, Bluetooth!Tell,
         Bluetooth!Alive
<1>4. links' = [links EXCEPT ![c] = 1]
  <2>1. links[c] = 0
    BY <1>1 DEF BluetoothInv, Down
  <2>2. links' = [links EXCEPT ![c] = links[c] + 1]
    BY DEF Bluetooth!initialize_1_1
  <2> QED
    BY <2>1, <2>2
<1>5. BluetoothTypeOK'
  <2>1. has_died_' \in BOOLEAN /\ notices' = notices
    BY DEF Bluetooth!initialize_1_1
  <2> QED
    BY <1>2, <1>3, <1>4, <2>1 DEF BluetoothInv, BluetoothTypeOK
<1>6. Up'
  BY <1>1, <1>2, <1>3, <1>4
     DEF BluetoothInv, BluetoothTypeOK, Down, Up, Active, Bluetooth!initialize_1_1
<1> QED
  BY <1>2, <1>5, <1>6 DEF BluetoothInv, Bluetooth!EndsOnce, Bluetooth!initialize_1_1

\* The report reaches the client that has the interface, or nobody.
LEMMA InitializationCompleteInv ==
    ASSUME Prompt, Bluetooth!None \notin Client, BluetoothInv, Bluetooth!InitializationComplete
    PROVE BluetoothInv'
<1>1. BluetoothTypeOK'
  BY DEF BluetoothInv, BluetoothTypeOK, Up, Down, Bluetooth!InitializationComplete,
         Bluetooth!Tell, Bluetooth!Alive
<1>2. Bluetooth!EndsOnce'
  BY DEF BluetoothInv, Bluetooth!EndsOnce, Down, Up, Active, Bluetooth!InitializationComplete,
         Bluetooth!Tell, Bluetooth!Alive
<1>3. interface' = Bluetooth!None => Down'
  BY DEF BluetoothInv, BluetoothTypeOK, Down, Up, Active, Bluetooth!InitializationComplete,
         Bluetooth!Tell, Bluetooth!Alive
<1>4. interface' # Bluetooth!None => Up'
  BY DEF BluetoothInv, BluetoothTypeOK, Down, Up, Active, Bluetooth!InitializationComplete,
         Bluetooth!Tell, Bluetooth!Alive
<1> QED
  BY <1>1, <1>2, <1>3, <1>4 DEF BluetoothInv

\* A client that closes is the one that has the interface, and is unlinked.
LEMMA closeInv ==
    ASSUME Prompt, Bluetooth!None \notin Client, BluetoothInv, NEW c \in Client, Bluetooth!close(c)
    PROVE BluetoothInv'
<1>1. interface = c /\ c # Bluetooth!None
  BY DEF BluetoothInv, BluetoothTypeOK, Down, Up, Active, Bluetooth!close
<1>2. links' = [links EXCEPT ![c] = 0] /\ state' = [state EXCEPT ![c] = "closed"]
  <2>1. state[c] \in Active /\ has_died_ = FALSE /\ unlink_cb_ = c /\ links[c] = 1
    BY <1>1 DEF BluetoothInv, Up, Active, Bluetooth!close
  <2>2. links' = [links EXCEPT ![c] = IF links[c] > 0 THEN links[c] - 1 ELSE 0]
    BY <2>1 DEF Bluetooth!close
  <2>3. state' = [state EXCEPT ![c] = "closed"]
    BY <2>1 DEF Bluetooth!close, Bluetooth!Tell, Bluetooth!Alive, Active
  <2> QED
    BY <2>1, <2>2, <2>3
<1>3. /\ interface' = Bluetooth!None /\ starting' = FALSE /\ ~absent' /\ notices' = {}
      /\ has_died_' = has_died_
  <2>1. notices = {}
    BY <1>1 DEF BluetoothInv, Up, Active, Bluetooth!close
  <2> QED
    BY <1>1, <2>1 DEF BluetoothInv, Bluetooth!EndsOnce, Bluetooth!close, Bluetooth!Shutdown
<1>4. BluetoothTypeOK' /\ Bluetooth!EndsOnce'
  BY <1>2, <1>3 DEF BluetoothInv, BluetoothTypeOK, Bluetooth!EndsOnce
<1>5. Down'
  BY <1>1, <1>2, <1>3 DEF BluetoothInv, BluetoothTypeOK, Down, Up, Active
<1> QED
  BY <1>3, <1>4, <1>5 DEF BluetoothInv

\* A client that dies in session is reported; any other is not linked.
LEMMA DieInv ==
    ASSUME Prompt, Bluetooth!None \notin Client, BluetoothInv, NEW c \in Client, Bluetooth!Die(c)
    PROVE BluetoothInv'
<1>1. BluetoothTypeOK'
  BY DEF BluetoothInv, BluetoothTypeOK, Up, Down, Bluetooth!Die
<1>2. Bluetooth!EndsOnce'
  BY DEF BluetoothInv, Bluetooth!EndsOnce, Down, Up, Active, Bluetooth!Die
<1>3. interface' = Bluetooth!None => Down'
  BY DEF BluetoothInv, BluetoothTypeOK, Down, Up, Active, Bluetooth!Die
<1>4. interface' # Bluetooth!None => Up'
  BY DEF BluetoothInv, BluetoothTypeOK, Down, Up, Active, Bluetooth!Die
<1> QED
  BY <1>1, <1>2, <1>3, <1>4 DEF BluetoothInv

\* A client comes back only when its death has been reported.
LEMMA RestartInv ==
    ASSUME Prompt, Bluetooth!None \notin Client, BluetoothInv, NEW c \in Client,
           Bluetooth!Restart(c)
    PROVE BluetoothInv'
<1>1. BluetoothTypeOK'
  BY DEF BluetoothInv, BluetoothTypeOK, Up, Down, Bluetooth!Restart
<1>2. Bluetooth!EndsOnce'
  BY DEF BluetoothInv, Bluetooth!EndsOnce, Down, Up, Active, Bluetooth!Restart
<1>3. interface' = Bluetooth!None => Down'
  BY DEF BluetoothInv, BluetoothTypeOK, Down, Up, Active, Bluetooth!Restart
<1>4. interface' # Bluetooth!None => Up'
  BY DEF BluetoothInv, BluetoothTypeOK, Down, Up, Active, Bluetooth!Restart
<1> QED
  BY <1>1, <1>2, <1>3, <1>4 DEF BluetoothInv

\* The reported client is the one that has the interface.
LEMMA serviceDiedInv ==
    ASSUME Prompt, Bluetooth!None \notin Client, BluetoothInv, NEW c \in Client,
           Bluetooth!serviceDied(c)
    PROVE BluetoothInv'
<1>1. interface = c /\ c # Bluetooth!None /\ notices = {c} /\ links[c] = 1 /\ state[c] = "dead"
  BY DEF BluetoothInv, BluetoothTypeOK, Down, Up, Bluetooth!serviceDied
<1>2. links' = [links EXCEPT ![c] = 0] /\ state' = state /\ notices' = {}
  <2>1. links' = [links EXCEPT ![c] = links[c] - 1]
    BY DEF Bluetooth!serviceDied
  <2> QED
    BY <1>1, <2>1 DEF Bluetooth!serviceDied
<1>3. interface' = Bluetooth!None /\ starting' = FALSE /\ ~absent' /\ has_died_' = TRUE
  BY <1>1 DEF BluetoothInv, Bluetooth!EndsOnce, Bluetooth!serviceDied, Bluetooth!Shutdown
<1>4. BluetoothTypeOK' /\ Bluetooth!EndsOnce'
  BY <1>2, <1>3 DEF BluetoothInv, BluetoothTypeOK, Bluetooth!EndsOnce
<1>5. Down'
  BY <1>1, <1>2, <1>3 DEF BluetoothInv, BluetoothTypeOK, Down, Up, Active
<1> QED
  BY <1>3, <1>4, <1>5 DEF BluetoothInv

\* A client that was told SUCCESS has the interface.
LEMMA sendDataToControllerInv ==
    ASSUME Prompt, Bluetooth!None \notin Client, BluetoothInv, NEW c \in Client,
           Bluetooth!sendDataToController(c)
    PROVE BluetoothInv'
<1>1. BluetoothTypeOK'
  BY DEF BluetoothInv, BluetoothTypeOK, Up, Down, Bluetooth!sendDataToController
<1>2. Bluetooth!EndsOnce'
  BY DEF BluetoothInv, Bluetooth!EndsOnce, Down, Up, Active, Bluetooth!sendDataToController
<1>3. interface' = Bluetooth!None => Down'
  BY DEF BluetoothInv, BluetoothTypeOK, Down, Up, Active, Bluetooth!sendDataToController
<1>4. interface' # Bluetooth!None => Up'
  BY DEF BluetoothInv, BluetoothTypeOK, Down, Up, Active, Bluetooth!sendDataToController
<1> QED
  BY <1>1, <1>2, <1>3, <1>4 DEF BluetoothInv

\* A packet changes no session.
LEMMA isoDataReceivedInv ==
    ASSUME Prompt, Bluetooth!None \notin Client, BluetoothInv, Bluetooth!isoDataReceived
    PROVE BluetoothInv'
<1>1. BluetoothTypeOK'
  BY DEF BluetoothInv, BluetoothTypeOK, Up, Down, Bluetooth!isoDataReceived
<1>2. Bluetooth!EndsOnce'
  BY DEF BluetoothInv, Bluetooth!EndsOnce, Down, Up, Active, Bluetooth!isoDataReceived
<1>3. interface' = Bluetooth!None => Down'
  BY DEF BluetoothInv, BluetoothTypeOK, Down, Up, Active, Bluetooth!isoDataReceived
<1>4. interface' # Bluetooth!None => Up'
  BY DEF BluetoothInv, BluetoothTypeOK, Down, Up, Active, Bluetooth!isoDataReceived
<1> QED
  BY <1>1, <1>2, <1>3, <1>4 DEF BluetoothInv

\* Every call, death and report preserves the invariant.
LEMMA BluetoothStays ==
    ASSUME Prompt, Bluetooth!None \notin Client, BluetoothInv, [Bluetooth!Next]_(Bluetooth!vars)
    PROVE BluetoothInv'
<1>1. CASE UNCHANGED Bluetooth!vars
  BY <1>1 DEF Bluetooth!vars, BluetoothInv, BluetoothTypeOK, Bluetooth!EndsOnce, Down, Up
<1>2. ASSUME NEW c \in Client,
             \/ \E old \in BOOLEAN : Bluetooth!initialize_1_1(c, old)
             \/ Bluetooth!close(c) \/ Bluetooth!Die(c) \/ Bluetooth!Restart(c)
             \/ Bluetooth!serviceDied(c) \/ Bluetooth!sendDataToController(c)
      PROVE BluetoothInv'
  BY <1>2, initialize_1_1Inv, closeInv, DieInv, RestartInv, serviceDiedInv, sendDataToControllerInv
<1> QED
  BY <1>1, <1>2, InitializationCompleteInv, isoDataReceivedInv DEF Bluetooth!Next

\* Neither close nor serviceDied shuts down an interface that is already down,
\* and no client sends into one that is gone (EndsOnce).
THEOREM SessionsEndOnce ==
    Prompt /\ Bluetooth!None \notin Client => (Bluetooth!Spec => []EndsOnce)
<1> SUFFICES ASSUME Prompt, Bluetooth!None \notin Client PROVE Bluetooth!Spec => []EndsOnce
  OBVIOUS
<1>1. Bluetooth!Init => BluetoothInv
  BY BluetoothStarts
<1>2. BluetoothInv /\ [Bluetooth!Next]_(Bluetooth!vars) => BluetoothInv'
  BY BluetoothStays
<1>3. BluetoothInv => EndsOnce
  BY DEF BluetoothInv, EndsOnce
<1> QED
  BY <1>1, <1>2, <1>3, PTL DEF Bluetooth!Spec

=============================================================================
