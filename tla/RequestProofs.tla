---------------------------- MODULE RequestProofs ---------------------------
(***************************************************************************)
(* Theorems about the requests of rild, for every number of slots, vendor  *)
(* threads and requests.                                                   *)
(***************************************************************************)
EXTENDS RilRequests, FiniteSetTheorems, TLAPS

\* A leaf is tried with Zenon first: most need no arithmetic.  The second round
\* is for slow machines.
USE ZenonT(5), SMTT(30), ZenonT(60), SMTT(90)

-----------------------------------------------------------------------------
(* The invariant.                                                          *)

Record == [slot : Slot, kind : Kind, wasAckSent : BOOLEAN, ok : BOOLEAN]
Strings == [Local -> Request \cup {NULL}]

Shape ==
    /\ issued \in 0..MaxRequests
    /\ request \in [Request -> Record \cup {NULL}]
    /\ \A r \in 1..issued : request[r] \in Record
    /\ s_pendingRequests \in [Slot -> SUBSET Request]
    /\ work \in [Thread -> [pc : {"idle", "dequeued", "respond"}, req : Request \cup {NULL},
                            data : Strings \cup {NULL}, ackExp : BOOLEAN]]
    /\ Device_ID \in [Slot -> Strings]
    /\ freedStrings \subseteq Request

Pending(r) == r \in s_pendingRequests[request[r].slot]

\* A request is on the list of its slot only; one that a thread completes is on none.
\* The requests of a slot are completed one at a time and in order.
Order ==
    /\ \A s \in Slot : \A r \in s_pendingRequests[s] : r \in 1..issued /\ request[r].slot = s
    /\ \A t \in Thread : work[t].pc = "idle" <=> work[t].req = NULL
    /\ \A t \in Thread, r \in Request : work[t].req = r =>
           /\ r \in 1..issued /\ ~Pending(r)
           /\ work[t].pc = "respond" => request[r].kind \notin Local
    /\ \A t, u \in Thread, q, r \in Request :
           work[t].req = q /\ work[u].req = r /\ request[q].slot = request[r].slot => t = u
    /\ \A q, r \in 1..issued : q < r /\ request[q].slot = request[r].slot /\ ~Pending(r) =>
           ~Pending(q) /\ ~Busy(q)

\* The parts of an identity are asked for right before it, for the same slot.
Parts ==
    \A r \in 1..issued :
        /\ request[r].kind = "IMEI" =>
              /\ r + 2 \in 1..issued
              /\ request[r + 1].kind = "IMEISV" /\ request[r + 2].kind = "IDENTITY"
              /\ request[r + 1].slot = request[r].slot /\ request[r + 2].slot = request[r].slot
        /\ request[r].kind = "IMEISV" =>
              r - 1 \in 1..issued /\ request[r - 1].kind = "IMEI"

Done(r) == ~Pending(r) /\ ~Busy(r)

Answer(rs, q) == IF rs[q].ok THEN q ELSE NULL

\* Device_ID has the answer to the last query of each kind ...
Latest ==
    \A q \in 1..issued : request[q].kind \in Local /\ Done(q) =>
        \/ Device_ID[request[q].slot][request[q].kind] = Answer(request, q)
        \/ \E p \in 1..issued : /\ p > q /\ Done(p)
                                /\ request[p].slot = request[q].slot
                                /\ request[p].kind = request[q].kind

\* ... and no freed string.
Kept ==
    /\ \A s \in Slot, k \in Local, q \in Request : Device_ID[s][k] = q =>
           /\ q \in 1..issued /\ q \notin freedStrings /\ Done(q)
           /\ request[q].slot = s /\ request[q].kind = k
    /\ \A q \in freedStrings : q \in 1..issued /\ Done(q)

\* The request that asked for part k of identity r.
PartOf(r, k) == IF k = "IMEI" THEN r - 2 ELSE r - 1

\* An emulated identity is made of what its own parts brought.
Own(rs, r, data) ==
    r > 1 /\ rs[r - 1].kind \in Local /\ data # NULL =>
        \A k \in Local : data[k] = Answer(rs, PartOf(r, k))

InHand ==
    \A t \in Thread, r \in Request : work[t].pc = "respond" /\ work[t].req = r =>
        /\ Own(request, r, work[t].data)
        /\ Emulated(r) /\ work[t].data # NULL =>
               \A k \in Local : work[t].data[k] \notin freedStrings

Sent ==
    \A p \in responses :
        /\ p.req \in 1..issued /\ Done(p.req)
        /\ request[p.req].kind \notin Local /\ p.slot = request[p.req].slot
        /\ \A q \in responses : q.req = p.req => q = p
        /\ Own(request, p.req, p.data)
        /\ Emulated(p.req) /\ p.data # NULL => ~p.dangling

ReqInv == Shape /\ Order /\ Parts /\ Latest /\ Kept /\ InHand /\ Sent

-----------------------------------------------------------------------------
(* Requests and their parts.                                               *)

\* The requests keep their slot and kind.
Same ==
    /\ issued' = issued
    /\ \A q \in 1..issued : request'[q].slot = request[q].slot /\ request'[q].kind = request[q].kind

\* The numbers of the requests.
LEMMA Numbers ==
    ASSUME Shape
    PROVE  /\ issued \in Nat /\ 1..issued \subseteq Request /\ NULL \notin Request
           /\ \A r \in 1..issued : /\ request[r] \in Record /\ request[r].slot \in Slot
                                    /\ request[r].kind \in Kind /\ request[r].ok \in BOOLEAN
BY RequestConstants DEF Shape, Request, Record

\* An emulated identity comes behind its parts, which are over once it is taken.
LEMMA PartsDone ==
    ASSUME Shape, Order, Parts, NEW r \in 1..issued, Emulated(r), request[r].kind \notin Local,
           NEW k \in Local
    PROVE  /\ PartOf(r, k) \in 1..issued /\ PartOf(r, k) < r
           /\ request[PartOf(r, k)].kind = k /\ request[PartOf(r, k)].slot = request[r].slot
           /\ request[r].kind = "IDENTITY" /\ request[r - 1].kind = "IMEISV"
           /\ ~Pending(r) => Done(PartOf(r, k))
<1>1. r - 1 \in 1..issued /\ request[r - 1].kind \in {"IMEI", "IMEISV"} /\ issued \in Nat
  BY Numbers DEF Emulated, Local
<1>2. (r - 1) + 1 = r /\ (r - 1) - 1 = r - 2 /\ (r - 2) + 2 = r /\ (r - 2) + 1 = r - 1
  BY <1>1
<1>3. request[r - 1].kind = "IMEISV"
  <2>1. request[r - 1].kind = "IMEI" => request[(r - 1) + 1].kind = "IMEISV"
    BY <1>1 DEF Parts
  <2> QED
    BY <1>1, <1>2, <2>1 DEF Local
<1>4. (r - 1) - 1 \in 1..issued /\ request[(r - 1) - 1].kind = "IMEI"
  BY <1>1, <1>3 DEF Parts
<1>5. r - 2 \in 1..issued /\ request[r - 2].kind = "IMEI"
  BY <1>2, <1>4
<1>6. /\ request[(r - 2) + 2].kind = "IDENTITY"
      /\ request[(r - 2) + 1].slot = request[r - 2].slot
      /\ request[(r - 2) + 2].slot = request[r - 2].slot
  BY <1>5 DEF Parts
<1>7. /\ request[r].kind = "IDENTITY" /\ request[r - 1].slot = request[r].slot
      /\ request[r - 2].slot = request[r].slot
  BY <1>2, <1>6
<1>8. k \in {"IMEI", "IMEISV"} /\ r - 1 < r /\ r - 2 < r
  BY <1>1 DEF Local
<1>9. /\ PartOf(r, k) \in 1..issued /\ PartOf(r, k) < r
      /\ request[PartOf(r, k)].kind = k /\ request[PartOf(r, k)].slot = request[r].slot
  BY <1>1, <1>3, <1>5, <1>7, <1>8 DEF PartOf
<1>10. ~Pending(r) => Done(PartOf(r, k))
  BY <1>9 DEF Order, Done
<1> QED
  BY <1>3, <1>7, <1>9, <1>10

\* Requests that keep their slot and kind keep their parts.
LEMMA PartsKept ==
    ASSUME Shape, Parts, Same
    PROVE  Parts' /\ \A r \in 1..issued : Emulated(r)' <=> Emulated(r)
<1>1. issued \in Nat /\ issued' = issued
  BY Numbers DEF Same
<1>2. \A q \in 1..issued : request'[q].slot = request[q].slot /\ request'[q].kind = request[q].kind
  BY DEF Same
<1>3. ASSUME NEW r \in 1..issued PROVE Emulated(r)' <=> Emulated(r)
  <2>1. CASE r > 1
    <3>1. r - 1 \in 1..issued
      BY <1>1, <2>1
    <3> QED
      BY <1>2, <3>1 DEF Emulated
  <2>2. CASE ~(r > 1)
    BY <2>2 DEF Emulated
  <2> QED
    BY <2>1, <2>2
<1>4. ASSUME NEW r \in 1..issued, request'[r].kind = "IMEI"
      PROVE  /\ r + 2 \in 1..issued
             /\ request'[r + 1].kind = "IMEISV" /\ request'[r + 2].kind = "IDENTITY"
             /\ request'[r + 1].slot = request'[r].slot /\ request'[r + 2].slot = request'[r].slot
  <2>1. /\ r + 2 \in 1..issued
        /\ request[r + 1].kind = "IMEISV" /\ request[r + 2].kind = "IDENTITY"
        /\ request[r + 1].slot = request[r].slot /\ request[r + 2].slot = request[r].slot
    BY <1>2, <1>4 DEF Parts
  <2>2. r + 1 \in 1..issued
    BY <1>1, <2>1
  <2> QED
    BY <1>2, <2>1, <2>2
<1>5. ASSUME NEW r \in 1..issued, request'[r].kind = "IMEISV"
      PROVE  r - 1 \in 1..issued /\ request'[r - 1].kind = "IMEI"
  BY <1>2, <1>5 DEF Parts
<1> QED
  BY <1>1, <1>3, <1>4, <1>5 DEF Parts

\* What an identity is made of stays what it was made of.
LEMMA OwnKept ==
    ASSUME Shape, Order, Parts, Same, \A q \in 1..issued : ~Pending(q) => request'[q].ok = request[q].ok,
           NEW r \in 1..issued, ~Pending(r), request[r].kind \notin Local
    PROVE  \A data : Own(request, r, data) => Own(request', r, data)
<1> SUFFICES ASSUME NEW data, Own(request, r, data), r > 1, request'[r - 1].kind \in Local, data # NULL,
                    NEW k \in Local
             PROVE  data[k] = Answer(request', PartOf(r, k))
  BY DEF Own
<1>1. r - 1 \in 1..issued
  BY Numbers
<1>2. request[r - 1].kind \in Local /\ Emulated(r)
  BY <1>1 DEF Same, Emulated
<1>3. PartOf(r, k) \in 1..issued /\ ~Pending(PartOf(r, k))
  BY <1>2, PartsDone DEF Done
<1>4. data[k] = Answer(request, PartOf(r, k))
  BY <1>2 DEF Own
<1> QED
  BY <1>3, <1>4 DEF Answer

\* Device_ID and the freed strings stay, and what is over stays over.
LEMMA KeptKept ==
    ASSUME Shape, Kept, Same, UNCHANGED <<Device_ID, freedStrings>>,
           \A q \in 1..issued : Done(q) => Done(q)'
    PROVE  Kept'
<1>1. ASSUME NEW s \in Slot, NEW k \in Local, NEW q \in Request, Device_ID[s][k] = q
      PROVE  /\ q \in 1..issued /\ q \notin freedStrings /\ Done(q)'
             /\ request'[q].slot = s /\ request'[q].kind = k
  BY <1>1 DEF Kept, Same
<1>2. \A q \in freedStrings : q \in 1..issued /\ Done(q)'
  BY DEF Kept
<1> QED
  BY <1>1, <1>2 DEF Kept, Same

\* The last answers stay where only requests of the framework get over.
LEMMA LatestKept ==
    ASSUME Shape, Latest, Same, UNCHANGED Device_ID,
           \A q \in 1..issued : ~Pending(q) => request'[q].ok = request[q].ok,
           \A q \in 1..issued : Done(q) => Done(q)',
           \A q \in 1..issued : Done(q)' /\ request[q].kind \in Local => Done(q)
    PROVE  Latest'
<1>1. ASSUME NEW q \in 1..issued, request'[q].kind \in Local, Done(q)'
      PROVE  \/ Device_ID[request'[q].slot][request'[q].kind] = Answer(request', q)
             \/ \E p \in 1..issued : /\ p > q /\ Done(p)'
                                     /\ request'[p].slot = request'[q].slot
                                     /\ request'[p].kind = request'[q].kind
  <2>1. /\ request'[q].slot = request[q].slot /\ request'[q].kind = request[q].kind
        /\ request[q].kind \in Local /\ Done(q)
    BY <1>1 DEF Same
  <2>2. CASE Device_ID[request[q].slot][request[q].kind] = Answer(request, q)
    BY <2>1, <2>2 DEF Answer, Done
  <2>3. CASE \E p \in 1..issued : /\ p > q /\ Done(p)
                                  /\ request[p].slot = request[q].slot
                                  /\ request[p].kind = request[q].kind
    BY <2>1, <2>3 DEF Same
  <2> QED
    BY <2>1, <2>2, <2>3 DEF Latest
<1> QED
  BY <1>1 DEF Latest, Same

\* What has been prepared stays right.
LEMMA InHandKept ==
    ASSUME Shape, Order, Parts, InHand, Same, freedStrings' = freedStrings,
           \A q \in 1..issued : ~Pending(q) => request'[q].ok = request[q].ok,
           \A t \in Thread : work'[t].pc = "respond" => work'[t] = work[t]
    PROVE  InHand'
<1> SUFFICES ASSUME NEW t \in Thread, NEW q \in Request, work'[t].pc = "respond", work'[t].req = q
             PROVE  /\ Own(request', q, work'[t].data)
                    /\ Emulated(q)' /\ work'[t].data # NULL =>
                           \A k \in Local : work'[t].data[k] \notin freedStrings'
  BY DEF InHand
<1>1. work'[t] = work[t]
  OBVIOUS
<1>2. q \in 1..issued /\ ~Pending(q) /\ request[q].kind \notin Local
  BY <1>1 DEF Order
<1>3. Own(request, q, work[t].data) => Own(request', q, work[t].data)
  BY <1>2, OwnKept
<1>4. Emulated(q)' <=> Emulated(q)
  BY <1>2, PartsKept
<1> QED
  BY <1>1, <1>3, <1>4 DEF InHand

\* What has been sent stays right.
LEMMA SentKept ==
    ASSUME Shape, Order, Parts, Sent, Same, responses' = responses,
           \A q \in 1..issued : ~Pending(q) => request'[q].ok = request[q].ok,
           \A q \in 1..issued : Done(q) => Done(q)'
    PROVE  Sent'
<1> SUFFICES ASSUME NEW p \in responses
             PROVE  /\ p.req \in 1..issued' /\ Done(p.req)'
                    /\ request'[p.req].kind \notin Local /\ p.slot = request'[p.req].slot
                    /\ \A q \in responses : q.req = p.req => q = p
                    /\ Own(request', p.req, p.data)
                    /\ Emulated(p.req)' /\ p.data # NULL => ~p.dangling
  BY DEF Sent
<1>1. /\ p.req \in 1..issued /\ Done(p.req) /\ ~Pending(p.req) /\ request[p.req].kind \notin Local
      /\ Own(request, p.req, p.data)
  BY DEF Sent, Done
<1>2. Own(request', p.req, p.data)
  BY <1>1, OwnKept
<1>3. Emulated(p.req)' <=> Emulated(p.req)
  BY <1>1, PartsKept
<1> QED
  BY <1>1, <1>2, <1>3 DEF Sent, Same

-----------------------------------------------------------------------------
(* The steps.                                                              *)

core == <<issued, request, s_pendingRequests, work, Device_ID, freedStrings, responses>>

\* The property and the wake lock.
LEMMA QuietStep == ReqInv /\ UNCHANGED core => ReqInv'
<1> SUFFICES ASSUME ReqInv, UNCHANGED core PROVE ReqInv'
  OBVIOUS
<1> USE DEF core
<1>1. Shape' /\ Order' /\ Parts'
  BY DEF ReqInv, Shape, Order, Parts, Pending, Busy
<1>2. Latest'
  BY DEF ReqInv, Latest, Done, Pending, Busy
<1>3. Kept'
  BY DEF ReqInv, Kept, Done, Pending, Busy
<1>4. InHand'
  BY DEF ReqInv, InHand, Emulated
<1>5. Sent'
  BY DEF ReqInv, Sent, Emulated, Done, Pending, Busy
<1> QED
  BY <1>1, <1>2, <1>3, <1>4, <1>5 DEF ReqInv

\* An acknowledgement is noted with the request.
LEMMA AckStep ==
    ASSUME ReqInv, NEW r \in 1..issued, OnRequestAck(r)
    PROVE  ReqInv'
<1>1. /\ UNCHANGED <<issued, s_pendingRequests, work, Device_ID, freedStrings, responses>>
      /\ request' = [request EXCEPT ![r].wasAckSent = TRUE]
      /\ Shape /\ Order /\ Parts /\ Latest /\ Kept /\ InHand /\ Sent
  BY DEF OnRequestAck, ReqInv
<1>2. r \in Request /\ request[r] \in Record /\ request \in [Request -> Record \cup {NULL}]
  BY <1>1, Numbers DEF Shape
<1>3. /\ \A q \in Request : q # r => request'[q] = request[q]
      /\ request'[r] = [request[r] EXCEPT !.wasAckSent = TRUE]
      /\ request' \in [Request -> Record \cup {NULL}] /\ request'[r] \in Record
  BY <1>1, <1>2 DEF Record
<1>4. /\ request'[r].slot = request[r].slot /\ request'[r].kind = request[r].kind
      /\ request'[r].ok = request[r].ok
  BY <1>2, <1>3 DEF Record
<1>5. Same /\ \A q \in 1..issued : request'[q].ok = request[q].ok
  BY <1>1, <1>3, <1>4, Numbers DEF Same
<1>6. \A q \in 1..issued : (Pending(q)' <=> Pending(q)) /\ (Busy(q)' <=> Busy(q))
  BY <1>1, <1>5 DEF Same, Pending, Busy
<1>7. \A q \in 1..issued : Done(q)' <=> Done(q)
  BY <1>6 DEF Done
<1>8. Shape'
  BY <1>1, <1>3, Numbers DEF Shape
<1>9. Parts' /\ \A q \in 1..issued : Emulated(q)' <=> Emulated(q)
  BY <1>1, <1>5, PartsKept
<1>10. Order'
  BY <1>1, <1>5, <1>6 DEF Order, Same
<1>11. Latest' /\ Kept'
  BY <1>1, <1>5, <1>7, KeptKept, LatestKept
<1>12. InHand' /\ Sent'
  BY <1>1, <1>5, <1>7, SentKept, InHandKept
<1> QED
  BY <1>8, <1>9, <1>10, <1>11, <1>12 DEF ReqInv

\* A completion takes its request off the list.
LEMMA CompleteStep ==
    ASSUME ReqInv, NEW r \in 1..issued, NEW t \in Thread, NEW ok \in BOOLEAN,
           OnRequestComplete(t, r, ok)
    PROVE  ReqInv'
<1> DEFINE now == [NoWork EXCEPT !.pc = "dequeued", !.req = r]
<1>1. /\ UNCHANGED <<issued, Device_ID, freedStrings, responses>>
      /\ request' = [request EXCEPT ![r].ok = ok]
      /\ work' = [work EXCEPT ![t] = now] /\ work[t] = NoWork
      /\ Pending(r)
      /\ s_pendingRequests' = [s_pendingRequests EXCEPT ![request[r].slot] = @ \ {r}]
      /\ Shape /\ Order /\ Parts /\ Latest /\ Kept /\ InHand /\ Sent
  BY DEF OnRequestComplete, Dequeue, Pending, ReqInv
<1>2. /\ r \in Request /\ request[r] \in Record /\ request \in [Request -> Record \cup {NULL}]
      /\ request[r].slot \in Slot /\ r # NULL
  BY <1>1, Numbers DEF Shape
<1>3. now \in [pc : {"dequeued"}, req : {r}, data : {NULL}, ackExp : BOOLEAN]
  <2>1. NoWork \in [pc : {"idle"}, req : {NULL}, data : {NULL}, ackExp : BOOLEAN]
    BY DEF NoWork
  <2> QED
    BY <2>1
<1>4. /\ \A q \in Request : q # r => request'[q] = request[q]
      /\ request'[r] = [request[r] EXCEPT !.ok = ok]
      /\ request' \in [Request -> Record \cup {NULL}] /\ request'[r] \in Record
  BY <1>1, <1>2 DEF Record
<1>5. request'[r].slot = request[r].slot /\ request'[r].kind = request[r].kind
  BY <1>2, <1>4 DEF Record
<1>6. Same /\ \A q \in 1..issued : q # r => request'[q].ok = request[q].ok
  BY <1>1, <1>4, <1>5, Numbers DEF Same
<1> HIDE DEF now
<1>7. /\ work'[t].pc = "dequeued" /\ work'[t].req = r
      /\ \A u \in Thread : u # t => work'[u] = work[u]
      /\ work[t].pc = "idle" /\ work[t].req = NULL
  BY <1>1, <1>3 DEF Shape, NoWork
<1>8. /\ \A q \in 1..issued : Pending(q)' <=> Pending(q) /\ q # r
      /\ \A s \in Slot : s_pendingRequests'[s] \subseteq s_pendingRequests[s]
      /\ r \notin s_pendingRequests'[request[r].slot]
  BY <1>1, <1>2, <1>6, Numbers DEF Same, Pending, Shape
<1>9. \A q \in 1..issued : Busy(q)' <=> Busy(q) \/ q = r
  <2>1. \A q \in 1..issued : q # NULL
    BY <1>1, Numbers
  <2> QED
    BY <1>7, <2>1 DEF Busy
<1>10. \A q \in 1..issued : Done(q)' <=> Done(q)
  BY <1>1, <1>8, <1>9 DEF Done
<1>11. \A q \in 1..issued : ~Pending(q) => request'[q].ok = request[q].ok
  BY <1>1, <1>6
<1>12. \A q \in 1..issued : request[q].slot = request[r].slot =>
           ~Busy(q) /\ (q < r => ~Pending(q))
  BY DEF OnRequestComplete, Turn, Pending
<1>13. Shape'
  <2>1. now \in [pc : {"idle", "dequeued", "respond"}, req : Request \cup {NULL},
                  data : Strings \cup {NULL}, ackExp : BOOLEAN]
    BY <1>2, <1>3
  <2>2. work' \in [Thread -> [pc : {"idle", "dequeued", "respond"}, req : Request \cup {NULL},
                              data : Strings \cup {NULL}, ackExp : BOOLEAN]]
    BY <1>1, <2>1 DEF Shape
  <2>3. s_pendingRequests' \in [Slot -> SUBSET Request]
    BY <1>1 DEF Shape
  <2> QED
    BY <1>1, <1>4, <2>2, <2>3, Numbers DEF Shape
<1>14. Order'
  <2>1. \A s \in Slot : \A q \in s_pendingRequests'[s] : q \in 1..issued' /\ request'[q].slot = s
    BY <1>1, <1>6, <1>8 DEF Order, Same
  <2>2. \A u \in Thread : work'[u].pc = "idle" <=> work'[u].req = NULL
    BY <1>1, <1>2, <1>7 DEF Order
  <2>3. ASSUME NEW u \in Thread, NEW q \in Request, work'[u].req = q
        PROVE  /\ q \in 1..issued' /\ ~Pending(q)'
               /\ work'[u].pc = "respond" => request'[q].kind \notin Local
    BY <1>1, <1>6, <1>7, <1>8, <2>3 DEF Order, Same
  <2>4. ASSUME NEW u \in Thread, NEW v \in Thread, NEW p \in Request, NEW q \in Request,
               work'[u].req = p, work'[v].req = q, request'[p].slot = request'[q].slot
        PROVE  u = v
    <3>1. p \in 1..issued /\ q \in 1..issued /\ request[p].slot = request[q].slot
      BY <1>1, <1>6, <2>3, <2>4 DEF Same
    <3>2. CASE u = t
      <4>1. v # t => Busy(q)
        BY <1>7, <2>4 DEF Busy
      <4> QED
        BY <1>7, <1>12, <2>4, <3>1, <3>2, <4>1
    <3>3. CASE v = t
      <4>1. u # t => Busy(p)
        BY <1>7, <2>4 DEF Busy
      <4> QED
        BY <1>7, <1>12, <2>4, <3>1, <3>3, <4>1
    <3>4. CASE u # t /\ v # t
      BY <1>1, <1>7, <2>4, <3>1, <3>4 DEF Order
    <3> QED
      BY <3>2, <3>3, <3>4
  <2>5. ASSUME NEW p \in 1..issued, NEW q \in 1..issued, p < q, request'[p].slot = request'[q].slot,
               ~Pending(q)'
        PROVE  ~Pending(p)' /\ ~Busy(p)'
    <3>1. request[p].slot = request[q].slot
      BY <1>6, <2>5 DEF Same
    <3>2. CASE q = r
      BY <1>8, <1>9, <1>12, <2>5, <3>1, <3>2, Numbers
    <3>3. CASE q # r
      BY <1>1, <1>8, <1>9, <2>5, <3>1, <3>3 DEF Order
    <3> QED
      BY <3>2, <3>3
  <2> QED
    BY <1>1, <2>1, <2>2, <2>3, <2>4, <2>5 DEF Order
<1>15. Parts'
  BY <1>1, <1>6, PartsKept
<1>16. Latest' /\ Kept'
  BY <1>1, <1>6, <1>10, <1>11, KeptKept, LatestKept
<1>17. InHand' /\ Sent'
  BY <1>1, <1>6, <1>7, <1>10, <1>11, SentKept, InHandKept
<1> QED
  BY <1>13, <1>14, <1>15, <1>16, <1>17 DEF ReqInv

\* A completion that is over frees its thread.
LEMMA EndStep ==
    ASSUME Shape, Order, Parts, NEW t \in Thread, NEW r \in Request, work[t].req = r,
           work' = [work EXCEPT ![t] = NoWork], UNCHANGED <<issued, request, s_pendingRequests>>
    PROVE  /\ Same /\ Order' /\ Parts' /\ r \in 1..issued /\ ~Pending(r) /\ Busy(r)
           /\ \A q \in 1..issued : Done(q)' <=> Done(q) \/ q = r
           /\ work' \in [Thread -> [pc : {"idle", "dequeued", "respond"}, req : Request \cup {NULL},
                                    data : Strings \cup {NULL}, ackExp : BOOLEAN]]
           /\ \A u \in Thread : work'[u].pc = "respond" => work'[u] = work[u] /\ u # t
<1>1. r \in 1..issued /\ ~Pending(r) /\ Busy(r) /\ NULL \notin Request /\ issued \in Nat
  BY Numbers DEF Order, Busy
<1>2. /\ NoWork.pc = "idle" /\ NoWork.req = NULL
      /\ NoWork \in [pc : {"idle", "dequeued", "respond"}, req : Request \cup {NULL},
                     data : Strings \cup {NULL}, ackExp : BOOLEAN]
  BY DEF NoWork
<1>3. /\ work' \in [Thread -> [pc : {"idle", "dequeued", "respond"}, req : Request \cup {NULL},
                               data : Strings \cup {NULL}, ackExp : BOOLEAN]]
      /\ work'[t].pc = "idle" /\ work'[t].req = NULL
      /\ \A u \in Thread : u # t => work'[u] = work[u]
  BY <1>2 DEF Shape
<1>4. \A q \in 1..issued : Pending(q)' <=> Pending(q)
  BY DEF Pending
<1>5. ASSUME NEW q \in 1..issued PROVE Busy(q)' <=> Busy(q) /\ q # r
  <2>1. q \in Request /\ q # NULL
    BY <1>1, Numbers
  <2>2. ASSUME NEW u \in Thread, work[u].req = r PROVE u = t
    BY <2>2 DEF Order
  <2>3. Busy(q)' => Busy(q) /\ q # r
    BY <1>3, <2>1, <2>2 DEF Busy
  <2>4. Busy(q) /\ q # r => Busy(q)'
    BY <1>3 DEF Busy
  <2> QED
    BY <2>3, <2>4
<1>6. \A q \in 1..issued : Done(q)' <=> Done(q) \/ q = r
  BY <1>1, <1>4, <1>5 DEF Done
<1>7. Order'
  <2>1. \A s \in Slot : \A q \in s_pendingRequests'[s] : q \in 1..issued' /\ request'[q].slot = s
    BY DEF Order
  <2>2. \A u \in Thread : work'[u].pc = "idle" <=> work'[u].req = NULL
    BY <1>3 DEF Order
  <2>3. ASSUME NEW u \in Thread, NEW q \in Request, work'[u].req = q
        PROVE  /\ q \in 1..issued' /\ ~Pending(q)'
               /\ work'[u].pc = "respond" => request'[q].kind \notin Local
    BY <1>1, <1>3, <1>4, <2>3 DEF Order
  <2>4. ASSUME NEW u \in Thread, NEW v \in Thread, NEW p \in Request, NEW q \in Request,
               work'[u].req = p, work'[v].req = q, request'[p].slot = request'[q].slot
        PROVE  u = v
    <3>1. u # t /\ v # t
      BY <1>1, <1>3, <2>4
    <3> QED
      BY <1>3, <2>4, <3>1 DEF Order
  <2>5. \A p, q \in 1..issued : p < q /\ request[p].slot = request[q].slot /\ ~Pending(q)' =>
            ~Pending(p)' /\ ~Busy(p)'
    BY <1>4, <1>5 DEF Order
  <2> QED
    BY <2>1, <2>2, <2>3, <2>4, <2>5 DEF Order
<1>8. Same /\ Parts'
  BY DEF Same, Parts
<1> QED
  BY <1>1, <1>3, <1>6, <1>7, <1>8

\* A thread at work has a request.
LEMMA AtWork ==
    ASSUME Shape, Order, NEW t \in Thread, work[t].pc # "idle"
    PROVE  work[t].req \in 1..issued /\ work[t].req \in Request
BY Numbers DEF Shape, Order

\* An answer to libril itself is kept.
LEMMA LocalStep ==
    ASSUME ReqInv, NEW t \in Thread, CompleteLocal(t)
    PROVE  ReqInv'
<1> DEFINE r == work[t].req
           s == request[r].slot
           k == request[r].kind
<1>0. /\ UNCHANGED <<issued, request, s_pendingRequests, responses>>
      /\ work' = [work EXCEPT ![t] = NoWork] /\ work[t].pc = "dequeued" /\ k \in Local
      /\ Device_ID' = [Device_ID EXCEPT ![s][k] = Answer(request, r)]
      /\ freedStrings' = freedStrings \cup ({Device_ID[s][k]} \ {NULL})
  BY DEF CompleteLocal, KeepIdentity, Current, Answer
<1>1. Shape /\ Order /\ Parts /\ Latest /\ Kept /\ InHand /\ Sent
  BY DEF ReqInv
<1>2. r \in 1..issued /\ r \in Request /\ work[t].req = r /\ request[r].slot = s /\ request[r].kind = k
  BY <1>0, <1>1, AtWork
<1> HIDE DEF r, s, k
<1>3. /\ Same /\ Order' /\ Parts' /\ ~Pending(r) /\ Busy(r) /\ ~Done(r)
      /\ \A q \in 1..issued : Done(q)' <=> Done(q) \/ q = r
      /\ work' \in [Thread -> [pc : {"idle", "dequeued", "respond"}, req : Request \cup {NULL},
                               data : Strings \cup {NULL}, ackExp : BOOLEAN]]
      /\ \A u \in Thread : work'[u].pc = "respond" => work'[u] = work[u] /\ u # t
  BY <1>0, <1>1, <1>2, EndStep DEF Done
<1>4. /\ s \in Slot /\ NULL \notin Request /\ issued \in Nat
      /\ Answer(request, r) \in Request \cup {NULL}
      /\ Device_ID \in [Slot -> [Local -> Request \cup {NULL}]] /\ freedStrings \subseteq Request
  BY <1>1, <1>2, Numbers DEF Answer, Shape, Strings
<1>5. /\ Device_ID' \in [Slot -> [Local -> Request \cup {NULL}]]
      /\ Device_ID'[s][k] = Answer(request, r)
      /\ \A s2 \in Slot, k2 \in Local : s2 # s \/ k2 # k => Device_ID'[s2][k2] = Device_ID[s2][k2]
      /\ Device_ID[s][k] \in Request \cup {NULL}
  BY <1>0, <1>4
<1>6. Shape'
  BY <1>0, <1>1, <1>3, <1>4, <1>5 DEF Shape, Strings
<1>7. Latest'
  <2> SUFFICES ASSUME NEW q \in 1..issued, request[q].kind \in Local, Done(q)'
               PROVE  \/ Device_ID'[request[q].slot][request[q].kind] = Answer(request, q)
                      \/ \E p \in 1..issued : /\ p > q /\ Done(p)'
                                              /\ request[p].slot = request[q].slot
                                              /\ request[p].kind = request[q].kind
    BY <1>0 DEF Latest
  <2>1. CASE q = r
    BY <1>2, <1>5, <2>1
  <2>2. CASE q # r /\ request[q].slot = s /\ request[q].kind = k
    <3>1. Done(q)
      BY <1>3, <2>2
    <3>2. ~(r < q)
      BY <1>1, <1>2, <1>3, <2>2, <3>1 DEF Order, Done
    <3>3. r > q
      BY <1>2, <1>4, <2>2, <3>2
    <3> QED
      BY <1>2, <1>3, <2>2, <3>3
  <2>3. CASE q # r /\ ~(request[q].slot = s /\ request[q].kind = k)
    <3>1. Done(q) /\ request[q].slot \in Slot
      BY <1>1, <1>3, <2>3, Numbers
    <3>2. Device_ID'[request[q].slot][request[q].kind] = Device_ID[request[q].slot][request[q].kind]
      BY <1>5, <2>3, <3>1
    <3> QED
      BY <1>1, <1>3, <3>1, <3>2 DEF Latest
  <2> QED
    BY <2>1, <2>2, <2>3
<1>8. Kept'
  <2>1. ASSUME NEW s2 \in Slot, NEW k2 \in Local, NEW q \in Request, Device_ID'[s2][k2] = q
        PROVE  /\ q \in 1..issued /\ q \notin freedStrings' /\ Done(q)'
               /\ request[q].slot = s2 /\ request[q].kind = k2
    <3>1. CASE s2 = s /\ k2 = k
      <4>1. q = r
        BY <1>4, <1>5, <2>1, <3>1 DEF Answer
      <4>2. r \notin freedStrings /\ Device_ID[s][k] # r
        BY <1>0, <1>1, <1>2, <1>3, <1>4 DEF Kept
      <4> QED
        BY <1>0, <1>2, <1>3, <3>1, <4>1, <4>2
    <3>2. CASE ~(s2 = s /\ k2 = k)
      <4>1. Device_ID[s2][k2] = q
        BY <1>5, <2>1, <3>2
      <4>2. /\ q \in 1..issued /\ q \notin freedStrings /\ Done(q)
            /\ request[q].slot = s2 /\ request[q].kind = k2
        BY <1>1, <4>1 DEF Kept
      <4>3. Device_ID[s][k] # q
        BY <1>0, <1>1, <1>4, <3>2, <4>2 DEF Kept
      <4> QED
        BY <1>0, <1>3, <4>2, <4>3
    <3> QED
      BY <3>1, <3>2
  <2>2. ASSUME NEW q \in freedStrings' PROVE q \in 1..issued /\ Done(q)'
    <3>1. CASE q \in freedStrings
      BY <1>1, <1>3, <3>1 DEF Kept
    <3>2. CASE q = Device_ID[s][k] /\ q \in Request
      BY <1>0, <1>1, <1>3, <1>4, <3>2 DEF Kept
    <3> QED
      BY <1>0, <1>5, <2>2, <3>1, <3>2
  <2> QED
    BY <1>0, <2>1, <2>2 DEF Kept
<1>9. InHand'
  <2> SUFFICES ASSUME NEW u \in Thread, NEW q \in Request, work'[u].pc = "respond", work'[u].req = q
               PROVE  /\ Own(request, q, work[u].data)
                      /\ Emulated(q) /\ work[u].data # NULL =>
                             \A k2 \in Local : work[u].data[k2] \notin freedStrings'
    BY <1>0, <1>3 DEF InHand, Emulated
  <2>1. work[u].pc = "respond" /\ work[u].req = q /\ u # t
    BY <1>3
  <2>2. Own(request, q, work[u].data) /\ q \in 1..issued /\ request[q].kind \notin Local
    BY <1>1, <2>1 DEF InHand, Order
  <2>3. request[q].slot # s
    BY <1>1, <1>2, <2>1 DEF Order
  <2>4. ASSUME Emulated(q), work[u].data # NULL, NEW k2 \in Local
        PROVE  work[u].data[k2] \notin freedStrings'
    <3>1. work[u].data[k2] \notin freedStrings
      BY <1>1, <2>1, <2>4 DEF InHand
    <3>2. work[u].data[k2] = Answer(request, PartOf(q, k2))
      BY <2>2, <2>4 DEF Own, Emulated
    <3>3. PartOf(q, k2) \in 1..issued /\ request[PartOf(q, k2)].slot = request[q].slot
      BY <1>1, <2>2, <2>4, PartsDone
    <3>4. Device_ID[s][k] # NULL => request[Device_ID[s][k]].slot = s
      BY <1>0, <1>1, <1>4, <1>5 DEF Kept
    <3> QED
      BY <1>0, <2>3, <3>1, <3>2, <3>3, <3>4 DEF Answer
  <2> QED
    BY <2>2, <2>4
<1>10. Sent'
  BY <1>0, <1>1, <1>3, SentKept
<1> QED
  BY <1>3, <1>6, <1>7, <1>8, <1>9, <1>10 DEF ReqInv

\* An answer to the framework is prepared.
LEMMA PrepareStep ==
    ASSUME ReqInv, NEW t \in Thread, Prepare(t)
    PROVE  ReqInv'
<1> DEFINE r == work[t].req
           s == request[r].slot
           data == IF Overrides(t) THEN Device_ID[s] ELSE NULL
           ackExp == version13 /\ request[r].wasAckSent
<1>0. /\ UNCHANGED <<issued, request, s_pendingRequests, Device_ID, freedStrings, responses>>
      /\ work' = [work EXCEPT ![t] = [@ EXCEPT !.pc = "respond", !.data = data, !.ackExp = ackExp]]
      /\ work[t].pc = "dequeued" /\ request[r].kind \notin Local
  BY DEF Prepare, Current, Vendors
<1>1. Shape /\ Order /\ Parts /\ Latest /\ Kept /\ InHand /\ Sent
  BY DEF ReqInv
<1>2. r \in 1..issued /\ r \in Request /\ work[t].req = r /\ request[r].slot = s /\ s \in Slot
  BY <1>0, <1>1, AtWork, Numbers
<1>3. ackExp \in BOOLEAN
  OBVIOUS
<1>4. data = NULL \/ data = Device_ID[s]
  OBVIOUS
<1> HIDE DEF r, s, data, ackExp
<1>5. data \in Strings \cup {NULL}
  BY <1>1, <1>2, <1>4 DEF Shape
<1>6. work[t] \in [pc : {"idle", "dequeued", "respond"}, req : Request \cup {NULL},
                   data : Strings \cup {NULL}, ackExp : BOOLEAN]
  BY <1>1 DEF Shape
<1>7. /\ work'[t] \in [pc : {"respond"}, req : {r}, data : {data}, ackExp : BOOLEAN]
      /\ \A u \in Thread : u # t => work'[u] = work[u]
  BY <1>0, <1>1, <1>2, <1>3, <1>5, <1>6 DEF Shape
<1>8. work'[t].pc = "respond" /\ work'[t].req = r /\ work'[t].data = data
  BY <1>7
<1>9. \A u \in Thread : work'[u].req = work[u].req
  BY <1>2, <1>7, <1>8
<1>10. Same /\ \A q \in 1..issued : /\ Pending(q)' <=> Pending(q)
                                    /\ Busy(q)' <=> Busy(q)
                                    /\ Done(q)' <=> Done(q)
  BY <1>0, <1>9 DEF Same, Pending, Busy, Done
<1>11. Shape'
  <2>1. work'[t] \in [pc : {"idle", "dequeued", "respond"}, req : Request \cup {NULL},
                      data : Strings \cup {NULL}, ackExp : BOOLEAN]
    BY <1>2, <1>5, <1>7
  <2>2. work' \in [Thread -> [pc : {"idle", "dequeued", "respond"}, req : Request \cup {NULL},
                              data : Strings \cup {NULL}, ackExp : BOOLEAN]]
    <3>1. \A u \in Thread : work'[u] \in [pc : {"idle", "dequeued", "respond"},
                                          req : Request \cup {NULL},
                                          data : Strings \cup {NULL}, ackExp : BOOLEAN]
      BY <1>1, <1>7, <2>1 DEF Shape
    <3>2. work' = [u \in Thread |-> work'[u]]
      BY <1>0, <1>1 DEF Shape
    <3> QED
      BY <3>1, <3>2
  <2> QED
    BY <1>0, <1>1, <2>2 DEF Shape
<1>12. Order' /\ Parts'
  <2>1. \A u \in Thread : work'[u].pc = "idle" <=> work'[u].req = NULL
    BY <1>0, <1>1, <1>2, <1>7, <1>8, Numbers DEF Order
  <2>2. ASSUME NEW u \in Thread, NEW q \in Request, work'[u].req = q
        PROVE  /\ q \in 1..issued /\ ~Pending(q)'
               /\ work'[u].pc = "respond" => request[q].kind \notin Local
    <3>1. q \in 1..issued /\ ~Pending(q)
      BY <1>1, <1>9, <2>2 DEF Order
    <3>2. CASE u = t
      BY <1>0, <1>8, <1>10, <2>2, <3>1, <3>2
    <3>3. CASE u # t
      BY <1>1, <1>7, <1>10, <2>2, <3>1, <3>3 DEF Order
    <3> QED
      BY <3>2, <3>3
  <2>3. \A u, v \in Thread, p, q \in Request :
           work'[u].req = p /\ work'[v].req = q /\ request[p].slot = request[q].slot => u = v
    BY <1>1, <1>9 DEF Order
  <2>4. \A p, q \in 1..issued : p < q /\ request[p].slot = request[q].slot /\ ~Pending(q)' =>
            ~Pending(p)' /\ ~Busy(p)'
    BY <1>1, <1>10 DEF Order
  <2>5. Order'
    BY <1>0, <1>1, <2>1, <2>2, <2>3, <2>4 DEF Order
  <2> QED
    BY <1>1, <1>10, <2>5, PartsKept
<1>13. Latest' /\ Kept' /\ Sent'
  BY <1>0, <1>1, <1>10, KeptKept, LatestKept, SentKept
<1>14. ASSUME Emulated(r), data # NULL, NEW k \in Local
       PROVE  data[k] = Answer(request, PartOf(r, k)) /\ data[k] \notin freedStrings
  <2> DEFINE part == PartOf(r, k)
  <2>1. ~Pending(r) /\ Busy(r)
    BY <1>1, <1>2 DEF Order, Busy
  <2>2. /\ part \in 1..issued /\ request[part].kind = k /\ request[part].slot = s /\ Done(part)
        /\ request[r].kind = "IDENTITY" /\ request[r - 1].kind = "IMEISV"
    BY <1>0, <1>1, <1>2, <1>14, <2>1, PartsDone
  <2>3. ASSUME NEW p \in 1..issued, p > part, Done(p), request[p].slot = s, request[p].kind = k
        PROVE  FALSE
    <3>1. issued \in Nat /\ part \in {r - 1, r - 2} /\ k \in {"IMEI", "IMEISV"}
      BY <1>1, Numbers DEF PartOf, Local
    <3>2. k = "IMEI" => p # r - 1
      BY <2>2, <2>3
    <3>3. k = "IMEISV" => part = r - 1
      BY DEF PartOf
    <3>4. p # r
      BY <2>2, <2>3, <3>1
    <3>5. r < p
      BY <1>2, <2>2, <2>3, <3>1, <3>2, <3>3, <3>4
    <3> QED
      BY <1>1, <1>2, <2>1, <2>3, <3>5 DEF Order, Done
  <2> HIDE DEF part
  <2>4. Device_ID[s][k] = Answer(request, part)
    BY <1>1, <2>2, <2>3 DEF Latest
  <2>5. Device_ID[s][k] \in Request => Device_ID[s][k] \notin freedStrings
    BY <1>1, <1>2 DEF Kept
  <2>6. freedStrings \subseteq Request
    BY <1>1 DEF Shape
  <2> QED
    BY <1>4, <1>14, <2>4, <2>5, <2>6 DEF part
<1>15. InHand'
  <2> SUFFICES ASSUME NEW u \in Thread, NEW q \in Request, work'[u].pc = "respond", work'[u].req = q
               PROVE  /\ Own(request, q, work'[u].data)
                      /\ Emulated(q) /\ work'[u].data # NULL =>
                             \A k \in Local : work'[u].data[k] \notin freedStrings
    BY <1>0 DEF InHand, Emulated
  <2>1. CASE u = t
    BY <1>8, <1>14, <2>1 DEF Own, Emulated
  <2>2. CASE u # t
    BY <1>1, <1>7, <2>2 DEF InHand
  <2> QED
    BY <2>1, <2>2
<1> QED
  BY <1>11, <1>12, <1>13, <1>15 DEF ReqInv

\* An answer is sent.
LEMMA RespondStep ==
    ASSUME ReqInv, NEW t \in Thread, Respond(t)
    PROVE  ReqInv'
<1> DEFINE r == work[t].req
           dangling == work[t].data # NULL /\ \E k \in Local : work[t].data[k] \in freedStrings
           new == [req |-> r, slot |-> request[r].slot, data |-> work[t].data,
                   ackExp |-> work[t].ackExp, dangling |-> dangling]
<1>0. /\ UNCHANGED <<issued, request, s_pendingRequests, Device_ID, freedStrings>>
      /\ work' = [work EXCEPT ![t] = NoWork] /\ work[t].pc = "respond"
      /\ responses' = responses \cup {new}
  BY DEF Respond, Current, Vendors
<1>1. Shape /\ Order /\ Parts /\ Latest /\ Kept /\ InHand /\ Sent
  BY DEF ReqInv
<1>2. r \in 1..issued /\ r \in Request /\ work[t].req = r /\ request[r].kind \notin Local
  BY <1>0, <1>1, AtWork DEF Order
<1>3. Own(request, r, work[t].data) /\ (Emulated(r) /\ work[t].data # NULL => ~dangling)
  BY <1>0, <1>1, <1>2 DEF InHand
<1> HIDE DEF r, dangling
<1>4. /\ new.req = r /\ new.slot = request[r].slot /\ new.data = work[t].data
      /\ new.dangling = dangling
  OBVIOUS
<1> HIDE DEF new
<1>5. /\ Same /\ Order' /\ Parts' /\ ~Pending(r) /\ Busy(r) /\ ~Done(r)
      /\ \A q \in 1..issued : Done(q)' <=> Done(q) \/ q = r
      /\ work' \in [Thread -> [pc : {"idle", "dequeued", "respond"}, req : Request \cup {NULL},
                               data : Strings \cup {NULL}, ackExp : BOOLEAN]]
      /\ \A u \in Thread : work'[u].pc = "respond" => work'[u] = work[u] /\ u # t
  BY <1>0, <1>1, <1>2, EndStep DEF Done
<1>6. Shape'
  BY <1>0, <1>1, <1>5 DEF Shape
<1>7. Latest' /\ Kept' /\ InHand'
  BY <1>0, <1>1, <1>2, <1>5, KeptKept, LatestKept, InHandKept
<1>8. Sent'
  <2> SUFFICES ASSUME NEW p \in responses'
               PROVE  /\ p.req \in 1..issued /\ Done(p.req)'
                      /\ request[p.req].kind \notin Local /\ p.slot = request[p.req].slot
                      /\ \A q \in responses' : q.req = p.req => q = p
                      /\ Own(request, p.req, p.data)
                      /\ Emulated(p.req) /\ p.data # NULL => ~p.dangling
    BY <1>0 DEF Sent, Emulated
  <2>1. \A q \in responses : Done(q.req) /\ q.req # r
    BY <1>1, <1>5 DEF Sent
  <2>2. CASE p \in responses
    BY <1>0, <1>1, <1>4, <1>5, <2>1, <2>2 DEF Sent
  <2>3. CASE p = new
    BY <1>0, <1>2, <1>3, <1>4, <1>5, <2>1, <2>3
  <2> QED
    BY <1>0, <2>2, <2>3
<1> QED
  BY <1>5, <1>6, <1>7, <1>8 DEF ReqInv

Calls == {<<"OTHER">>, <<"IDENTITY">>, <<"IMEI", "IMEISV", "IDENTITY">>}

\* The requests of one call.
LEMMA CallIs ==
    ASSUME NEW kinds \in Calls
    PROVE  /\ Len(kinds) \in Nat /\ \A i \in 1..Len(kinds) : kinds[i] \in Kind
           /\ \A i \in 1..Len(kinds) :
                 /\ kinds[i] = "IMEI" => /\ i + 2 \in 1..Len(kinds)
                                         /\ kinds[i + 1] = "IMEISV" /\ kinds[i + 2] = "IDENTITY"
                 /\ kinds[i] = "IMEISV" => i - 1 \in 1..Len(kinds) /\ kinds[i - 1] = "IMEI"
<1>1. CASE kinds = <<"OTHER">>
  <2>1. Len(kinds) = 1 /\ kinds[1] = "OTHER" /\ 1..1 = {1}
    BY <1>1
  <2> QED
    BY <2>1 DEF Kind
<1>2. CASE kinds = <<"IDENTITY">>
  <2>1. Len(kinds) = 1 /\ kinds[1] = "IDENTITY" /\ 1..1 = {1}
    BY <1>2
  <2> QED
    BY <2>1 DEF Kind
<1>3. CASE kinds = <<"IMEI", "IMEISV", "IDENTITY">>
  <2>1. /\ Len(kinds) = 3 /\ kinds[1] = "IMEI" /\ kinds[2] = "IMEISV" /\ kinds[3] = "IDENTITY"
        /\ 1..3 = {1, 2, 3} /\ 1 + 1 = 2 /\ 1 + 2 = 3 /\ 2 - 1 = 1
    BY <1>3
  <2> QED
    BY <2>1 DEF Kind, Local
<1> QED
  BY <1>1, <1>2, <1>3 DEF Calls

\* New requests get the next numbers and are pending; nothing else moves.
LEMMA AddStep ==
    ASSUME ReqInv, NEW s \in Slot, NEW kinds \in Calls, AddRequests(s, kinds)
    PROVE  ReqInv'
<1> DEFINE n == Len(kinds)
           made(i) == [slot |-> s, kind |-> kinds[i], wasAckSent |-> FALSE, ok |-> TRUE]
<1>0. /\ UNCHANGED <<work, Device_ID, freedStrings, responses>>
      /\ issued' = issued + n /\ issued + n <= MaxRequests
      /\ request' = [r \in Request |-> IF r - issued \in 1..n THEN made(r - issued) ELSE request[r]]
      /\ s_pendingRequests' = [s_pendingRequests EXCEPT ![s] = @ \cup {issued + i : i \in 1..n}]
  BY DEF AddRequests
<1>1. Shape /\ Order /\ Parts /\ Latest /\ Kept /\ InHand /\ Sent
  BY DEF ReqInv
<1>2. /\ n \in Nat /\ \A i \in 1..n : kinds[i] \in Kind
      /\ \A i \in 1..n :
            /\ kinds[i] = "IMEI" => /\ i + 2 \in 1..n
                                    /\ kinds[i + 1] = "IMEISV" /\ kinds[i + 2] = "IDENTITY"
            /\ kinds[i] = "IMEISV" => i - 1 \in 1..n /\ kinds[i - 1] = "IMEI"
  BY CallIs
<1>3. \A i \in 1..n : /\ made(i) \in Record /\ made(i).slot = s /\ made(i).kind = kinds[i]
  BY <1>2 DEF Record
<1> HIDE DEF n, made
<1>4. issued \in Nat /\ MaxRequests \in Nat /\ 1..issued \subseteq Request /\ NULL \notin Request
  BY <1>1, Numbers, RequestConstants
<1>5. /\ issued' \in 0..MaxRequests /\ 1..issued \subseteq 1..issued' /\ 1..issued' \subseteq Request
      /\ \A r \in 1..issued' : r \in 1..issued \/ r - issued \in 1..n
      /\ \A r \in 1..issued : r - issued \notin 1..n
      /\ \A i \in 1..n : issued + i \in 1..issued' /\ (issued + i) - issued = i /\ issued + i \notin 1..issued
      /\ \A r \in 1..issued' : r \notin 1..issued => r > issued
  BY <1>0, <1>2, <1>4 DEF Request
<1>6. /\ \A r \in 1..issued : request'[r] = request[r]
      /\ \A i \in 1..n : request'[issued + i] = made(i)
  BY <1>0, <1>5, <1>4
<1>7. \A r \in 1..issued' : r \notin 1..issued => \E i \in 1..n : r = issued + i /\ request'[r] = made(i)
  <2> SUFFICES ASSUME NEW r \in 1..issued', r \notin 1..issued
               PROVE  \E i \in 1..n : r = issued + i /\ request'[r] = made(i)
    OBVIOUS
  <2>1. r - issued \in 1..n /\ r = issued + (r - issued)
    BY <1>4, <1>5
  <2> QED
    BY <1>6, <2>1
<1>8. /\ s_pendingRequests'[s] = s_pendingRequests[s] \cup {issued + i : i \in 1..n}
      /\ \A s2 \in Slot : s2 # s => s_pendingRequests'[s2] = s_pendingRequests[s2]
  BY <1>0, <1>1 DEF Shape
<1>9. \A r \in 1..issued : Pending(r)' <=> Pending(r)
  <2> SUFFICES ASSUME NEW r \in 1..issued PROVE Pending(r)' <=> Pending(r)
    OBVIOUS
  <2>1. request'[r].slot = request[r].slot /\ request[r].slot \in Slot
    BY <1>1, <1>6, Numbers
  <2>2. \A i \in 1..n : r # issued + i
    BY <1>5
  <2> QED
    BY <1>8, <2>1, <2>2 DEF Pending
<1>10. \A r \in 1..issued' : r \notin 1..issued => Pending(r)' /\ request'[r].slot = s
  BY <1>3, <1>7, <1>8 DEF Pending
<1>11. \A r : Busy(r)' <=> Busy(r)
  BY <1>0 DEF Busy
<1>12. \A r \in 1..issued' : Done(r)' <=> r \in 1..issued /\ Done(r)
  BY <1>5, <1>9, <1>10, <1>11 DEF Done
<1>13. Shape'
  <2>1. \A r \in 1..issued' : request'[r] \in Record
    BY <1>1, <1>3, <1>6, <1>7, Numbers
  <2>2. request' \in [Request -> Record \cup {NULL}]
    BY <1>0, <1>1, <1>3 DEF Shape
  <2>3. s_pendingRequests' \in [Slot -> SUBSET Request]
    <3>1. {issued + i : i \in 1..n} \subseteq Request
      BY <1>5
    <3> QED
      BY <1>0, <1>1, <3>1 DEF Shape
  <2> QED
    BY <1>0, <1>1, <1>5, <2>1, <2>2, <2>3 DEF Shape
<1>14. Order'
  <2>1. ASSUME NEW s2 \in Slot, NEW r \in s_pendingRequests'[s2]
        PROVE  r \in 1..issued' /\ request'[r].slot = s2
    <3>1. CASE r \in s_pendingRequests[s2]
      <4>1. r \in 1..issued /\ request[r].slot = s2
        BY <1>1, <3>1 DEF Order
      <4> QED
        BY <1>5, <1>6, <4>1
    <3>2. CASE s2 = s /\ r \in {issued + i : i \in 1..n}
      BY <1>3, <1>5, <1>6, <3>2
    <3> QED
      BY <1>8, <2>1, <3>1, <3>2
  <2>2. ASSUME NEW t \in Thread, NEW r \in Request, work[t].req = r
        PROVE  /\ r \in 1..issued /\ ~Pending(r)'
               /\ work[t].pc = "respond" => request'[r].kind \notin Local
    BY <1>1, <1>6, <1>9, <2>2 DEF Order
  <2>3. ASSUME NEW t \in Thread, NEW u \in Thread, NEW q \in Request, NEW r \in Request,
               work[t].req = q, work[u].req = r, request'[q].slot = request'[r].slot
        PROVE  t = u
    <3>1. q \in 1..issued /\ r \in 1..issued
      BY <1>1, <2>3 DEF Order
    <3>2. request[q].slot = request[r].slot
      BY <1>6, <2>3, <3>1
    <3> QED
      BY <1>1, <2>3, <3>2 DEF Order
  <2>4. ASSUME NEW q \in 1..issued', NEW r \in 1..issued', q < r,
               request'[q].slot = request'[r].slot, ~Pending(r)'
        PROVE  ~Pending(q)' /\ ~Busy(q)'
    <3>1. r \in 1..issued
      BY <1>10, <2>4
    <3>2. q \in 1..issued
      BY <1>4, <1>5, <2>4, <3>1
    <3>3. request[q].slot = request[r].slot /\ ~Pending(r)
      BY <1>6, <1>9, <2>4, <3>1, <3>2
    <3>4. ~Pending(q) /\ ~Busy(q)
      BY <1>1, <2>4, <3>1, <3>2, <3>3 DEF Order
    <3> QED
      BY <1>9, <1>11, <3>2, <3>4
  <2>5. \A t \in Thread : work'[t].pc = "idle" <=> work'[t].req = NULL
    BY <1>0, <1>1 DEF Order
  <2> QED
    <3>1. work' = work
      BY <1>0
    <3>2. \A t \in Thread, r \in Request : work'[t].req = r =>
              /\ r \in 1..issued' /\ ~Pending(r)'
              /\ work'[t].pc = "respond" => request'[r].kind \notin Local
      BY <1>5, <2>2, <3>1
    <3>3. \A t, u \in Thread, q, r \in Request :
              work'[t].req = q /\ work'[u].req = r /\ request'[q].slot = request'[r].slot => t = u
      BY <2>3, <3>1
    <3> QED
      BY <2>1, <2>4, <2>5, <3>2, <3>3 DEF Order
<1>15. Parts'
  <2>1. ASSUME NEW r \in 1..issued', request'[r].kind = "IMEI"
        PROVE  /\ r + 2 \in 1..issued'
               /\ request'[r + 1].kind = "IMEISV" /\ request'[r + 2].kind = "IDENTITY"
               /\ request'[r + 1].slot = request'[r].slot /\ request'[r + 2].slot = request'[r].slot
    <3>1. CASE r \in 1..issued
      <4>1. /\ r + 2 \in 1..issued /\ request[r + 1].kind = "IMEISV" /\ request[r + 2].kind = "IDENTITY"
            /\ request[r + 1].slot = request[r].slot /\ request[r + 2].slot = request[r].slot
        BY <1>1, <1>6, <2>1, <3>1 DEF Parts
      <4>2. r + 1 \in 1..issued
        BY <1>4, <3>1, <4>1
      <4> QED
        BY <1>5, <1>6, <3>1, <4>1, <4>2
    <3>2. CASE r \notin 1..issued
      <4>1. PICK i \in 1..n : r = issued + i /\ request'[r] = made(i)
        BY <1>7, <3>2
      <4>2. i + 2 \in 1..n /\ kinds[i + 1] = "IMEISV" /\ kinds[i + 2] = "IDENTITY"
        BY <1>2, <1>3, <2>1, <4>1
      <4>3. i + 1 \in 1..n /\ r + 1 = issued + (i + 1) /\ r + 2 = issued + (i + 2)
        BY <1>2, <1>4, <4>1, <4>2
      <4> QED
        BY <1>3, <1>5, <1>6, <4>1, <4>2, <4>3
    <3> QED
      BY <3>1, <3>2
  <2>2. ASSUME NEW r \in 1..issued', request'[r].kind = "IMEISV"
        PROVE  r - 1 \in 1..issued' /\ request'[r - 1].kind = "IMEI"
    <3>1. CASE r \in 1..issued
      BY <1>1, <1>5, <1>6, <2>2, <3>1 DEF Parts
    <3>2. CASE r \notin 1..issued
      <4>1. PICK i \in 1..n : r = issued + i /\ request'[r] = made(i)
        BY <1>7, <3>2
      <4>2. i - 1 \in 1..n /\ kinds[i - 1] = "IMEI"
        <5>1. kinds[i] = "IMEISV"
          BY <1>3, <2>2, <4>1
        <5> QED
          BY <1>2, <5>1
      <4>3. r - 1 = issued + (i - 1)
        BY <1>4, <4>1, <4>2
      <4> QED
        BY <1>3, <1>5, <1>6, <4>2, <4>3
    <3> QED
      BY <3>1, <3>2
  <2> QED
    BY <2>1, <2>2 DEF Parts
<1>16. Latest'
  <2> SUFFICES ASSUME NEW q \in 1..issued', request'[q].kind \in Local, Done(q)'
               PROVE  \/ Device_ID[request'[q].slot][request'[q].kind] = Answer(request', q)
                      \/ \E p \in 1..issued' : /\ p > q /\ Done(p)'
                                               /\ request'[p].slot = request'[q].slot
                                               /\ request'[p].kind = request'[q].kind
    BY <1>0 DEF Latest
  <2>1. q \in 1..issued /\ Done(q) /\ request'[q] = request[q]
    BY <1>6, <1>12
  <2>2. CASE Device_ID[request[q].slot][request[q].kind] = Answer(request, q)
    BY <2>1, <2>2 DEF Answer
  <2>3. CASE \E p \in 1..issued : /\ p > q /\ Done(p)
                                  /\ request[p].slot = request[q].slot
                                  /\ request[p].kind = request[q].kind
    BY <1>5, <1>6, <1>12, <2>1, <2>3
  <2> QED
    BY <1>1, <2>1, <2>2, <2>3 DEF Latest
<1>17. Kept'
  <2>1. ASSUME NEW s2 \in Slot, NEW k \in Local, NEW q \in Request, Device_ID[s2][k] = q
        PROVE  /\ q \in 1..issued' /\ q \notin freedStrings /\ Done(q)'
               /\ request'[q].slot = s2 /\ request'[q].kind = k
    <3>1. /\ q \in 1..issued /\ q \notin freedStrings /\ Done(q)
          /\ request[q].slot = s2 /\ request[q].kind = k
      BY <1>1, <2>1 DEF Kept
    <3> QED
      BY <1>5, <1>6, <1>12, <3>1
  <2>2. \A q \in freedStrings : q \in 1..issued' /\ Done(q)'
    BY <1>1, <1>5, <1>12 DEF Kept
  <2> QED
    BY <1>0, <2>1, <2>2 DEF Kept
<1>18. ASSUME NEW r \in 1..issued, request[r].kind \notin Local, ~Pending(r)
       PROVE  /\ Emulated(r)' <=> Emulated(r)
              /\ \A data : Own(request, r, data) => Own(request', r, data)
  <2>1. r > 1 => r - 1 \in 1..issued /\ request'[r - 1] = request[r - 1]
    BY <1>4, <1>6
  <2>2. Emulated(r)' <=> Emulated(r)
    BY <2>1 DEF Emulated
  <2>3. ASSUME NEW data, Own(request, r, data), r > 1, request'[r - 1].kind \in Local, data # NULL,
               NEW k \in Local
        PROVE  data[k] = Answer(request', PartOf(r, k))
    <3>1. Emulated(r)
      BY <2>1, <2>3 DEF Emulated
    <3>2. PartOf(r, k) \in 1..issued
      BY <1>1, <1>18, <3>1, PartsDone
    <3>3. data[k] = Answer(request, PartOf(r, k))
      BY <2>1, <2>3 DEF Own
    <3> QED
      BY <1>6, <3>2, <3>3 DEF Answer
  <2> QED
    BY <2>2, <2>3 DEF Own
<1>19. InHand'
  <2> SUFFICES ASSUME NEW t \in Thread, NEW q \in Request, work[t].pc = "respond", work[t].req = q
               PROVE  /\ Own(request', q, work[t].data)
                      /\ Emulated(q)' /\ work[t].data # NULL =>
                             \A k \in Local : work[t].data[k] \notin freedStrings
    BY <1>0 DEF InHand
  <2>1. q \in 1..issued /\ ~Pending(q) /\ request[q].kind \notin Local
    BY <1>1 DEF Order
  <2> QED
    BY <1>1, <1>18, <2>1 DEF InHand
<1>20. Sent'
  <2> SUFFICES ASSUME NEW p \in responses
               PROVE  /\ p.req \in 1..issued' /\ Done(p.req)'
                      /\ request'[p.req].kind \notin Local /\ p.slot = request'[p.req].slot
                      /\ \A q \in responses : q.req = p.req => q = p
                      /\ Own(request', p.req, p.data)
                      /\ Emulated(p.req)' /\ p.data # NULL => ~p.dangling
    BY <1>0 DEF Sent
  <2>1. /\ p.req \in 1..issued /\ Done(p.req) /\ ~Pending(p.req)
        /\ request[p.req].kind \notin Local /\ p.slot = request[p.req].slot
        /\ \A q \in responses : q.req = p.req => q = p
        /\ Own(request, p.req, p.data)
        /\ Emulated(p.req) /\ p.data # NULL => ~p.dangling
    BY <1>1 DEF Sent, Done
  <2>2. request'[p.req] = request[p.req] /\ p.req \in 1..issued' /\ Done(p.req)'
    BY <1>5, <1>6, <1>12, <2>1
  <2>3. (Emulated(p.req)' <=> Emulated(p.req)) /\ Own(request', p.req, p.data)
    BY <1>18, <2>1
  <2> QED
    BY <2>1, <2>2, <2>3
<1> QED
  BY <1>13, <1>14, <1>15, <1>16, <1>17, <1>19, <1>20 DEF ReqInv

-----------------------------------------------------------------------------
(* The theorems.                                                           *)

\* The invariant holds whatever rild, mtk-ril.so and the framework do.
LEMMA AlwaysReqInv == RequestSpec => []ReqInv
<1>1. RequestInit => ReqInv
  <2> SUFFICES ASSUME RequestInit PROVE ReqInv
    OBVIOUS
  <2>1. /\ issued = 0 /\ request = [r \in Request |-> NULL]
        /\ s_pendingRequests = [s \in Slot |-> {}] /\ work = [t \in Thread |-> NoWork]
        /\ Device_ID = [s \in Slot |-> Empty] /\ freedStrings = {} /\ responses = {}
        /\ 1..issued = {} /\ MaxRequests \in Nat /\ NULL \notin Request
    BY RequestConstants DEF RequestInit, Request
  <2>2. \A t \in Thread : work[t].pc = "idle" /\ work[t].req = NULL
    BY <2>1 DEF NoWork
  <2>3. /\ NoWork \in [pc : {"idle", "dequeued", "respond"}, req : Request \cup {NULL},
                       data : Strings \cup {NULL}, ackExp : BOOLEAN]
        /\ Empty \in Strings
    BY DEF NoWork, Empty, Strings
  <2>4. Shape
    BY <2>1, <2>3 DEF Shape
  <2>5. Order /\ Parts /\ Latest
    BY <2>1, <2>2 DEF Order, Parts, Latest
  <2>6. Kept /\ InHand /\ Sent
    BY <2>1, <2>2 DEF Kept, InHand, Sent, Empty
  <2> QED
    BY <2>4, <2>5, <2>6 DEF ReqInv
<1>2. ReqInv /\ [RequestNext]_allVars => ReqInv'
  <2> SUFFICES ASSUME ReqInv, [RequestNext]_allVars PROVE ReqInv'
    OBVIOUS
  <2>1. CASE \E s \in Slot : SendRequest(s) \/ GetDeviceIdentity(s)
    BY <2>1, AddStep DEF SendRequest, GetDeviceIdentity, Calls
  <2>2. CASE SetProperty
    BY <2>2, QuietStep DEF SetProperty, core
  <2>3. CASE \E r \in 1..issued : OnRequestAck(r)
    BY <2>3, AckStep
  <2>4. CASE \E r \in 1..issued, t \in Thread, ok \in BOOLEAN : OnRequestComplete(t, r, ok)
    BY <2>4, CompleteStep
  <2>5. CASE \E t \in Thread : CompleteLocal(t) \/ Prepare(t) \/ Respond(t)
    BY <2>5, LocalStep, PrepareStep, RespondStep
  <2>6. CASE UNCHANGED reqVars
    BY <2>6, QuietStep DEF reqVars, core
  <2>7. CASE UNCHANGED allVars
    BY <2>6, <2>7 DEF allVars
  <2> QED
    BY <2>1, <2>2, <2>3, <2>4, <2>5, <2>6, <2>7 DEF RequestNext, ResponseAcknowledgement
<1> QED
  BY <1>1, <1>2, PTL DEF RequestSpec

\* RIL_onRequestComplete answers a request of the framework once, on its slot, and
\* never passes on what libril asked for itself.
THEOREM AnswersOnce == RequestSpec => []RespondedOnce
<1>1. ReqInv => RespondedOnce
  <2> SUFFICES ASSUME ReqInv, NEW p \in responses
               PROVE  /\ request[p.req].kind \notin Local /\ p.slot = request[p.req].slot
                      /\ \A q \in responses : q.req = p.req => q = p
                      /\ \A t \in Thread : work[t].req # p.req
                      /\ p.req \notin s_pendingRequests[p.slot]
    BY DEF RespondedOnce
  <2> QED
    BY DEF ReqInv, Sent, Done, Pending, Busy
<1> QED
  BY <1>1, AlwaysReqInv, PTL

\* A string of an emulated identity comes from its own parts.
LEMMA IdentityParts ==
    ASSUME ReqInv, NEW p \in responses, Emulated(p.req), p.data # NULL, NEW k \in Local
    PROVE  /\ PartOf(p.req, k) \in 1..p.req /\ p.req - PartOf(p.req, k) \in 1..2
           /\ request[PartOf(p.req, k)].kind = k /\ request[PartOf(p.req, k)].slot = p.slot
           /\ p.data[k] = Answer(request, PartOf(p.req, k)) /\ PartOf(p.req, k) # NULL
           /\ ~p.dangling
<1>1. Shape /\ Order /\ Parts /\ Sent /\ issued \in Nat /\ NULL \notin Request
  BY Numbers DEF ReqInv
<1>2. /\ p.req \in 1..issued /\ request[p.req].kind \notin Local /\ p.slot = request[p.req].slot
      /\ Own(request, p.req, p.data) /\ ~p.dangling
  BY <1>1 DEF Sent
<1>3. /\ PartOf(p.req, k) \in 1..issued /\ PartOf(p.req, k) < p.req
      /\ request[PartOf(p.req, k)].kind = k
      /\ request[PartOf(p.req, k)].slot = request[p.req].slot
  BY <1>1, <1>2, PartsDone
<1>4. p.data[k] = Answer(request, PartOf(p.req, k))
  BY <1>2 DEF Own, Emulated
<1>5. p.req - PartOf(p.req, k) \in 1..2
  BY <1>1, <1>2 DEF PartOf
<1>6. PartOf(p.req, k) \in 1..p.req /\ PartOf(p.req, k) # NULL
  BY <1>1, <1>2, <1>3, Numbers
<1> QED
  BY <1>2, <1>3, <1>4, <1>5, <1>6

\* The override of RIL_onRequestComplete reports an identity without an IMEI or an
\* IMEISV only when the modem gave none.
THEOREM SuccessHasIdentity == RequestSpec => []IdentityNeverEmptySuccess
<1>1. ReqInv => IdentityNeverEmptySuccess
  <2> SUFFICES ASSUME ReqInv, NEW p \in responses, Emulated(p.req), p.data # NULL,
                      NEW k \in Local, p.data[k] = NULL
               PROVE  \E q \in 1..p.req : request[q].kind = k /\ request[q].slot = p.slot /\ ~request[q].ok
    BY DEF IdentityNeverEmptySuccess, Vendors
  <2> QED
    BY IdentityParts DEF Answer
<1> QED
  BY <1>1, AlwaysReqInv, PTL

\* The identity reported is the slot's own, is what the modem gave for this very
\* request, and no string of it has been freed.
THEOREM IdentityIsFresh == RequestSpec => []IdentityFresh
<1>1. Cardinality(Local) = 2
  <2>1. IsFiniteSet({"IMEI"}) /\ Cardinality({"IMEI"}) = 1
    BY FS_Singleton
  <2>2. Local = {"IMEI"} \cup {"IMEISV"} /\ "IMEISV" \notin {"IMEI"}
    BY DEF Local
  <2>3. Cardinality({"IMEI"} \cup {"IMEISV"}) = 1 + 1
    BY <2>1, <2>2, FS_AddElement
  <2> QED
    BY <2>2, <2>3
<1>2. ReqInv => IdentityFresh
  <2> SUFFICES ASSUME ReqInv, NEW p \in responses, Emulated(p.req), p.data # NULL
               PROVE  /\ ~p.dangling
                      /\ \A k \in Local : p.data[k] # NULL =>
                             /\ request[p.data[k]].slot = p.slot /\ request[p.data[k]].kind = k
                             /\ p.req - p.data[k] <= Cardinality(Local)
    BY DEF IdentityFresh, Vendors
  <2>1. ~p.dangling
    BY IdentityParts DEF Local
  <2>2. ASSUME NEW k \in Local, p.data[k] # NULL
        PROVE  /\ request[p.data[k]].slot = p.slot /\ request[p.data[k]].kind = k
               /\ p.req - p.data[k] <= 2
    <3>1. p.data[k] = PartOf(p.req, k)
      BY <2>2, IdentityParts DEF Answer
    <3> QED
      BY <2>2, <3>1, IdentityParts
  <2> QED
    BY <1>1, <2>1, <2>2
<1> QED
  BY <1>2, AlwaysReqInv, PTL

=============================================================================
