---------------------------- MODULE ClientProofs ----------------------------
(***************************************************************************)
(* Theorems about the instances of MCClients: the requests of mtkmal, the  *)
(* channels' mutexes and the wake lock's timer.                            *)
(***************************************************************************)
EXTENDS MCClients, WellFoundedInduction, TLAPS

\* A leaf is tried with Zenon first: most need no arithmetic.  The second round
\* is for slow machines.
USE ZenonT(5), SMTT(30), ZenonT(60), SMTT(90)

-----------------------------------------------------------------------------
(* The requests of mtkmal, for any number of slots, attempts, requests and *)
(* connections, as long as no slot is given back between malClaim and      *)
(* malComplete of its token (~ClaimMayLag).  What carries the proof is     *)
(* that one thread serves: a slot in use is the one malDispatch is waiting *)
(* on, a claimed token is the one it waits for, and what is parked there   *)
(* is the reply to it or nothing.                                          *)

MalBusy == server.pc \in {"send", "wait", "take", "answer"}

\* malDispatch has a slot, a token and the connection it was asked on; no other
\* slot is in use.
ServesOne ==
    /\ MalBusy => /\ server.req = requests /\ requests # 0 /\ server.slot \in Inflight
                  /\ Mal!ServedSlot.inUse /\ Mal!ServedSlot.pRI = server.req
                  /\ askedBy[server.req] = peer
    /\ server.pc # "accept" => s_malClientFd = peer /\ peer # 0
    /\ server.pc = "accept" => s_malClientFd = NULL
    /\ \A i \in Inflight : s_malInflight[i].inUse => MalBusy /\ i = server.slot

\* A token that is being completed is the one malDispatch waits for, in its slot;
\* the tokens to come are untouched, and one that was freed has come back.
TokensOK ==
    \A r \in Mal!Request :
        /\ vendor[r] = "claimed" => MalBusy /\ r = server.req /\ claimed[r] = server.slot
        /\ r > requests => vendor[r] = "none"
        /\ r \in freedTokens => vendor[r] = "done" /\ r <= requests
        /\ MalBusy /\ r = server.req => r \notin freedTokens

\* The reply parked in the slot is this request's; an attempt that is done has
\* one, and its token is with malDispatch again.
ParkedOK ==
    /\ MalBusy => Mal!ServedSlot.text \in {NULL, server.req} /\ server.text \in {NULL, server.req}
    /\ server.pc = "send" => vendor[server.req] \in {"none", "done"}
    /\ server.pc \in {"send", "wait"} => ~server.timedOut
    /\ server.pc = "wait" /\ Mal!ServedSlot.done =>
           vendor[server.req] = "done" /\ Mal!ServedSlot.text = server.req
    /\ server.pc = "take" /\ ~server.timedOut =>
           vendor[server.req] = "done" /\ Mal!ServedSlot.text = server.req
    /\ server.pc = "answer" => /\ ~server.timedOut => vendor[server.req] = "done"
                               /\ server.err = 0 => server.text = server.req

\* The answers so far are to requests read and no longer served.
AnswersOK ==
    \A a \in answers : a.req <= requests /\ (MalBusy => a.req # server.req)

MalInv ==
    /\ Mal!TypeOK /\ ServesOne /\ TokensOK /\ ParkedOK /\ AnswersOK
    /\ Mal!AnswerIsOwn /\ Mal!AnswerToAsker

\* The first free slot and the slot of a token exist: Min of a set of naturals.
LEMMA MinIsMember ==
    ASSUME NEW S \in SUBSET Nat, S # {}
    PROVE Mal!Min(S) \in S
<1>1. PICK x \in S : \A y \in S : <<y, x>> \notin OpToRel(<, Nat)
  BY NatLessThanWellFounded, WFMin
<1>2. \A y \in S : x <= y
  <2> SUFFICES ASSUME NEW y \in S PROVE x <= y
    OBVIOUS
  <2>1. <<y, x>> \in Nat \X Nat /\ ~(<<y, x>>[1] < <<y, x>>[2])
    BY <1>1 DEF OpToRel
  <2> QED
    BY <2>1
<1> QED
  BY <1>2 DEF Mal!Min

\* malServerThread has started and nothing has been asked.
LEMMA InitInv == Mal!MalConstants /\ Mal!Init => MalInv
<1> SUFFICES ASSUME Mal!MalConstants, Mal!Init PROVE MalInv
  OBVIOUS
<1>1. Mal!TypeOK
  <2>1. server \in Mal!ServerStates /\ s_malInflight \in [Inflight -> Mal!SlotStates]
    BY DEF Mal!MalConstants, Mal!Init, Mal!ServerIdle, Mal!FreeSlot, Mal!ServerStates,
           Mal!SlotStates, Mal!Ref, Mal!Errors
  <2>2. /\ askedBy \in [Mal!Request -> 0..MaxPeers] /\ result \in [Mal!Request -> Mal!Errors]
        /\ vendor \in [Mal!Request -> {"none", "running", "claimed", "done"}]
        /\ claimed \in [Mal!Request -> Inflight \cup {NULL}]
    BY DEF Mal!MalConstants, Mal!Init, Mal!Errors
  <2>3. s_malClientFd \in 1..MaxPeers \cup {NULL} /\ peer \in 0..MaxPeers
    BY DEF Mal!MalConstants, Mal!Init
  <2>4. requests \in 0..MaxRequests
    BY DEF Mal!MalConstants, Mal!Init
  <2> QED
    BY <2>1, <2>2, <2>3, <2>4, ZenonT(20) DEF Mal!Init, Mal!TypeOK
<1>2. ServesOne /\ TokensOK /\ ParkedOK
  BY DEF Mal!Init, ServesOne, TokensOK, ParkedOK, MalBusy, Mal!ServerIdle, Mal!FreeSlot, Mal!Request
<1>3. AnswersOK /\ Mal!AnswerIsOwn /\ Mal!AnswerToAsker
  BY DEF Mal!Init, AnswersOK, Mal!AnswerIsOwn, Mal!AnswerToAsker
<1> QED
  BY <1>1, <1>2, <1>3 DEF MalInv

\* mtkmal connects while nothing is served.
LEMMA AcceptInv ==
    ASSUME Mal!MalConstants, ~ClaimMayLag, MalInv, Mal!Accept
    PROVE MalInv'
<1> USE DEF Mal!MalConstants, MalInv, Mal!Request
<1>1. Mal!TypeOK'
  <2>1. server' \in Mal!ServerStates
    BY DEF Mal!TypeOK, Mal!ServerStates, Mal!Accept
  <2> QED
    BY <2>1 DEF Mal!TypeOK, Mal!Accept, Mal!table, Mal!modem
<1>2. ServesOne'
  BY DEF Mal!TypeOK, ServesOne, MalBusy, Mal!Accept, Mal!table
<1>3. TokensOK'
  BY DEF TokensOK, MalBusy, Mal!Accept, Mal!table, Mal!modem
<1>4. ParkedOK'
  BY DEF ParkedOK, MalBusy, Mal!Accept
<1>5. AnswersOK'
  BY DEF AnswersOK, MalBusy, Mal!Accept
<1>6. Mal!AnswerIsOwn' /\ Mal!AnswerToAsker'
  BY DEF Mal!AnswerIsOwn, Mal!AnswerToAsker, Mal!Accept
<1> QED
  BY <1>1, <1>2, <1>3, <1>4, <1>5, <1>6

\* The client goes away, also while it is served.
LEMMA PeerClosesInv ==
    ASSUME Mal!MalConstants, ~ClaimMayLag, MalInv, Mal!PeerCloses
    PROVE MalInv'
<1> USE DEF Mal!MalConstants, MalInv, Mal!Request
<1>1. Mal!TypeOK'
  BY DEF Mal!TypeOK, Mal!PeerCloses, Mal!Errors, Mal!table, Mal!modem
<1>2. ServesOne'
  BY DEF ServesOne, MalBusy, Mal!ServedSlot, Mal!PeerCloses, Mal!table
<1>3. TokensOK'
  BY DEF TokensOK, MalBusy, Mal!PeerCloses, Mal!table, Mal!modem
<1>4. ParkedOK'
  BY DEF ParkedOK, MalBusy, Mal!ServedSlot, Mal!PeerCloses, Mal!table, Mal!modem
<1>5. AnswersOK'
  BY DEF AnswersOK, MalBusy, Mal!PeerCloses
<1>6. Mal!AnswerIsOwn' /\ Mal!AnswerToAsker'
  BY DEF Mal!AnswerIsOwn, Mal!AnswerToAsker, Mal!PeerCloses
<1> QED
  BY <1>1, <1>2, <1>3, <1>4, <1>5, <1>6

\* The server gives the connection up between two requests.
LEMMA DisconnectInv ==
    ASSUME Mal!MalConstants, ~ClaimMayLag, MalInv, Mal!Disconnect
    PROVE MalInv'
<1> USE DEF Mal!MalConstants, MalInv, Mal!Request
<1>1. Mal!TypeOK'
  BY DEF Mal!TypeOK, Mal!ServerStates, Mal!Disconnect, Mal!Errors, Mal!table, Mal!modem
<1>2. ServesOne'
  BY DEF ServesOne, MalBusy, Mal!Disconnect, Mal!table
<1>3. TokensOK'
  BY DEF TokensOK, MalBusy, Mal!Disconnect, Mal!table, Mal!modem
<1>4. ParkedOK'
  BY DEF ParkedOK, MalBusy, Mal!Disconnect
<1>5. AnswersOK'
  BY DEF AnswersOK, MalBusy, Mal!Disconnect
<1>6. Mal!AnswerIsOwn' /\ Mal!AnswerToAsker'
  BY DEF Mal!AnswerIsOwn, Mal!AnswerToAsker, Mal!Disconnect
<1> QED
  BY <1>1, <1>2, <1>3, <1>4, <1>5, <1>6

\* A refusal is the one answer to a request that was never served.
LEMMA RefuseInv ==
    ASSUME Mal!MalConstants, ~ClaimMayLag, MalInv, Mal!Refuse
    PROVE MalInv'
<1> USE DEF Mal!MalConstants, MalInv, Mal!Request
<1>1. Mal!TypeOK'
  <2>1. answers' \subseteq Mal!AnswerFrames
    BY DEF Mal!TypeOK, Mal!AnswerFrames, Mal!Ref, Mal!Errors, Mal!Refuse, Mal!SendFrame,
           Mal!ReadRequest
  <2>2. requests' \in 0..MaxRequests /\ askedBy' \in [Mal!Request -> 0..MaxPeers]
    BY DEF Mal!TypeOK, Mal!Refuse, Mal!ReadRequest
  <2> QED
    BY <2>1, <2>2 DEF Mal!TypeOK, Mal!Refuse, Mal!socket, Mal!table, Mal!modem
<1>2. ServesOne'
  BY DEF ServesOne, MalBusy, Mal!Refuse, Mal!SendFrame, Mal!ReadRequest, Mal!socket, Mal!table
<1>3. TokensOK'
  BY DEF Mal!TypeOK, TokensOK, MalBusy, Mal!Refuse, Mal!SendFrame, Mal!ReadRequest, Mal!table,
         Mal!modem
<1>4. ParkedOK'
  BY DEF ParkedOK, MalBusy, Mal!Refuse, Mal!SendFrame, Mal!ReadRequest
<1>5. AnswersOK'
  BY DEF Mal!TypeOK, Mal!AnswerFrames, AnswersOK, MalBusy, Mal!Refuse, Mal!SendFrame,
         Mal!ReadRequest
<1>6. Mal!AnswerIsOwn' /\ Mal!AnswerToAsker'
  <2> DEFINE new == [req |-> requests + 1, to |-> peer, err |-> Mal!Failure, of |-> NULL]
  <2>1. answers' \subseteq answers \cup {new}
    BY DEF ServesOne, Mal!Refuse, Mal!SendFrame, Mal!ReadRequest
  <2>2. Mal!AnswerIsOwn'
    BY <2>1 DEF Mal!AnswerIsOwn, Mal!Failure
  <2>3. \A a \in answers : a.req <= requests /\ a.req \in Mal!Request
    BY DEF Mal!TypeOK, Mal!AnswerFrames, AnswersOK
  <2>4. askedBy' = [askedBy EXCEPT ![requests + 1] = peer] /\ requests + 1 \in Mal!Request
    BY DEF Mal!TypeOK, Mal!Refuse, Mal!ReadRequest
  <2>5. Mal!AnswerToAsker'
    BY <2>1, <2>3, <2>4 DEF Mal!TypeOK, Mal!AnswerToAsker
  <2> QED
    BY <2>2, <2>5
<1> QED
  BY <1>1, <1>2, <1>3, <1>4, <1>5, <1>6

\* The request gets a slot nobody uses.
LEMMA DispatchInv ==
    ASSUME Mal!MalConstants, ~ClaimMayLag, MalInv, Mal!Dispatch
    PROVE MalInv'
<1> USE DEF Mal!MalConstants, MalInv, Mal!Request
<1> DEFINE i == Mal!Min(Mal!FreeSlots)
<1>a. i \in Inflight /\ ~s_malInflight[i].inUse
  <2>1. Mal!FreeSlots \in SUBSET Nat /\ Mal!FreeSlots # {}
    BY DEF Mal!FreeSlots, Mal!Dispatch
  <2> QED
    BY <2>1, MinIsMember DEF Mal!FreeSlots
<1> HIDE DEF i
<1>b. /\ s_malInflight' = [s_malInflight EXCEPT ![i] =
             [inUse |-> TRUE, pRI |-> requests + 1, done |-> FALSE, err |-> 0, text |-> NULL]]
      /\ server' = [pc |-> "send", req |-> requests + 1, slot |-> i, attempt |-> 1,
                    timedOut |-> FALSE, err |-> 0, text |-> NULL]
  BY DEF Mal!Dispatch, i
<1>c. /\ requests' = requests + 1 /\ requests + 1 \in Mal!Request
      /\ askedBy' = [askedBy EXCEPT ![requests + 1] = peer]
      /\ server.pc = "read"
      /\ UNCHANGED <<Mal!socket, freed, freedTokens, Mal!modem, answers>>
  BY DEF Mal!TypeOK, Mal!Dispatch, Mal!ReadRequest
<1>1. Mal!TypeOK'
  <2>1. server' \in Mal!ServerStates
    BY <1>a, <1>b, <1>c DEF Mal!ServerStates, Mal!Ref, Mal!Errors
  <2>2. s_malInflight' \in [Inflight -> Mal!SlotStates]
    <3>1. s_malInflight'[i] \in Mal!SlotStates
      BY <1>a, <1>b, <1>c DEF Mal!TypeOK, Mal!SlotStates, Mal!Ref, Mal!Errors
    <3> QED
      BY <1>a, <1>b, <3>1 DEF Mal!TypeOK
  <2>3. requests' \in 0..MaxRequests /\ askedBy' \in [Mal!Request -> 0..MaxPeers]
    BY <1>c DEF Mal!TypeOK
  <2> QED
    BY <1>c, <2>1, <2>2, <2>3 DEF Mal!TypeOK, Mal!socket, Mal!modem
<1>2. ServesOne'
  BY <1>a, <1>b, <1>c DEF Mal!TypeOK, ServesOne, MalBusy, Mal!ServedSlot, Mal!socket
<1>3. TokensOK'
  BY <1>b, <1>c DEF Mal!TypeOK, TokensOK, MalBusy, Mal!modem
<1>4. ParkedOK'
  <2>1. Mal!ServedSlot'.text = NULL
    BY <1>a, <1>b DEF Mal!TypeOK, Mal!ServedSlot
  <2>2. vendor'[requests + 1] = "none"
    BY <1>c DEF Mal!TypeOK, TokensOK, Mal!modem
  <2> QED
    BY <1>b, <2>1, <2>2 DEF ParkedOK
<1>5. AnswersOK'
  BY <1>b, <1>c DEF Mal!TypeOK, Mal!AnswerFrames, AnswersOK
<1>6. Mal!AnswerIsOwn' /\ Mal!AnswerToAsker'
  BY <1>b, <1>c DEF Mal!TypeOK, AnswersOK, Mal!AnswerIsOwn, Mal!AnswerToAsker
<1> QED
  BY <1>1, <1>2, <1>3, <1>4, <1>5, <1>6

\* An attempt starts with nothing done.
LEMMA SendInv ==
    ASSUME Mal!MalConstants, ~ClaimMayLag, MalInv, Mal!Send
    PROVE MalInv'
<1> USE DEF Mal!MalConstants, MalInv, Mal!Request
<1>1. Mal!TypeOK'
  <2>1. server.slot \in Inflight /\ server.req \in Mal!Request
    BY DEF Mal!TypeOK, ServesOne, MalBusy, Mal!Send
  <2>2. s_malInflight' \in [Inflight -> Mal!SlotStates]
    <3> DEFINE slot == s_malInflight[server.slot]
    <3>1. slot \in Mal!SlotStates
      BY <2>1 DEF Mal!TypeOK
    <3>2. [slot EXCEPT !.done = FALSE] \in Mal!SlotStates
      BY <3>1 DEF Mal!SlotStates
    <3> QED
      BY <2>1, <3>2 DEF Mal!TypeOK, Mal!Send
  <2> QED
    BY <2>1, <2>2, ZenonT(20) DEF Mal!TypeOK, Mal!ServerStates, Mal!Send, Mal!socket
<1>2. ServesOne'
  BY DEF ServesOne, MalBusy, Mal!ServedSlot, Mal!Send, Mal!socket
<1>3. TokensOK'
  BY DEF ServesOne, TokensOK, MalBusy, Mal!Send
<1>4. ParkedOK'
  BY DEF Mal!TypeOK, ServesOne, ParkedOK, MalBusy, Mal!ServedSlot, Mal!Send
<1>5. AnswersOK'
  BY DEF AnswersOK, MalBusy, Mal!Send
<1>6. Mal!AnswerIsOwn' /\ Mal!AnswerToAsker'
  BY DEF Mal!AnswerIsOwn, Mal!AnswerToAsker, Mal!Send
<1> QED
  BY <1>1, <1>2, <1>3, <1>4, <1>5, <1>6

\* The wait ends with the reply parked in the slot.
LEMMA WaitDoneInv ==
    ASSUME Mal!MalConstants, ~ClaimMayLag, MalInv, Mal!WaitDone
    PROVE MalInv'
<1> USE DEF Mal!MalConstants, MalInv, Mal!Request
<1>1. Mal!TypeOK'
  <2>1. server' \in Mal!ServerStates
    <3>1. server.attempt \in 0..MaxAttempts
      BY DEF Mal!TypeOK, Mal!ServerStates
    <3>2. CASE Mal!ServedSlot.err = 0 \/ server.attempt >= MaxAttempts
      BY <3>2 DEF Mal!TypeOK, Mal!ServerStates, Mal!WaitDone
    <3>3. CASE ~(Mal!ServedSlot.err = 0 \/ server.attempt >= MaxAttempts)
      <4>1. server.attempt + 1 \in 0..MaxAttempts
        BY <3>1, <3>3
      <4> QED
        BY <4>1, <3>3, ZenonT(20) DEF Mal!TypeOK, Mal!ServerStates, Mal!WaitDone
    <3> QED
      BY <3>2, <3>3
  <2> QED
    BY <2>1 DEF Mal!TypeOK, Mal!WaitDone, Mal!socket, Mal!table, Mal!modem
<1>2. ServesOne'
  BY DEF ServesOne, MalBusy, Mal!ServedSlot, Mal!WaitDone, Mal!socket, Mal!table
<1>3. TokensOK'
  BY DEF TokensOK, MalBusy, Mal!WaitDone, Mal!table, Mal!modem
<1>4. ParkedOK'
  BY DEF ParkedOK, MalBusy, Mal!ServedSlot, Mal!WaitDone, Mal!table, Mal!modem
<1>5. AnswersOK'
  BY DEF AnswersOK, MalBusy, Mal!WaitDone
<1>6. Mal!AnswerIsOwn' /\ Mal!AnswerToAsker'
  BY DEF Mal!AnswerIsOwn, Mal!AnswerToAsker, Mal!WaitDone
<1> QED
  BY <1>1, <1>2, <1>3, <1>4, <1>5, <1>6

\* The wait ends without it.
LEMMA WaitTimesOutInv ==
    ASSUME Mal!MalConstants, ~ClaimMayLag, MalInv, Mal!WaitTimesOut
    PROVE MalInv'
<1> USE DEF Mal!MalConstants, MalInv, Mal!Request
<1>1. Mal!TypeOK'
  BY DEF Mal!TypeOK, Mal!ServerStates, Mal!WaitTimesOut, Mal!Errors, Mal!socket, Mal!table,
         Mal!modem
<1>2. ServesOne'
  BY DEF ServesOne, MalBusy, Mal!ServedSlot, Mal!WaitTimesOut, Mal!socket, Mal!table
<1>3. TokensOK'
  BY DEF TokensOK, MalBusy, Mal!WaitTimesOut, Mal!table, Mal!modem
<1>4. ParkedOK'
  BY DEF ParkedOK, MalBusy, Mal!ServedSlot, Mal!WaitTimesOut, Mal!table
<1>5. AnswersOK'
  BY DEF AnswersOK, MalBusy, Mal!WaitTimesOut
<1>6. Mal!AnswerIsOwn' /\ Mal!AnswerToAsker'
  BY DEF Mal!AnswerIsOwn, Mal!AnswerToAsker, Mal!WaitTimesOut
<1> QED
  BY <1>1, <1>2, <1>3, <1>4, <1>5, <1>6

\* The reply leaves the slot, the request's own or none.
LEMMA TakeInv ==
    ASSUME Mal!MalConstants, ~ClaimMayLag, MalInv, Mal!Take
    PROVE MalInv'
<1> USE DEF Mal!MalConstants, MalInv, Mal!Request
<1>a. server.slot \in Inflight /\ server.req \in Mal!Request /\ Mal!ServedSlot \in Mal!SlotStates
  BY DEF Mal!TypeOK, ServesOne, MalBusy, Mal!ServedSlot, Mal!Take
<1>b. /\ server' = [server EXCEPT !.pc = "answer", !.text = Mal!ServedSlot.text,
                                  !.err = IF server.timedOut THEN Mal!Failure
                                          ELSE Mal!ServedSlot.err]
      /\ s_malInflight' =
             [s_malInflight EXCEPT ![server.slot] = [Mal!ServedSlot EXCEPT !.text = NULL]]
  BY <1>a DEF Mal!Take, Mal!ServedSlot
<1>1. Mal!TypeOK'
  <2>1. server' \in Mal!ServerStates
    BY <1>a, <1>b DEF Mal!TypeOK, Mal!ServerStates, Mal!SlotStates, Mal!Errors
  <2>2. s_malInflight' \in [Inflight -> Mal!SlotStates]
    <3>1. [Mal!ServedSlot EXCEPT !.text = NULL] \in Mal!SlotStates
      BY <1>a DEF Mal!SlotStates, Mal!Ref
    <3> QED
      BY <1>a, <1>b, <3>1 DEF Mal!TypeOK
  <2> QED
    BY <2>1, <2>2 DEF Mal!TypeOK, Mal!Take, Mal!socket, Mal!modem
<1>2. ServesOne'
  BY <1>a, <1>b DEF ServesOne, MalBusy, Mal!ServedSlot, Mal!Take, Mal!socket
<1>3. TokensOK'
  BY <1>a, <1>b DEF TokensOK, MalBusy, Mal!Take, Mal!modem
<1>4. ParkedOK'
  <2>1. /\ Mal!ServedSlot'.text = NULL /\ server'.text = Mal!ServedSlot.text
        /\ server'.req = server.req
    BY <1>a, <1>b DEF Mal!TypeOK, Mal!ServedSlot
  <2>2. server'.timedOut = server.timedOut /\ server'.pc = "answer"
    BY <1>b DEF Mal!TypeOK
  <2>3. server'.err = 0 => ~server.timedOut
    BY <1>b DEF Mal!Failure
  <2>4. vendor' = vendor
    BY DEF Mal!Take, Mal!modem
  <2> QED
    BY <2>1, <2>2, <2>3, <2>4 DEF ParkedOK, MalBusy, Mal!Take
<1>5. AnswersOK'
  BY <1>a, <1>b DEF AnswersOK, MalBusy, Mal!Take
<1>6. Mal!AnswerIsOwn' /\ Mal!AnswerToAsker'
  BY <1>a, <1>b DEF Mal!AnswerIsOwn, Mal!AnswerToAsker, Mal!Take
<1> QED
  BY <1>1, <1>2, <1>3, <1>4, <1>5, <1>6

\* The answer goes to the connection that asked, and the slot is released.
LEMMA AnswerInv ==
    ASSUME Mal!MalConstants, ~ClaimMayLag, MalInv, Mal!Answer
    PROVE MalInv'
<1> USE DEF Mal!MalConstants, MalInv, Mal!Request
<1>1. Mal!TypeOK'
  <2>1. server.slot \in Inflight /\ server.req \in Mal!Request
    BY DEF Mal!TypeOK, ServesOne, MalBusy, Mal!Answer
  <2>2. server' \in Mal!ServerStates
    <3>1. server' = [pc |-> "read", req |-> NULL, slot |-> NULL, attempt |-> 0,
                     timedOut |-> FALSE, err |-> 0, text |-> NULL]
      BY DEF Mal!ServerIdle, Mal!Answer
    <3> QED
      BY <3>1 DEF Mal!ServerStates, Mal!Ref, Mal!Errors
  <2>3. s_malInflight' \in [Inflight -> Mal!SlotStates]
    <3> DEFINE slot == s_malInflight[server.slot]
    <3>1. slot \in Mal!SlotStates
      BY <2>1 DEF Mal!TypeOK
    <3>2. [slot EXCEPT !.inUse = FALSE, !.pRI = NULL] \in Mal!SlotStates
      BY <3>1 DEF Mal!SlotStates, Mal!Ref
    <3> QED
      BY <2>1, <3>2 DEF Mal!TypeOK, Mal!Answer
  <2>4. answers' \subseteq Mal!AnswerFrames
    BY <2>1 DEF Mal!TypeOK, Mal!AnswerFrames, Mal!ServerStates, Mal!Answer, Mal!SendFrame
  <2> QED
    BY <2>1, <2>2, <2>3, <2>4 DEF Mal!TypeOK, Mal!Answer, Mal!socket, Mal!modem
<1>2. ServesOne'
  BY DEF Mal!TypeOK, ServesOne, MalBusy, Mal!Answer, Mal!SendFrame, Mal!ServerIdle, Mal!socket
<1>3. TokensOK'
  BY DEF Mal!TypeOK, TokensOK, ParkedOK, Mal!Answer, Mal!SendFrame, Mal!ServerIdle, Mal!modem
<1>4. ParkedOK'
  BY DEF ParkedOK, MalBusy, Mal!Answer, Mal!SendFrame, Mal!ServerIdle
<1>5. AnswersOK'
  BY DEF Mal!TypeOK, ServesOne, AnswersOK, MalBusy, Mal!Answer, Mal!SendFrame, Mal!ServerIdle
<1>6. Mal!AnswerIsOwn' /\ Mal!AnswerToAsker'
  BY DEF ServesOne, AnswersOK, ParkedOK, Mal!AnswerIsOwn, Mal!AnswerToAsker, MalBusy, Mal!Answer,
     Mal!SendFrame, Mal!ServerIdle
<1> QED
  BY <1>1, <1>2, <1>3, <1>4, <1>5, <1>6

\* A token is claimed in the slot malDispatch waits on.
LEMMA OnRequestCompleteInv ==
    ASSUME Mal!MalConstants, ~ClaimMayLag, MalInv, NEW r \in Mal!Request, NEW e \in Mal!Errors,
           Mal!OnRequestComplete(r, e)
    PROVE MalInv'
<1> USE DEF Mal!MalConstants, MalInv, Mal!Request
<1>a. Mal!Claim(r) # {} => Mal!Min(Mal!Claim(r)) \in Mal!Claim(r)
  <2>1. Mal!Claim(r) \in SUBSET Nat
    BY DEF Mal!Claim
  <2> QED
    BY <2>1, MinIsMember
<1>1. Mal!TypeOK'
  <2>1. Mal!Claim(r) \subseteq Inflight
    BY DEF Mal!Claim
  <2>2. /\ claimed' \in [Mal!Request -> Inflight \cup {NULL}]
        /\ result' \in [Mal!Request -> Mal!Errors]
    <3>1. CASE Mal!Claim(r) = {}
      BY <3>1 DEF Mal!TypeOK, Mal!OnRequestComplete
    <3>2. CASE Mal!Claim(r) # {}
      <4>1. Mal!Min(Mal!Claim(r)) \in Inflight
        BY <1>a, <2>1, <3>2
      <4>2. /\ claimed' = [claimed EXCEPT ![r] = Mal!Min(Mal!Claim(r))]
            /\ result' = [result EXCEPT ![r] = e]
        BY <3>2 DEF Mal!OnRequestComplete
      <4> QED
        BY <4>1, <4>2 DEF Mal!TypeOK
    <3> QED
      BY <3>1, <3>2
  <2>3. vendor' \in [Mal!Request -> {"none", "running", "claimed", "done"}]
    BY DEF Mal!TypeOK, Mal!OnRequestComplete
  <2> QED
    BY <2>2, <2>3 DEF Mal!TypeOK, Mal!OnRequestComplete, Mal!socket, Mal!table
<1>2. ServesOne'
  BY <1>a
     DEF ServesOne, MalBusy, Mal!ServedSlot, Mal!OnRequestComplete, Mal!Claim, Mal!socket,
         Mal!table
<1>3. TokensOK'
  <2>1. CASE Mal!Claim(r) = {}
    BY <2>1 DEF Mal!TypeOK, TokensOK, MalBusy, Mal!OnRequestComplete, Mal!table
  <2>2. CASE Mal!Claim(r) # {}
    <3>1. MalBusy /\ r = server.req /\ Mal!Min(Mal!Claim(r)) = server.slot
      BY <1>a, <2>2, ZenonT(20) DEF Mal!Claim, ServesOne, Mal!ServedSlot
    <3>2. /\ vendor' = [vendor EXCEPT ![r] = "claimed"]
          /\ claimed' = [claimed EXCEPT ![r] = server.slot]
      BY <2>2, <3>1 DEF Mal!OnRequestComplete
    <3> QED
      BY <3>1, <3>2 DEF Mal!TypeOK, TokensOK, MalBusy, Mal!OnRequestComplete, Mal!table
  <2> QED
    BY <2>1, <2>2
<1>4. ParkedOK'
  BY <1>a
     DEF Mal!TypeOK, ServesOne, ParkedOK, MalBusy, Mal!ServedSlot, Mal!OnRequestComplete,
         Mal!Claim, Mal!table
<1>5. AnswersOK'
  BY <1>a DEF AnswersOK, MalBusy, Mal!OnRequestComplete, Mal!Claim
<1>6. Mal!AnswerIsOwn' /\ Mal!AnswerToAsker'
  BY <1>a DEF Mal!AnswerIsOwn, Mal!AnswerToAsker, Mal!OnRequestComplete, Mal!Claim
<1> QED
  BY <1>1, <1>2, <1>3, <1>4, <1>5, <1>6

\* The reply is parked in the slot of its own request.
LEMMA MalCompleteInv ==
    ASSUME Mal!MalConstants, ~ClaimMayLag, MalInv, NEW r \in Mal!Request, Mal!MalComplete(r)
    PROVE MalInv'
<1> USE DEF Mal!MalConstants, MalInv, Mal!Request
<1>a. MalBusy /\ r = server.req /\ claimed[r] = server.slot /\ server.slot \in Inflight
  BY DEF Mal!MalComplete, TokensOK, ServesOne
<1>1. Mal!TypeOK'
  <2> DEFINE slot == s_malInflight[server.slot]
  <2>0. slot \in Mal!SlotStates
    BY <1>a DEF Mal!TypeOK
  <2>1. [slot EXCEPT !.text = r, !.err = result[r], !.done = TRUE] \in Mal!SlotStates
    BY <2>0 DEF Mal!TypeOK, Mal!SlotStates, Mal!Ref
  <2>2. s_malInflight' \in [Inflight -> Mal!SlotStates]
    BY <1>a, <2>1 DEF Mal!TypeOK, Mal!MalComplete
  <2> QED
    BY <2>2 DEF Mal!TypeOK, Mal!MalComplete, Mal!socket
<1>2. ServesOne'
  BY <1>a DEF ServesOne, MalBusy, Mal!ServedSlot, Mal!MalComplete, Mal!socket
<1>3. TokensOK'
  BY <1>a DEF Mal!TypeOK, TokensOK, Mal!MalComplete
<1>4. ParkedOK'
  BY <1>a DEF Mal!TypeOK, ParkedOK, Mal!ServedSlot, Mal!MalComplete
<1>5. AnswersOK'
  BY <1>a DEF AnswersOK, Mal!MalComplete
<1>6. Mal!AnswerIsOwn' /\ Mal!AnswerToAsker'
  BY <1>a DEF Mal!AnswerIsOwn, Mal!AnswerToAsker, Mal!MalComplete
<1> QED
  BY <1>1, <1>2, <1>3, <1>4, <1>5, <1>6

\* Every step of mtkmal, of the server thread and of mtk-ril.so preserves the
\* invariant.
LEMMA NextInv ==
    ASSUME Mal!MalConstants, ~ClaimMayLag, MalInv, [Mal!Next]_(Mal!vars)
    PROVE MalInv'
<1>1. CASE UNCHANGED Mal!vars
  BY <1>1
     DEF Mal!vars, Mal!socket, Mal!table, Mal!modem, MalInv, Mal!TypeOK, ServesOne, TokensOK,
         ParkedOK, AnswersOK,
     Mal!AnswerIsOwn, Mal!AnswerToAsker, MalBusy, Mal!ServedSlot
<1>2. CASE Mal!Accept \/ Mal!PeerCloses
  BY <1>2, AcceptInv, PeerClosesInv
<1>3. CASE Mal!ServerNext
  BY <1>3, DisconnectInv, RefuseInv, DispatchInv, SendInv, WaitDoneInv, WaitTimesOutInv, TakeInv,
     AnswerInv DEF Mal!ServerNext
<1>4. CASE Mal!VendorNext
  BY <1>4, MalCompleteInv, OnRequestCompleteInv DEF Mal!VendorNext
<1> QED
  BY <1>1, <1>2, <1>3, <1>4 DEF Mal!Next

-----------------------------------------------------------------------------
(* The theorems.                                                           *)

\* What malDispatch sends is the reply to the request it was read with
\* (AnswerIsOwn), whatever attempts failed, timed out or completed late before.
THEOREM AnswersAreOwn == Mal!MalConstants /\ ~ClaimMayLag => (Mal!Spec => []AnswerIsOwn)
<1> SUFFICES ASSUME Mal!MalConstants, ~ClaimMayLag PROVE Mal!Spec => []AnswerIsOwn
  OBVIOUS
<1>1. Mal!Init => MalInv
  BY InitInv
<1>2. MalInv /\ [Mal!Next]_(Mal!vars) => MalInv'
  BY NextInv
<1>3. MalInv => AnswerIsOwn
  BY DEF MalInv, AnswerIsOwn
<1> QED
  BY <1>1, <1>2, <1>3, PTL DEF Mal!Spec

\* It goes to the connection the request came from, once (AnswerToAsker),
\* although malSendFrame looks the connection up when it writes.
THEOREM AskersAnswered == Mal!MalConstants /\ ~ClaimMayLag => (Mal!Spec => []AnswerToAsker)
<1> SUFFICES ASSUME Mal!MalConstants, ~ClaimMayLag PROVE Mal!Spec => []AnswerToAsker
  OBVIOUS
<1>1. Mal!Init => MalInv
  BY InitInv
<1>2. MalInv /\ [Mal!Next]_(Mal!vars) => MalInv'
  BY NextInv
<1>3. MalInv => AnswerToAsker
  BY DEF MalInv, AnswerToAsker
<1> QED
  BY <1>1, <1>2, <1>3, PTL DEF Mal!Spec

\* malDispatch frees no RequestInfo that mtk-ril.so may still complete
\* (TokenOutlivesUse).
THEOREM TokensOutliveUse == Mal!MalConstants /\ ~ClaimMayLag => (Mal!Spec => []TokenOutlivesUse)
<1> SUFFICES ASSUME Mal!MalConstants, ~ClaimMayLag PROVE Mal!Spec => []TokenOutlivesUse
  OBVIOUS
<1>1. Mal!Init => MalInv
  BY InitInv
<1>2. MalInv /\ [Mal!Next]_(Mal!vars) => MalInv'
  BY NextInv
<1>3. MalInv => TokenOutlivesUse
  BY DEF MalInv, Mal!TypeOK, TokensOK, TokenOutlivesUse, Mal!TokenOutlivesUse
<1> QED
  BY <1>1, <1>2, <1>3, PTL DEF Mal!Spec

-----------------------------------------------------------------------------
(* The channels.                                                           *)

\* The threads that take the mutex of a channel: all but those of my_enqueue.
Locking == {MAL} \cup Channel

\* A channel's mutex is held by the thread that is past it, if any.
MutexInv ==
    /\ DOMAIN inVendor = Channels!Thread /\ DOMAIN s_chMutex = Channel
    /\ \A t \in Locking : inVendor[t] \in Channel \cup {NULL}
    /\ \A t \in Locking, c \in Channel : inVendor[t] = c => s_chMutex[c] = t
    /\ \A c \in Channel : inVendor[c] \in {c, NULL}

\* ChannelExclusive, of the threads that take the mutex.
LockersExclusive ==
    \A t, u \in Locking : inVendor[t] # NULL /\ inVendor[t] = inVendor[u] => t = u

\* malDispatch and the workers of the timed callbacks never use a channel of
\* mtk-ril.so at the same time, for any number of channels, callbacks and radio
\* requests.  (my_enqueue takes no mutex: the run channels_hidl shows it beside
\* another thread.)
THEOREM MutexesExclude ==
    Channels!ChannelConstants /\ NULL \notin Locking => (Channels!Spec => []LockersExclusive)
<1> SUFFICES ASSUME Channels!ChannelConstants, NULL \notin Locking
             PROVE  Channels!Spec => []LockersExclusive
  OBVIOUS
<1>0. /\ MAL \notin Caller \cup Channel /\ Caller \cap Channel = {}
      /\ NULL \notin Channel /\ NULL # MAL
      /\ Channels!Thread = Caller \cup {MAL} \cup Channel
  BY DEF Channels!ChannelConstants, Channels!Thread, Locking
<1>1. Channels!Init => MutexInv
  BY <1>0 DEF Channels!Init, MutexInv, Locking
<1>2. MutexInv /\ [Channels!Next]_(Channels!vars) => MutexInv'
  <2> SUFFICES ASSUME MutexInv, [Channels!Next]_(Channels!vars) PROVE MutexInv'
    OBVIOUS
  <2>1. ASSUME NEW t \in Caller,
               Channels!MyEnqueueReturns(t) \/ \E c \in Channel : Channels!MyEnqueue(t, c)
        PROVE MutexInv'
    BY <1>0, <2>1 DEF Channels!MyEnqueueReturns, Channels!MyEnqueue, MutexInv, Locking
  <2>2. CASE Channels!MalAttemptReturns
    BY <1>0, <2>2 DEF Channels!MalAttemptReturns, MutexInv, Locking
  <2>3. ASSUME NEW c \in Channel, Channels!MalAttempt(c) PROVE MutexInv'
    BY <1>0, <2>3 DEF Channels!MalAttempt, MutexInv, Locking
  <2>4. ASSUME NEW c \in Channel, Channels!WorkerRuns(c) PROVE MutexInv'
    BY <1>0, <2>4 DEF Channels!WorkerRuns, MutexInv, Locking
  <2>5. ASSUME NEW c \in Channel, Channels!WorkerReturns(c) PROVE MutexInv'
    BY <1>0, <2>5 DEF Channels!WorkerReturns, MutexInv, Locking
  <2>6. ASSUME UNCHANGED <<s_chMutex, inVendor>> PROVE MutexInv'
    BY <2>6 DEF MutexInv
  <2> QED
    BY <2>1, <2>2, <2>3, <2>4, <2>5, <2>6
       DEF Channels!Next, Channels!vars, Channels!ProxyTimerFired, Channels!WorkerTakes
<1>3. MutexInv => LockersExclusive
  BY DEF MutexInv, LockersExclusive, Locking
<1> QED
  BY <1>1, <1>2, <1>3, PTL DEF Channels!Spec

-----------------------------------------------------------------------------
(* The wake lock.                                                          *)

\* An address the service has kept is not given out again.
WakeInv ==
    /\ info \in [Info -> {"new", "armed", "handed", "param0", "freed"}]
    /\ DOMAIN userParam = Info /\ DOMAIN arming = Deliverer
    /\ \A i \in Info :
           (s_last_wake_timeout_info = i \/ \E t \in Deliverer : arming[t] = i) => info[i] # "new"
    /\ Wake!HeldHasTimer

\* A fresh timer is live, and is not the one that is cancelled for it.
LEMMA FreshTimer ==
    ASSUME WakeInv, ~Reuse, NEW i \in Wake!Allocatable, Wake!Arm(i), Wake!CancelLast(i)
    PROVE  /\ i \in Info /\ info' = [info EXCEPT ![i] = "armed"] /\ info'[i] = "armed"
           /\ DOMAIN userParam' = Info /\ Wake!Live(i)'
<1>1. i \in Info /\ info[i] = "new" /\ i # s_last_wake_timeout_info
  BY DEF Wake!Allocatable, WakeInv
<1>2. info' = [info EXCEPT ![i] = "armed"] /\ info'[i] = "armed"
  BY <1>1 DEF Wake!Arm, WakeInv
<1>3. DOMAIN userParam' = Info /\ userParam'[i] = 0
  BY <1>1 DEF Wake!CancelLast
<1> QED
  BY <1>1, <1>2, <1>3 DEF Wake!Live

\* Whoever takes the wake lock, a timer that will give it back is armed or about
\* to be (HeldHasTimer), for any number of timers and threads and with either
\* version of the vendor library, as long as calloc() does not return the address
\* s_last_wake_timeout_info still has; the run wake_timer_reuse shows what happens
\* when it does.
THEOREM LockHasTimer ==
    ~Reuse /\ {NULL, "idle", "response"} \cap Info = {} =>
        (Wake!WakeSpec => []Wake!HeldHasTimer)
<1> SUFFICES ASSUME ~Reuse, {NULL, "idle", "response"} \cap Info = {}
             PROVE  Wake!WakeSpec => []Wake!HeldHasTimer
  OBVIOUS
<1>1. Wake!WakeInit => WakeInv
  BY DEF Wake!WakeInit, WakeInv, Wake!HeldHasTimer
<1>2. WakeInv /\ [Wake!WakeNext]_(Wake!wakeVars) => WakeInv'
  <2> SUFFICES ASSUME WakeInv, [Wake!WakeNext]_(Wake!wakeVars) PROVE WakeInv'
    OBVIOUS
  <2>1. ASSUME NEW t \in Deliverer, Wake!GrabPartialWakeLock(t) PROVE WakeInv'
    <3>1. CASE held' = FALSE /\ UNCHANGED <<info, userParam, s_last_wake_timeout_info>>
      BY <2>1, <3>1 DEF Wake!GrabPartialWakeLock, WakeInv, Wake!HeldHasTimer
    <3>2. ASSUME NEW i \in Wake!Allocatable, Wake!Arm(i), Wake!CancelLast(i),
                 s_last_wake_timeout_info' = i, arming' = arming
          PROVE WakeInv'
      BY <3>2, FreshTimer DEF WakeInv, Wake!HeldHasTimer
    <3> QED
      BY <2>1, <3>1, <3>2, ZenonT(20) DEF Wake!GrabPartialWakeLock
  <2>2. ASSUME NEW t \in Deliverer, Wake!OldGrab(t) PROVE WakeInv'
    <3>1. /\ arming' = [arming EXCEPT ![t] = "response"]
          /\ UNCHANGED <<info, userParam, s_last_wake_timeout_info>>
      BY <2>2 DEF Wake!OldGrab
    <3>2. arming'[t] = "response"
      BY <3>1 DEF WakeInv
    <3> QED
      BY <3>1, <3>2 DEF WakeInv, Wake!HeldHasTimer
  <2>3. ASSUME NEW t \in Deliverer, Wake!OldArm(t) PROVE WakeInv'
    <3>1. CASE /\ held' = FALSE /\ UNCHANGED <<info, userParam>>
               /\ arming' = [arming EXCEPT ![t] = "idle"]
      BY <2>3, <3>1 DEF Wake!OldArm, WakeInv, Wake!HeldHasTimer
    <3>2. ASSUME NEW i \in Wake!Allocatable, Wake!Arm(i), Wake!CancelLast(i),
                 arming' = [arming EXCEPT ![t] = i],
                 s_last_wake_timeout_info' = s_last_wake_timeout_info
          PROVE WakeInv'
      BY <3>2, FreshTimer DEF WakeInv, Wake!HeldHasTimer
    <3> QED
      BY <2>3, <3>1, <3>2, ZenonT(20) DEF Wake!OldArm
  <2>4. ASSUME NEW t \in Deliverer, Wake!OldRemember(t) PROVE WakeInv'
    <3>1. /\ UNCHANGED <<info, userParam, held>> /\ arming[t] \in Info
          /\ arming' = [arming EXCEPT ![t] = "idle"] /\ s_last_wake_timeout_info' = arming[t]
      BY <2>4 DEF Wake!OldRemember
    <3>2. \A u \in Deliverer : arming[u] = "response" => arming'[u] = "response"
      BY <3>1 DEF WakeInv
    <3> QED
      BY <3>1, <3>2 DEF WakeInv, Wake!HeldHasTimer, Wake!Live
  <2>5. CASE Wake!ReleaseWakeLock
    <3>1. UNCHANGED <<info, s_last_wake_timeout_info, arming>> /\ DOMAIN userParam' = Info
      BY <2>5 DEF Wake!ReleaseWakeLock, Wake!CancelLast, WakeInv
    <3>2. held' = FALSE \/ UNCHANGED <<held, userParam>>
      BY <2>5 DEF Wake!ReleaseWakeLock
    <3> QED
      BY <3>1, <3>2 DEF WakeInv, Wake!HeldHasTimer, Wake!Live
  <2>6. ASSUME NEW i \in Info, Wake!UserTimerCallback(i) PROVE WakeInv'
    BY <2>6 DEF Wake!UserTimerCallback, WakeInv, Wake!HeldHasTimer, Wake!Live
  <2>7. ASSUME NEW i \in Info, Wake!RunCallback(i) PROVE WakeInv'
    BY <2>7 DEF Wake!RunCallback, WakeInv, Wake!HeldHasTimer, Wake!Live
  <2>8. ASSUME NEW i \in Info, Wake!WakeTimeoutCallback(i) PROVE WakeInv'
    BY <2>8 DEF Wake!WakeTimeoutCallback, WakeInv, Wake!HeldHasTimer
  <2>9. CASE UNCHANGED Wake!wakeVars
    BY <2>9 DEF Wake!wakeVars, WakeInv, Wake!HeldHasTimer, Wake!Live
  <2> QED
    BY <2>1, <2>2, <2>3, <2>4, <2>5, <2>6, <2>7, <2>8, <2>9
       DEF Wake!WakeNext, Wake!GrabSteps, Wake!ArmSteps, Wake!TimerSteps
<1>3. WakeInv => Wake!HeldHasTimer
  BY DEF WakeInv
<1> QED
  BY <1>1, <1>2, <1>3, PTL DEF Wake!WakeSpec

=============================================================================
