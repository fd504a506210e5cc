--------------------------- MODULE RadioCallbacks ---------------------------
(***************************************************************************)
(* The callbacks the phone process leaves with the IRadio service, and the *)
(* lock around them: setResponseFunctions, checkReturnStatus and           *)
(* sendErrorResponse of libril/ril_service.cpp; onNewCommandConnect,       *)
(* send_unsolResponse, RIL_onRequestComplete and resendLastNITZTimeData of *)
(* ril.cpp.  Slots 0 and 1 share one rwlock, and one binder thread serves  *)
(* the calls of both.                                                      *)
(*                                                                         *)
(* Phone processes are numbered per slot in the order they start.  The     *)
(* asserts on the lock calls are compiled out, so an unlock that fails is  *)
(* not noticed.                                                            *)
(***************************************************************************)
EXTENDS Integers, Sequences, FiniteSets, Functions

CONSTANTS
    Slot,       \* 0 and 1
    Vendor,     \* threads of mtk-ril that complete requests and indicate
    Binder,     \* the one binder thread
    MaxClients, \* phone processes started, over all slots
    MaxTime,    \* bound on the coarse clock
    Steady      \* whether a phone process outlives a call that is answered
                \* without the lock

ASSUME CallbackAssumption ==
    /\ IsFiniteSet(Vendor) /\ Binder \notin Vendor
    /\ MaxClients \in Nat /\ MaxTime \in Nat
    /\ Steady \in BOOLEAN

Thread == Vendor \cup {Binder}

VARIABLES
    client,          \* client[s]: the phone process alive on slot s, 0 for none
    born,            \* born[s]: phone processes started on slot s
    mRadio,          \* mRadioResponse and mRadioIndication: whose they are, 0 for NULL
    mCounterRadio,
    readers,         \* rdlocks counted by the rwlock
    pc,
    work,            \* what the thread delivers
    noted,           \* checkReturnStatus's counter
    connect,         \* what onNewCommandConnect has still to send
    s_lastNITZTimeData, \* the NITZ kept: when it was received, 0 for none
    heard,           \* the NITZ just delivered, and the time it was said to be from
    now              \* a clock that ticks slower than any delivery

vars == <<client, born, mRadio, mCounterRadio, readers, pc, work, noted, connect,
          s_lastNITZTimeData, heard, now>>

\* kind: response or indication (both under the rdlock), nitz, and the two
\* calls made without it, resend and refuse.
NoWork == [kind |-> "none", slot |-> 0, nitz |-> 0]
NoNitz == [nitz |-> 0, received |-> 0]
Lockless == {"resend", "refuse"}

Init ==
    /\ client = [s \in Slot |-> 0]
    /\ born = [s \in Slot |-> 0]
    /\ mRadio = [s \in Slot |-> 0]
    /\ mCounterRadio = [s \in Slot |-> 0]
    /\ readers = 0
    /\ pc = [t \in Thread |-> "idle"]
    /\ work = [t \in Thread |-> NoWork]
    /\ noted = [t \in Thread |-> 0]
    /\ connect = <<>>
    /\ s_lastNITZTimeData = 0
    /\ heard = NoNitz
    /\ now = 0

-----------------------------------------------------------------------------
(* The phone processes.                                                    *)

\* The binder thread is in setResponseFunctions, or in a call it refuses, of slot s.
Serving(s) == pc[Binder] # "idle" /\ work[Binder].slot = s

Started == FoldFunction(+, 0, born)

Start(s) ==
    /\ client[s] = 0 /\ Started < MaxClients
    /\ born' = [born EXCEPT ![s] = born[s] + 1]
    /\ client' = [client EXCEPT ![s] = born[s] + 1]
    /\ UNCHANGED <<mRadio, mCounterRadio, readers, pc, work, noted, connect,
                   s_lastNITZTimeData, heard, now>>

Die(s) ==
    /\ client[s] # 0
    /\ Steady => ~Serving(s)
    /\ client' = [client EXCEPT ![s] = 0]
    /\ UNCHANGED <<born, mRadio, mCounterRadio, readers, pc, work, noted, connect,
                   s_lastNITZTimeData, heard, now>>

Tick ==
    /\ now < MaxTime /\ \A t \in Vendor : pc[t] = "idle"
    /\ now' = now + 1
    /\ UNCHANGED <<client, born, mRadio, mCounterRadio, readers, pc, work, noted, connect,
                   s_lastNITZTimeData, heard>>

-----------------------------------------------------------------------------
(* Threads take up work.                                                   *)

Begin(t, kind, s, nitz, at) ==
    /\ work' = [work EXCEPT ![t] = [kind |-> kind, slot |-> s, nitz |-> nitz]]
    /\ pc' = [pc EXCEPT ![t] = at]

\* RIL_onRequestComplete and RIL_onUnsolicitedResponse on a vendor thread.
Deliver(t) ==
    /\ t \in Vendor /\ pc[t] = "idle"
    /\ \E s \in Slot : \/ Begin(t, "response", s, 0, "rdlock")
                       \/ now > 0 /\ Begin(t, "nitz", s, now, "rdlock")
    /\ UNCHANGED <<client, born, mRadio, mCounterRadio, readers, noted, connect,
                   s_lastNITZTimeData, heard, now>>

\* A method the service refuses, or cannot copy the arguments of, answers at once.
Refuse(s) ==
    /\ pc[Binder] = "idle" /\ connect = <<>>
    /\ mRadio[s] # 0 /\ (Steady => client[s] = mRadio[s])
    /\ Begin(Binder, "refuse", s, 0, "call")
    /\ UNCHANGED <<client, born, mRadio, mCounterRadio, readers, noted, connect,
                   s_lastNITZTimeData, heard, now>>

\* The phone process calls setResponseFunctions once it is up.
SetResponseFunctions(s) ==
    /\ pc[Binder] = "idle" /\ connect = <<>>
    /\ client[s] # 0 /\ mRadio[s] # client[s]
    /\ Begin(Binder, "register", s, client[s], "register")
    /\ UNCHANGED <<client, born, mRadio, mCounterRadio, readers, noted, connect,
                   s_lastNITZTimeData, heard, now>>

\* Its critical section; then onNewCommandConnect has three things to send.
Register ==
    /\ pc[Binder] = "register" /\ readers = 0
    /\ LET s == work[Binder].slot
       IN /\ mRadio' = [mRadio EXCEPT ![s] = work[Binder].nitz]
          /\ mCounterRadio' = [mCounterRadio EXCEPT ![s] = mCounterRadio[s] + 1]
    /\ pc' = [pc EXCEPT ![Binder] = "connect"]
    /\ connect' = <<"connected", "state", "resend">>
    /\ UNCHANGED <<client, born, readers, work, noted, s_lastNITZTimeData, heard, now>>

\* onNewCommandConnect takes its next step; nothing kept, nothing to resend.
Connect ==
    /\ pc[Binder] = "connect"
    /\ LET s == work[Binder].slot
       IN IF Head(connect) # "resend" THEN Begin(Binder, "response", s, 0, "rdlock")
          ELSE IF s_lastNITZTimeData # 0
          THEN Begin(Binder, "resend", s, s_lastNITZTimeData, "call")
          ELSE Begin(Binder, "none", 0, 0, "idle")
    /\ connect' = Tail(connect)
    /\ UNCHANGED <<client, born, mRadio, mCounterRadio, readers, noted,
                   s_lastNITZTimeData, heard, now>>

-----------------------------------------------------------------------------
(* One delivery.                                                           *)

\* "done": the binder thread goes back to onNewCommandConnect while that has
\* more to send.
Goto(t, at) ==
    LET more == t = Binder /\ connect # <<>>
    IN IF at = "done"
       THEN /\ pc' = [pc EXCEPT ![t] = IF more THEN "connect" ELSE "idle"]
            /\ work' = IF more THEN work ELSE [work EXCEPT ![t] = NoWork]
       ELSE pc' = [pc EXCEPT ![t] = at] /\ UNCHANGED work

Rdlock(t) ==
    /\ pc[t] = "rdlock"
    /\ readers' = readers + 1
    /\ Goto(t, "call")
    /\ UNCHANGED <<client, born, mRadio, mCounterRadio, noted, connect,
                   s_lastNITZTimeData, heard, now>>

\* The response or indication function calls back, or finds NULL; the call of a
\* dead process fails.  nitzTimeReceivedInd stamps the time itself.
Call(t) ==
    /\ pc[t] = "call"
    /\ LET s == work[t].slot
           after == IF work[t].kind \in Lockless THEN "done" ELSE "unlock"
       IN \/ /\ mRadio[s] = 0
             /\ Goto(t, IF work[t].kind = "nitz" THEN "unlockKeep" ELSE after)
             /\ UNCHANGED <<s_lastNITZTimeData, heard>>
          \/ /\ mRadio[s] # 0 /\ mRadio[s] = client[s]
             /\ heard' = IF work[t].nitz = 0 THEN NoNitz
                         ELSE [nitz |-> work[t].nitz, received |-> now]
             /\ Goto(t, IF work[t].kind = "resend" THEN "free" ELSE after)
             /\ UNCHANGED s_lastNITZTimeData
          \/ /\ mRadio[s] # 0 /\ mRadio[s] # client[s]
             /\ Goto(t, "failed")
             /\ UNCHANGED <<s_lastNITZTimeData, heard>>
    /\ UNCHANGED <<client, born, mRadio, mCounterRadio, readers, noted, connect, now>>

\* bionic's pthread_rwlock_unlock: one reader fewer, whoever calls; EPERM if none.
Unlocked == IF readers > 0 THEN readers - 1 ELSE 0

\* Mutant: the rdlock is kept while waiting for the wrlock.
FailedKeeps(t) ==
    /\ pc[t] = "failed"
    /\ noted' = [noted EXCEPT ![t] = mCounterRadio[work[t].slot]]
    /\ Goto(t, "wrlock")
    /\ UNCHANGED <<client, born, mRadio, mCounterRadio, readers, connect,
                   s_lastNITZTimeData, heard, now>>

\* checkReturnStatus: note the counter, release the rdlock ...
Failed(t) ==
    /\ pc[t] = "failed"
    /\ noted' = [noted EXCEPT ![t] = mCounterRadio[work[t].slot]]
    /\ readers' = Unlocked
    /\ Goto(t, "wrlock")
    /\ UNCHANGED <<client, born, mRadio, mCounterRadio, connect,
                   s_lastNITZTimeData, heard, now>>

\* Mutant: the callbacks go whatever the counter says.
ResetAnyway(t) ==
    /\ pc[t] = "wrlock" /\ readers = 0
    /\ LET s == work[t].slot
       IN /\ mRadio' = [mRadio EXCEPT ![s] = 0]
          /\ mCounterRadio' = [mCounterRadio EXCEPT ![s] = mCounterRadio[s] + 1]
    /\ Goto(t, "rdlockAgain")
    /\ UNCHANGED <<client, born, readers, noted, connect, s_lastNITZTimeData, heard, now>>

\* ... under the wrlock drop the callbacks unless the counter has moved ...
Reset(t) ==
    /\ pc[t] = "wrlock" /\ readers = 0
    /\ LET s == work[t].slot
       IN IF noted[t] = mCounterRadio[s]
          THEN /\ mRadio' = [mRadio EXCEPT ![s] = 0]
               /\ mCounterRadio' = [mCounterRadio EXCEPT ![s] = mCounterRadio[s] + 1]
          ELSE UNCHANGED <<mRadio, mCounterRadio>>
    /\ Goto(t, "rdlockAgain")
    /\ UNCHANGED <<client, born, readers, noted, connect, s_lastNITZTimeData, heard, now>>

\* ... and take the rdlock back for the caller, who had it.
RdlockAgain(t) ==
    /\ pc[t] = "rdlockAgain"
    /\ readers' = readers + 1
    /\ noted' = [noted EXCEPT ![t] = 0]
    /\ Goto(t, CASE work[t].kind = "resend" -> "free"
                 [] work[t].kind = "refuse" -> "done"
                 [] OTHER -> "unlock")
    /\ UNCHANGED <<client, born, mRadio, mCounterRadio, connect,
                   s_lastNITZTimeData, heard, now>>

Unlock(t) ==
    /\ pc[t] \in {"unlock", "unlockKeep"}
    /\ readers' = Unlocked
    /\ Goto(t, IF pc[t] = "unlockKeep" THEN "keep" ELSE "done")
    /\ heard' = NoNitz
    /\ UNCHANGED <<client, born, mRadio, mCounterRadio, noted, connect,
                   s_lastNITZTimeData, now>>

\* send_unsolResponse keeps a NITZ there was nobody to tell, over an older one;
\* without memory for it the older one is gone all the same.
KeepNitz(t) ==
    /\ pc[t] = "keep"
    /\ s_lastNITZTimeData' \in {work[t].nitz, 0}
    /\ Goto(t, "done")
    /\ UNCHANGED <<client, born, mRadio, mCounterRadio, readers, noted, connect, heard, now>>

\* resendLastNITZTimeData lets go of it.
FreeNitz ==
    /\ pc[Binder] = "free"
    /\ s_lastNITZTimeData' = 0
    /\ heard' = NoNitz
    /\ Goto(Binder, "done")
    /\ UNCHANGED <<client, born, mRadio, mCounterRadio, readers, noted, connect, now>>

ThreadStep(t) ==
    \/ Rdlock(t) \/ Call(t) \/ Failed(t) \/ Reset(t) \/ RdlockAgain(t)
    \/ Unlock(t) \/ KeepNitz(t)

Next ==
    \/ \E s \in Slot : Start(s) \/ Die(s) \/ Refuse(s) \/ SetResponseFunctions(s)
    \/ Tick \/ Register \/ Connect \/ FreeNitz
    \/ \E t \in Thread : Deliver(t) \/ ThreadStep(t)

\* Deliveries do not overlap without end: the rwlock prefers readers, and an
\* endless relay of them would keep a writer out.
Quiet == \A t \in Vendor : pc[t] \notin {"call", "failed", "unlock", "unlockKeep"}

\* A thread that can run runs; bionic wakes a waiting writer when the last
\* reader leaves; a phone process registers.
Fairness ==
    /\ []<>Quiet
    /\ \A t \in Thread : WF_vars(ThreadStep(t))
    /\ WF_vars(Connect) /\ WF_vars(FreeNitz)
    /\ \A s \in Slot : SF_vars(SetResponseFunctions(s))
    /\ SF_vars(Register \/ Reset(Binder))

Spec == Init /\ [][Next]_vars /\ Fairness

-----------------------------------------------------------------------------
\* checkReturnStatus drops only the callbacks of a process that is dead: a
\* process that has registered since the failed call keeps its own.
LiveClientKept ==
    [][\A s \in Slot : mRadio[s] # 0 /\ mRadio'[s] = 0 => mRadio[s] # client[s]]_vars

\* A phone process that stays up gets its callbacks in, however deliveries to
\* its predecessor and to the other slot go on meanwhile.
ClientServed ==
    \A s \in Slot : \A g \in 1..MaxClients :
        client[s] = g ~> (mRadio[s] = g \/ client[s] # g)

\* The threads between rdlock and unlock.
Holding(t) ==
    /\ pc[t] \in {"call", "failed", "unlock", "unlockKeep"}
    /\ work[t].kind \notin Lockless

\* checkReturnStatus, "Caller should already hold rdlock, release that first".
CallerHoldsRdlock == \A t \in Thread : pc[t] = "failed" => Holding(t)

\* send_unsolResponse, "keep a copy of the last NITZ response (with receive
\* time noted above)": a NITZ comes with the time it was received at.
NitzTimeKept == heard.received = heard.nitz

=============================================================================
