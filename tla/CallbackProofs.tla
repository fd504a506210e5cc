--------------------------- MODULE CallbackProofs ---------------------------
(***************************************************************************)
(* The reset of the phone process's callbacks, for any number of slots,    *)
(* vendor threads and phone processes.  checkReturnStatus lets go of the   *)
(* lock between the failed call and the reset; what makes that safe is     *)
(* that the lock's count is the number of threads between rdlock and       *)
(* unlock, so that nobody registers under a thread that has just seen a    *)
(* call fail, and that a counter which has not moved since means the       *)
(* callbacks are still those of a dead process.  Both need that no phone   *)
(* process dies in a call answered without the lock (Steady): without it   *)
(* the count is off by one.                                                *)
(***************************************************************************)
EXTENDS RadioCallbacks, FiniteSetTheorems, TLAPS

\* A leaf is tried with Zenon first: most need no arithmetic.  The second round
\* is for slow machines.
USE ZenonT(5), SMTT(30), ZenonT(60), SMTT(90)

Kinds == {"none", "response", "nitz", "resend", "refuse", "register"}
PCs == {"idle", "register", "connect", "rdlock", "call", "failed", "wrlock", "rdlockAgain",
        "unlock", "unlockKeep", "keep", "free"}

CallbackTypeOK ==
    /\ client \in [Slot -> Nat]
    /\ born \in [Slot -> Nat]
    /\ mRadio \in [Slot -> Nat]
    /\ mCounterRadio \in [Slot -> Nat]
    /\ readers \in Nat
    /\ pc \in [Thread -> PCs]
    /\ work \in [Thread -> [kind : Kinds, slot : Slot \cup {0}, nitz : Nat]]
    /\ noted \in [Thread -> Nat]
    /\ s_lastNITZTimeData \in Nat
    /\ now \in Nat

Holders == {t \in Thread : Holding(t)}

\* The lock's count is the number of threads between rdlock and unlock.
Counted == readers = Cardinality(Holders)

\* A thread at work has a slot; one that takes, holds or gives up the lock is
\* making a call under it; and the binder thread never finds its client dead.
WorkOK ==
    /\ \A t \in Thread :
           /\ pc[t] # "idle" => work[t].slot \in Slot
           /\ pc[t] \in {"rdlock", "failed", "wrlock", "rdlockAgain", "unlock", "unlockKeep"}
                  => work[t].kind \notin Lockless
    /\ \A t \in Vendor : work[t].kind \notin Lockless
    /\ pc[Binder] \notin {"failed", "wrlock", "rdlockAgain"}

\* Phone processes are numbered upwards, and no callbacks are of a later one.
Numbered ==
    \A s \in Slot : /\ client[s] # 0 => client[s] = born[s]
                    /\ mRadio[s] <= born[s]

\* The callbacks a thread has seen fail are a dead process's, and stay so until
\* the counter moves.
DeadSeen ==
    \A t \in Thread :
        /\ pc[t] = "failed" => /\ mRadio[work[t].slot] # 0
                              /\ mRadio[work[t].slot] # client[work[t].slot]
        /\ pc[t] = "wrlock" =>
               /\ noted[t] <= mCounterRadio[work[t].slot]
               /\ noted[t] = mCounterRadio[work[t].slot] =>
                      \/ mRadio[work[t].slot] = 0
                      \/ mRadio[work[t].slot] # client[work[t].slot]

\* The process the binder thread serves is alive, and once registered it stays so.
Served ==
    /\ pc[Binder] # "idle" => client[work[Binder].slot] # 0
    /\ pc[Binder] = "register" => work[Binder].nitz = client[work[Binder].slot]
    /\ pc[Binder] \notin {"idle", "register"} =>
           mRadio[work[Binder].slot] = client[work[Binder].slot]

IInv == CallbackTypeOK /\ Counted /\ WorkOK /\ Numbered /\ DeadSeen /\ Served

-----------------------------------------------------------------------------
(* The threads that hold the lock.                                         *)

\* The threads are finitely many, so those between rdlock and unlock are.
LEMMA HoldersFinite == IsFiniteSet(Holders) /\ IsFiniteSet(Holders')
<1>1. IsFiniteSet(Thread)
  BY FS_AddElement, CallbackAssumption DEF Thread
<1>2. Holders \subseteq Thread /\ Holders' \subseteq Thread
  BY DEF Holders
<1> QED
  BY <1>1, <1>2, FS_Subset

\* A thread that holds the lock keeps the writers out.
LEMMA HolderKeepsOut ==
    ASSUME Counted, NEW t \in Thread, Holding(t)
    PROVE readers # 0
<1>1. t \in Holders
  BY DEF Holders
<1> QED
  BY <1>1, HoldersFinite, FS_EmptySet DEF Counted

\* The count goes up with a thread that takes the lock (Rdlock, RdlockAgain).
LEMMA OneMore ==
    ASSUME Counted, NEW t \in Thread, t \notin Holders,
           Holders' = Holders \cup {t}, readers' = readers + 1
    PROVE Counted'
BY HoldersFinite, FS_AddElement DEF Counted

\* The count goes down with a thread that gives it up (Failed, Unlock).
LEMMA OneFewer ==
    ASSUME CallbackTypeOK, Counted, NEW t \in Thread, t \in Holders,
           Holders' = Holders \ {t}, readers' = Unlocked
    PROVE Counted'
<1>1. readers # 0
  BY HolderKeepsOut DEF Holders
<1>2. readers' = readers - 1
  BY <1>1 DEF Unlocked, CallbackTypeOK
<1>3. Cardinality(Holders \ {t}) = Cardinality(Holders) - 1
  BY HoldersFinite, FS_RemoveElement
<1> QED
  BY <1>2, <1>3 DEF Counted

-----------------------------------------------------------------------------
(* The invariant.                                                          *)

\* rild has registered and no phone process has come up.
LEMMA InitInv == Init => IInv
<1> SUFFICES ASSUME Init PROVE IInv
  OBVIOUS
<1>1. CallbackTypeOK
  BY DEF Init, CallbackTypeOK, PCs, Kinds, NoWork
<1>2. Counted
  <2>1. Holders = {}
    BY DEF Init, Holders, Holding
  <2> QED
    BY <2>1, FS_EmptySet DEF Init, Counted
<1>3. WorkOK
  BY DEF Init, WorkOK, NoWork, Lockless, Thread
<1>4. Numbered /\ DeadSeen /\ Served
  BY DEF Init, Numbered, DeadSeen, Served, Thread
<1> QED
  BY <1>1, <1>2, <1>3, <1>4 DEF IInv

\* A new phone process has a number of its own: no callbacks are its yet.
LEMMA StartInv ==
    ASSUME Steady, IInv, NEW s \in Slot, Start(s)
    PROVE IInv'
<1> USE CallbackAssumption DEF IInv, CallbackTypeOK, Thread
<1>1. CallbackTypeOK'
  BY DEF Start
<1>2. Counted'
  <2>1. Holders' = Holders /\ readers' = readers
    BY DEF Holders, Start, Holding
  <2> QED
    BY <2>1 DEF Counted
<1>3. WorkOK'
  BY DEF WorkOK, Start
<1>4. Numbered'
  BY DEF Numbered, Start
<1>5. DeadSeen'
  BY DEF DeadSeen, Numbered, Start
<1>6. Served'
  BY DEF Served, Start
<1> QED
  BY <1>1, <1>2, <1>3, <1>4, <1>5, <1>6 DEF IInv

\* A phone process dies outside the calls the binder thread answers for it
\* (Steady); callbacks that have failed stay a dead process's.
LEMMA DieInv ==
    ASSUME Steady, IInv, NEW s \in Slot, Die(s)
    PROVE IInv'
<1> USE CallbackAssumption DEF IInv, CallbackTypeOK, Thread
<1>1. CallbackTypeOK'
  BY DEF Die
<1>2. Counted'
  <2>1. Holders' = Holders /\ readers' = readers
    BY DEF Holders, Die, Holding
  <2> QED
    BY <2>1 DEF Counted
<1>3. WorkOK'
  BY DEF WorkOK, Die
<1>4. Numbered'
  BY DEF Numbered, Die
<1>5. DeadSeen'
  BY DEF DeadSeen, Die
<1>6. Served'
  BY DEF Served, Die, Serving
<1> QED
  BY <1>1, <1>2, <1>3, <1>4, <1>5, <1>6 DEF IInv

\* A refusal starts a call without the lock, and is not counted.
LEMMA RefuseInv ==
    ASSUME Steady, IInv, NEW s \in Slot, Refuse(s)
    PROVE IInv'
<1> USE CallbackAssumption DEF IInv, CallbackTypeOK, Thread
<1>1. CallbackTypeOK'
  BY DEF Refuse, Begin, PCs, Kinds
<1>2. Counted'
  <2>1. Holders' = Holders /\ readers' = readers
    BY DEF Holders, Refuse, Begin, Holding, Lockless
  <2> QED
    BY <2>1 DEF Counted
<1>3. WorkOK'
  BY DEF WorkOK, Refuse, Begin
<1>4. Numbered'
  BY DEF Numbered, Refuse
<1>5. DeadSeen'
  BY DEF DeadSeen, Refuse, Begin
<1>6. Served'
  BY DEF Served, Refuse, Begin
<1> QED
  BY <1>1, <1>2, <1>3, <1>4, <1>5, <1>6 DEF IInv

\* setResponseFunctions has yet to take the wrlock.
LEMMA SetResponseFunctionsInv ==
    ASSUME Steady, IInv, NEW s \in Slot, SetResponseFunctions(s)
    PROVE IInv'
<1> USE CallbackAssumption DEF IInv, CallbackTypeOK, Thread
<1>1. CallbackTypeOK'
  BY DEF SetResponseFunctions, Begin, PCs, Kinds
<1>2. Counted'
  <2>1. Holders' = Holders /\ readers' = readers
    BY DEF Holders, SetResponseFunctions, Begin, Holding
  <2> QED
    BY <2>1 DEF Counted
<1>3. WorkOK'
  BY DEF WorkOK, SetResponseFunctions, Begin
<1>4. Numbered'
  BY DEF Numbered, SetResponseFunctions
<1>5. DeadSeen'
  BY DEF DeadSeen, SetResponseFunctions, Begin
<1>6. Served'
  BY DEF Served, SetResponseFunctions, Begin
<1> QED
  BY <1>1, <1>2, <1>3, <1>4, <1>5, <1>6 DEF IInv

\* Time concerns neither callbacks nor lock.
LEMMA TickInv ==
    ASSUME Steady, IInv, Tick
    PROVE IInv'
<1> USE CallbackAssumption DEF IInv, CallbackTypeOK, Thread
<1>1. CallbackTypeOK'
  BY DEF Tick
<1>2. Counted'
  <2>1. Holders' = Holders /\ readers' = readers
    BY DEF Holders, Tick, Holding
  <2> QED
    BY <2>1 DEF Counted
<1>3. WorkOK'
  BY DEF WorkOK, Tick
<1>4. Numbered'
  BY DEF Numbered, Tick
<1>5. DeadSeen'
  BY DEF DeadSeen, Tick
<1>6. Served'
  BY DEF Served, Tick
<1> QED
  BY <1>1, <1>2, <1>3, <1>4, <1>5, <1>6 DEF IInv

\* The critical section of setResponseFunctions: nobody holds the rdlock, so no
\* thread has just seen a call fail, and the counter of those that have moves.
LEMMA RegisterInv ==
    ASSUME Steady, IInv, Register
    PROVE IInv'
<1> USE CallbackAssumption DEF IInv, CallbackTypeOK, Thread
<1>a. \A u \in Thread : pc[u] # "failed"
  <2> SUFFICES ASSUME NEW u \in Thread, pc[u] = "failed" PROVE FALSE
    OBVIOUS
  <2>1. Holding(u)
    BY DEF Holding, WorkOK
  <2> QED
    BY <2>1, HolderKeepsOut DEF Register
<1>1. CallbackTypeOK'
  BY DEF WorkOK, Register, PCs
<1>2. Counted'
  <2>1. Holders' = Holders /\ readers' = readers
    BY DEF Holders, Register, Holding
  <2> QED
    BY <2>1 DEF Counted
<1>3. WorkOK'
  BY DEF WorkOK, Register
<1>4. Numbered'
  BY DEF Numbered, Served, Register
<1>5. DeadSeen'
  BY <1>a DEF DeadSeen, Register
<1>6. Served'
  BY DEF Served, WorkOK, Register
<1> QED
  BY <1>1, <1>2, <1>3, <1>4, <1>5, <1>6 DEF IInv

\* onNewCommandConnect goes on with the process it was called by.
LEMMA ConnectInv ==
    ASSUME Steady, IInv, Connect
    PROVE IInv'
<1> USE CallbackAssumption DEF IInv, CallbackTypeOK, Thread
<1> DEFINE s == work[Binder].slot
           next(kind, slot, nitz, at) ==
               /\ work' = [work EXCEPT ![Binder] = [kind |-> kind, slot |-> slot, nitz |-> nitz]]
               /\ pc' = [pc EXCEPT ![Binder] = at]
<1>0. pc[Binder] = "connect" /\ s \in Slot
  BY DEF Connect, WorkOK
<1>a. UNCHANGED <<client, born, mRadio, mCounterRadio, readers, noted, now, s_lastNITZTimeData>>
  BY DEF Connect
<1>b. \/ next("response", s, 0, "rdlock")
      \/ next("resend", s, s_lastNITZTimeData, "call")
      \/ next("none", 0, 0, "idle")
  BY DEF Connect, Begin
<1>1. CallbackTypeOK'
  BY <1>0, <1>a, <1>b DEF PCs, Kinds
<1>2. Counted'
  <2>1. Holders' = Holders
    BY <1>0, <1>b DEF Holders, Holding, Lockless
  <2> QED
    BY <1>a, <2>1 DEF Counted
<1>3. WorkOK'
  BY <1>0, <1>b DEF WorkOK, Lockless
<1>4. Numbered'
  BY <1>a DEF Numbered
<1>5. DeadSeen'
  BY <1>0, <1>a, <1>b DEF DeadSeen
<1>6. Served'
  BY <1>0, <1>a, <1>b DEF Served
<1> QED
  BY <1>1, <1>2, <1>3, <1>4, <1>5, <1>6 DEF IInv

\* The NITZ is let go of outside the lock.
LEMMA FreeNitzInv ==
    ASSUME Steady, IInv, FreeNitz
    PROVE IInv'
<1> USE CallbackAssumption DEF IInv, CallbackTypeOK, Thread
<1>1. CallbackTypeOK'
  BY DEF FreeNitz, Goto, PCs, Kinds, NoWork
<1>2. Counted'
  <2>1. Holders' = Holders /\ readers' = readers
    BY DEF Holders, FreeNitz, Goto, Holding
  <2> QED
    BY <2>1 DEF Counted
<1>3. WorkOK'
  BY DEF WorkOK, FreeNitz, Goto
<1>4. Numbered'
  BY DEF Numbered, FreeNitz
<1>5. DeadSeen'
  BY DEF DeadSeen, FreeNitz, Goto
<1>6. Served'
  BY DEF Served, FreeNitz, Goto
<1> QED
  BY <1>1, <1>2, <1>3, <1>4, <1>5, <1>6 DEF IInv

\* A vendor thread has yet to take the rdlock.
LEMMA DeliverInv ==
    ASSUME Steady, IInv, NEW t \in Thread, Deliver(t)
    PROVE IInv'
<1> USE CallbackAssumption DEF IInv, CallbackTypeOK, Thread
<1>1. CallbackTypeOK'
  BY DEF Deliver, Begin, PCs, Kinds
<1>2. Counted'
  <2>1. Holders' = Holders /\ readers' = readers
    BY DEF Holders, Deliver, Begin, Holding
  <2> QED
    BY <2>1 DEF Counted
<1>3. WorkOK'
  BY DEF WorkOK, Deliver, Begin, Lockless
<1>4. Numbered'
  BY DEF Numbered, Deliver
<1>5. DeadSeen'
  BY DEF DeadSeen, Deliver, Begin
<1>6. Served'
  BY DEF Served, Deliver, Begin
<1> QED
  BY <1>1, <1>2, <1>3, <1>4, <1>5, <1>6 DEF IInv

\* The thread joins the holders.
LEMMA RdlockInv ==
    ASSUME Steady, IInv, NEW t \in Thread, Rdlock(t)
    PROVE IInv'
<1> USE CallbackAssumption DEF IInv, CallbackTypeOK, Thread
<1>a. pc' = [pc EXCEPT ![t] = "call"] /\ work' = work
  BY DEF Rdlock, Goto
<1>1. CallbackTypeOK'
  BY DEF Rdlock, Goto, PCs
<1>2. Counted'
  <2>1. Holders' = Holders \cup {t} /\ t \notin Holders /\ readers' = readers + 1
    BY <1>a DEF Holders, WorkOK, Rdlock, Holding
  <2> QED
    BY <2>1, OneMore
<1>3. WorkOK'
  BY DEF WorkOK, Rdlock, Goto
<1>4. Numbered'
  BY DEF Numbered, Rdlock
<1>5. DeadSeen'
  BY DEF DeadSeen, Rdlock, Goto
<1>6. Served'
  BY DEF Served, Rdlock, Goto
<1> QED
  BY <1>1, <1>2, <1>3, <1>4, <1>5, <1>6 DEF IInv

\* A call that fails has found callbacks that are not the live process's; the
\* binder thread's does not fail.
LEMMA CallInv ==
    ASSUME Steady, IInv, NEW t \in Thread, Call(t)
    PROVE IInv'
<1> USE CallbackAssumption DEF IInv, CallbackTypeOK, Thread
<1> DEFINE s == work[t].slot
           kind == work[t].kind
<1>0. pc[t] = "call" /\ s \in Slot
  BY DEF Call, WorkOK
<1>a. UNCHANGED <<client, born, mRadio, mCounterRadio, readers, noted, connect, now,
                  s_lastNITZTimeData>>
  BY DEF Call
<1>b. \/ mRadio[s] = 0 /\ t # Binder /\ pc' = [pc EXCEPT ![t] = "unlockKeep"] /\ work' = work
      \/ kind \notin Lockless /\ pc' = [pc EXCEPT ![t] = "unlock"] /\ work' = work
      \/ kind \in Lockless /\ t = Binder /\ pc' = [pc EXCEPT ![t] = "free"] /\ work' = work
      \/ kind \in Lockless /\ t = Binder /\ pc' = [pc EXCEPT ![t] = "connect"] /\ work' = work
      \/ kind \in Lockless /\ t = Binder /\ pc' = [pc EXCEPT ![t] = "idle"]
         /\ work' = [work EXCEPT ![t] = NoWork]
      \/ /\ mRadio[s] # 0 /\ mRadio[s] # client[s] /\ t # Binder
         /\ pc' = [pc EXCEPT ![t] = "failed"] /\ work' = work
  BY <1>0 DEF Call, Goto, WorkOK, Served, Lockless
<1>1. CallbackTypeOK'
  BY <1>a, <1>b DEF PCs, Kinds, NoWork
<1>2. Counted'
  <2>1. Holders' = Holders
    BY <1>0, <1>b DEF Holders, Holding
  <2> QED
    BY <1>a, <2>1 DEF Counted
<1>3. WorkOK'
  BY <1>0, <1>b DEF WorkOK
<1>4. Numbered'
  BY <1>a DEF Numbered
<1>5. DeadSeen'
  BY <1>a, <1>b DEF DeadSeen
<1>6. Served'
  BY <1>0, <1>a, <1>b DEF Served
<1> QED
  BY <1>1, <1>2, <1>3, <1>4, <1>5, <1>6 DEF IInv

\* checkReturnStatus notes the counter and leaves the holders.
LEMMA FailedInv ==
    ASSUME Steady, IInv, NEW t \in Thread, Failed(t)
    PROVE IInv'
<1> USE CallbackAssumption DEF IInv, CallbackTypeOK, Thread
<1>a. pc' = [pc EXCEPT ![t] = "wrlock"] /\ work' = work
  BY DEF Failed, Goto
<1>1. CallbackTypeOK'
  BY <1>a DEF WorkOK, Failed, Unlocked, PCs
<1>2. Counted'
  <2>1. Holders' = Holders \ {t} /\ t \in Holders /\ readers' = Unlocked
    BY DEF Holders, WorkOK, Failed, Goto, Holding
  <2> QED
    BY <2>1, OneFewer
<1>3. WorkOK'
  BY DEF WorkOK, Failed, Goto
<1>4. Numbered'
  BY DEF Numbered, Failed
<1>5. DeadSeen'
  BY <1>a DEF DeadSeen, WorkOK, Failed
<1>6. Served'
  BY DEF Served, Failed, Goto
<1> QED
  BY <1>1, <1>2, <1>3, <1>4, <1>5, <1>6 DEF IInv

\* Under the wrlock, callbacks go only with the counter noted.
LEMMA ResetInv ==
    ASSUME Steady, IInv, NEW t \in Thread, Reset(t)
    PROVE IInv'
<1> USE CallbackAssumption DEF IInv, CallbackTypeOK, Thread
<1>a. \A u \in Thread : pc[u] # "failed"
  <2> SUFFICES ASSUME NEW u \in Thread, pc[u] = "failed" PROVE FALSE
    OBVIOUS
  <2>1. Holding(u)
    BY DEF Holding, WorkOK
  <2> QED
    BY <2>1, HolderKeepsOut DEF Reset
<1>b. pc' = [pc EXCEPT ![t] = "rdlockAgain"] /\ work' = work
  BY DEF Reset, Goto
<1>1. CallbackTypeOK'
  BY <1>b DEF Reset, PCs
<1>2. Counted'
  <2>1. Holders' = Holders /\ readers' = readers
    BY DEF Holders, Reset, Goto, Holding
  <2> QED
    BY <2>1 DEF Counted
<1>3. WorkOK'
  BY DEF WorkOK, Reset, Goto
<1>4. Numbered'
  BY DEF Numbered, Reset
<1>c. PICK s \in Slot : s = work[t].slot
  BY DEF WorkOK, Reset
<1>d. client' = client /\ noted' = noted /\ pc[t] = "wrlock"
  BY DEF Reset
<1>e. \/ /\ noted[t] = mCounterRadio[s] /\ mRadio' = [mRadio EXCEPT ![s] = 0]
         /\ mCounterRadio' = [mCounterRadio EXCEPT ![s] = @ + 1]
      \/ mRadio' = mRadio /\ mCounterRadio' = mCounterRadio
  BY <1>c DEF Reset
<1>5. DeadSeen'
  <2> SUFFICES ASSUME NEW u \in Thread, pc'[u] = "wrlock"
               PROVE  /\ noted'[u] <= mCounterRadio'[work'[u].slot]
                      /\ noted'[u] = mCounterRadio'[work'[u].slot] =>
                             \/ mRadio'[work'[u].slot] = 0
                             \/ mRadio'[work'[u].slot] # client'[work'[u].slot]
    BY <1>a, <1>b DEF DeadSeen
  <2>1. pc[u] = "wrlock" /\ work[u].slot \in Slot
    BY <1>b DEF WorkOK
  <2>2. /\ noted[u] <= mCounterRadio[work[u].slot]
        /\ noted[u] = mCounterRadio[work[u].slot] =>
               mRadio[work[u].slot] = 0 \/ mRadio[work[u].slot] # client[work[u].slot]
    BY <2>1 DEF DeadSeen
  <2> QED
    BY <1>b, <1>d, <1>e, <2>1, <2>2
<1>6. Served'
  <2>1. t # Binder /\ pc'[Binder] = pc[Binder]
    BY <1>b, <1>d DEF WorkOK
  <2>2. ASSUME pc[Binder] \notin {"idle", "register"}
        PROVE  mRadio'[work[Binder].slot] = mRadio[work[Binder].slot]
    <3>1. client[s] # 0 /\ mRadio[s] = client[s] => noted[t] # mCounterRadio[s]
      BY <1>c, <1>d DEF DeadSeen
    <3>2. client[work[Binder].slot] # 0 /\ mRadio[work[Binder].slot] = client[work[Binder].slot]
      BY <2>2 DEF Served
    <3>3. work[Binder].slot \in Slot
      BY <2>2 DEF WorkOK
    <3> QED
      BY <1>e, <3>1, <3>2, <3>3
  <2> QED
    BY <1>b, <1>d, <2>1, <2>2 DEF Served
<1> QED
  BY <1>1, <1>2, <1>3, <1>4, <1>5, <1>6 DEF IInv

\* checkReturnStatus joins the holders again.
LEMMA RdlockAgainInv ==
    ASSUME Steady, IInv, NEW t \in Thread, RdlockAgain(t)
    PROVE IInv'
<1> USE CallbackAssumption DEF IInv, CallbackTypeOK, Thread
<1>a. pc' = [pc EXCEPT ![t] = "unlock"] /\ work' = work
  BY DEF RdlockAgain, Goto, WorkOK, Lockless
<1>1. CallbackTypeOK'
  BY <1>a DEF RdlockAgain, PCs
<1>2. Counted'
  <2>1. Holders' = Holders \cup {t} /\ t \notin Holders /\ readers' = readers + 1
    BY DEF Holders, WorkOK, RdlockAgain, Goto, Holding, Lockless
  <2> QED
    BY <2>1, OneMore
<1>3. WorkOK'
  BY DEF WorkOK, RdlockAgain, Goto, Lockless
<1>4. Numbered'
  BY DEF Numbered, RdlockAgain
<1>5. DeadSeen'
  BY DEF DeadSeen, RdlockAgain, Goto, Lockless
<1>6. Served'
  BY DEF Served, RdlockAgain, Goto
<1> QED
  BY <1>1, <1>2, <1>3, <1>4, <1>5, <1>6 DEF IInv

\* The thread leaves the holders.
LEMMA UnlockInv ==
    ASSUME Steady, IInv, NEW t \in Thread, Unlock(t)
    PROVE IInv'
<1> USE CallbackAssumption DEF IInv, CallbackTypeOK, Thread
<1>a. \/ pc' = [pc EXCEPT ![t] = "keep"] /\ work' = work
      \/ t = Binder /\ pc' = [pc EXCEPT ![t] = "connect"] /\ work' = work
      \/ pc' = [pc EXCEPT ![t] = "idle"] /\ work' = [work EXCEPT ![t] = NoWork]
  BY DEF Unlock, Goto
<1>b. UNCHANGED <<client, born, mRadio, mCounterRadio, noted, now, s_lastNITZTimeData>>
  BY DEF Unlock
<1>1. CallbackTypeOK'
  BY <1>a, <1>b DEF Unlock, Unlocked, PCs, Kinds, NoWork
<1>2. Counted'
  <2>1. Holders' = Holders \ {t} /\ t \in Holders /\ readers' = Unlocked
    BY DEF Holders, WorkOK, Unlock, Goto, Holding
  <2> QED
    BY <2>1, OneFewer
<1>3. WorkOK'
  BY <1>a DEF WorkOK, Unlock, Lockless, NoWork
<1>4. Numbered'
  BY DEF Numbered, Unlock
<1>5. DeadSeen'
  BY <1>a, <1>b DEF DeadSeen
<1>6. Served'
  BY DEF Served, Unlock, Goto
<1> QED
  BY <1>1, <1>2, <1>3, <1>4, <1>5, <1>6 DEF IInv

\* A NITZ is kept outside the lock.
LEMMA KeepNitzInv ==
    ASSUME Steady, IInv, NEW t \in Thread, KeepNitz(t)
    PROVE IInv'
<1> USE CallbackAssumption DEF IInv, CallbackTypeOK, Thread
<1>a. \/ t = Binder /\ pc' = [pc EXCEPT ![t] = "connect"] /\ work' = work
      \/ pc' = [pc EXCEPT ![t] = "idle"] /\ work' = [work EXCEPT ![t] = NoWork]
  BY DEF KeepNitz, Goto
<1>b. UNCHANGED <<client, born, mRadio, mCounterRadio, readers, noted, now>>
  BY DEF KeepNitz
<1>1. CallbackTypeOK'
  BY <1>a, <1>b DEF KeepNitz, PCs, Kinds, NoWork
<1>2. Counted'
  <2>1. Holders' = Holders /\ readers' = readers
    BY DEF Holders, KeepNitz, Goto, Holding
  <2> QED
    BY <2>1 DEF Counted
<1>3. WorkOK'
  BY <1>a DEF WorkOK, KeepNitz, Lockless, NoWork
<1>4. Numbered'
  BY DEF Numbered, KeepNitz
<1>5. DeadSeen'
  BY <1>a, <1>b DEF DeadSeen
<1>6. Served'
  BY DEF Served, KeepNitz, Goto
<1> QED
  BY <1>1, <1>2, <1>3, <1>4, <1>5, <1>6 DEF IInv

\* Every step of the threads and of the phone processes preserves the invariant.
LEMMA NextInv ==
    ASSUME Steady, IInv, [Next]_vars
    PROVE IInv'
<1>1. CASE UNCHANGED vars
  BY <1>1 DEF vars, IInv, CallbackTypeOK, Counted, Holders, Holding, WorkOK, Numbered,
     DeadSeen, Served
<1>2. ASSUME NEW s \in Slot, Start(s) \/ Die(s) \/ Refuse(s) \/ SetResponseFunctions(s)
      PROVE IInv'
  BY <1>2, StartInv, DieInv, RefuseInv, SetResponseFunctionsInv
<1>3. CASE Tick \/ Register \/ Connect \/ FreeNitz
  BY <1>3, TickInv, RegisterInv, ConnectInv, FreeNitzInv
<1>4. ASSUME NEW t \in Thread, Deliver(t) \/ ThreadStep(t)
      PROVE IInv'
  BY <1>4, DeliverInv, RdlockInv, CallInv, FailedInv, ResetInv, RdlockAgainInv, UnlockInv,
     KeepNitzInv DEF ThreadStep
<1> QED
  BY <1>1, <1>2, <1>3, <1>4 DEF Next

-----------------------------------------------------------------------------
(* The theorems.                                                           *)

\* A step that drops a slot's callbacks is the Reset of a thread whose counter
\* has not moved, so they are a dead process's.
LEMMA DropsDead ==
    ASSUME Steady, IInv, [Next]_vars, NEW s \in Slot, mRadio[s] # 0, mRadio'[s] = 0
    PROVE mRadio[s] # client[s]
<1> USE CallbackAssumption DEF IInv, CallbackTypeOK
<1>1. mRadio' # mRadio
  OBVIOUS
<1>2. Register \/ \E t \in Thread : Reset(t)
  BY <1>1 DEF Next, vars, Start, Die, Refuse, SetResponseFunctions, Tick, Connect, FreeNitz,
     Deliver,
     ThreadStep, Rdlock, Call, Failed, RdlockAgain, Unlock, KeepNitz
<1>3. CASE Register
  BY <1>3 DEF Register, WorkOK, Served, Thread
<1>4. ASSUME NEW t \in Thread, Reset(t) PROVE mRadio[s] # client[s]
  BY <1>4 DEF Reset, WorkOK, DeadSeen
<1> QED
  BY <1>2, <1>3, <1>4

\* checkReturnStatus drops only the callbacks of a dead phone process
\* (LiveClientKept), for any slots, vendor threads and phone processes.
THEOREM LiveKept == Steady => (Spec => LiveClientKept)
<1> SUFFICES ASSUME Steady PROVE Spec => LiveClientKept
  OBVIOUS
<1>1. Init => IInv
  BY InitInv
<1>2. IInv /\ [Next]_vars => IInv'
  BY NextInv
<1>3. IInv /\ [Next]_vars
          => [\A s \in Slot : mRadio[s] # 0 /\ mRadio'[s] = 0 => mRadio[s] # client[s]]_vars
  BY DropsDead
<1> QED
  BY <1>1, <1>2, <1>3, PTL DEF Spec, LiveClientKept

\* When no phone process dies in a call answered without the lock,
\* checkReturnStatus is entered only by a thread that holds the rdlock, as its
\* comment asks (CallerHoldsRdlock).
THEOREM CallerHolds == Steady => (Spec => []CallerHoldsRdlock)
<1> SUFFICES ASSUME Steady PROVE Spec => []CallerHoldsRdlock
  OBVIOUS
<1>1. Init => IInv
  BY InitInv
<1>2. IInv /\ [Next]_vars => IInv'
  BY NextInv
<1>3. IInv => CallerHoldsRdlock
  BY DEF IInv, WorkOK, CallerHoldsRdlock, Holding
<1> QED
  BY <1>1, <1>2, <1>3, PTL DEF Spec

=============================================================================
