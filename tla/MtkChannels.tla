---------------------------- MODULE MtkChannels -----------------------------
(***************************************************************************)
(* Who enters mtk-ril.so on an AT channel, and under which mutex (ril.cpp).*)
(* The vendor library has one context per channel and fails a command that *)
(* finds its channel in use by another thread, so libril keeps a mutex per *)
(* channel.  Three kinds of threads reach a channel: those that send radio *)
(* requests through my_enqueue (the binder thread, and vendor threads whose*)
(* indication sends one of its own), the rild-mal server (malDispatch),    *)
(* and a worker per channel for timed callbacks (mtkProxyWorker).          *)
(***************************************************************************)
EXTENDS Integers, Sequences, FiniteSets

CONSTANTS
    Channel,     \* indices of s_chMutex
    Binder,      \* threads that send radio requests
    MaxJobs,     \* bound on the timed callbacks
    CreateFails, \* whether pthread_create may fail
    MAL,         \* the rild-mal server thread
    NULL

\* What the constants are taken to be.
ChannelConstants ==
    /\ MaxJobs \in Nat /\ CreateFails \in BOOLEAN
    /\ MAL \notin Binder \cup Channel /\ Binder \cap Channel = {}

\* The worker of channel c is the thread c.
Thread == Binder \cup {MAL} \cup Channel

VARIABLES
    s_chMutex,       \* s_chMutex[c]: the thread that holds the mutex of c, or NULL
    inVendor,        \* inVendor[t]: the channel thread t is using, or NULL
    s_proxyQ,        \* s_proxyQ[c]: callbacks waiting for the worker of c
    s_proxyWorkerUp, \* channels with a worker
    job,             \* job[c]: the callback the worker of c has taken, or NULL
    jobs,            \* number of callbacks so far
    done             \* done[c]: callbacks that have run, in order

vars == <<s_chMutex, inVendor, s_proxyQ, s_proxyWorkerUp, job, jobs, done>>
queue == <<s_proxyQ, s_proxyWorkerUp, job, jobs, done>>

TypeOK ==
    /\ s_chMutex \in [Channel -> Thread \cup {NULL}]
    /\ inVendor \in [Thread -> Channel \cup {NULL}]
    /\ s_proxyQ \in [Channel -> Seq(1..MaxJobs)]
    /\ s_proxyWorkerUp \subseteq Channel
    /\ job \in [Channel -> 1..MaxJobs \cup {NULL}]
    /\ jobs \in 0..MaxJobs
    /\ done \in [Channel -> Seq(1..MaxJobs)]

Init ==
    /\ s_chMutex = [c \in Channel |-> NULL]
    /\ inVendor = [t \in Thread |-> NULL]
    /\ s_proxyQ = [c \in Channel |-> <<>>]
    /\ s_proxyWorkerUp = {}
    /\ job = [c \in Channel |-> NULL]
    /\ jobs = 0
    /\ done = [c \in Channel |-> <<>>]

-----------------------------------------------------------------------------
(* Radio requests: my_enqueue calls onRequest() as it is.                  *)

MyEnqueue(t, c) ==
    /\ inVendor[t] = NULL
    /\ inVendor' = [inVendor EXCEPT ![t] = c]
    /\ UNCHANGED <<s_chMutex, queue>>

MyEnqueueReturns(t) ==
    /\ inVendor[t] # NULL
    /\ inVendor' = [inVendor EXCEPT ![t] = NULL]
    /\ UNCHANGED <<s_chMutex, queue>>

-----------------------------------------------------------------------------
(* malDispatch: one attempt, under the mutex of the SIM's first channel.   *)

MalAttempt(c) ==
    /\ inVendor[MAL] = NULL
    /\ s_chMutex[c] = NULL
    /\ s_chMutex' = [s_chMutex EXCEPT ![c] = MAL]
    /\ inVendor' = [inVendor EXCEPT ![MAL] = c]
    /\ UNCHANGED queue

MalAttemptReturns ==
    /\ inVendor[MAL] # NULL
    /\ s_chMutex' = [s_chMutex EXCEPT ![inVendor[MAL]] = NULL]
    /\ inVendor' = [inVendor EXCEPT ![MAL] = NULL]
    /\ UNCHANGED queue

-----------------------------------------------------------------------------
(* Timed callbacks.                                                        *)

Enqueue(q, j) == Append(q, j)

\* mtkProxyTimerFired: queue the job, start the worker if there is none, wake all
\* workers.  A worker that cannot be started is tried again with the next job.
ProxyTimerFired(c) ==
    /\ jobs < MaxJobs
    /\ jobs' = jobs + 1
    /\ s_proxyQ' = [s_proxyQ EXCEPT ![c] = Enqueue(@, jobs + 1)]
    /\ \/ s_proxyWorkerUp' = s_proxyWorkerUp \cup {c}
       \/ CreateFails /\ UNCHANGED s_proxyWorkerUp
    /\ UNCHANGED <<s_chMutex, inVendor, job, done>>

\* mtkProxyWorker: take the head, under s_proxyQMutex.
WorkerTakes(c) ==
    /\ c \in s_proxyWorkerUp /\ job[c] = NULL /\ s_proxyQ[c] # <<>>
    /\ job' = [job EXCEPT ![c] = Head(s_proxyQ[c])]
    /\ s_proxyQ' = [s_proxyQ EXCEPT ![c] = Tail(@)]
    /\ UNCHANGED <<s_chMutex, inVendor, s_proxyWorkerUp, jobs, done>>

\* ... and run it under the channel's mutex.
WorkerRuns(c) ==
    /\ job[c] # NULL /\ inVendor[c] = NULL
    /\ s_chMutex[c] = NULL
    /\ s_chMutex' = [s_chMutex EXCEPT ![c] = c]
    /\ inVendor' = [inVendor EXCEPT ![c] = c]
    /\ UNCHANGED queue

\* Mutant: the mutex is not given back.
WorkerReturnsLocked(c) ==
    /\ inVendor[c] # NULL
    /\ inVendor' = [inVendor EXCEPT ![c] = NULL]
    /\ done' = [done EXCEPT ![c] = Append(@, job[c])]
    /\ job' = [job EXCEPT ![c] = NULL]
    /\ UNCHANGED <<s_chMutex, s_proxyQ, s_proxyWorkerUp, jobs>>

WorkerReturns(c) ==
    /\ inVendor[c] # NULL
    /\ inVendor' = [inVendor EXCEPT ![c] = NULL]
    /\ s_chMutex' = [s_chMutex EXCEPT ![c] = NULL]
    /\ done' = [done EXCEPT ![c] = Append(@, job[c])]
    /\ job' = [job EXCEPT ![c] = NULL]
    /\ UNCHANGED <<s_proxyQ, s_proxyWorkerUp, jobs>>

Next ==
    \/ \E t \in Binder : MyEnqueueReturns(t) \/ \E c \in Channel : MyEnqueue(t, c)
    \/ MalAttemptReturns
    \/ \E c \in Channel : \/ MalAttempt(c) \/ ProxyTimerFired(c)
                          \/ WorkerTakes(c) \/ WorkerRuns(c) \/ WorkerReturns(c)

Spec == Init /\ [][Next]_vars

\* mtk-ril.so comes back, threads run, and a mutex that is free again and again
\* is obtained (bionic's mutex does not starve a waiter for good).
FairSpec ==
    /\ Spec
    /\ WF_vars(MalAttemptReturns)
    /\ \A c \in Channel : /\ WF_vars(WorkerTakes(c)) /\ WF_vars(WorkerReturns(c))
                          /\ SF_vars(WorkerRuns(c))

-----------------------------------------------------------------------------
(* Properties.                                                             *)

\* "one mutex per channel, taken around every vendor onRequest ..., around every
\* proxy timed callback ... and around MAL's 2106 dispatch": no two threads use
\* a channel of mtk-ril.so at the same time.
ChannelExclusive ==
    \A t, u \in Thread : inVendor[t] # NULL /\ inVendor[t] = inVendor[u] => t = u

\* Every callback whose timer fired runs, however busy rild-mal keeps the channel.
EveryCallbackRuns ==
    \A c \in Channel : s_proxyQ[c] # <<>> /\ c \in s_proxyWorkerUp
                           ~> (s_proxyQ[c] = <<>> /\ job[c] = NULL)

=============================================================================
