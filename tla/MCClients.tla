----------------------------- MODULE MCClients ------------------------------
(***************************************************************************)
(* What rild owes to those it serves, one component at a time: the         *)
(* callbacks of the phone process, the requests of mtkmal, the channels of *)
(* mtk-ril and the wake lock.  The components share nothing, so a          *)
(* behaviour is one of the component which names; the others stay in their *)
(* initial state.                                                          *)
(***************************************************************************)
EXTENDS RadioCallbacks

CONSTANTS
    Inflight, MaxAttempts, ClaimMayLag, MaxRequests, MaxPeers, \* of MalServer
    Channel, Caller, MaxJobs, CreateFails, MAL,                \* of MtkChannels
    Info, Deliverer, Versions, Reuse, AllocFails,              \* of WakeLock
    NULL

VARIABLES which,
    peer, peerOpen, s_malClientFd, server, requests, askedBy, s_malInflight, vendor, claimed,
    result, freed, freedTokens, answers,
    s_chMutex, inVendor, s_proxyQ, s_proxyWorkerUp, job, jobs, done,
    version13, held, s_wakelock_count, s_last_wake_timeout_info, info, userParam, arming

Mal == INSTANCE MalServer WITH MaxClients <- MaxPeers, client <- peer
Channels == INSTANCE MtkChannels WITH Binder <- Caller
Wake == INSTANCE WakeLock WITH Thread <- Deliverer

ASSUME ClientConstants == Mal!MalConstants /\ Channels!ChannelConstants

malVars == <<peer, peerOpen, s_malClientFd, server, requests, askedBy, s_malInflight, vendor,
             claimed, result, freed, freedTokens, answers>>
channelVars == <<s_chMutex, inVendor, s_proxyQ, s_proxyWorkerUp, job, jobs, done>>
wakeVars == <<version13, held, s_wakelock_count, s_last_wake_timeout_info, info, userParam,
              arming>>
all == <<which, vars, malVars, channelVars, wakeVars>>

\* The vendor library's version matters to the wake lock only.
ClientsInit ==
    /\ which \in {"callbacks", "mal", "channels", "wake"}
    /\ Init /\ Mal!Init /\ Channels!Init /\ Wake!WakeInit
    /\ which = "wake" \/ version13

ClientsNext ==
    /\ UNCHANGED which
    /\ \/ which = "callbacks" /\ Next /\ UNCHANGED <<malVars, channelVars, wakeVars>>
       \/ which = "mal" /\ Mal!Next /\ UNCHANGED <<vars, channelVars, wakeVars>>
       \/ which = "channels" /\ Channels!Next /\ UNCHANGED <<vars, malVars, wakeVars>>
       \/ which = "wake" /\ Wake!WakeNext /\ UNCHANGED <<vars, malVars, channelVars>>

\* The fairness of the components, each for its own behaviours.
CallbacksFairness ==
    /\ []<>Quiet
    /\ \A t \in Thread : WF_vars(which = "callbacks" /\ ThreadStep(t))
    /\ WF_vars(which = "callbacks" /\ Connect) /\ WF_vars(which = "callbacks" /\ FreeNitz)
    /\ \A s \in Slot : SF_vars(which = "callbacks" /\ SetResponseFunctions(s))
    /\ SF_vars(which = "callbacks" /\ (Register \/ Reset(Binder)))

MalFairness ==
    /\ WF_malVars(which = "mal" /\ Mal!Send) /\ WF_malVars(which = "mal" /\ Mal!WaitDone)
    /\ WF_malVars(which = "mal" /\ Mal!WaitTimesOut) /\ WF_malVars(which = "mal" /\ Mal!Take)
    /\ WF_malVars(which = "mal" /\ Mal!Answer) /\ WF_malVars(which = "mal" /\ Mal!VendorNext)

ChannelsFairness ==
    /\ WF_channelVars(which = "channels" /\ Channels!MalAttemptReturns)
    /\ \A c \in Channel :
           /\ WF_channelVars(which = "channels" /\ Channels!WorkerTakes(c))
           /\ WF_channelVars(which = "channels" /\ Channels!WorkerReturns(c))
           /\ SF_channelVars(which = "channels" /\ Channels!WorkerRuns(c))

WakeFairness ==
    WF_wakeVars(which = "wake" /\ Wake!ArmSteps) /\ WF_wakeVars(which = "wake" /\ Wake!TimerSteps)

Clients ==
    /\ ClientsInit /\ [][ClientsNext]_all
    /\ CallbacksFairness /\ MalFairness /\ ChannelsFairness /\ WakeFairness

-----------------------------------------------------------------------------
(* The properties of the instances; RadioCallbacks's own are               *)
(* LiveClientKept and ClientServed.                                        *)

\* An answer carries the reply to its own request.
AnswerIsOwn == Mal!AnswerIsOwn

\* An answer goes to the connection that asked.
AnswerToAsker == Mal!AnswerToAsker

\* The token of a request outlives its use by mtk-ril.so.
TokenOutlivesUse == Mal!TokenOutlivesUse

\* A request of mtkmal is answered, or its connection is gone.
EveryRequestAnswered == Mal!EveryRequestAnswered

\* A callback queued on a channel runs.
EveryCallbackRuns == Channels!EveryCallbackRuns

\* A wake lock that is held is given back.
EventuallyReleased == Wake!EventuallyReleased

=============================================================================
