----------------------------- MODULE DataCalls -----------------------------
(***************************************************************************)
(* The data-call interfaces of ril_service.cpp.  dataCallCids is the       *)
(* service's own list of the interfaces in use, shared by both slots: a    *)
(* setup answer appends the interface to it, a deactivate request removes  *)
(* it, and mtkSetupInterface picks the interface of the next setup from    *)
(* it.  Setups, answers and deactivations of several calls overlap, and    *)
(* the network may drop a call.                                            *)
(*                                                                         *)
(* The framework (external) deactivates what it was given, once, and asks  *)
(* for one IMS call at a time; the modem (external) refuses a setup on an  *)
(* interface that carries a call.                                          *)
(***************************************************************************)
EXTENDS Integers, Sequences, FiniteSetsExt

CONSTANTS
    Ordinary,       \* interfaces for calls other than IMS; 4 in the code
    MaxCalls,       \* calls of the framework at a time, in setup or held
    MaxUnderWay     \* setups, and deactivations, at the modem at a time

IMS == Ordinary
Interfaces == 0..IMS
Entries == 1..(Ordinary + 1)
Free == -1

VARIABLES
    dataCallCids,
    setups,     \* setup requests at the modem: sequence of interfaces asked for
    held,       \* held[i]: calls on i the framework has and has not deactivated
    going,      \* deactivate requests at the modem
    carrying    \* interfaces that carry a call at the modem

vars == <<dataCallCids, setups, held, going, carrying>>

Init ==
    /\ dataCallCids = [i \in Entries |-> Free]
    /\ setups = <<>> /\ held = [i \in Interfaces |-> 0] /\ going = {} /\ carrying = {}

\* IMS has an interface of its own; the others take the lowest that is not in
\* the list, -1 when there is none.
mtkSetupInterface(ims) ==
    IF ims THEN IMS
    ELSE LET free == (Interfaces \ {IMS}) \ {dataCallCids[i] : i \in Entries}
         IN IF free = {} THEN -1 ELSE Min(free)

\* How many calls the framework has: on each interface they are numbered from 1.
Held == Cardinality({c \in Interfaces \X (1..MaxCalls) : c[2] <= held[c[1]]})

setupDataCall(ims) ==
    /\ Len(setups) < MaxUnderWay /\ Len(setups) + Held < MaxCalls
    /\ ims => held[IMS] = 0 /\ \A i \in 1..Len(setups) : setups[i] # IMS
    /\ setups' = Append(setups, mtkSetupInterface(ims))
    /\ UNCHANGED <<dataCallCids, held, going, carrying>>

\* The modem takes the oldest setup and sets the call up on the interface.
Accepted(intf) == intf \in Interfaces \ carrying

\* Mutant: the search stops one entry short.
StoreShort(cid) ==
    LET free == {i \in 1..Ordinary : dataCallCids[i] = Free}
    IN dataCallCids' = IF free = {} THEN dataCallCids
                       ELSE [dataCallCids EXCEPT ![Min(free)] = cid]

\* The first free entry takes the cid; a full list does not.
Store(cid) ==
    LET free == {i \in Entries : dataCallCids[i] = Free}
    IN dataCallCids' = IF free = {} THEN dataCallCids
                       ELSE [dataCallCids EXCEPT ![Min(free)] = cid]

\* The answer: the interface is the cid; ccmni<cid> is brought up and given
\* its address, the cid entered in the list, and the framework has the call.
setupDataCallResponse ==
    /\ setups # <<>>
    /\ Accepted(Head(setups))
    /\ Store(Head(setups))
    /\ carrying' = carrying \cup {Head(setups)}
    /\ held' = [held EXCEPT ![Head(setups)] = @ + 1]
    /\ setups' = Tail(setups)
    /\ UNCHANGED going

\* Refused, with no payload or with a failed status and cid -1.
SetupRefused ==
    /\ setups # <<>>
    /\ setups' = Tail(setups)
    /\ UNCHANGED <<dataCallCids, held, going, carrying>>

\* The entry goes when the request is made, before the modem has acted on it.
deactivateDataCall(cid) ==
    /\ held[cid] > 0 /\ Cardinality(going) < MaxUnderWay
    /\ LET at == {i \in Entries : dataCallCids[i] = cid}
       IN dataCallCids' = IF at = {} THEN dataCallCids
                          ELSE [dataCallCids EXCEPT ![Min(at)] = Free]
    /\ held' = [held EXCEPT ![cid] = @ - 1]
    /\ going' = going \cup {cid}
    /\ UNCHANGED <<setups, carrying>>

Deactivated(cid) ==
    /\ cid \in going
    /\ going' = going \ {cid}
    /\ carrying' = carrying \ {cid}
    /\ UNCHANGED <<dataCallCids, setups, held>>

\* The network drops a call; the framework has yet to deactivate it.
Dropped(cid) ==
    /\ cid \in carrying /\ held[cid] > 0
    /\ carrying' = carrying \ {cid}
    /\ UNCHANGED <<dataCallCids, setups, held, going>>

Next ==
    \/ \E ims \in BOOLEAN : setupDataCall(ims)
    \/ setupDataCallResponse \/ SetupRefused
    \/ \E cid \in Interfaces : deactivateDataCall(cid) \/ Deactivated(cid) \/ Dropped(cid)

Spec == Init /\ [][Next]_vars

-----------------------------------------------------------------------------
\* The list is exactly the calls the framework has, whatever setups, answers,
\* deactivations and drops overlap: no call is missing from it, so its interface
\* is not given away, and none stays in it, so no interface is lost.  Two calls
\* may come to share an interface (two setups under way pick the same one, and
\* the first call drops before the second is set up): then it is there twice.
ListIsCalls ==
    \A intf \in Interfaces :
        Cardinality({i \in Entries : dataCallCids[i] = intf}) = held[intf]

=============================================================================
