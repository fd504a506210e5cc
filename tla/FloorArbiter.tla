---------------------------- MODULE FloorArbiter ----------------------------
(***************************************************************************)
(* What the Power HAL's engine promises of the nodes it alone writes and   *)
(* whose released value it knows: there is a table of requests, and each   *)
(* time anything is decided every node the process may write shows the     *)
(* aggregate of that table.  A request leaves the table only because it is *)
(* due, because its owner replaced or withdrew it, or with the process.    *)
(***************************************************************************)
EXTENDS Naturals

CONSTANTS
    Node, Source, NULL,
    Aggregate(_, _, _)   \* of a node, a table and a ceiling

VARIABLES clock, ceil, writable, requests, shown

vars == <<clock, ceil, writable, requests, shown>>

Empty == [s \in Source |-> NULL]

Init == /\ clock = 0
        /\ requests = Empty

\* Every node the process can write follows the table.
Settled ==
    shown' = [n \in Node |-> IF n \in writable THEN Aggregate(n, requests', ceil[n])
                             ELSE shown[n]]

\* The owner of s replaces or withdraws its request; the others stay, unless due.
Change(s) ==
    /\ \A r \in Source \ {s} : \/ requests'[r] = requests[r]
                               \/ requests'[r] = NULL /\ requests[r].until <= clock
    /\ Settled
    /\ UNCHANGED <<clock, ceil, writable>>

\* Requests that are due go; none goes early.
Expire ==
    /\ \A r \in Source : \/ requests'[r] = requests[r]
                         \/ requests'[r] = NULL /\ requests[r].until <= clock
    /\ Settled
    /\ UNCHANGED <<clock, ceil, writable>>

\* Everything is withdrawn at once.
ChangeAll ==
    /\ requests' = Empty
    /\ Settled
    /\ UNCHANGED <<clock, ceil, writable>>

\* The process dies; the nodes stay.
Restart ==
    /\ requests' = Empty
    /\ UNCHANGED <<clock, ceil, writable, shown>>

\* Time passes, ceilings move and nodes are handed over, none of which shows.
Surroundings ==
    /\ clock' \in {clock, clock + 1}
    /\ UNCHANGED <<requests, shown>>

Next == (\E s \in Source : Change(s)) \/ Expire \/ ChangeAll \/ Restart \/ Surroundings

Spec == Init /\ [][Next]_vars

=============================================================================
