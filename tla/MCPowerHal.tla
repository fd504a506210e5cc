----------------------------- MODULE MCPowerHal -----------------------------
(* Constants of PowerHal for model checking.                               *)
EXTENDS PowerHal, TLC

Num(v) == [kind |-> "num", arg |-> v]

Sessions == Permutations(SessionId)

Sources == {"interaction", "fling", "launch", "adpf"}

\* A minimum of online cores, and a pulse that is refused at times: launches,
\* touches, flings without a request of their own, and hint sessions with one
\* level.
HalKind == [hps |-> "default", ia |-> "pulse"]
HalDefault == [hps |-> 1, ia |-> 0]
HalZero == [hps |-> 0, ia |-> 0]
HalCeilings == [hps |-> {0}, ia |-> {0}]
HalAccess == [hps |-> {"write"}, ia |-> {"read", "write"}]
Hps(v) == [hps |-> v, ia |-> NULL]
HalRequests ==
    [interaction |-> [set |-> Hps(Num(2)), pulse |-> <<"ia">>, ignoreZero |-> FALSE],
     launch |-> [set |-> Hps(Num(3)), pulse |-> <<>>, ignoreZero |-> FALSE]]
HalLevels == <<Hps(Num(2))>>
HalMaps == {Hps(v) : v \in {Num(2), Num(3)}}
=============================================================================
