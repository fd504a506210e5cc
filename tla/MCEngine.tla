------------------------------ MODULE MCEngine ------------------------------
(* Constants of Engine for model checking.                                 *)
EXTENDS Engine, TLC

Num(v) == [kind |-> "num", arg |-> v]
Junk == [kind |-> "junk", arg |-> 0]

Sources == Permutations(Source)

\* A node with a default, handed over late, a cpufreq floor under a moving ceiling,
\* and a node that is not written on release and that others write too; two sources
\* compete for them.
FloorKind == [hps |-> "default", cpu |-> "cpufreq", core |-> "none"]
FloorDefault == [hps |-> 1, cpu |-> 0, core |-> 0]
FloorMin == [hps |-> 0, cpu |-> 1, core |-> 0]
FloorCeilings == [hps |-> {0}, cpu |-> {2, 8}, core |-> {0}]
FloorAccess == [hps |-> {"read", "write"}, cpu |-> {"write"}, core |-> {"write"}]
FloorMaps == {[hps |-> Num(3), cpu |-> Num(7), core |-> NULL],
              [hps |-> Junk, cpu |-> [kind |-> "pct", arg |-> 50], core |-> Num(1)]}

\* A PPM floor that appears late, a node released by putting the captured value
\* back, and a pulse.
MixedKind == [ppm |-> "ppm", hold |-> "capture", ia |-> "pulse"]
MixedZero == [n \in Node |-> 0]
MixedCeilings == [n \in Node |-> {8}]
MixedAccess == [ppm |-> {"none", "write"}, hold |-> {"read", "write"}, ia |-> {"write"}]
MixedMaps == {[ppm |-> [kind |-> "max", arg |-> 0], hold |-> Num(1), ia |-> NULL]}
=============================================================================
