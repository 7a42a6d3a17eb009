----------------------------- MODULE MCCluster -----------------------------
(***************************************************************************)
(* Cluster with two nodes a and b and an address x where nobody listens.   *)
(***************************************************************************)
EXTENDS Cluster

CONSTANTS a, b, x

TwoNodes == {a, b}

\* b bootstraps from a; each from the other.
BootFromA == [v \in Node |-> IF v = a THEN {} ELSE {a}]
BootEachOther == [v \in Node |-> IF v = a THEN {b} ELSE {a}]

\* Operators type the names of the two nodes, but for any row.
OwnNames == {Own(t) : t \in Node}
=============================================================================
