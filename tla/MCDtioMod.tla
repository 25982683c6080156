----------------------------- MODULE MCDtioMod -----------------------------
(* Instances of DtioMod small enough for TLC. *)
EXTENDS DtioMod, TLC

CONSTANTS c1, c2, c3, b1, b2

\* Every client on the node of container 0, or c1 there and the others on the next.
OneNode == [c \in Clients |-> 0]
TwoNodes == [c \in Clients |-> IF c = c1 THEN 0 ELSE 1]

AllOps == {"Write", "Read", "MetaPut", "MetaGet"}
AllButRead == AllOps \ {"Read"}
Io == {"Write", "Read"}

RemoteSymmetry == Permutations({b1, b2}) \union Permutations({c2, c3})
Symmetry == Permutations({c1, c2, c3}) \union Permutations({b1, b2})
=============================================================================
