--------------------------- MODULE MCVolConnector ---------------------------
(* Two ranks; a group that may hold a group and a dataset of its own name.  *)
EXTENDS VolConnector

CONSTANTS r0, r1, g, d

TwoRanks == {r0, r1}
=============================================================================
