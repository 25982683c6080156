--------------------------- MODULE MCPosixAdapter ---------------------------
(* Instances of PosixAdapter small enough for TLC. *)
EXTENDS PosixAdapter, TLC

CONSTANTS t1, t2, f1, f2, i1, i2, i3, d, e, v

ModesPlain == {{"O_CREAT"}}
ModesTruncate == {{"O_CREAT"}, {"O_CREAT", "O_TRUNC"}}
ModesAppend == {{"O_CREAT"}, {"O_CREAT", "O_APPEND"}}

Careful == {}
Racing == AllHabits \ {"remove_open"}
Seeking == {"seek_cur"}

OneNode == {}

CountOne == {1}

Symmetry == Permutations({t1, t2}) \union Permutations({f1, f2}) \union Permutations({i1, i2})
=============================================================================
