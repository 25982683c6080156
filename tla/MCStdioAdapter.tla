--------------------------- MODULE MCStdioAdapter ---------------------------
(* Two threads, two FILE pointers, an intercepted path and a plain one. *)
EXTENDS StdioAdapter, TLC

CONSTANTS t1, t2, f1, f2, d, e, v, w

Symmetry ==
    Permutations({t1, t2}) \union Permutations({f1, f2}) \union Permutations({v, w})
=============================================================================
