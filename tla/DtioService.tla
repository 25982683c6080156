---------------------------- MODULE DtioService ----------------------------
(***************************************************************************)
(* What the DTIO runtime promises its clients: each write, read, metadata  *)
(* put and metadata get takes effect at one instant between its call and   *)
(* its return, on one file system and one metadata map, whichever of the   *)
(* runtime's containers runs it.  Only once a container has run out of     *)
(* descriptors may a write or a read be answered that had no effect.  A    *)
(* cell is a block of a file.                                              *)
(***************************************************************************)
CONSTANTS Clients, Cells, Keys, Values, Zero, None, Junk

VARIABLES
    disk,       \* cell -> what it holds
    map,        \* key -> value, or None
    full,       \* some container has run out of descriptors
    res         \* client -> result of the call it is about to return, or None

vars == <<disk, map, full, res>>

Init ==
    /\ disk = [x \in Cells |-> Zero]
    /\ map = [k \in Keys |-> None]
    /\ full \in BOOLEAN
    /\ res = [c \in Clients |-> None]

Result(c, r) == res[c] = None /\ res' = [res EXCEPT ![c] = r]

Write(c, x, v) ==
    /\ Result(c, <<"Write", x, v>>)
    /\ \/ disk' = [disk EXCEPT ![x] = v]
       \/ full /\ UNCHANGED disk
    /\ full' \in {full, TRUE}
    /\ UNCHANGED map

Read(c, x) ==
    /\ \E val \in {disk[x]} \union (IF full THEN Values \union {Zero, Junk} ELSE {}) :
         Result(c, <<"Read", val>>)
    /\ full' \in {full, TRUE}
    /\ UNCHANGED <<disk, map>>

MetaPut(c, k, v) ==
    /\ Result(c, <<"MetaPut", k, v>>)
    /\ map' = [map EXCEPT ![k] = v]
    /\ UNCHANGED <<disk, full>>

MetaGet(c, k) ==
    /\ Result(c, <<"MetaGet", map[k] # None, map[k]>>)
    /\ UNCHANGED <<disk, map, full>>

Return(c) ==
    /\ res[c] # None
    /\ res' = [res EXCEPT ![c] = None]
    /\ UNCHANGED <<disk, map, full>>

Next ==
    \E c \in Clients :
        \/ \E x \in Cells : Read(c, x) \/ \E v \in Values : Write(c, x, v)
        \/ \E k \in Keys : MetaGet(c, k) \/ \E v \in Values : MetaPut(c, k, v)
        \/ Return(c)

Spec == Init /\ [][Next]_vars
=============================================================================
