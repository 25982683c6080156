---------------------------- MODULE DatasetArray ----------------------------
(***************************************************************************)
(* What writing a dataset promises: an array of elements, each with its    *)
(* members, shared by the ranks.  A call gives the k-th element that is    *)
(* selected in the file the k-th element that is selected in memory, in    *)
(* row-major order, and leaves alone every other element and the value of  *)
(* every member that the memory type lacks.  A member that was never       *)
(* written has no value, and a write of its element may give it any.       *)
(* Elements are written one by one or several at a time, in any order; a   *)
(* rank that dies leaves some unwritten.                                   *)
(***************************************************************************)
EXTENDS Naturals, FiniteSets

CONSTANTS
    Ranks, Junk, None,  \* Junk is what a member holds that has no value
    Calls               \* [fsel, msel, members, buf]: selections and memory type

VARIABLES
    data,               \* cell -> member -> value
    running,            \* rank -> the call that it is in, or None
    pending             \* rank -> the cells that its call has yet to write

vars == <<data, running, pending>>

\* Row-major order, and the place in memory whose element a selected cell gets.
Before(a, b) == \E d \in DOMAIN a : a[d] < b[d] /\ \A e \in 1 .. d - 1 : a[e] = b[e]
Position(c, sel) == Cardinality({b \in sel : Before(b, c)})
Place(call, c) ==
    CHOOSE m \in call.msel : Position(m, call.msel) = Position(c, call.fsel)

Init ==
    /\ \A c \in DOMAIN data : \A m \in DOMAIN data[c] : data[c][m] = Junk
    /\ running = [r \in Ranks |-> None]
    /\ pending = [r \in Ranks |-> {}]

Begin(r) ==
    /\ running[r] = None
    /\ running'[r] \in Calls
    /\ running' = [running EXCEPT ![r] = running'[r]]
    /\ pending' = [pending EXCEPT ![r] = running'[r].fsel]
    /\ UNCHANGED data

\* What a write makes of a cell: it has the members of the call's memory type put into
\* it, and keeps the others that have a value.
Put(r, call, c, cell) ==
    /\ DOMAIN cell = DOMAIN data[c]
    /\ \A m \in DOMAIN data[c] :
          IF m \in call.members THEN cell[m] = <<r, call.buf, Place(call, c), m>>
          ELSE data[c][m] # Junk => cell[m] = data[c][m]

\* Some of the elements, at once.
Write(r) ==
    LET done == pending[r] \ pending'[r]
    IN  /\ done # {}
        /\ pending' = [pending EXCEPT ![r] = @ \ done]
        /\ data' = [c \in DOMAIN data |-> IF c \in done THEN data'[c] ELSE data[c]]
        /\ \A c \in done : Put(r, running[r], c, data'[c])
        /\ UNCHANGED running

\* A call returns only when all is written.
Return(r) ==
    /\ pending[r] = {}
    /\ running' = [running EXCEPT ![r] = None]
    /\ UNCHANGED <<data, pending>>

Die(r) ==
    /\ running' = [running EXCEPT ![r] = None]
    /\ pending' = [pending EXCEPT ![r] = {}]
    /\ UNCHANGED data

Next == \E r \in Ranks : Begin(r) \/ Write(r) \/ Return(r) \/ Die(r)

Spec == Init /\ [][Next]_vars
=============================================================================
