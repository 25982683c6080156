----------------------------- MODULE PosixFile -----------------------------
(***************************************************************************)
(* What an application is promised by open, read, write, lseek, close and  *)
(* unlink: every call takes effect at one instant between its invocation   *)
(* and its return, on the directory, the files and the offset of the one   *)
(* open file description the descriptor names.  The interception library   *)
(* is transparent when PosixAdapter implements this specification.         *)
(***************************************************************************)
EXTENDS FileOps

CONSTANTS Threads, Paths, Fds, Inodes, OpenModes, Counts, MaxLen

Whences == {"SEEK_SET", "SEEK_CUR", "SEEK_END"}

VARIABLES
    dir,        \* path -> inode, or None when the name does not exist
    data,       \* inode -> bytes
    fdt,        \* descriptor -> [path, ino, off, append], or None
    res         \* thread -> result of the call it is about to return, or None

vars == <<dir, data, fdt, res>>

Init ==
    /\ dir = [p \in Paths |-> None]
    /\ data = [i \in Inodes |-> << >>]
    /\ fdt = [f \in Fds |-> None]
    /\ res = [t \in Threads |-> None]

Result(t, r) == res[t] = None /\ res' = [res EXCEPT ![t] = r]

\* An inode with neither a name nor an open description can be given out.
FreeInodes == {i \in Inodes : /\ \A p \in Paths : dir[p] # i
                              /\ \A f \in Fds : fdt[f] = None \/ fdt[f].ino # i}

Open(t, p, mode) ==
    \/ \E f \in Fds :
        /\ Result(t, <<"open", f>>)
        /\ fdt[f] = None
        /\ \E i \in Inodes :
            /\ \/ dir[p] = i
               \/ dir[p] = None /\ "O_CREAT" \in mode /\ i \in FreeInodes
            /\ fdt' = [fdt EXCEPT ![f] = [path |-> p, ino |-> i, off |-> 0,
                                          append |-> "O_APPEND" \in mode]]
            /\ data' = IF dir[p] = None \/ "O_TRUNC" \in mode
                       THEN [data EXCEPT ![i] = << >>] ELSE data
            /\ dir' = [dir EXCEPT ![p] = i]
    \/ Result(t, <<"open", None>>) /\ UNCHANGED <<dir, data, fdt>>

Read(t, f, n) ==
    /\ fdt[f] # None
    /\ LET got == ReadAt(data[fdt[f].ino], fdt[f].off, n)
       IN  /\ Result(t, <<"read", got>>)
           /\ fdt' = [fdt EXCEPT ![f].off = @ + Len(got)]
    /\ UNCHANGED <<dir, data>>

Write(t, f, v, n) ==
    /\ Result(t, <<"write", n>>)
    /\ fdt[f] # None
    /\ LET i   == fdt[f].ino
           off == IF fdt[f].append THEN Len(data[i]) ELSE fdt[f].off
       IN  /\ data' = [data EXCEPT ![i] = WriteAt(@, off, v, n)]
           /\ fdt' = [fdt EXCEPT ![f].off = off + n]
    /\ UNCHANGED dir

Lseek(t, f, whence, d) ==
    /\ fdt[f] # None
    /\ LET pos == SeekTarget(data[fdt[f].ino], fdt[f].off, whence, d)
       IN  /\ Result(t, <<"lseek", pos>>)
           /\ fdt' = [fdt EXCEPT ![f].off = pos]
    /\ UNCHANGED <<dir, data>>

Close(t, f) ==
    /\ Result(t, <<"close", 0>>)
    /\ fdt[f] # None
    /\ fdt' = [fdt EXCEPT ![f] = None]
    /\ UNCHANGED <<dir, data>>

Unlink(t, p) ==
    /\ Result(t, <<"unlink", 0>>)
    /\ dir[p] # None
    /\ dir' = [dir EXCEPT ![p] = None]
    /\ UNCHANGED <<data, fdt>>

Return(t) ==
    /\ res[t] # None
    /\ res' = [res EXCEPT ![t] = None]
    /\ UNCHANGED <<dir, data, fdt>>

\* Every step begins or ends a call: res' # res says so at once.
Next ==
    /\ res' # res
    /\ \E t \in Threads :
        \/ \E p \in Paths, mode \in OpenModes : Open(t, p, mode)
        \/ \E f \in Fds, n \in Counts : Read(t, f, n)
        \/ \E f \in Fds, v \in Values, n \in Counts : Write(t, f, v, n)
        \/ \E f \in Fds, whence \in Whences, d \in 0 .. MaxLen : Lseek(t, f, whence, d)
        \/ \E f \in Fds : Close(t, f)
        \/ \E p \in Paths : Unlink(t, p)
        \/ Return(t)

Spec == Init /\ [][Next]_vars
=============================================================================
