---------------------------- MODULE PosixAdapter ----------------------------
(***************************************************************************)
(* The POSIX interception library of one application process: the wrappers *)
(* of open, creat, read, write, lseek, close and unlink, run by concurrent *)
(* threads over the shared table of intercepted descriptors.  A wrapper is *)
(* one action per access to state it shares: the real call, a method of    *)
(* the table (which holds the mutex), an unlocked use of the FileInfo      *)
(* pointer the table handed out, the task that it sends to the runtime.    *)
(*                                                                         *)
(* The kernel is external.  The runtime's half of an I/O task is one step  *)
(* here (Serve); module DtioMod has it in detail.                          *)
(***************************************************************************)
EXTENDS FileOps

INSTANCE ClientMetadataManager

CONSTANTS
    Threads, Paths, Fds, Inodes,
    Intercepted,    \* the paths for which ShouldIntercept answers true
    OpenModes,      \* the flag sets that the program opens files with
    Counts,         \* the transfer sizes it uses
    MaxLen,         \* bound: offsets and sizes at which a call may start
    Junk,           \* a byte of a shared-memory buffer that nobody wrote
    Habits,         \* what the program does that a careful one does not
    Deployment      \* under what the runtime is run

(***************************************************************************)
(* Habits widen the programs that are considered:                          *)
(*   share_fd     a thread uses a descriptor that another thread opened    *)
(*   close_race   a descriptor is closed while a call on it is running     *)
(*   past_eof     an intercepted file is read beyond its end               *)
(*   seek_cur     lseek(SEEK_CUR)                                          *)
(*   append       an intercepted path is opened with O_APPEND              *)
(*   remove_open  a file is unlinked, or truncated, while it is open       *)
(* The deployment widens what may come of a task:                          *)
(*   several_nodes  the runtime spans nodes, which share the file system:  *)
(*                  a task may be run on another node than the program's   *)
(*   past_limit     more transfers are made than a process of the runtime, *)
(*                  which closes no file, has descriptors                  *)
(***************************************************************************)
AllHabits == {"share_fd", "close_race", "past_eof", "seek_cur", "append", "remove_open"}
Deployments == {"several_nodes", "past_limit"}

ASSUME PathAssumption == Intercepted \subseteq Paths
ASSUME ModeAssumption == \A m \in OpenModes : m \subseteq {"O_CREAT", "O_TRUNC", "O_APPEND"}
ASSUME BoundAssumption == MaxLen \in Nat /\ Counts \subseteq Nat
ASSUME WideningAssumption == Habits \subseteq AllHabits /\ Deployment \subseteq Deployments

VARIABLES
    dir,            \* path -> inode, or None                       (kernel)
    data,           \* inode -> bytes                               (kernel)
    kernel,         \* descriptor -> open file description, or None (kernel)
    posix_files_,   \* descriptor -> FileInfo, or None: the shared table
    owner,          \* descriptor -> the thread that opened it, from the
                    \* return of open until close is called; else None
    pc,             \* thread -> where in a wrapper it is
    call            \* thread -> the wrapper's arguments and local variables

vars == <<dir, data, kernel, posix_files_, owner, pc, call>>

PCs == {"idle", "open_register", "io_info", "io_real", "io_submit", "io_wait",
        "io_offset", "io_store", "seek_real", "seek_raw", "seek_update",
        "close_unregister", "close_real", "return"}

\* ptr is the FileInfo pointer the wrapper holds: to the entry of its
\* descriptor, or to an entry that has been erased.
NoCall == [op |-> "none", fd |-> None, path |-> None, n |-> 0, val |-> None,
           whence |-> "SEEK_SET", off |-> 0, ptr |-> "null", res |-> None]

Whences == {"SEEK_SET", "SEEK_CUR", "SEEK_END"}

OpenFile == [path : Paths, ino : Inodes, off : Nat, append : BOOLEAN]
Entry == [absolute_path : Paths, current_offset : Nat]
ASSUME NoneAssumption ==
    None \notin Inodes \union Fds \union Threads /\ None \notin OpenFile /\ None \notin Entry

\* A result is named for its call; None in its second place is a failure.
Outcomes == ({"open"} \X ({None} \union Fds))
              \union ({"read"} \X ({None} \union Seq(Bytes \union {Junk})))
              \union ({"write", "lseek", "close", "unlink"} \X ({None} \union Nat))
Results == {None} \union Outcomes
ASSUME OutcomeAssumption == None \notin Outcomes
Call == [op : {"none", "open", "read", "write", "lseek", "close", "unlink"},
         fd : Fds \union {None}, path : Paths \union {None}, n : Nat,
         val : Values \union {None}, whence : Whences, off : Nat,
         ptr : {"null", "live", "dangling"}, res : Results]

Init ==
    /\ dir = [p \in Paths |-> None]
    /\ data = [i \in Inodes |-> << >>]
    /\ kernel = [f \in Fds |-> None]
    /\ posix_files_ = [f \in Fds |-> None]
    /\ owner = [f \in Fds |-> None]
    /\ pc = [t \in Threads |-> "idle"]
    /\ call = [t \in Threads |-> NoCall]

-----------------------------------------------------------------------------
\* Which calls the program makes.

OpenOn(p) == \E f \in Fds : kernel[f] # None /\ kernel[f].path = p

Busy(f) == \E t \in Threads : pc[t] # "idle" /\ call[t].fd = f

MayUse(t, f) == owner[f] # None /\ (owner[f] = t \/ "share_fd" \in Habits)

Position(f) == IF posix_files_[f] # None THEN posix_files_[f].current_offset
               ELSE IF kernel[f].append THEN Len(data[kernel[f].ino])
               ELSE kernel[f].off

\* Bound: a transfer begins only where every offset f has, or is about to be
\* given by a running call, leaves room for it.
WithinBound(f, n) ==
    \A off \in {Position(f)} \union {call[t].off : t \in {u \in Threads :
                                       call[u].fd = f /\ pc[u] = "io_store"}} :
        off + n <= MaxLen

\* The size of the file that the server finds under a name.
SizeOf(p) == IF dir[p] = None THEN 0 ELSE Len(data[dir[p]])

Goto(t, label, locals) ==
    /\ pc' = [pc EXCEPT ![t] = label]
    /\ call' = [call EXCEPT ![t] = locals]

\* The wrapper is about to give its caller the result r.
Finish(t, r) ==
    Goto(t, "return", [NoCall EXCEPT !.op = call[t].op, !.fd = call[t].fd, !.res = r])

\* The return of a successful open is what makes the descriptor usable.
Return(t) ==
    /\ pc[t] = "return"
    /\ owner' = IF call[t].op = "open" /\ call[t].fd # None
                THEN [owner EXCEPT ![call[t].fd] = t] ELSE owner
    /\ Goto(t, "idle", NoCall)
    /\ UNCHANGED <<dir, data, kernel, posix_files_>>

-----------------------------------------------------------------------------
\* open, open64, creat and creat64 (creat is open with O_CREAT and O_TRUNC).

FreeInodes == {i \in Inodes : /\ \A p \in Paths : dir[p] # i
                              /\ \A f \in Fds : kernel[f] = None \/ kernel[f].ino # i}

\* The real open, which every wrapper calls before it looks at the path.
RealOpen(f, p, mode) ==
    /\ kernel[f] = None
    /\ \E i \in Inodes :
        /\ \/ dir[p] = i
           \/ dir[p] = None /\ "O_CREAT" \in mode /\ i \in FreeInodes
        /\ kernel' = [kernel EXCEPT ![f] = [path |-> p, ino |-> i, off |-> 0,
                                            append |-> "O_APPEND" \in mode]]
        /\ data' = IF dir[p] = None \/ "O_TRUNC" \in mode
                   THEN [data EXCEPT ![i] = << >>] ELSE data
        /\ dir' = [dir EXCEPT ![p] = i]

\* A mistaken Open: every descriptor is registered, whatever its path.
OpenRegistersAll(t, p, mode) ==
    /\ pc[t] = "idle"
    /\ \E f \in Fds :
         /\ RealOpen(f, p, mode)
         /\ Goto(t, "open_register",
                 [NoCall EXCEPT !.op = "open", !.fd = f, !.path = p, !.res = <<"open", f>>])
    /\ UNCHANGED <<posix_files_, owner>>

\* A path that is not to be intercepted is not registered: its descriptor
\* goes back to the caller as it is.
Open(t, p, mode) ==
    /\ pc[t] = "idle"
    /\ "O_TRUNC" \in mode /\ "remove_open" \notin Habits => ~OpenOn(p)
    /\ "O_APPEND" \in mode /\ "append" \notin Habits => p \notin Intercepted
    /\ \/ \E f \in Fds :
            /\ RealOpen(f, p, mode)
            /\ Goto(t, IF p \in Intercepted THEN "open_register" ELSE "return",
                    [NoCall EXCEPT !.op = "open", !.fd = f, !.path = p, !.res = <<"open", f>>])
       \/ /\ (dir[p] = None /\ "O_CREAT" \notin mode) \/ \A f \in Fds : kernel[f] # None
          /\ Goto(t, "return", [NoCall EXCEPT !.op = "open", !.res = <<"open", None>>])
          /\ UNCHANGED <<dir, data, kernel>>
    /\ UNCHANGED <<posix_files_, owner>>

OpenRegister(t) ==
    /\ pc[t] = "open_register"
    /\ posix_files_' = Register(posix_files_, call[t].fd, call[t].path)
    /\ Finish(t, call[t].res)
    /\ UNCHANGED <<dir, data, kernel, owner>>

-----------------------------------------------------------------------------
\* read and write: the same code but for the direction of the copy.

\* IsPosixFdRegistered decides between the runtime and the real call.
IoCall(t, op, f, n, v) ==
    /\ pc[t] = "idle" /\ MayUse(t, f)
    /\ WithinBound(f, n)
    /\ op = "read" /\ IsRegistered(posix_files_, f) /\ "past_eof" \notin Habits
         => Position(f) + n <= SizeOf(posix_files_[f].absolute_path)
    /\ Goto(t, IF IsRegistered(posix_files_, f) THEN "io_info" ELSE "io_real",
            [NoCall EXCEPT !.op = op, !.fd = f, !.n = n, !.val = v])
    /\ UNCHANGED <<dir, data, kernel, posix_files_, owner>>

\* GetPosixFileInfo: the pointer outlives the lock it was read under.
IoInfo(t) ==
    /\ pc[t] = "io_info"
    /\ IF IsRegistered(posix_files_, call[t].fd)
       THEN Goto(t, "io_submit", [call[t] EXCEPT !.ptr = "live"])
       ELSE Goto(t, "io_real", call[t])
    /\ UNCHANGED <<dir, data, kernel, posix_files_, owner>>

\* The real read or write, for a descriptor that is not registered.
IoReal(t) ==
    LET c == call[t]
        k == kernel[c.fd]
    IN  /\ pc[t] = "io_real"
        /\ \/ k = None /\ Finish(t, <<c.op, None>>) /\ UNCHANGED <<data, kernel>>
           \/ /\ k # None /\ c.op = "read"
              /\ LET got == ReadAt(data[k.ino], k.off, c.n)
                 IN  /\ kernel' = [kernel EXCEPT ![c.fd].off = @ + Len(got)]
                     /\ Finish(t, <<"read", got>>)
              /\ UNCHANGED data
           \/ /\ k # None /\ c.op = "write"
              /\ LET off == IF k.append THEN Len(data[k.ino]) ELSE k.off
                 IN  /\ data' = [data EXCEPT ![k.ino] = WriteAt(@, off, c.val, c.n)]
                     /\ kernel' = [kernel EXCEPT ![c.fd].off = off + c.n]
              /\ Finish(t, <<"write", c.n>>)
        /\ UNCHANGED <<dir, posix_files_, owner>>

\* The task carries the offset and the path that the pointer leads to: what
\* the entry says, or anything once the entry has been erased.
IoSubmit(t) ==
    /\ pc[t] = "io_submit"
    /\ \/ /\ call[t].ptr = "live"
          /\ LET info == posix_files_[call[t].fd]
             IN  Goto(t, "io_wait", [call[t] EXCEPT !.path = info.absolute_path,
                                                    !.off = info.current_offset])
       \/ /\ call[t].ptr = "dangling"
          /\ \E path \in Intercepted, off \in 0 .. MaxLen :
                Goto(t, "io_wait", [call[t] EXCEPT !.path = path, !.off = off])
    /\ UNCHANGED <<dir, data, kernel, posix_files_, owner>>

\* The task is complete: the wrapper copies the whole buffer to its reader, with what the
\* buffer held where nothing was brought, and tells a writer that all is written.
Served(t, got) ==
    LET c == call[t]
        buf == [b \in 1 .. c.n |-> IF b <= Len(got) THEN got[b] ELSE Junk]
    IN  Goto(t, "io_offset", [c EXCEPT !.res = <<c.op, IF c.op = "read" THEN buf ELSE c.n>>])

\* The runtime opens the path, creating it, seeks and transfers.  What is read on another
\* node does not come back.  When the open fails, so do the seek and the transfer, which
\* is logged, and the task completes all the same.
Serve(t) ==
    LET c == call[t]
    IN  /\ pc[t] = "io_wait"
        /\ \/ \E i \in Inodes :
                /\ \/ dir[c.path] = i
                   \/ dir[c.path] = None /\ i \in FreeInodes
                /\ dir' = [dir EXCEPT ![c.path] = i]
                /\ LET file == IF dir[c.path] = None THEN << >> ELSE data[i]
                   IN  /\ data' = [data EXCEPT ![i] =
                                      IF c.op = "read" THEN file ELSE WriteAt(file, c.off, c.val, c.n)]
                       /\ \/ Served(t, ReadAt(file, c.off, c.n))
                          \/ "several_nodes" \in Deployment /\ Served(t, << >>)
           \/ "past_limit" \in Deployment /\ Served(t, << >>) /\ UNCHANGED <<dir, data>>
        /\ UNCHANGED <<kernel, posix_files_, owner>>

\* A mistaken IoOffset: the offset does not move past what was transferred.
IoOffsetStays(t) ==
    /\ pc[t] = "io_offset"
    /\ Goto(t, "io_store", [call[t] EXCEPT !.off = posix_files_[call[t].fd].current_offset])
    /\ UNCHANGED <<dir, data, kernel, posix_files_, owner>>

\* The argument of UpdatePosixOffset is computed through the pointer, and
\* stored by descriptor under the lock: two steps.
IoOffset(t) ==
    /\ pc[t] = "io_offset"
    /\ \E off \in IF call[t].ptr = "live" THEN {posix_files_[call[t].fd].current_offset}
                ELSE 0 .. MaxLen :
         Goto(t, "io_store", [call[t] EXCEPT !.off = off + call[t].n])
    /\ UNCHANGED <<dir, data, kernel, posix_files_, owner>>

IoStore(t) ==
    /\ pc[t] = "io_store"
    /\ posix_files_' = UpdateOffset(posix_files_, call[t].fd, call[t].off)
    /\ Finish(t, call[t].res)
    /\ UNCHANGED <<dir, data, kernel, owner>>

-----------------------------------------------------------------------------
\* lseek and lseek64.

SeekCall(t, f, whence, d) ==
    /\ pc[t] = "idle" /\ MayUse(t, f)
    /\ whence = "SEEK_CUR" => "seek_cur" \in Habits
    /\ whence # "SEEK_SET" => d = 0
    /\ Goto(t, IF IsRegistered(posix_files_, f) THEN "seek_real" ELSE "seek_raw",
            [NoCall EXCEPT !.op = "lseek", !.fd = f, !.whence = whence, !.off = d])
    /\ UNCHANGED <<dir, data, kernel, posix_files_, owner>>

\* The real lseek comes first in both branches: it moves the kernel's offset,
\* which the runtime's transfers never move.
SeekReal(t) ==
    LET c == call[t]
        k == kernel[c.fd]
    IN  /\ pc[t] \in {"seek_real", "seek_raw"}
        /\ IF k = None
           THEN Finish(t, <<"lseek", None>>) /\ UNCHANGED kernel
           ELSE LET pos == SeekTarget(data[k.ino], k.off, c.whence, c.off)
                IN  /\ kernel' = [kernel EXCEPT ![c.fd].off = pos]
                    /\ IF pc[t] = "seek_raw"
                       THEN Finish(t, <<"lseek", pos>>)
                       ELSE Goto(t, "seek_update",
                                 [c EXCEPT !.off = pos, !.res = <<"lseek", pos>>])
        /\ UNCHANGED <<dir, data, posix_files_, owner>>

\* GetPosixFileInfo and UpdatePosixOffset: both do nothing when the entry is
\* gone, so one look at the table stands for the two.
SeekUpdate(t) ==
    /\ pc[t] = "seek_update"
    /\ posix_files_' = UpdateOffset(posix_files_, call[t].fd, call[t].off)
    /\ Finish(t, call[t].res)
    /\ UNCHANGED <<dir, data, kernel, owner>>

-----------------------------------------------------------------------------
\* close and unlink.

\* A mistaken CloseCall: the real close is called and the entry stays.
CloseCallForgets(t, f) ==
    /\ pc[t] = "idle" /\ MayUse(t, f)
    /\ "close_race" \in Habits \/ ~Busy(f)
    /\ owner' = [owner EXCEPT ![f] = None]
    /\ Goto(t, "close_real", [NoCall EXCEPT !.op = "close", !.fd = f])
    /\ UNCHANGED <<dir, data, kernel, posix_files_>>

CloseCall(t, f) ==
    /\ pc[t] = "idle" /\ MayUse(t, f)
    /\ "close_race" \in Habits \/ ~Busy(f)
    /\ owner' = [owner EXCEPT ![f] = None]
    /\ Goto(t, IF IsRegistered(posix_files_, f) THEN "close_unregister" ELSE "close_real",
            [NoCall EXCEPT !.op = "close", !.fd = f])
    /\ UNCHANGED <<dir, data, kernel, posix_files_>>

\* Erasing the entry leaves the pointers to it dangling.
Erase(f, c) == IF c.fd = f /\ c.ptr = "live" THEN [c EXCEPT !.ptr = "dangling"] ELSE c

\* (res is set here already: the descriptor is gone for the program.)
CloseUnregister(t) ==
    /\ pc[t] = "close_unregister"
    /\ posix_files_' = Unregister(posix_files_, call[t].fd)
    /\ pc' = [pc EXCEPT ![t] = "close_real"]
    /\ call' = [u \in Threads |->
                  IF u = t THEN [call[t] EXCEPT !.res = <<"close", 0>>]
                  ELSE Erase(call[t].fd, call[u])]
    /\ UNCHANGED <<dir, data, kernel, owner>>

CloseReal(t) ==
    /\ pc[t] = "close_real"
    /\ kernel' = [kernel EXCEPT ![call[t].fd] = None]
    /\ Finish(t, <<"close", 0>>)
    /\ UNCHANGED <<dir, data, posix_files_, owner>>

\* unlink goes to the kernel alone; the table is not told.
Unlink(t, p) ==
    /\ pc[t] = "idle" /\ dir[p] # None
    /\ "remove_open" \in Habits \/ ~OpenOn(p)
    /\ dir' = [dir EXCEPT ![p] = None]
    /\ Goto(t, "return", [NoCall EXCEPT !.op = "unlink", !.path = p, !.res = <<"unlink", 0>>])
    /\ UNCHANGED <<data, kernel, posix_files_, owner>>

-----------------------------------------------------------------------------
\* The steps of a wrapper that has begun, and the calls that begin one.
Step(t) ==
    \/ OpenRegister(t) \/ IoInfo(t) \/ IoReal(t) \/ IoSubmit(t) \/ Serve(t)
    \/ IoOffset(t) \/ IoStore(t) \/ SeekReal(t) \/ SeekUpdate(t)
    \/ CloseUnregister(t) \/ CloseReal(t) \/ Return(t)

Begin(t) ==
    \/ \E p \in Paths, mode \in OpenModes : Open(t, p, mode)
    \/ \E f \in Fds, n \in Counts :
         IoCall(t, "read", f, n, None) \/ \E v \in Values : IoCall(t, "write", f, n, v)
    \/ \E f \in Fds, whence \in Whences, d \in 0 .. MaxLen : SeekCall(t, f, whence, d)
    \/ \E f \in Fds : CloseCall(t, f)
    \/ \E p \in Paths : Unlink(t, p)

Next == \E t \in Threads : Begin(t) \/ Step(t)

Spec == Init /\ [][Next]_vars

-----------------------------------------------------------------------------
\* Properties.

\* The state of the kernel, of the table and of every wrapper has its type.
TypeOK ==
    /\ dir \in [Paths -> Inodes \union {None}]
    /\ data \in [Inodes -> Seq(Bytes)]
    /\ kernel \in [Fds -> OpenFile \union {None}]
    /\ posix_files_ \in [Fds -> Entry \union {None}]
    /\ owner \in [Fds -> Threads \union {None}]
    /\ pc \in [Threads -> PCs]
    /\ call \in [Threads -> Call]

\* The table agrees with the kernel on f: an entry exactly for an intercepted
\* path, and for the path that f is open on.
Agrees(f) ==
    /\ kernel[f] # None
    /\ posix_files_[f] # None <=> kernel[f].path \in Intercepted
    /\ posix_files_[f] # None => posix_files_[f].absolute_path = kernel[f].path

\* From the return of open until close is called, the table has an entry for a
\* descriptor exactly when its path is intercepted, and under that path, however
\* the calls of other threads that reuse descriptor numbers interleave.  This is
\* why close unregisters before it calls the real close.
RegistrationMatchesKernel == \A f \in Fds : owner[f] # None => Agrees(f)

\* As long as no descriptor is closed under a running call, every transfer is
\* routed by the path that the descriptor is open on: a task carries that path,
\* a real read or write concerns a path that is not intercepted, and no wrapper
\* goes through a FileInfo pointer to an erased entry.
RoutedByPath ==
    "close_race" \notin Habits =>
        \A t \in Threads :
            /\ call[t].ptr # "dangling"
            /\ pc[t] = "io_wait" => /\ kernel[call[t].fd] # None
                                    /\ call[t].path = kernel[call[t].fd].path
            /\ pc[t] = "io_real" => /\ kernel[call[t].fd] # None
                                    /\ kernel[call[t].fd].path \notin Intercepted

\* lseek gives the position that the program's own calls have moved the
\* descriptor to ("Call real lseek first to get the actual position").
SeekGetsActualPosition ==
    \A t \in Threads :
        pc[t] = "seek_update" /\ call[t].whence = "SEEK_CUR"
          => call[t].off = posix_files_[call[t].fd].current_offset

(***************************************************************************)
(* The refinement of PosixFile.  An intercepted descriptor's offset is the *)
(* table's, advanced already for the transfer that the runtime has done,   *)
(* or the one a running lseek is about to store.  A descriptor is gone     *)
(* once it is unregistered.  A result exists from the step on at which the *)
(* call took effect.                                                       *)
(***************************************************************************)
Offset(f) ==
    IF posix_files_[f] = None THEN kernel[f].off
    ELSE IF \E t \in Threads : call[t].fd = f /\ pc[t] \in {"io_offset", "io_store"}
    THEN posix_files_[f].current_offset
           + call[CHOOSE t \in Threads : call[t].fd = f /\ pc[t] \in {"io_offset", "io_store"}].n
    ELSE IF \E t \in Threads : call[t].fd = f /\ pc[t] = "seek_update"
    THEN kernel[f].off
    ELSE posix_files_[f].current_offset

Gone(f) == kernel[f] = None \/ \E t \in Threads : /\ call[t].fd = f /\ pc[t] = "close_real"
                                                 /\ call[t].res # None

Descriptor(f) == IF Gone(f) THEN None ELSE [kernel[f] EXCEPT !.off = Offset(f)]
Descriptors == [f \in Fds |-> Descriptor(f)]
Returning == [t \in Threads |-> call[t].res]

File == INSTANCE PosixFile WITH fdt <- Descriptors, res <- Returning

\* For a careful program, while the runtime has one node and descriptors left, the library
\* is transparent: open, read, write, lseek, close and unlink through it behave as the
\* calls of PosixFile.  On several nodes a read may bring nothing, and past the limit a
\* transfer may not be made, and either is answered as done.
Transparent == File!Spec
=============================================================================
