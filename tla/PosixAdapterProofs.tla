------------------------- MODULE PosixAdapterProofs -------------------------
(***************************************************************************)
(* What TLAPS proves of PosixAdapter, for any threads, descriptors, paths  *)
(* and bounds: its types, that the table of intercepted descriptors never  *)
(* disagrees with the kernel about a descriptor in use, where a transfer   *)
(* is routed, and that the library is transparent to a careful program on  *)
(* one node, while the runtime has descriptors.                            *)
(***************************************************************************)
EXTENDS PosixAdapter, TLAPS

\* A write makes a sequence of bytes of a sequence of bytes.
LEMMA WriteAtType ==
    ASSUME NEW file \in Seq(Bytes), NEW off \in Nat, NEW n \in Nat, NEW v \in Bytes
    PROVE  WriteAt(file, off, v, n) \in Seq(Bytes)
<1> DEFINE m == IF off + n > Len(file) THEN off + n ELSE Len(file)
<1>1. m \in Nat
  OBVIOUS
<1>2. \A i \in 1 .. m : (IF i \in off + 1 .. off + n THEN v
                         ELSE IF i <= Len(file) THEN file[i] ELSE Zero) \in Bytes
  BY DEF Bytes
<1>3. WriteAt(file, off, v, n) \in [1 .. m -> Bytes]
  BY <1>2 DEF WriteAt
<1> QED
  BY <1>1, <1>3

\* A read returns a sequence of bytes, no more of them than were asked for.
LEMMA ReadAtType ==
    ASSUME NEW file \in Seq(Bytes), NEW off \in Nat, NEW n \in Nat
    PROVE  /\ ReadAt(file, off, n) \in Seq(Bytes)
           /\ Len(ReadAt(file, off, n)) \in 0 .. n
<1> DEFINE m == IF off >= Len(file) THEN 0
                ELSE IF off + n > Len(file) THEN Len(file) - off ELSE n
<1>1. m \in 0 .. n
  OBVIOUS
<1>2. \A i \in 1 .. m : off + i \in 1 .. Len(file)
  OBVIOUS
<1>3. ReadAt(file, off, n) = [i \in 1 .. m |-> file[off + i]]
  BY DEF ReadAt
<1>4. [i \in 1 .. m |-> file[off + i]] \in [1 .. m -> Bytes]
  BY <1>2
<1> HIDE DEF m
<1>5. ReadAt(file, off, n) \in [1 .. m -> Bytes]
  BY <1>3, <1>4
<1> QED
  BY <1>1, <1>5

\* lseek lands on a natural number when it starts from one.
LEMMA SeekTargetType ==
    ASSUME NEW file \in Seq(Bytes), NEW pos \in Nat, NEW whence \in Whences, NEW d \in Nat
    PROVE  SeekTarget(file, pos, whence, d) \in Nat
  BY DEF SeekTarget, Whences

-----------------------------------------------------------------------------
(***************************************************************************)
(* The inductive invariant.  The type of the state is not inductive alone: *)
(* a step that goes through a FileInfo pointer has a typed result only if  *)
(* a live pointer leads to an entry, and one that indexes by descriptor    *)
(* only if the call that is running has one.                               *)
(***************************************************************************)
IoPCs == {"io_info", "io_real", "io_submit", "io_wait", "io_offset", "io_store"}
SeekPCs == {"seek_real", "seek_raw", "seek_update"}
ClosePCs == {"close_unregister", "close_real"}

\* The local variables that a wrapper has set by the time it is at a step.
Locals(t) ==
    /\ pc[t] \notin {"idle", "return"} => call[t].fd \in Fds
    /\ pc[t] = "open_register" => call[t].op = "open" /\ call[t].path \in Paths
    /\ pc[t] \in IoPCs => \/ call[t].op = "read"
                          \/ call[t].op = "write" /\ call[t].val \in Values
    /\ pc[t] = "io_wait" => call[t].path \in Paths
    /\ pc[t] \in SeekPCs => call[t].op = "lseek"
    /\ pc[t] \in ClosePCs => call[t].op = "close" /\ call[t].ptr # "live"
    /\ call[t].ptr = "live" => call[t].fd \in Fds /\ posix_files_[call[t].fd] # None

ControlOK ==
    /\ pc \in [Threads -> PCs] /\ call \in [Threads -> Call]
    /\ \A t \in Threads : Locals(t)

TypeInv == TypeOK /\ ControlOK

\* t has the descriptor f to itself: its open has not returned yet, or its close
\* has begun.
Holds(t, f) ==
    /\ call[t].fd = f
    /\ \/ pc[t] \in {"open_register"} \union ClosePCs
       \/ pc[t] = "return" /\ call[t].op = "open"

\* What is true of the table and the kernel while t holds f.
Held(t, f) ==
    /\ owner[f] = None /\ kernel[f] # None
    /\ \A u \in Threads : Holds(u, f) => u = t
    /\ pc[t] = "open_register" => /\ call[t].path \in Intercepted
                                  /\ kernel[f].path = call[t].path
    /\ pc[t] = "close_real" => posix_files_[f] = None
    /\ pc[t] = "return" => Agrees(f)

TableAt(f) ==
    /\ kernel[f] = None => posix_files_[f] = None
    /\ owner[f] # None => Agrees(f)
    /\ \A t \in Threads : Holds(t, f) => Held(t, f)

TableInv == \A f \in Fds : TableAt(f)

RegInv == TypeInv /\ TableInv

\* While nobody closes a descriptor in use, a running call keeps its descriptor,
\* and the branch that it took keeps being the right one.
Routed(t) ==
    LET f == call[t].fd
    IN  /\ call[t].ptr # "dangling"
        /\ pc[t] \in IoPCs \union SeekPCs => owner[f] # None
        /\ pc[t] \in (IoPCs \ {"io_real"}) \union {"seek_real", "seek_update"}
             => posix_files_[f] # None
        /\ pc[t] \in {"io_real", "seek_raw"} => posix_files_[f] = None
        /\ call[t].ptr = "null" <=> pc[t] \notin {"io_submit", "io_wait", "io_offset", "io_store"}
        /\ pc[t] = "io_wait" => call[t].path = posix_files_[f].absolute_path

RoutedInv == RegInv /\ ("close_race" \notin Habits => \A t \in Threads : Routed(t))

-----------------------------------------------------------------------------
LEMMA NoCallType == NoCall \in Call /\ NoCall.fd = None /\ NoCall.ptr = "null"
  BY DEF NoCall, Call, Whences, Results, Outcomes

\* A step of t that erases no entry keeps the type of the control state.
LEMMA GotoType ==
    ASSUME TypeInv, NEW t \in Threads, NEW label \in PCs, NEW c \in Call,
           Goto(t, label, c),
           \A f \in Fds : posix_files_[f] # None => posix_files_'[f] # None,
           label \notin {"idle", "return"} => c.fd \in Fds,
           label = "open_register" => c.op = "open" /\ c.path \in Paths,
           label \in IoPCs => c.op = "read" \/ (c.op = "write" /\ c.val \in Values),
           label = "io_wait" => c.path \in Paths,
           label \in SeekPCs => c.op = "lseek",
           label \in ClosePCs => c.op = "close" /\ c.ptr # "live",
           c.ptr = "live" => c.fd \in Fds /\ posix_files_'[c.fd] # None
    PROVE  ControlOK'
<1>1. pc' \in [Threads -> PCs] /\ call' \in [Threads -> Call]
  BY DEF Goto, TypeInv, TypeOK
<1>2. ASSUME NEW u \in Threads PROVE Locals(u)'
  <2>1. CASE u = t
    BY <2>1 DEF Goto, TypeInv, TypeOK, Locals
  <2>2. CASE u # t
    <3>1. pc'[u] = pc[u] /\ call'[u] = call[u]
      BY <2>2 DEF Goto, TypeInv, TypeOK
    <3>2. Locals(u)
      BY DEF TypeInv, ControlOK
    <3> QED
      BY <3>1, <3>2 DEF Locals
  <2> QED
    BY <2>1, <2>2
<1> QED
  BY <1>1, <1>2 DEF ControlOK

LEMMA FinishType ==
    ASSUME TypeInv, NEW t \in Threads, NEW r \in Results, Finish(t, r),
           \A f \in Fds : posix_files_[f] # None => posix_files_'[f] # None
    PROVE  ControlOK'
<1> DEFINE c == [NoCall EXCEPT !.op = call[t].op, !.fd = call[t].fd, !.res = r]
<1>1. c \in Call /\ c.ptr = "null"
  BY DEF TypeInv, TypeOK, NoCall, Call, Whences
<1>2. Goto(t, "return", c)
  BY DEF Finish
<1> HIDE DEF c
<1> QED
  BY <1>1, <1>2, GotoType DEF PCs, IoPCs, SeekPCs, ClosePCs

LEMMA TypeInit == Init => TypeInv
  BY NoCallType DEF Init, TypeInv, ControlOK, TypeOK, Locals, NoCall, PCs, IoPCs, SeekPCs, ClosePCs

\* What Locals and TypeOK say of the call that t is running.
LEMMA CallType ==
    ASSUME TypeInv, NEW t \in Threads
    PROVE  /\ call[t] \in Call /\ pc[t] \in PCs /\ Locals(t)
           /\ call[t].n \in Nat /\ call[t].off \in Nat /\ call[t].res \in Results
           /\ call[t].ptr \in {"null", "live", "dangling"}
<1>1. call[t] \in Call /\ pc[t] \in PCs /\ Locals(t)
  BY DEF TypeInv, TypeOK, ControlOK
<1> QED
  BY <1>1 DEF Call

\* Every action keeps the types.
LEMMA OpenKeepsType ==
    ASSUME TypeInv, NEW t \in Threads, NEW p \in Paths, NEW mode \in OpenModes, Open(t, p, mode)
    PROVE  TypeInv'
<1>1. CASE /\ UNCHANGED <<dir, data, kernel>>
           /\ Goto(t, "return", [NoCall EXCEPT !.op = "open", !.res = <<"open", None>>])
  <2> DEFINE c == [NoCall EXCEPT !.op = "open", !.res = <<"open", None>>]
  <2>1. c \in Call /\ c.ptr = "null"
    BY DEF NoCall, Call, Whences, Results, Outcomes
  <2>2. Goto(t, "return", c) /\ UNCHANGED posix_files_
    BY <1>1 DEF Open
  <2> HIDE DEF c
  <2>3. ControlOK'
    BY <2>1, <2>2, GotoType DEF PCs, IoPCs, SeekPCs, ClosePCs
  <2> QED
    BY <1>1, <2>3 DEF Open, TypeInv, TypeOK, ControlOK
<1>2. ASSUME NEW f \in Fds, RealOpen(f, p, mode),
             Goto(t, IF p \in Intercepted THEN "open_register" ELSE "return",
                  [NoCall EXCEPT !.op = "open", !.fd = f, !.path = p, !.res = <<"open", f>>])
      PROVE  TypeInv'
  <2> DEFINE c == [NoCall EXCEPT !.op = "open", !.fd = f, !.path = p, !.res = <<"open", f>>]
             l == IF p \in Intercepted THEN "open_register" ELSE "return"
  <2>1. c \in Call /\ c.ptr = "null" /\ c.op = "open" /\ c.fd = f /\ c.path = p
    BY DEF NoCall, Call, Whences, Results, Outcomes
  <2>2. Goto(t, l, c) /\ UNCHANGED posix_files_ /\ l \in {"open_register", "return"}
    BY <1>2 DEF Open
  <2> HIDE DEF c, l
  <2>3. ControlOK'
    BY <2>1, <2>2, GotoType DEF PCs, IoPCs, SeekPCs, ClosePCs
  <2>4. dir' \in [Paths -> Inodes \union {None}] /\ data' \in [Inodes -> Seq(Bytes)]
    BY <1>2 DEF RealOpen, TypeInv, TypeOK
  <2>5. kernel' \in [Fds -> OpenFile \union {None}]
    BY <1>2 DEF RealOpen, TypeInv, TypeOK, OpenFile
  <2> QED
    BY <2>3, <2>4, <2>5 DEF Open, TypeInv, TypeOK, ControlOK
<1> QED
  BY <1>1, <1>2 DEF Open

LEMMA OpenRegisterKeepsType ==
    ASSUME TypeInv, NEW t \in Threads, OpenRegister(t)
    PROVE  TypeInv'
<1>1. call[t].fd \in Fds /\ call[t].path \in Paths /\ call[t].res \in Results
  BY CallType DEF OpenRegister, Locals
<1>2. /\ posix_files_' \in [Fds -> Entry \union {None}]
      /\ \A f \in Fds : posix_files_[f] # None => posix_files_'[f] # None
  BY <1>1, NoneAssumption DEF OpenRegister, Register, FileInfo, Entry, TypeInv, TypeOK
<1> QED
  BY <1>1, <1>2, FinishType DEF OpenRegister, TypeInv, TypeOK, ControlOK

LEMMA IoCallKeepsType ==
    ASSUME TypeInv, NEW t \in Threads, NEW op \in {"read", "write"}, NEW f \in Fds,
           NEW n \in Counts, NEW v \in Values \union {None}, op = "write" => v \in Values,
           IoCall(t, op, f, n, v)
    PROVE  TypeInv'
<1> DEFINE c == [NoCall EXCEPT !.op = op, !.fd = f, !.n = n, !.val = v]
           l == IF IsRegistered(posix_files_, f) THEN "io_info" ELSE "io_real"
<1>1. c \in Call /\ c.ptr = "null" /\ c.op = op /\ c.fd = f /\ c.val = v
  <2>1. n \in Nat
    BY BoundAssumption
  <2> QED
    BY <2>1 DEF NoCall, Call, Whences, Results, Outcomes
<1>2. Goto(t, l, c) /\ UNCHANGED posix_files_ /\ l \in {"io_info", "io_real"}
  BY DEF IoCall
<1> HIDE DEF c, l
<1>3. ControlOK'
  BY <1>1, <1>2, GotoType DEF PCs, IoPCs, SeekPCs, ClosePCs
<1> QED
  BY <1>3 DEF IoCall, TypeInv, TypeOK, ControlOK

LEMMA IoInfoKeepsType ==
    ASSUME TypeInv, NEW t \in Threads, IoInfo(t)
    PROVE  TypeInv'
<1> DEFINE c == [call[t] EXCEPT !.ptr = "live"]
<1>1. c \in Call /\ c.ptr = "live" /\ c.op = call[t].op /\ c.fd = call[t].fd /\ c.val = call[t].val
  <2>1. call[t] \in Call
    BY CallType
  <2> QED
    BY <2>1 DEF Call
<1> HIDE DEF c
<1>2. /\ call[t] \in Call /\ call[t].fd \in Fds
      /\ call[t].op = "read" \/ (call[t].op = "write" /\ call[t].val \in Values)
      /\ UNCHANGED posix_files_
  BY CallType DEF IoInfo, Locals, IoPCs
<1>3. ControlOK'
  <2>1. CASE IsRegistered(posix_files_, call[t].fd)
    <3>1. Goto(t, "io_submit", c)
      BY <2>1 DEF IoInfo, c
    <3> QED
      BY <1>1, <1>2, <2>1, <3>1, GotoType DEF PCs, IoPCs, SeekPCs, ClosePCs, IsRegistered
  <2>2. CASE ~IsRegistered(posix_files_, call[t].fd)
    <3>1. Goto(t, "io_real", call[t])
      BY <2>2 DEF IoInfo
    <3>2. call[t].ptr # "live"
      BY <2>2, CallType DEF Locals, IsRegistered
    <3> QED
      BY <1>2, <3>1, <3>2, GotoType DEF PCs, IoPCs, SeekPCs, ClosePCs
  <2> QED
    BY <2>1, <2>2
<1> QED
  BY <1>3 DEF IoInfo, TypeInv, TypeOK, ControlOK

\* Moving the offset of an open descriptor keeps the kernel's type.
LEMMA MoveKernelOffset ==
    ASSUME TypeInv, NEW f \in Fds, kernel[f] # None, NEW o \in Nat
    PROVE  [kernel EXCEPT ![f].off = o] \in [Fds -> OpenFile \union {None}]
<1>1. kernel \in [Fds -> OpenFile \union {None}] /\ kernel[f] \in OpenFile
  BY DEF TypeInv, TypeOK
<1>2. [kernel[f] EXCEPT !.off = o] \in OpenFile
  BY <1>1 DEF OpenFile
<1> QED
  BY <1>1, <1>2

LEMMA IoRealKeepsType ==
    ASSUME TypeInv, NEW t \in Threads, IoReal(t)
    PROVE  TypeInv'
<1> DEFINE c == call[t]
           k == kernel[c.fd]
<1>1. /\ c.fd \in Fds /\ c.n \in Nat
      /\ c.op = "read" \/ (c.op = "write" /\ c.val \in Values)
      /\ UNCHANGED <<dir, posix_files_, owner>>
  BY CallType DEF IoReal, Locals, IoPCs
<1>2. k # None => k \in OpenFile /\ k.ino \in Inodes /\ k.off \in Nat /\ data[k.ino] \in Seq(Bytes)
  BY <1>1 DEF TypeInv, TypeOK, OpenFile
<1> HIDE DEF c, k
<1>3. CASE k = None /\ Finish(t, <<c.op, None>>) /\ UNCHANGED <<data, kernel>>
  <2>1. <<c.op, None>> \in Results
    BY <1>1 DEF Results, Outcomes
  <2> QED
    BY <1>1, <1>3, <2>1, FinishType DEF TypeInv, TypeOK, ControlOK
<1>4. CASE /\ k # None /\ UNCHANGED data
           /\ kernel' = [kernel EXCEPT ![c.fd].off = k.off + Len(ReadAt(data[k.ino], k.off, c.n))]
           /\ Finish(t, <<"read", ReadAt(data[k.ino], k.off, c.n)>>)
  <2> DEFINE got == ReadAt(data[k.ino], k.off, c.n)
  <2>1. got \in Seq(Bytes) /\ Len(got) \in Nat
    <3>1. k.off \in Nat /\ data[k.ino] \in Seq(Bytes) /\ c.n \in Nat
      BY <1>1, <1>2, <1>4
    <3> QED
      BY <3>1, ReadAtType
  <2> HIDE DEF got
  <2>2. <<"read", got>> \in Results
    BY <2>1 DEF Results, Outcomes
  <2>3. kernel' \in [Fds -> OpenFile \union {None}]
    <3>1. c.fd \in Fds /\ kernel[c.fd] # None /\ k.off + Len(got) \in Nat
      BY <1>1, <1>2, <1>4, <2>1 DEF k
    <3>2. [kernel EXCEPT ![c.fd].off = k.off + Len(got)] \in [Fds -> OpenFile \union {None}]
      BY <3>1, MoveKernelOffset
    <3> QED
      BY <1>4, <3>2 DEF got
  <2> QED
    BY <1>1, <1>4, <2>2, <2>3, FinishType DEF got, TypeInv, TypeOK, ControlOK
<1>5. CASE /\ k # None /\ c.op = "write"
           /\ LET off == IF k.append THEN Len(data[k.ino]) ELSE k.off
              IN  /\ data' = [data EXCEPT ![k.ino] = WriteAt(@, off, c.val, c.n)]
                  /\ kernel' = [kernel EXCEPT ![c.fd].off = off + c.n]
           /\ Finish(t, <<"write", c.n>>)
  <2> DEFINE off == IF k.append THEN Len(data[k.ino]) ELSE k.off
  <2>1. off \in Nat
    BY <1>2, <1>5
  <2> HIDE DEF off
  <2>2. WriteAt(data[k.ino], off, c.val, c.n) \in Seq(Bytes)
    BY <1>1, <1>2, <1>5, <2>1, WriteAtType DEF Bytes
  <2>3. data' \in [Inodes -> Seq(Bytes)]
    BY <1>2, <1>5, <2>2 DEF off, TypeInv, TypeOK
  <2>4. kernel' \in [Fds -> OpenFile \union {None}]
    <3>1. c.fd \in Fds /\ kernel[c.fd] # None /\ off + c.n \in Nat
      BY <1>1, <1>2, <1>5, <2>1 DEF k
    <3>2. [kernel EXCEPT ![c.fd].off = off + c.n] \in [Fds -> OpenFile \union {None}]
      BY <3>1, MoveKernelOffset
    <3> QED
      BY <1>5, <3>2 DEF off
  <2>5. <<"write", c.n>> \in Results
    BY <1>1 DEF Results, Outcomes
  <2> QED
    BY <1>1, <1>5, <2>3, <2>4, <2>5, FinishType DEF TypeInv, TypeOK, ControlOK
<1> QED
  BY <1>3, <1>4, <1>5 DEF IoReal, c, k

LEMMA IoSubmitKeepsType ==
    ASSUME TypeInv, NEW t \in Threads, IoSubmit(t)
    PROVE  TypeInv'
<1>1. /\ call[t] \in Call /\ call[t].fd \in Fds
      /\ call[t].op = "read" \/ (call[t].op = "write" /\ call[t].val \in Values)
      /\ UNCHANGED <<dir, data, kernel, posix_files_, owner>>
  BY CallType DEF IoSubmit, Locals, IoPCs
<1>2. PICK path \in Paths, off \in Nat :
        Goto(t, "io_wait", [call[t] EXCEPT !.path = path, !.off = off])
  <2>1. CASE call[t].ptr = "live"
    <3>1. posix_files_[call[t].fd] \in Entry
      BY <2>1, CallType DEF Locals, TypeInv, TypeOK
    <3> QED
      BY <2>1, <3>1 DEF IoSubmit, Entry
  <2>2. CASE call[t].ptr = "dangling"
    <3>1. Intercepted \subseteq Paths /\ 0 .. MaxLen \subseteq Nat
      BY PathAssumption, BoundAssumption
    <3> QED
      BY <2>2, <3>1 DEF IoSubmit
  <2> QED
    BY <2>1, <2>2 DEF IoSubmit
<1> DEFINE c == [call[t] EXCEPT !.path = path, !.off = off]
<1>3. /\ c \in Call /\ c.path \in Paths /\ c.op = call[t].op /\ c.fd = call[t].fd
      /\ c.val = call[t].val /\ c.ptr = call[t].ptr
  <2>1. path \in Paths /\ off \in Nat
    BY <1>2
  <2> QED
    BY <1>1, <2>1 DEF Call
<1> HIDE DEF c
<1>4. ControlOK'
  <2>1. Goto(t, "io_wait", c)
    BY <1>2 DEF c
  <2>2. c.ptr = "live" => posix_files_[c.fd] # None
    BY <1>3, CallType DEF Locals
  <2> QED
    BY <1>1, <1>3, <2>1, <2>2, GotoType DEF PCs, IoPCs, SeekPCs, ClosePCs
<1> QED
  BY <1>1, <1>4 DEF TypeInv, TypeOK, ControlOK

\* A task that is complete leaves a result, whatever it has brought.
LEMMA ServedResult ==
    ASSUME NEW t \in Threads, call[t].n \in Nat, call[t].op \in {"read", "write"},
           NEW got \in Seq(Bytes), Served(t, got)
    PROVE  \E r \in Results : Goto(t, "io_offset", [call[t] EXCEPT !.res = r])
<1> DEFINE buf == [b \in 1 .. call[t].n |-> IF b <= Len(got) THEN got[b] ELSE Junk]
<1>1. \A b \in 1 .. call[t].n : (IF b <= Len(got) THEN got[b] ELSE Junk) \in Bytes \union {Junk}
  OBVIOUS
<1>2. buf \in Seq(Bytes \union {Junk})
  BY <1>1
<1>3. Goto(t, "io_offset", [call[t] EXCEPT !.res =
                              <<call[t].op, IF call[t].op = "read" THEN buf ELSE call[t].n>>])
  BY DEF Served
<1> HIDE DEF buf
<1>4. <<call[t].op, IF call[t].op = "read" THEN buf ELSE call[t].n>> \in Results
  BY <1>2 DEF Results, Outcomes
<1> QED
  BY <1>3, <1>4

LEMMA ServeKeepsType ==
    ASSUME TypeInv, NEW t \in Threads, Serve(t)
    PROVE  TypeInv'
<1>1. /\ call[t] \in Call /\ call[t].fd \in Fds /\ call[t].path \in Paths
      /\ call[t].n \in Nat /\ call[t].off \in Nat
      /\ call[t].op = "read" \/ (call[t].op = "write" /\ call[t].val \in Values)
      /\ UNCHANGED <<kernel, posix_files_, owner>>
  BY CallType DEF Serve, Locals, IoPCs
<1>2. \A i \in Inodes : /\ data[i] \in Seq(Bytes)
                        /\ (IF dir[call[t].path] = None THEN << >> ELSE data[i]) \in Seq(Bytes)
  BY DEF TypeInv, TypeOK
<1>3. /\ dir' \in [Paths -> Inodes \union {None}] /\ data' \in [Inodes -> Seq(Bytes)]
      /\ \E got \in Seq(Bytes) : Served(t, got)
  <2>1. ASSUME NEW i \in Inodes, NEW file \in Seq(Bytes),
               dir' = [dir EXCEPT ![call[t].path] = i],
               data' = [data EXCEPT ![i] = IF call[t].op = "read" THEN file
                                           ELSE WriteAt(file, call[t].off, call[t].val, call[t].n)],
               Served(t, ReadAt(file, call[t].off, call[t].n)) \/ Served(t, << >>)
        PROVE  /\ dir' \in [Paths -> Inodes \union {None}] /\ data' \in [Inodes -> Seq(Bytes)]
               /\ \E got \in Seq(Bytes) : Served(t, got)
    <3>1. (IF call[t].op = "read" THEN file
           ELSE WriteAt(file, call[t].off, call[t].val, call[t].n)) \in Seq(Bytes)
      BY <1>1, WriteAtType DEF Bytes
    <3>2. ReadAt(file, call[t].off, call[t].n) \in Seq(Bytes) /\ << >> \in Seq(Bytes)
      BY <1>1, ReadAtType
    <3> QED
      BY <1>1, <2>1, <3>1, <3>2 DEF TypeInv, TypeOK
  <2>2. CASE Served(t, << >>) /\ UNCHANGED <<dir, data>>
    <3>1. << >> \in Seq(Bytes)
      OBVIOUS
    <3> QED
      BY <2>2, <3>1 DEF TypeInv, TypeOK
  <2>3. CASE ~(Served(t, << >>) /\ UNCHANGED <<dir, data>>)
    <3>1. PICK i \in Inodes, file \in Seq(Bytes) :
            /\ file = IF dir[call[t].path] = None THEN << >> ELSE data[i]
            /\ dir' = [dir EXCEPT ![call[t].path] = i]
            /\ data' = [data EXCEPT ![i] = IF call[t].op = "read" THEN file
                                           ELSE WriteAt(file, call[t].off, call[t].val, call[t].n)]
            /\ Served(t, ReadAt(file, call[t].off, call[t].n)) \/ Served(t, << >>)
      BY <1>2, <2>3 DEF Serve
    <3> QED
      BY <2>1, <3>1
  <2> QED
    BY <2>2, <2>3
<1>4. PICK r \in Results : Goto(t, "io_offset", [call[t] EXCEPT !.res = r])
  BY <1>1, <1>3, ServedResult
<1>5. ControlOK'
  <2> DEFINE c == [call[t] EXCEPT !.res = r]
  <2>1. /\ c \in Call /\ c.op = call[t].op /\ c.fd = call[t].fd
        /\ c.val = call[t].val /\ c.ptr = call[t].ptr
    BY <1>1 DEF Call
  <2>2. c.ptr = "live" => posix_files_[c.fd] # None
    BY <2>1, CallType DEF Locals
  <2> HIDE DEF c
  <2>3. Goto(t, "io_offset", c)
    BY <1>4 DEF c
  <2> QED
    BY <1>1, <2>1, <2>2, <2>3, GotoType DEF PCs, IoPCs, SeekPCs, ClosePCs
<1> QED
  BY <1>1, <1>3, <1>5 DEF TypeInv, TypeOK, ControlOK

LEMMA IoOffsetKeepsType ==
    ASSUME TypeInv, NEW t \in Threads, IoOffset(t)
    PROVE  TypeInv'
<1>1. /\ call[t] \in Call /\ call[t].fd \in Fds /\ call[t].n \in Nat
      /\ call[t].op = "read" \/ (call[t].op = "write" /\ call[t].val \in Values)
      /\ UNCHANGED <<dir, data, kernel, posix_files_, owner>>
  BY CallType DEF IoOffset, Locals, IoPCs
<1>2. PICK o \in Nat : Goto(t, "io_store", [call[t] EXCEPT !.off = o])
  <2>1. CASE call[t].ptr = "live"
    <3>1. posix_files_[call[t].fd].current_offset \in Nat
      BY <2>1, CallType DEF Locals, TypeInv, TypeOK, Entry
    <3>2. posix_files_[call[t].fd].current_offset + call[t].n \in Nat
      BY <1>1, <3>1
    <3> QED
      BY <2>1, <3>2 DEF IoOffset
  <2>2. CASE call[t].ptr # "live"
    <3>1. \A off \in 0 .. MaxLen : off + call[t].n \in Nat
      BY <1>1, BoundAssumption
    <3> QED
      BY <2>2, <3>1 DEF IoOffset
  <2> QED
    BY <2>1, <2>2
<1>3. ControlOK'
  <2> DEFINE c == [call[t] EXCEPT !.off = o]
  <2>1. /\ c \in Call /\ c.op = call[t].op /\ c.fd = call[t].fd
        /\ c.val = call[t].val /\ c.ptr = call[t].ptr
    BY <1>1 DEF Call
  <2>2. c.ptr = "live" => posix_files_[c.fd] # None
    BY <2>1, CallType DEF Locals
  <2> HIDE DEF c
  <2>3. Goto(t, "io_store", c)
    BY <1>2 DEF c
  <2> QED
    BY <1>1, <2>1, <2>2, <2>3, GotoType DEF PCs, IoPCs, SeekPCs, ClosePCs
<1> QED
  BY <1>1, <1>3 DEF TypeInv, TypeOK, ControlOK

\* Storing an offset creates no entry and erases none.
LEMMA UpdateOffsetType ==
    ASSUME TypeInv, NEW f \in Fds, NEW o \in Nat
    PROVE  LET files == UpdateOffset(posix_files_, f, o) IN
           /\ files \in [Fds -> Entry \union {None}]
           /\ \A g \in Fds : files[g] = None <=> posix_files_[g] = None
           /\ \A g \in Fds : g # f => files[g] = posix_files_[g]
           /\ files[f] # None => files[f].absolute_path = posix_files_[f].absolute_path
<1>1. CASE posix_files_[f] = None
  BY <1>1 DEF UpdateOffset, IsRegistered, TypeInv, TypeOK
<1>2. CASE posix_files_[f] # None
  <2> DEFINE e == [posix_files_[f] EXCEPT !.current_offset = o]
  <2>1. posix_files_[f] \in Entry
    BY <1>2 DEF TypeInv, TypeOK
  <2>2. e \in Entry /\ e.absolute_path = posix_files_[f].absolute_path
    BY <2>1 DEF Entry
  <2>3. UpdateOffset(posix_files_, f, o) = [posix_files_ EXCEPT ![f] = e]
    BY <1>2 DEF UpdateOffset, IsRegistered
  <2> HIDE DEF e
  <2>4. e # None
    BY <2>2, NoneAssumption
  <2> QED
    BY <1>2, <2>2, <2>3, <2>4 DEF TypeInv, TypeOK
<1> QED
  BY <1>1, <1>2

LEMMA IoStoreKeepsType ==
    ASSUME TypeInv, NEW t \in Threads, IoStore(t)
    PROVE  TypeInv'
<1>1. /\ call[t].fd \in Fds /\ call[t].off \in Nat /\ call[t].res \in Results
      /\ UNCHANGED <<dir, data, kernel, owner>>
      /\ posix_files_' = UpdateOffset(posix_files_, call[t].fd, call[t].off)
  BY CallType DEF IoStore, Locals
<1>2. /\ posix_files_' \in [Fds -> Entry \union {None}]
      /\ \A f \in Fds : posix_files_[f] # None => posix_files_'[f] # None
  BY <1>1, UpdateOffsetType
<1> QED
  BY <1>1, <1>2, FinishType DEF IoStore, TypeInv, TypeOK, ControlOK

LEMMA SeekUpdateKeepsType ==
    ASSUME TypeInv, NEW t \in Threads, SeekUpdate(t)
    PROVE  TypeInv'
<1>1. /\ call[t].fd \in Fds /\ call[t].off \in Nat /\ call[t].res \in Results
      /\ UNCHANGED <<dir, data, kernel, owner>>
      /\ posix_files_' = UpdateOffset(posix_files_, call[t].fd, call[t].off)
  BY CallType DEF SeekUpdate, Locals
<1>2. /\ posix_files_' \in [Fds -> Entry \union {None}]
      /\ \A f \in Fds : posix_files_[f] # None => posix_files_'[f] # None
  BY <1>1, UpdateOffsetType
<1> QED
  BY <1>1, <1>2, FinishType DEF SeekUpdate, TypeInv, TypeOK, ControlOK

LEMMA SeekCallKeepsType ==
    ASSUME TypeInv, NEW t \in Threads, NEW f \in Fds, NEW whence \in Whences,
           NEW d \in 0 .. MaxLen, SeekCall(t, f, whence, d)
    PROVE  TypeInv'
<1> DEFINE c == [NoCall EXCEPT !.op = "lseek", !.fd = f, !.whence = whence, !.off = d]
           l == IF IsRegistered(posix_files_, f) THEN "seek_real" ELSE "seek_raw"
<1>1. c \in Call /\ c.ptr = "null" /\ c.op = "lseek" /\ c.fd = f
  <2>1. d \in Nat
    BY BoundAssumption
  <2> QED
    BY <2>1 DEF NoCall, Call, Results, Outcomes
<1>2. Goto(t, l, c) /\ UNCHANGED posix_files_ /\ l \in {"seek_real", "seek_raw"}
  BY DEF SeekCall
<1> HIDE DEF c, l
<1>3. ControlOK'
  BY <1>1, <1>2, GotoType DEF PCs, IoPCs, SeekPCs, ClosePCs
<1> QED
  BY <1>3 DEF SeekCall, TypeInv, TypeOK, ControlOK

LEMMA SeekRealKeepsType ==
    ASSUME TypeInv, NEW t \in Threads, SeekReal(t)
    PROVE  TypeInv'
<1> DEFINE k == kernel[call[t].fd]
           pos == SeekTarget(data[k.ino], k.off, call[t].whence, call[t].off)
<1>1. /\ call[t] \in Call /\ call[t].fd \in Fds /\ call[t].op = "lseek"
      /\ call[t].off \in Nat /\ UNCHANGED <<dir, data, posix_files_, owner>>
  BY CallType DEF SeekReal, Locals, SeekPCs
<1>2. CASE k = None
  <2>1. <<"lseek", None>> \in Results
    BY DEF Results, Outcomes
  <2> QED
    BY <1>1, <1>2, <2>1, FinishType DEF SeekReal, TypeInv, TypeOK, ControlOK
<1>3. CASE k # None
  <2>1. k \in OpenFile
    BY <1>1, <1>3 DEF TypeInv, TypeOK
  <2>2. k.off \in Nat /\ data[k.ino] \in Seq(Bytes)
    BY <2>1 DEF OpenFile, TypeInv, TypeOK
  <2>3. call[t].whence \in Whences
    BY <1>1 DEF Call
  <2>4. pos \in Nat
    BY <1>1, <2>2, <2>3, SeekTargetType
  <2>5. /\ kernel' = [kernel EXCEPT ![call[t].fd].off = pos]
        /\ \/ Finish(t, <<"lseek", pos>>)
           \/ Goto(t, "seek_update", [call[t] EXCEPT !.off = pos, !.res = <<"lseek", pos>>])
    BY <1>3 DEF SeekReal
  <2> HIDE DEF pos
  <2>6. kernel' \in [Fds -> OpenFile \union {None}]
    <3>1. [kernel EXCEPT ![call[t].fd].off = pos] \in [Fds -> OpenFile \union {None}]
      BY <1>1, <1>3, <2>4, MoveKernelOffset
    <3> QED
      BY <2>5, <3>1
  <2>7. <<"lseek", pos>> \in Results
    BY <2>4 DEF Results, Outcomes
  <2>8. ControlOK'
    <3>1. CASE Finish(t, <<"lseek", pos>>)
      BY <1>1, <2>7, <3>1, FinishType
    <3>2. CASE Goto(t, "seek_update", [call[t] EXCEPT !.off = pos, !.res = <<"lseek", pos>>])
      <4> DEFINE c == [call[t] EXCEPT !.off = pos, !.res = <<"lseek", pos>>]
      <4>1. /\ c \in Call /\ c.op = call[t].op /\ c.fd = call[t].fd /\ c.ptr = call[t].ptr
        BY <1>1, <2>4, <2>7 DEF Call
      <4>2. c.ptr = "live" => posix_files_[c.fd] # None
        BY <4>1, CallType DEF Locals
      <4> HIDE DEF c
      <4>3. Goto(t, "seek_update", c)
        BY <3>2 DEF c
      <4> QED
        BY <1>1, <4>1, <4>2, <4>3, GotoType DEF PCs, IoPCs, SeekPCs, ClosePCs
    <3> QED
      BY <2>5, <3>1, <3>2
  <2> QED
    BY <1>1, <2>6, <2>8 DEF TypeInv, TypeOK, ControlOK
<1> QED
  BY <1>2, <1>3

LEMMA CloseCallKeepsType ==
    ASSUME TypeInv, NEW t \in Threads, NEW f \in Fds, CloseCall(t, f)
    PROVE  TypeInv'
<1> DEFINE c == [NoCall EXCEPT !.op = "close", !.fd = f]
           l == IF IsRegistered(posix_files_, f) THEN "close_unregister" ELSE "close_real"
<1>1. c \in Call /\ c.ptr = "null" /\ c.op = "close" /\ c.fd = f
  BY DEF NoCall, Call, Whences, Results, Outcomes
<1>2. Goto(t, l, c) /\ UNCHANGED posix_files_ /\ l \in {"close_unregister", "close_real"}
  BY DEF CloseCall
<1> HIDE DEF c, l
<1>3. ControlOK'
  BY <1>1, <1>2, GotoType DEF PCs, IoPCs, SeekPCs, ClosePCs
<1> QED
  BY <1>3 DEF CloseCall, TypeInv, TypeOK, ControlOK

LEMMA CloseUnregisterKeepsType ==
    ASSUME TypeInv, NEW t \in Threads, CloseUnregister(t)
    PROVE  TypeInv'
<1>1. /\ pc[t] = "close_unregister" /\ call[t].fd \in Fds /\ call[t].op = "close"
      /\ UNCHANGED <<dir, data, kernel, owner>>
      /\ posix_files_' = [posix_files_ EXCEPT ![call[t].fd] = None]
      /\ pc' = [pc EXCEPT ![t] = "close_real"]
  BY CallType DEF CloseUnregister, Unregister, Locals, ClosePCs
<1>2. posix_files_' \in [Fds -> Entry \union {None}] /\ pc' \in [Threads -> PCs]
  BY <1>1 DEF TypeInv, TypeOK, PCs
<1>3. ASSUME NEW u \in Threads
      PROVE  /\ call'[u] \in Call /\ call'[u].fd = call[u].fd /\ call'[u].op = call[u].op
             /\ call'[u].path = call[u].path /\ call'[u].val = call[u].val
             /\ call'[u].ptr = "live" => call[u].ptr = "live"
             /\ call'[u].ptr = "live" /\ u # t => call[u].fd # call[t].fd
  <2>1. call[u] \in Call
    BY CallType
  <2>2. CASE u = t
    <3>1. call'[u] = [call[u] EXCEPT !.res = <<"close", 0>>]
      BY <2>2 DEF CloseUnregister
    <3>2. <<"close", 0>> \in Results
      BY DEF Results, Outcomes
    <3> QED
      BY <2>1, <2>2, <3>1, <3>2 DEF Call
  <2>3. CASE u # t
    <3>1. call'[u] = Erase(call[t].fd, call[u])
      BY <2>3 DEF CloseUnregister
    <3>2. CASE call[u].fd = call[t].fd /\ call[u].ptr = "live"
      <4>1. call'[u] = [call[u] EXCEPT !.ptr = "dangling"]
        BY <3>1, <3>2 DEF Erase
      <4> QED
        BY <2>1, <4>1 DEF Call
    <3>3. CASE ~(call[u].fd = call[t].fd /\ call[u].ptr = "live")
      BY <2>1, <3>1, <3>3 DEF Erase
    <3> QED
      BY <3>2, <3>3
  <2> QED
    BY <2>2, <2>3
<1>4. call' \in [Threads -> Call]
  BY <1>3 DEF CloseUnregister
<1>5. ASSUME NEW u \in Threads PROVE Locals(u)'
  <2>1. Locals(u)
    BY CallType
  <2>2. CASE u = t
    <3>1. call'[t].ptr # "live" /\ pc'[t] = "close_real"
      BY <1>1, <1>3, <2>1, <2>2 DEF Locals, ClosePCs, TypeInv, TypeOK
    <3> QED
      BY <1>1, <1>3, <2>2, <3>1 DEF Locals, IoPCs, SeekPCs, ClosePCs
  <2>3. CASE u # t
    <3>1. pc'[u] = pc[u]
      BY <1>1, <2>3 DEF TypeInv, TypeOK
    <3>2. call'[u].ptr = "live" => call'[u].fd \in Fds /\ posix_files_'[call'[u].fd] # None
      BY <1>1, <1>3, <2>1, <2>3 DEF Locals, TypeInv, TypeOK
    <3> QED
      BY <1>3, <2>1, <3>1, <3>2 DEF Locals
  <2> QED
    BY <2>2, <2>3
<1> QED
  BY <1>1, <1>2, <1>4, <1>5 DEF TypeInv, TypeOK, ControlOK

LEMMA CloseRealKeepsType ==
    ASSUME TypeInv, NEW t \in Threads, CloseReal(t)
    PROVE  TypeInv'
<1>1. <<"close", 0>> \in Results
  BY DEF Results, Outcomes
<1>2. kernel' \in [Fds -> OpenFile \union {None}]
  BY DEF CloseReal, TypeInv, TypeOK
<1> QED
  BY <1>1, <1>2, FinishType DEF CloseReal, TypeInv, TypeOK, ControlOK

LEMMA UnlinkKeepsType ==
    ASSUME TypeInv, NEW t \in Threads, NEW p \in Paths, Unlink(t, p)
    PROVE  TypeInv'
<1> DEFINE c == [NoCall EXCEPT !.op = "unlink", !.path = p, !.res = <<"unlink", 0>>]
<1>1. c \in Call /\ c.ptr = "null"
  BY DEF NoCall, Call, Whences, Results, Outcomes
<1>2. Goto(t, "return", c) /\ UNCHANGED posix_files_
  BY DEF Unlink
<1> HIDE DEF c
<1>3. ControlOK'
  BY <1>1, <1>2, GotoType DEF PCs, IoPCs, SeekPCs, ClosePCs
<1> QED
  BY <1>3 DEF Unlink, TypeInv, TypeOK, ControlOK

LEMMA ReturnKeepsType ==
    ASSUME TypeInv, NEW t \in Threads, Return(t)
    PROVE  TypeInv'
<1>1. owner' \in [Fds -> Threads \union {None}]
  BY DEF Return, TypeInv, TypeOK
<1>2. Goto(t, "idle", NoCall) /\ UNCHANGED posix_files_
  BY DEF Return
<1>3. ControlOK'
  BY <1>2, NoCallType, GotoType DEF PCs, IoPCs, SeekPCs, ClosePCs
<1> QED
  BY <1>1, <1>3 DEF Return, TypeInv, TypeOK, ControlOK

LEMMA TypeStep == TypeInv /\ [Next]_vars => TypeInv'
<1> SUFFICES ASSUME TypeInv, [Next]_vars PROVE TypeInv'
  OBVIOUS
<1>1. CASE UNCHANGED vars
  BY <1>1 DEF vars, TypeInv, TypeOK, ControlOK, Locals
<1>2. ASSUME NEW t \in Threads, Begin(t) PROVE TypeInv'
  BY <1>2, OpenKeepsType, IoCallKeepsType, SeekCallKeepsType, CloseCallKeepsType,
     UnlinkKeepsType DEF Begin
<1>3. ASSUME NEW t \in Threads, Step(t) PROVE TypeInv'
  BY <1>3, OpenRegisterKeepsType, IoInfoKeepsType, IoRealKeepsType, IoSubmitKeepsType,
     ServeKeepsType, IoOffsetKeepsType, IoStoreKeepsType, SeekRealKeepsType,
     SeekUpdateKeepsType, CloseUnregisterKeepsType, CloseRealKeepsType, ReturnKeepsType DEF Step
<1> QED
  BY <1>1, <1>2, <1>3 DEF Next

\* TypeOK holds in every state of every execution, whatever the program does
\* and however its threads interleave.
THEOREM TypeCorrect == Spec => []TypeOK
<1>1. TypeInv => TypeOK
  BY DEF TypeInv
<1> QED
  BY TypeInit, TypeStep, <1>1, PTL DEF Spec

-----------------------------------------------------------------------------
\* u is in a transfer or a seek.
Running(u) == pc[u] \in IoPCs \union SeekPCs

\* A step of t changes nothing that TableAt says of a descriptor that is the same
\* in the table and in the kernel, and that t does not come to hold.
Others(t) ==
    \A u \in Threads \ {t} : /\ pc'[u] = pc[u] /\ call'[u].fd = call[u].fd
                             /\ call'[u].op = call[u].op /\ call'[u].path = call[u].path

Same(f) ==
    /\ owner'[f] = owner[f]
    /\ kernel'[f] = None <=> kernel[f] = None
    /\ kernel[f] # None => kernel'[f].path = kernel[f].path
    /\ posix_files_'[f] = None <=> posix_files_[f] = None
    /\ posix_files_[f] # None
         => posix_files_'[f].absolute_path = posix_files_[f].absolute_path

LEMMA SameTableAt ==
    ASSUME NEW t \in Threads, NEW f \in Fds, TableAt(f), Others(t), Same(f), ~Holds(t, f)'
    PROVE  TableAt(f)'
<1>1. Agrees(f) => Agrees(f)'
  BY DEF Agrees, Same
<1>2. ASSUME NEW u \in Threads, Holds(u, f)' PROVE u # t /\ Holds(u, f)
  BY <1>2 DEF Others, Holds
<1>3. ASSUME NEW u \in Threads, Holds(u, f)' PROVE Held(u, f)'
  <2>1. u # t /\ Held(u, f)
    BY <1>2, <1>3 DEF TableAt
  <2> QED
    BY <1>1, <1>2, <2>1 DEF Held, Same, Others
<1> QED
  BY <1>1, <1>3 DEF TableAt, Same

LEMMA GotoFacts ==
    ASSUME TypeInv, NEW t \in Threads, NEW label, NEW c, Goto(t, label, c)
    PROVE  Others(t) /\ pc'[t] = label /\ call'[t] = c
  BY DEF Goto, Others, TypeInv, TypeOK

LEMMA FinishFacts ==
    ASSUME TypeInv, NEW t \in Threads, NEW r, Finish(t, r)
    PROVE  /\ Others(t) /\ pc'[t] = "return" /\ call'[t].ptr = "null"
           /\ call'[t].fd = call[t].fd /\ call'[t].op = call[t].op
<1> DEFINE c == [NoCall EXCEPT !.op = call[t].op, !.fd = call[t].fd, !.res = r]
<1>1. c.ptr = "null" /\ c.fd = call[t].fd /\ c.op = call[t].op
  BY DEF NoCall
<1>2. Goto(t, "return", c)
  BY DEF Finish
<1> HIDE DEF c
<1> QED
  BY <1>1, <1>2, GotoFacts

\* Steps that touch no descriptor in a way that matters.
LEMMA QuietStep ==
    ASSUME TableInv, NEW t \in Threads, Others(t), \A f \in Fds : Same(f) /\ ~Holds(t, f)'
    PROVE  TableInv'
  BY SameTableAt DEF TableInv

LEMMA OneDescriptorStep ==
    ASSUME TableInv, NEW t \in Threads, Others(t), NEW f \in Fds, TableAt(f)',
           \A g \in Fds \ {f} : Same(g) /\ ~Holds(t, g)'
    PROVE  TableInv'
  BY SameTableAt DEF TableInv

LEMMA OpenKeepsTable ==
    ASSUME RegInv, NEW t \in Threads, NEW p \in Paths, NEW mode \in OpenModes, Open(t, p, mode)
    PROVE  TableInv'
<1>1. CASE /\ UNCHANGED <<dir, data, kernel>>
           /\ Goto(t, "return", [NoCall EXCEPT !.op = "open", !.res = <<"open", None>>])
  <2> DEFINE c == [NoCall EXCEPT !.op = "open", !.res = <<"open", None>>]
  <2>1. Others(t) /\ pc'[t] = "return" /\ call'[t].fd = None
    <3>1. c.fd = None
      BY DEF NoCall
    <3>2. Goto(t, "return", c)
      BY <1>1
    <3> HIDE DEF c
    <3> QED
      BY <3>1, <3>2, GotoFacts DEF RegInv
  <2>2. \A f \in Fds : Same(f) /\ ~Holds(t, f)'
    BY <1>1, <2>1, NoneAssumption DEF Same, Holds, Open
  <2> QED
    BY <2>1, <2>2, QuietStep DEF RegInv
<1>2. ASSUME NEW f \in Fds, RealOpen(f, p, mode),
             Goto(t, IF p \in Intercepted THEN "open_register" ELSE "return",
                  [NoCall EXCEPT !.op = "open", !.fd = f, !.path = p, !.res = <<"open", f>>])
      PROVE  TableInv'
  <2>1. /\ Others(t) /\ pc'[t] = (IF p \in Intercepted THEN "open_register" ELSE "return")
        /\ call'[t].fd = f /\ call'[t].path = p
    <3> DEFINE c == [NoCall EXCEPT !.op = "open", !.fd = f, !.path = p, !.res = <<"open", f>>]
               l == IF p \in Intercepted THEN "open_register" ELSE "return"
    <3>1. c.fd = f /\ c.path = p
      BY DEF NoCall
    <3>2. Goto(t, l, c)
      BY <1>2
    <3> HIDE DEF c
    <3> QED
      BY <3>1, <3>2, GotoFacts DEF RegInv
  <2>2. /\ kernel[f] = None
        /\ \E k \in OpenFile : k.path = p /\ kernel' = [kernel EXCEPT ![f] = k]
    <3>1. PICK i \in Inodes :
            kernel' = [kernel EXCEPT ![f] = [path |-> p, ino |-> i, off |-> 0,
                                             append |-> "O_APPEND" \in mode]]
      BY <1>2 DEF RealOpen
    <3>2. [path |-> p, ino |-> i, off |-> 0, append |-> "O_APPEND" \in mode] \in OpenFile
      BY DEF OpenFile
    <3> QED
      BY <1>2, <3>1, <3>2 DEF RealOpen
  <2>3. kernel'[f] # None /\ kernel'[f].path = p /\ \A g \in Fds \ {f} : kernel'[g] = kernel[g]
    BY <2>2, NoneAssumption DEF RegInv, TypeInv, TypeOK
  <2>4. UNCHANGED <<posix_files_, owner>>
    BY DEF Open
  <2>5. posix_files_[f] = None /\ owner[f] = None /\ \A u \in Threads : ~Holds(u, f)
    BY <2>2 DEF RegInv, TableInv, TableAt, Agrees, Held
  <2>6. TableAt(f)'
    <3>1. ASSUME NEW u \in Threads, Holds(u, f)' PROVE u = t
      BY <2>1, <2>5, <3>1 DEF Others, Holds
    <3>2. Held(t, f)'
      BY <2>1, <2>3, <2>4, <2>5, <3>1 DEF Held, Agrees
    <3> QED
      BY <2>3, <2>4, <2>5, <3>1, <3>2 DEF TableAt
  <2>7. \A g \in Fds \ {f} : Same(g) /\ ~Holds(t, g)'
    BY <2>1, <2>3, <2>4 DEF Same, Holds
  <2> QED
    BY <2>1, <2>6, <2>7, OneDescriptorStep DEF RegInv
<1> QED
  BY <1>1, <1>2 DEF Open

LEMMA GotoKeepsTable ==
    ASSUME RegInv, NEW t \in Threads, NEW c,
           NEW label \in (IoPCs \union SeekPCs) \union {"idle"},
           Goto(t, label, c), UNCHANGED <<kernel, posix_files_, owner>>
    PROVE  TableInv'
<1>1. Others(t) /\ pc'[t] = label
  BY GotoFacts DEF RegInv
<1>2. \A f \in Fds : Same(f) /\ ~Holds(t, f)'
  BY <1>1 DEF Same, Holds, IoPCs, SeekPCs, ClosePCs
<1> QED
  BY <1>1, <1>2, QuietStep DEF RegInv

LEMMA FinishKeepsTable ==
    ASSUME RegInv, NEW t \in Threads, NEW r, Finish(t, r), call[t].op # "open",
           \A f \in Fds : Same(f)
    PROVE  TableInv'
<1>1. Others(t) /\ pc'[t] = "return" /\ call'[t].op # "open"
  BY FinishFacts DEF RegInv
<1>2. \A f \in Fds : ~Holds(t, f)'
  BY <1>1 DEF Holds, ClosePCs
<1> QED
  BY <1>1, <1>2, QuietStep DEF RegInv

\* Moving offsets, in the kernel or in the table, changes nothing that Same sees.
LEMMA MoveIsSame ==
    ASSUME RegInv, NEW f \in Fds, NEW o \in Nat, UNCHANGED owner,
           \/ /\ UNCHANGED posix_files_
              /\ kernel' = [kernel EXCEPT ![f].off = o]
              /\ kernel[f] # None
           \/ UNCHANGED kernel /\ posix_files_' = UpdateOffset(posix_files_, f, o)
    PROVE  \A g \in Fds : Same(g)
<1>1. CASE /\ UNCHANGED posix_files_ /\ kernel[f] # None
           /\ kernel' = [kernel EXCEPT ![f].off = o]
  <2>1. kernel[f] \in OpenFile /\ kernel \in [Fds -> OpenFile \union {None}]
    BY <1>1 DEF RegInv, TypeInv, TypeOK
  <2>2. [kernel[f] EXCEPT !.off = o] \in OpenFile /\ [kernel[f] EXCEPT !.off = o].path = kernel[f].path
    BY <2>1 DEF OpenFile
  <2>3. kernel'[f] # None /\ kernel'[f].path = kernel[f].path
    BY <1>1, <2>1, <2>2, NoneAssumption
  <2>4. \A g \in Fds \ {f} : kernel'[g] = kernel[g]
    BY <1>1, <2>1
  <2> QED
    BY <1>1, <2>3, <2>4 DEF Same
<1>2. CASE UNCHANGED kernel /\ posix_files_' = UpdateOffset(posix_files_, f, o)
  BY <1>2, UpdateOffsetType DEF RegInv, Same
<1> QED
  BY <1>1, <1>2

LEMMA OpenRegisterKeepsTable ==
    ASSUME RegInv, NEW t \in Threads, OpenRegister(t)
    PROVE  TableInv'
<1>0. PICK f \in Fds : f = call[t].fd
  BY CallType DEF RegInv, OpenRegister, Locals
<1>1. /\ pc[t] = "open_register" /\ call[t].op = "open"
      /\ UNCHANGED <<kernel, owner>> /\ Finish(t, call[t].res)
      /\ posix_files_' = [posix_files_ EXCEPT ![f] = FileInfo(call[t].path)]
  BY <1>0, CallType DEF RegInv, OpenRegister, Register, Locals
<1>2. Others(t) /\ pc'[t] = "return" /\ call'[t].fd = f /\ call'[t].op = "open"
  BY <1>0, <1>1, FinishFacts DEF RegInv
<1>3. TableAt(f) /\ Holds(t, f) /\ Held(t, f)
  BY <1>0, <1>1 DEF RegInv, TableInv, TableAt, Holds
<1>4. posix_files_'[f] # None /\ posix_files_'[f].absolute_path = call[t].path
  <2>1. FileInfo(call[t].path) \in Entry
    BY <1>1, CallType DEF RegInv, Locals, FileInfo, Entry
  <2> QED
    <3>1. FileInfo(call[t].path).absolute_path = call[t].path
      BY DEF FileInfo
    <3> QED
      BY <1>1, <2>1, <3>1, NoneAssumption DEF RegInv, TypeInv, TypeOK
<1>5. Agrees(f)'
  BY <1>1, <1>3, <1>4 DEF Held, Agrees
<1>6. TableAt(f)'
  <2>1. ASSUME NEW u \in Threads, Holds(u, f)' PROVE u = t
    BY <1>2, <1>3, <2>1 DEF Others, Holds, Held
  <2>2. Held(t, f)'
    BY <1>1, <1>2, <1>3, <1>5, <2>1 DEF Held
  <2> QED
    BY <1>1, <1>3, <1>5, <2>1, <2>2 DEF TableAt, Held
<1>7. \A g \in Fds \ {f} : Same(g) /\ ~Holds(t, g)'
  BY <1>1, <1>2 DEF Same, Holds, RegInv, TypeInv, TypeOK
<1> QED
  BY <1>1, <1>2, <1>6, <1>7, OneDescriptorStep DEF RegInv

LEMMA ReturnKeepsTable ==
    ASSUME RegInv, NEW t \in Threads, Return(t)
    PROVE  TableInv'
<1>1. /\ pc[t] = "return" /\ UNCHANGED <<kernel, posix_files_>>
      /\ Others(t) /\ pc'[t] = "idle" /\ \A g \in Fds : ~Holds(t, g)'
  <2>1. Others(t) /\ pc'[t] = "idle"
    BY GotoFacts DEF RegInv, Return
  <2> QED
    BY <2>1 DEF Return, Holds, ClosePCs
<1>2. CASE call[t].op = "open" /\ call[t].fd # None
  <2>1. PICK f \in Fds : f = call[t].fd
    BY <1>2, CallType DEF RegInv, Call
  <2>2. owner' = [owner EXCEPT ![f] = t]
    BY <1>2, <2>1 DEF Return
  <2>3. TableAt(f) /\ Holds(t, f) /\ Held(t, f) /\ Agrees(f)
    BY <1>1, <1>2, <2>1 DEF RegInv, TableInv, TableAt, Holds, Held
  <2>4. TableAt(f)'
    <3>1. ASSUME NEW u \in Threads, Holds(u, f)' PROVE FALSE
      BY <1>1, <2>1, <2>3, <3>1 DEF Others, Holds, Held
    <3> QED
      BY <1>1, <2>3, <3>1 DEF TableAt, Agrees
  <2>5. \A g \in Fds \ {f} : Same(g)
    BY <1>1, <2>2 DEF Same, RegInv, TypeInv, TypeOK
  <2> QED
    BY <1>1, <2>1, <2>4, <2>5, OneDescriptorStep DEF RegInv
<1>3. CASE ~(call[t].op = "open" /\ call[t].fd # None)
  <2>1. \A g \in Fds : Same(g)
    BY <1>1, <1>3 DEF Same, Return
  <2> QED
    BY <1>1, <2>1, QuietStep DEF RegInv
<1> QED
  BY <1>2, <1>3

\* A close takes the descriptor out of use before it touches anything else.
LEMMA CloseCallKeepsTable ==
    ASSUME RegInv, NEW t \in Threads, NEW f \in Fds, CloseCall(t, f)
    PROVE  TableInv'
<1>1. /\ owner[f] # None /\ owner' = [owner EXCEPT ![f] = None]
      /\ UNCHANGED <<kernel, posix_files_>>
  BY DEF CloseCall, MayUse
<1>2. TableAt(f) /\ Agrees(f) /\ \A u \in Threads : ~Holds(u, f)
  BY <1>1 DEF RegInv, TableInv, TableAt, Held
<1>3. /\ Others(t) /\ call'[t].fd = f
      /\ pc'[t] = IF posix_files_[f] # None THEN "close_unregister" ELSE "close_real"
  <2> DEFINE c == [NoCall EXCEPT !.op = "close", !.fd = f]
             l == IF IsRegistered(posix_files_, f) THEN "close_unregister" ELSE "close_real"
  <2>1. c.fd = f
    BY DEF NoCall
  <2>2. Goto(t, l, c)
    BY DEF CloseCall
  <2> HIDE DEF c
  <2> QED
    BY <2>1, <2>2, GotoFacts DEF RegInv, IsRegistered
<1>4. TableAt(f)'
  <2>1. owner'[f] = None
    BY <1>1 DEF RegInv, TypeInv, TypeOK
  <2>2. ASSUME NEW u \in Threads, Holds(u, f)' PROVE u = t
    BY <1>2, <1>3, <2>2 DEF Others, Holds
  <2>3. Held(t, f)'
    BY <1>1, <1>2, <1>3, <2>1, <2>2 DEF Held, Agrees
  <2> QED
    BY <1>1, <1>2, <2>1, <2>2, <2>3 DEF TableAt
<1>5. \A g \in Fds \ {f} : Same(g) /\ ~Holds(t, g)'
  BY <1>1, <1>3 DEF Same, Holds, RegInv, TypeInv, TypeOK
<1> QED
  BY <1>3, <1>4, <1>5, OneDescriptorStep DEF RegInv

LEMMA CloseUnregisterKeepsTable ==
    ASSUME RegInv, NEW t \in Threads, CloseUnregister(t)
    PROVE  TableInv'
<1>0. PICK f \in Fds : f = call[t].fd
  BY CallType DEF RegInv, CloseUnregister, Locals
<1>1. /\ pc[t] = "close_unregister" /\ UNCHANGED <<kernel, owner>>
      /\ posix_files_' = [posix_files_ EXCEPT ![f] = None]
      /\ pc' = [pc EXCEPT ![t] = "close_real"]
  BY <1>0 DEF CloseUnregister, Unregister
<1>2. ASSUME NEW u \in Threads
      PROVE  call'[u].fd = call[u].fd /\ call'[u].op = call[u].op /\ call'[u].path = call[u].path
  <2>1. call[u] \in Call
    BY CallType DEF RegInv
  <2>2. call'[u] \in {[call[u] EXCEPT !.res = <<"close", 0>>], [call[u] EXCEPT !.ptr = "dangling"],
                      call[u]}
    BY DEF CloseUnregister, Erase
  <2> QED
    BY <2>1, <2>2 DEF Call
<1>3. Others(t) /\ pc'[t] = "close_real" /\ call'[t].fd = f
  BY <1>0, <1>1, <1>2 DEF Others, RegInv, TypeInv, TypeOK
<1>4. TableAt(f) /\ Holds(t, f) /\ Held(t, f)
  BY <1>0, <1>1 DEF RegInv, TableInv, TableAt, Holds, ClosePCs
<1>5. TableAt(f)'
  <2>1. posix_files_'[f] = None
    BY <1>1 DEF RegInv, TypeInv, TypeOK
  <2>2. ASSUME NEW u \in Threads, Holds(u, f)' PROVE u = t
    BY <1>3, <1>4, <2>2 DEF Others, Holds, Held
  <2>3. Held(t, f)'
    BY <1>1, <1>3, <1>4, <2>1, <2>2 DEF Held
  <2> QED
    BY <1>1, <1>4, <2>1, <2>2, <2>3 DEF TableAt, Held
<1>6. \A g \in Fds \ {f} : Same(g) /\ ~Holds(t, g)'
  BY <1>1, <1>3 DEF Same, Holds, RegInv, TypeInv, TypeOK
<1> QED
  BY <1>3, <1>5, <1>6, OneDescriptorStep DEF RegInv

\* The real close gives the number back to the kernel: no entry is left under it.
LEMMA CloseRealKeepsTable ==
    ASSUME RegInv, NEW t \in Threads, CloseReal(t)
    PROVE  TableInv'
<1>0. PICK f \in Fds : f = call[t].fd
  BY CallType DEF RegInv, CloseReal, Locals
<1>1. /\ pc[t] = "close_real" /\ call[t].op = "close" /\ UNCHANGED <<posix_files_, owner>>
      /\ kernel' = [kernel EXCEPT ![f] = None]
  BY <1>0, CallType DEF RegInv, CloseReal, Locals, ClosePCs
<1>2. Others(t) /\ pc'[t] = "return" /\ call'[t].op = "close"
  BY <1>1, FinishFacts DEF RegInv, CloseReal
<1>3. TableAt(f) /\ Holds(t, f) /\ Held(t, f)
  BY <1>0, <1>1 DEF RegInv, TableInv, TableAt, Holds, ClosePCs
<1>4. \A g \in Fds : ~Holds(t, g)'
  BY <1>2 DEF Holds, ClosePCs
<1>5. TableAt(f)'
  <2>1. ASSUME NEW u \in Threads, Holds(u, f)' PROVE FALSE
    BY <1>2, <1>3, <1>4, <2>1 DEF Others, Holds, Held
  <2> QED
    BY <1>1, <1>3, <2>1 DEF TableAt, Held
<1>6. \A g \in Fds \ {f} : Same(g)
  BY <1>1 DEF Same, RegInv, TypeInv, TypeOK
<1> QED
  BY <1>2, <1>4, <1>5, <1>6, OneDescriptorStep DEF RegInv

\* The real read and write move the kernel's offset and nothing else.
LEMMA IoRealIsSame ==
    ASSUME RegInv, NEW t \in Threads, IoReal(t)
    PROVE  (\E r : Finish(t, r)) /\ (\A g \in Fds : Same(g)) /\ call[t].op # "open"
<1>1. /\ pc[t] = "io_real" /\ call[t].fd \in Fds /\ call[t].op # "open" /\ call[t].n \in Nat
      /\ call[t].op \in {"read", "write"} /\ UNCHANGED <<posix_files_, owner>>
  BY CallType DEF RegInv, IoReal, Locals, IoPCs
<1>2. CASE kernel[call[t].fd] = None
  <2>1. UNCHANGED kernel /\ Finish(t, <<call[t].op, None>>)
    BY <1>2 DEF IoReal
  <2>2. \A g \in Fds : Same(g)
    BY <1>1, <2>1 DEF Same
  <2> QED
    BY <1>1, <2>1, <2>2
<1>3. CASE kernel[call[t].fd] # None
  <2> DEFINE k == kernel[call[t].fd]
             got == ReadAt(data[k.ino], k.off, call[t].n)
             off == IF k.append THEN Len(data[k.ino]) ELSE k.off
  <2>1. k \in OpenFile
    BY <1>1, <1>3 DEF RegInv, TypeInv, TypeOK
  <2>2. k.off \in Nat /\ data[k.ino] \in Seq(Bytes)
    BY <2>1 DEF OpenFile, RegInv, TypeInv, TypeOK
  <2>3. Len(got) \in Nat /\ off \in Nat
    <3>1. got \in Seq(Bytes)
      BY <1>1, <2>2, ReadAtType
    <3> QED
      BY <2>2, <3>1
  <2> HIDE DEF got, off
  <2>4. \E o \in Nat : \E r : kernel' = [kernel EXCEPT ![call[t].fd].off = o] /\ Finish(t, r)
    <3>1. CASE call[t].op = "read"
      <4>1. kernel' = [kernel EXCEPT ![call[t].fd].off = k.off + Len(got)] /\ Finish(t, <<"read", got>>)
        BY <1>3, <3>1 DEF IoReal, got
      <4>2. k.off + Len(got) \in Nat
        BY <2>2, <2>3
      <4> QED
        BY <4>1, <4>2
    <3>2. CASE call[t].op = "write"
      <4>1. kernel' = [kernel EXCEPT ![call[t].fd].off = off + call[t].n] /\ Finish(t, <<"write", call[t].n>>)
        BY <1>3, <3>2 DEF IoReal, off
      <4>2. off + call[t].n \in Nat
        BY <1>1, <2>3
      <4> QED
        BY <4>1, <4>2
    <3> QED
      BY <1>1, <3>1, <3>2
  <2>5. PICK o \in Nat : \E r : kernel' = [kernel EXCEPT ![call[t].fd].off = o] /\ Finish(t, r)
    BY <2>4
  <2>6. PICK r : kernel' = [kernel EXCEPT ![call[t].fd].off = o] /\ Finish(t, r)
    BY <2>5
  <2>7. \A g \in Fds : Same(g)
    BY <1>1, <1>3, <2>6, MoveIsSame
  <2> QED
    BY <1>1, <2>6, <2>7
<1> QED
  BY <1>2, <1>3

LEMMA SeekRealIsSame ==
    ASSUME RegInv, NEW t \in Threads, SeekReal(t)
    PROVE  /\ \A g \in Fds : Same(g)
           /\ UNCHANGED <<posix_files_, owner>> /\ call[t].op # "open" /\ Running(t)
           /\ \/ \E r : Finish(t, r)
              \/ \E pos, r : /\ pc[t] = "seek_real"
                             /\ Goto(t, "seek_update", [call[t] EXCEPT !.off = pos, !.res = r])
<1> DEFINE k == kernel[call[t].fd]
           pos == SeekTarget(data[k.ino], k.off, call[t].whence, call[t].off)
<1>1. /\ call[t] \in Call /\ call[t].fd \in Fds /\ call[t].op = "lseek"
      /\ call[t].off \in Nat /\ UNCHANGED <<posix_files_, owner>> /\ Running(t)
  BY CallType DEF RegInv, SeekReal, Locals, SeekPCs, Running
<1>2. CASE k = None
  <2>1. UNCHANGED kernel /\ Finish(t, <<"lseek", None>>)
    BY <1>2 DEF SeekReal
  <2> QED
    BY <1>1, <2>1 DEF Same
<1>3. CASE k # None
  <2>1. k \in OpenFile
    BY <1>1, <1>3 DEF RegInv, TypeInv, TypeOK
  <2>2. k.off \in Nat /\ data[k.ino] \in Seq(Bytes) /\ call[t].whence \in Whences
    BY <1>1, <2>1 DEF OpenFile, RegInv, TypeInv, TypeOK, Call
  <2>3. pos \in Nat
    BY <1>1, <2>2, SeekTargetType
  <2>4. /\ kernel' = [kernel EXCEPT ![call[t].fd].off = pos]
        /\ \/ Finish(t, <<"lseek", pos>>)
           \/ /\ pc[t] = "seek_real"
              /\ Goto(t, "seek_update", [call[t] EXCEPT !.off = pos, !.res = <<"lseek", pos>>])
    BY <1>3 DEF SeekReal
  <2> HIDE DEF pos
  <2>5. \A g \in Fds : Same(g)
    BY <1>1, <1>3, <2>3, <2>4, MoveIsSame
  <2> QED
    BY <1>1, <2>4, <2>5
<1> QED
  BY <1>2, <1>3

LEMMA RealKeepsTable ==
    ASSUME RegInv, NEW t \in Threads, IoReal(t) \/ SeekReal(t)
    PROVE  TableInv'
<1>1. (\A g \in Fds : Same(g)) /\ call[t].op # "open"
  BY IoRealIsSame, SeekRealIsSame
<1>2. ASSUME NEW c, Goto(t, "seek_update", c) PROVE TableInv'
  <2>1. Others(t) /\ pc'[t] = "seek_update"
    BY <1>2, GotoFacts DEF RegInv
  <2>2. \A g \in Fds : ~Holds(t, g)'
    BY <2>1 DEF Holds, ClosePCs
  <2> QED
    BY <1>1, <2>1, <2>2, QuietStep DEF RegInv
<1>3. ASSUME NEW r, Finish(t, r) PROVE TableInv'
  BY <1>1, <1>3, FinishKeepsTable
<1> QED
  BY <1>2, <1>3, IoRealIsSame, SeekRealIsSame

LEMMA StoreIsSame ==
    ASSUME RegInv, NEW t \in Threads, IoStore(t) \/ SeekUpdate(t)
    PROVE  (\E r : Finish(t, r)) /\ (\A g \in Fds : Same(g)) /\ call[t].op # "open"
<1>1. /\ call[t].fd \in Fds /\ call[t].off \in Nat /\ call[t].op # "open"
      /\ UNCHANGED <<kernel, owner>> /\ Finish(t, call[t].res)
      /\ posix_files_' = UpdateOffset(posix_files_, call[t].fd, call[t].off)
  BY CallType DEF RegInv, IoStore, SeekUpdate, Locals, IoPCs, SeekPCs
<1>2. \A g \in Fds : Same(g)
  BY <1>1, MoveIsSame
<1> QED
  BY <1>1, <1>2

LEMMA StoreKeepsTable ==
    ASSUME RegInv, NEW t \in Threads, IoStore(t) \/ SeekUpdate(t)
    PROVE  TableInv'
  BY StoreIsSame, FinishKeepsTable

LEMMA UnlinkKeepsTable ==
    ASSUME RegInv, NEW t \in Threads, NEW p \in Paths, Unlink(t, p)
    PROVE  TableInv'
<1> DEFINE c == [NoCall EXCEPT !.op = "unlink", !.path = p, !.res = <<"unlink", 0>>]
<1>1. c.op = "unlink"
  BY DEF NoCall
<1>2. Goto(t, "return", c) /\ UNCHANGED <<kernel, posix_files_, owner>>
  BY DEF Unlink
<1> HIDE DEF c
<1>3. Others(t) /\ pc'[t] = "return" /\ call'[t].op = "unlink"
  BY <1>1, <1>2, GotoFacts DEF RegInv
<1>4. \A f \in Fds : Same(f) /\ ~Holds(t, f)'
  BY <1>2, <1>3 DEF Same, Holds, ClosePCs
<1> QED
  BY <1>3, <1>4, QuietStep DEF RegInv

\* The calls and the steps of the data path leave table and kernel alone.
LEMMA BeginIoKeepsTable ==
    ASSUME RegInv, NEW t \in Threads,
           \/ \E op, n, v : \E f \in Fds : IoCall(t, op, f, n, v)
           \/ \E whence, d : \E f \in Fds : SeekCall(t, f, whence, d)
    PROVE  TableInv'
<1>1. UNCHANGED <<kernel, posix_files_, owner>>
  BY DEF IoCall, SeekCall
<1>2. \E label \in IoPCs \union SeekPCs : \E c : Goto(t, label, c)
  BY DEF IoCall, SeekCall, IoPCs, SeekPCs
<1> QED
  BY <1>1, <1>2, GotoKeepsTable

LEMMA IoKeepsTable ==
    ASSUME RegInv, NEW t \in Threads,
           IoInfo(t) \/ IoSubmit(t) \/ Serve(t) \/ IoOffset(t)
    PROVE  TableInv'
<1>1. UNCHANGED <<kernel, posix_files_, owner>>
  BY DEF IoInfo, IoSubmit, Serve, IoOffset
<1>2. \E label \in IoPCs : \E c : Goto(t, label, c)
  BY DEF IoInfo, IoSubmit, Serve, Served, IoOffset, IoPCs
<1> QED
  BY <1>1, <1>2, GotoKeepsTable

LEMMA RegInit == Init => RegInv
  BY TypeInit, NoneAssumption DEF Init, RegInv, TableInv, TableAt, Holds, NoCall, ClosePCs

LEMMA RegStep == RegInv /\ [Next]_vars => RegInv'
<1> SUFFICES ASSUME RegInv, [Next]_vars PROVE TableInv'
  BY TypeStep DEF RegInv
<1>1. CASE UNCHANGED vars
  BY <1>1 DEF vars, RegInv, TableInv, TableAt, Holds, Held, Agrees
<1>2. ASSUME NEW t \in Threads, Begin(t) PROVE TableInv'
  BY <1>2, OpenKeepsTable, BeginIoKeepsTable, CloseCallKeepsTable, UnlinkKeepsTable DEF Begin
<1>3. ASSUME NEW t \in Threads, Step(t) PROVE TableInv'
  BY <1>3, OpenRegisterKeepsTable, IoKeepsTable, RealKeepsTable, StoreKeepsTable,
     CloseUnregisterKeepsTable, CloseRealKeepsTable, ReturnKeepsTable DEF Step
<1> QED
  BY <1>1, <1>2, <1>3 DEF Next

\* Whatever the program does, closing descriptors under running calls included,
\* the table never disagrees with the kernel about a descriptor in use.
THEOREM RegistrationCorrect == Spec => []RegistrationMatchesKernel
<1>1. RegInv => RegistrationMatchesKernel
  BY DEF RegInv, TableInv, TableAt, RegistrationMatchesKernel
<1> QED
  BY RegInit, RegStep, <1>1, PTL DEF Spec

-----------------------------------------------------------------------------
\* What Routed says of a thread depends on its call and, while the call runs, on
\* the owner and the entry of its descriptor.
LEMMA RoutedFrame ==
    ASSUME NEW u \in Threads, Routed(u), pc'[u] = pc[u], call'[u] = call[u],
           Running(u) => LET f == call[u].fd IN
               /\ owner'[f] # None
               /\ posix_files_'[f] = None <=> posix_files_[f] = None
               /\ posix_files_[f] # None
                    => posix_files_'[f].absolute_path = posix_files_[f].absolute_path
    PROVE  Routed(u)'
  BY DEF Routed, Running, IoPCs, SeekPCs

\* t is not in a transfer or a seek: Routed asks only that it holds no pointer.
LEMMA NotRunning ==
    ASSUME NEW t \in Threads, ~Running(t), call[t].ptr = "null"
    PROVE  Routed(t)
  BY DEF Running, Routed, IoPCs, SeekPCs

LEMMA RunningFacts ==
    ASSUME RegInv, NEW u \in Threads, Routed(u), Running(u)
    PROVE  /\ call[u].fd \in Fds /\ owner[call[u].fd] # None
           /\ \A t \in Threads : ~Holds(t, call[u].fd)
<1>1. call[u].fd \in Fds /\ owner[call[u].fd] # None
  BY CallType DEF RegInv, Locals, Running, Routed, IoPCs, SeekPCs
<1> QED
  BY <1>1 DEF RegInv, TableInv, TableAt, Held

\* A step of t that leaves the entries and the owners as they are for the
\* descriptors of the running calls keeps Routed for every other thread.
LEMMA RoutedElsewhere ==
    ASSUME RegInv, NEW t \in Threads, \A u \in Threads : Routed(u),
           \A u \in Threads \ {t} : pc'[u] = pc[u] /\ call'[u] = call[u],
           \A f \in Fds : Same(f) \/ \A u \in Threads \ {t} : Running(u) => call[u].fd # f,
           Routed(t)'
    PROVE  \A u \in Threads : Routed(u)'
<1>1. ASSUME NEW u \in Threads \ {t} PROVE Routed(u)'
  <2>1. CASE Running(u)
    <3>1. Same(call[u].fd) /\ owner[call[u].fd] # None
      BY <2>1, RunningFacts
    <3> QED
      BY <3>1, RoutedFrame DEF Same
  <2>2. CASE ~Running(u)
    BY <2>2, RoutedFrame
  <2> QED
    BY <2>1, <2>2
<1> QED
  BY <1>1

LEMMA GotoOthers ==
    ASSUME TypeInv, NEW t \in Threads, NEW label, NEW c, Goto(t, label, c)
    PROVE  \A u \in Threads \ {t} : pc'[u] = pc[u] /\ call'[u] = call[u]
  BY DEF Goto, TypeInv, TypeOK

LEMMA FinishKeepsRouted ==
    ASSUME RegInv, NEW t \in Threads, \A u \in Threads : Routed(u), NEW r, Finish(t, r),
           \A f \in Fds : Same(f) \/ \A u \in Threads \ {t} : Running(u) => call[u].fd # f
    PROVE  \A u \in Threads : Routed(u)'
<1>1. \A u \in Threads \ {t} : pc'[u] = pc[u] /\ call'[u] = call[u]
  BY GotoOthers DEF Finish, RegInv
<1>2. pc'[t] = "return" /\ call'[t].ptr = "null"
  BY FinishFacts DEF RegInv
<1>3. Routed(t)'
  BY <1>2 DEF Routed, IoPCs, SeekPCs
<1> QED
  BY <1>1, <1>3, RoutedElsewhere

LEMMA GotoKeepsRouted ==
    ASSUME RegInv, NEW t \in Threads, \A u \in Threads : Routed(u), NEW label, NEW c,
           Goto(t, label, c),
           \A f \in Fds : Same(f) \/ \A u \in Threads \ {t} : Running(u) => call[u].fd # f,
           label \notin IoPCs \union SeekPCs, c.ptr = "null"
    PROVE  \A u \in Threads : Routed(u)'
<1>1. \A u \in Threads \ {t} : pc'[u] = pc[u] /\ call'[u] = call[u]
  BY GotoOthers DEF RegInv
<1>2. pc'[t] = label /\ call'[t] = c
  BY GotoFacts DEF RegInv
<1>3. Routed(t)'
  BY <1>2 DEF Routed, IoPCs, SeekPCs
<1> QED
  BY <1>1, <1>3, RoutedElsewhere

\* A running call begins with the descriptor in use and on the branch that the
\* table calls for.
LEMMA IoCallKeepsRouted ==
    ASSUME RegInv, NEW t \in Threads, \A u \in Threads : Routed(u), NEW op, NEW f \in Fds,
           NEW n, NEW v, IoCall(t, op, f, n, v)
    PROVE  \A u \in Threads : Routed(u)'
<1> DEFINE c == [NoCall EXCEPT !.op = op, !.fd = f, !.n = n, !.val = v]
           l == IF posix_files_[f] # None THEN "io_info" ELSE "io_real"
<1>1. c.fd = f /\ c.ptr = "null"
  BY DEF NoCall
<1>2. Goto(t, l, c) /\ owner[f] # None /\ UNCHANGED <<kernel, posix_files_, owner>>
  BY DEF IoCall, IsRegistered, MayUse
<1> HIDE DEF c
<1>3. pc'[t] = l /\ call'[t] = c /\ \A u \in Threads \ {t} : pc'[u] = pc[u] /\ call'[u] = call[u]
  BY <1>2, GotoFacts, GotoOthers DEF RegInv
<1>4. Routed(t)'
  BY <1>1, <1>2, <1>3 DEF Routed, IoPCs, SeekPCs
<1>5. \A g \in Fds : Same(g)
  BY <1>2 DEF Same
<1> QED
  BY <1>3, <1>4, <1>5, RoutedElsewhere

LEMMA SeekCallKeepsRouted ==
    ASSUME RegInv, NEW t \in Threads, \A u \in Threads : Routed(u), NEW f \in Fds,
           NEW whence, NEW d, SeekCall(t, f, whence, d)
    PROVE  \A u \in Threads : Routed(u)'
<1> DEFINE c == [NoCall EXCEPT !.op = "lseek", !.fd = f, !.whence = whence, !.off = d]
           l == IF posix_files_[f] # None THEN "seek_real" ELSE "seek_raw"
<1>1. c.fd = f /\ c.ptr = "null"
  BY DEF NoCall
<1>2. Goto(t, l, c) /\ owner[f] # None /\ UNCHANGED <<kernel, posix_files_, owner>>
  BY DEF SeekCall, IsRegistered, MayUse
<1> HIDE DEF c
<1>3. pc'[t] = l /\ call'[t] = c /\ \A u \in Threads \ {t} : pc'[u] = pc[u] /\ call'[u] = call[u]
  BY <1>2, GotoFacts, GotoOthers DEF RegInv
<1>4. Routed(t)'
  BY <1>1, <1>2, <1>3 DEF Routed, IoPCs, SeekPCs
<1>5. \A g \in Fds : Same(g)
  BY <1>2 DEF Same
<1> QED
  BY <1>3, <1>4, <1>5, RoutedElsewhere

\* A step of a running call that stays running.
LEMMA IoKeepsRouted ==
    ASSUME RegInv, NEW t \in Threads, \A u \in Threads : Routed(u),
           IoInfo(t) \/ IoSubmit(t) \/ Serve(t) \/ IoOffset(t)
    PROVE  \A u \in Threads : Routed(u)'
<1>1. UNCHANGED <<kernel, posix_files_, owner>> /\ \A g \in Fds : Same(g)
  BY DEF IoInfo, IoSubmit, Serve, IoOffset, Same
<1>2. /\ call[t] \in Call /\ Routed(t) /\ Running(t)
      /\ \A l, c : Goto(t, l, c) =>
           /\ pc'[t] = l /\ call'[t] = c
           /\ \A u \in Threads \ {t} : pc'[u] = pc[u] /\ call'[u] = call[u]
  BY CallType, GotoFacts, GotoOthers
     DEF RegInv, IoInfo, IoSubmit, Serve, IoOffset, Running, IoPCs
<1>3. ASSUME NEW c, call'[t] = c, c.fd = call[t].fd, pc'[t] \in IoPCs \ {"io_info", "io_real"},
             c.ptr = "live", pc'[t] = "io_wait" => c.path = posix_files_[call[t].fd].absolute_path,
             posix_files_[call[t].fd] # None,
             \A u \in Threads \ {t} : pc'[u] = pc[u] /\ call'[u] = call[u]
      PROVE  \A u \in Threads : Routed(u)'
  <2>1. owner[call[t].fd] # None
    BY <1>2, RunningFacts
  <2>2. Routed(t)'
    BY <1>1, <1>3, <2>1 DEF Routed, IoPCs, SeekPCs
  <2> QED
    BY <1>1, <1>3, <2>2, RoutedElsewhere
<1>4. CASE IoInfo(t)
  <2> DEFINE c == [call[t] EXCEPT !.ptr = "live"]
  <2>1. pc[t] = "io_info" /\ posix_files_[call[t].fd] # None
    BY <1>2, <1>4 DEF IoInfo, Routed, IoPCs
  <2>2. Goto(t, "io_submit", c)
    BY <1>4, <2>1 DEF IoInfo, IsRegistered
  <2>3. c.fd = call[t].fd /\ c.ptr = "live"
    BY <1>2 DEF Call
  <2> HIDE DEF c
  <2> QED
    BY <1>2, <1>3, <2>1, <2>2, <2>3 DEF IoPCs
<1>5. CASE IoSubmit(t)
  <2>1. pc[t] = "io_submit" /\ posix_files_[call[t].fd] # None /\ call[t].ptr = "live"
    BY <1>2, <1>5, CallType DEF IoSubmit, Routed, IoPCs, RegInv
  <2> DEFINE info == posix_files_[call[t].fd]
             c == [call[t] EXCEPT !.path = info.absolute_path, !.off = info.current_offset]
  <2>2. Goto(t, "io_wait", c)
    BY <1>5, <2>1 DEF IoSubmit
  <2>3. c.fd = call[t].fd /\ c.ptr = "live" /\ c.path = info.absolute_path
    BY <1>2, <2>1 DEF Call
  <2> HIDE DEF c
  <2> QED
    BY <1>2, <1>3, <2>1, <2>2, <2>3 DEF IoPCs
<1>6. CASE Serve(t)
  <2>1. pc[t] = "io_wait" /\ posix_files_[call[t].fd] # None /\ call[t].ptr = "live"
    BY <1>2, <1>6, CallType DEF Serve, Routed, IoPCs, RegInv
  <2>2. PICK r : Goto(t, "io_offset", [call[t] EXCEPT !.res = r])
    BY <1>6 DEF Serve, Served
  <2> DEFINE c == [call[t] EXCEPT !.res = r]
  <2>3. c.fd = call[t].fd /\ c.ptr = "live"
    BY <1>2, <2>1 DEF Call
  <2>4. Goto(t, "io_offset", c)
    BY <2>2
  <2> HIDE DEF c
  <2> QED
    BY <1>2, <1>3, <2>1, <2>3, <2>4 DEF IoPCs
<1>7. CASE IoOffset(t)
  <2>1. pc[t] = "io_offset" /\ posix_files_[call[t].fd] # None /\ call[t].ptr = "live"
    BY <1>2, <1>7, CallType DEF IoOffset, Routed, IoPCs, RegInv
  <2>2. PICK o : Goto(t, "io_store", [call[t] EXCEPT !.off = o])
    BY <1>7 DEF IoOffset
  <2> DEFINE c == [call[t] EXCEPT !.off = o]
  <2>3. c.fd = call[t].fd /\ c.ptr = "live"
    BY <1>2, <2>1 DEF Call
  <2>4. Goto(t, "io_store", c)
    BY <2>2
  <2> HIDE DEF c
  <2> QED
    BY <1>2, <1>3, <2>1, <2>3, <2>4 DEF IoPCs
<1> QED
  BY <1>4, <1>5, <1>6, <1>7

LEMMA RealKeepsRouted ==
    ASSUME RegInv, NEW t \in Threads, \A u \in Threads : Routed(u), IoReal(t) \/ SeekReal(t)
    PROVE  \A u \in Threads : Routed(u)'
<1>1. \A g \in Fds : Same(g)
  BY IoRealIsSame, SeekRealIsSame
<1>2. ASSUME NEW r, Finish(t, r) PROVE \A u \in Threads : Routed(u)'
  BY <1>1, <1>2, FinishKeepsRouted
<1>3. ASSUME SeekReal(t), NEW pos, NEW r, pc[t] = "seek_real",
             Goto(t, "seek_update", [call[t] EXCEPT !.off = pos, !.res = r])
      PROVE  \A u \in Threads : Routed(u)'
  <2> DEFINE c == [call[t] EXCEPT !.off = pos, !.res = r]
  <2>1. UNCHANGED <<posix_files_, owner>> /\ Running(t)
    BY <1>3, SeekRealIsSame
  <2>2. owner[call[t].fd] # None /\ posix_files_[call[t].fd] # None /\ call[t].ptr = "null"
    BY <1>3, <2>1, RunningFacts DEF Routed, SeekPCs
  <2>3. c.fd = call[t].fd /\ c.ptr = call[t].ptr
    <3>1. call[t] \in Call
      BY CallType DEF RegInv
    <3> QED
      BY <3>1 DEF Call
  <2>4. Goto(t, "seek_update", c)
    BY <1>3
  <2> HIDE DEF c
  <2>5. /\ pc'[t] = "seek_update" /\ call'[t] = c
        /\ \A u \in Threads \ {t} : pc'[u] = pc[u] /\ call'[u] = call[u]
    BY <2>4, GotoFacts, GotoOthers DEF RegInv
  <2>6. Routed(t)'
    BY <2>1, <2>2, <2>3, <2>5 DEF Routed, IoPCs, SeekPCs
  <2> QED
    BY <1>1, <2>5, <2>6, RoutedElsewhere
<1> QED
  BY <1>2, <1>3, IoRealIsSame, SeekRealIsSame

LEMMA OpenKeepsRouted ==
    ASSUME RegInv, NEW t \in Threads, \A u \in Threads : Routed(u), NEW p \in Paths,
           NEW mode \in OpenModes, Open(t, p, mode)
    PROVE  \A u \in Threads : Routed(u)'
<1>1. UNCHANGED <<posix_files_, owner>>
  BY DEF Open
<1>2. \E label, c : /\ Goto(t, label, c) /\ label \notin IoPCs \union SeekPCs
                    /\ c.ptr = "null"
  <2>1. CASE /\ UNCHANGED <<dir, data, kernel>>
             /\ Goto(t, "return", [NoCall EXCEPT !.op = "open", !.res = <<"open", None>>])
    <3> DEFINE c == [NoCall EXCEPT !.op = "open", !.res = <<"open", None>>]
    <3>1. c.ptr = "null"
      BY DEF NoCall
    <3>2. Goto(t, "return", c)
      BY <2>1
    <3> HIDE DEF c
    <3> QED
      BY <3>1, <3>2 DEF IoPCs, SeekPCs
  <2>2. ASSUME NEW f \in Fds,
               Goto(t, IF p \in Intercepted THEN "open_register" ELSE "return",
                    [NoCall EXCEPT !.op = "open", !.fd = f, !.path = p, !.res = <<"open", f>>])
        PROVE  \E label, c : /\ Goto(t, label, c) /\ label \notin IoPCs \union SeekPCs
                             /\ c.ptr = "null"
    <3> DEFINE c == [NoCall EXCEPT !.op = "open", !.fd = f, !.path = p, !.res = <<"open", f>>]
               l == IF p \in Intercepted THEN "open_register" ELSE "return"
    <3>1. c.ptr = "null"
      BY DEF NoCall
    <3>2. Goto(t, l, c) /\ l \in {"open_register", "return"}
      BY <2>2
    <3> HIDE DEF c, l
    <3> QED
      BY <3>1, <3>2 DEF IoPCs, SeekPCs
  <2> QED
    BY <2>1, <2>2 DEF Open
<1>3. PICK label, c : /\ Goto(t, label, c) /\ label \notin IoPCs \union SeekPCs
                      /\ c.ptr = "null"
  BY <1>2
<1>4. pc'[t] = label /\ call'[t] = c /\ \A u \in Threads \ {t} : pc'[u] = pc[u] /\ call'[u] = call[u]
  BY <1>3, GotoFacts, GotoOthers DEF RegInv
<1>5. Routed(t)'
  BY <1>3, <1>4 DEF Routed, IoPCs, SeekPCs
<1>6. \A u \in Threads \ {t} : Routed(u)'
  <2>1. ASSUME NEW u \in Threads \ {t} PROVE Routed(u)'
    <3>1. Running(u) => owner[call[u].fd] # None
      BY RunningFacts
    <3> QED
      BY <1>1, <1>4, <3>1, RoutedFrame
  <2> QED
    BY <2>1
<1> QED
  BY <1>5, <1>6

\* The thread that registers a descriptor has it to itself.
LEMMA OpenRegisterKeepsRouted ==
    ASSUME RegInv, NEW t \in Threads, \A u \in Threads : Routed(u), OpenRegister(t)
    PROVE  \A u \in Threads : Routed(u)'
<1>0. PICK f \in Fds : f = call[t].fd
  BY CallType DEF RegInv, OpenRegister, Locals
<1>1. /\ pc[t] = "open_register" /\ UNCHANGED <<kernel, owner>> /\ Finish(t, call[t].res)
      /\ posix_files_' = [posix_files_ EXCEPT ![f] = FileInfo(call[t].path)]
  BY <1>0 DEF OpenRegister, Register
<1>2. Holds(t, f)
  BY <1>0, <1>1 DEF Holds
<1>3. \A u \in Threads \ {t} : Running(u) => call[u].fd # f
  BY <1>2, RunningFacts
<1>4. \A g \in Fds \ {f} : Same(g)
  BY <1>1 DEF Same, RegInv, TypeInv, TypeOK
<1> QED
  BY <1>1, <1>3, <1>4, FinishKeepsRouted

\* Here the hypothesis is used: nobody is running a call on the descriptor.
LEMMA CloseCallKeepsRouted ==
    ASSUME RegInv, NEW t \in Threads, \A u \in Threads : Routed(u), NEW f \in Fds,
           CloseCall(t, f), "close_race" \notin Habits
    PROVE  \A u \in Threads : Routed(u)'
<1> DEFINE c == [NoCall EXCEPT !.op = "close", !.fd = f]
           l == IF IsRegistered(posix_files_, f) THEN "close_unregister" ELSE "close_real"
<1>1. c.ptr = "null"
  BY DEF NoCall
<1>2. /\ Goto(t, l, c) /\ l \notin IoPCs \union SeekPCs
      /\ owner' = [owner EXCEPT ![f] = None] /\ UNCHANGED <<kernel, posix_files_>>
  BY DEF CloseCall, IoPCs, SeekPCs
<1> HIDE DEF c, l
<1>3. \A u \in Threads : Running(u) => call[u].fd # f
  BY DEF CloseCall, Busy, Running, IoPCs, SeekPCs
<1>4. \A g \in Fds \ {f} : Same(g)
  BY <1>2 DEF Same, RegInv, TypeInv, TypeOK
<1> QED
  BY <1>1, <1>2, <1>3, <1>4, GotoKeepsRouted

\* No other wrapper holds a pointer to the entry that is erased.
LEMMA CloseUnregisterKeepsRouted ==
    ASSUME RegInv, NEW t \in Threads, \A u \in Threads : Routed(u), CloseUnregister(t)
    PROVE  \A u \in Threads : Routed(u)'
<1>0. PICK f \in Fds : f = call[t].fd
  BY CallType DEF RegInv, CloseUnregister, Locals
<1>1. /\ pc[t] = "close_unregister" /\ UNCHANGED <<kernel, owner>>
      /\ posix_files_' = [posix_files_ EXCEPT ![f] = None]
      /\ pc' = [pc EXCEPT ![t] = "close_real"]
  BY <1>0 DEF CloseUnregister, Unregister
<1>2. Holds(t, f)
  BY <1>0, <1>1 DEF Holds, ClosePCs
<1>3. \A u \in Threads : Running(u) => call[u].fd # f
  BY <1>2, RunningFacts
<1>4. \A g \in Fds \ {f} : Same(g)
  BY <1>1 DEF Same, RegInv, TypeInv, TypeOK
<1>5. ASSUME NEW u \in Threads \ {t} PROVE pc'[u] = pc[u] /\ call'[u] = call[u]
  <2>1. call[u].fd = f => call[u].ptr # "live"
    BY <1>3 DEF Routed, Running, IoPCs
  <2>2. call'[u] = Erase(f, call[u])
    BY <1>0 DEF CloseUnregister
  <2> QED
    BY <1>1, <2>1, <2>2 DEF Erase, RegInv, TypeInv, TypeOK
<1>6. Routed(t)'
  <2>1. call[t].ptr = "null" /\ call[t] \in Call
    BY <1>1, CallType DEF Routed, RegInv
  <2>2. call'[t] = [call[t] EXCEPT !.res = <<"close", 0>>]
    BY DEF CloseUnregister
  <2>3. call'[t].ptr = "null"
    BY <2>1, <2>2 DEF Call
  <2>4. pc'[t] = "close_real"
    BY <1>1 DEF RegInv, TypeInv, TypeOK
  <2> QED
    BY <2>3, <2>4 DEF Routed, IoPCs, SeekPCs
<1> QED
  BY <1>3, <1>4, <1>5, <1>6, RoutedElsewhere

LEMMA CloseRealKeepsRouted ==
    ASSUME RegInv, NEW t \in Threads, \A u \in Threads : Routed(u), CloseReal(t)
    PROVE  \A u \in Threads : Routed(u)'
<1>0. PICK f \in Fds : f = call[t].fd
  BY CallType DEF RegInv, CloseReal, Locals
<1>1. /\ pc[t] = "close_real" /\ UNCHANGED <<posix_files_, owner>>
      /\ kernel' = [kernel EXCEPT ![f] = None] /\ Finish(t, <<"close", 0>>)
  BY <1>0 DEF CloseReal
<1>2. Holds(t, f)
  BY <1>0, <1>1 DEF Holds, ClosePCs
<1>3. \A u \in Threads : Running(u) => call[u].fd # f
  BY <1>2, RunningFacts
<1>4. \A g \in Fds \ {f} : Same(g)
  BY <1>1 DEF Same, RegInv, TypeInv, TypeOK
<1> QED
  BY <1>1, <1>3, <1>4, FinishKeepsRouted

LEMMA UnlinkKeepsRouted ==
    ASSUME RegInv, NEW t \in Threads, \A u \in Threads : Routed(u), NEW p \in Paths, Unlink(t, p)
    PROVE  \A u \in Threads : Routed(u)'
<1> DEFINE c == [NoCall EXCEPT !.op = "unlink", !.path = p, !.res = <<"unlink", 0>>]
<1>1. c.ptr = "null"
  BY DEF NoCall
<1>2. Goto(t, "return", c) /\ \A g \in Fds : Same(g)
  BY DEF Unlink, Same
<1> HIDE DEF c
<1> QED
  BY <1>1, <1>2, GotoKeepsRouted DEF IoPCs, SeekPCs

\* A descriptor that comes into use was in use by nobody.
LEMMA ReturnKeepsRouted ==
    ASSUME RegInv, NEW t \in Threads, \A u \in Threads : Routed(u), Return(t)
    PROVE  \A u \in Threads : Routed(u)'
<1>1. /\ pc[t] = "return" /\ Goto(t, "idle", NoCall) /\ UNCHANGED <<kernel, posix_files_>>
      /\ owner' = IF call[t].op = "open" /\ call[t].fd # None
                  THEN [owner EXCEPT ![call[t].fd] = t] ELSE owner
  BY DEF Return
<1>2. \A g \in Fds : g # call[t].fd \/ call[t].op # "open" => Same(g)
  BY <1>1 DEF Same, RegInv, TypeInv, TypeOK
<1>3. ASSUME NEW f \in Fds, f = call[t].fd, call[t].op = "open"
      PROVE  \A u \in Threads : Running(u) => call[u].fd # f
  <2>1. Holds(t, f)
    BY <1>1, <1>3 DEF Holds
  <2> QED
    BY <2>1, RunningFacts
<1> QED
  BY <1>1, <1>2, <1>3, NoCallType, GotoKeepsRouted DEF IoPCs, SeekPCs

LEMMA RoutedInit == Init => RoutedInv
<1> SUFFICES ASSUME Init PROVE RoutedInv
  OBVIOUS
<1>1. \A t \in Threads : pc[t] = "idle" /\ call[t].ptr = "null"
  BY NoCallType DEF Init
<1> QED
  BY <1>1, RegInit DEF RoutedInv, Routed, IoPCs, SeekPCs

LEMMA RoutedStep == RoutedInv /\ [Next]_vars => RoutedInv'
<1> SUFFICES ASSUME RegInv, \A t \in Threads : Routed(t), [Next]_vars,
                    "close_race" \notin Habits
             PROVE  \A t \in Threads : Routed(t)'
  BY RegStep DEF RoutedInv
<1>1. CASE UNCHANGED vars
  BY <1>1 DEF vars, Routed
<1>2. ASSUME NEW t \in Threads, Begin(t) PROVE \A u \in Threads : Routed(u)'
  BY <1>2, OpenKeepsRouted, IoCallKeepsRouted, SeekCallKeepsRouted, CloseCallKeepsRouted,
     UnlinkKeepsRouted DEF Begin
<1>3. ASSUME NEW t \in Threads, Step(t) PROVE \A u \in Threads : Routed(u)'
  <2>1. CASE IoStore(t) \/ SeekUpdate(t)
    BY <2>1, StoreIsSame, FinishKeepsRouted
  <2> QED
    BY <1>3, <2>1, OpenRegisterKeepsRouted, IoKeepsRouted, RealKeepsRouted,
       CloseUnregisterKeepsRouted, CloseRealKeepsRouted, ReturnKeepsRouted DEF Step
<1> QED
  BY <1>1, <1>2, <1>3 DEF Next

\* For every program that does not close a descriptor under a running call, every
\* transfer goes where the path of its descriptor says, and through no pointer to
\* an entry that has been erased.
THEOREM RoutingCorrect == Spec => []RoutedByPath
<1>1. RoutedInv => RoutedByPath
  <2> SUFFICES ASSUME RegInv, NEW t \in Threads, Routed(t), "close_race" \notin Habits
               PROVE  /\ call[t].ptr # "dangling"
                      /\ pc[t] = "io_wait" => /\ kernel[call[t].fd] # None
                                              /\ call[t].path = kernel[call[t].fd].path
                      /\ pc[t] = "io_real" => /\ kernel[call[t].fd] # None
                                              /\ kernel[call[t].fd].path \notin Intercepted
    BY DEF RoutedInv, RoutedByPath
  <2>1. pc[t] \in {"io_wait", "io_real"} => call[t].fd \in Fds /\ Agrees(call[t].fd)
    BY RunningFacts DEF Running, IoPCs, RegInv, TableInv, TableAt
  <2> QED
    BY <2>1 DEF Routed, Agrees, IoPCs
<1> QED
  BY RoutedInit, RoutedStep, <1>1, PTL DEF Spec

-----------------------------------------------------------------------------
(***************************************************************************)
(* The refinement of PosixFile, for a careful program.  The invariant says *)
(* what a call in progress has found out, and that it stays true: the task *)
(* it sends is about the file its descriptor is open on, the offset it has *)
(* read is still the entry's, and the bytes that a read counts are there.  *)
(***************************************************************************)
\* u's transfer is done and not yet counted in the entry of f; u's lseek is done
\* and not yet stored in it.
Transferred(u, f) == call[u].fd = f /\ pc[u] \in {"io_offset", "io_store"}
Sought(u, f) == call[u].fd = f /\ pc[u] = "seek_update"

\* The name that an open descriptor was opened by still names its file.
FileAt(f) ==
    kernel[f] # None =>
        /\ dir[kernel[f].path] = kernel[f].ino
        /\ kernel[f].path \in Intercepted => ~kernel[f].append

NamesDiffer == \A p, q \in Paths : dir[p] = dir[q] /\ dir[p] # None => p = q

\* A call has a result from the step on at which it took effect.
ResultAt(t) ==
    /\ pc[t] \in {"idle", "io_info", "io_real", "io_submit", "io_wait", "seek_real",
                  "seek_raw", "close_unregister"} => call[t].res = None
    /\ pc[t] \in {"open_register", "io_offset", "io_store", "seek_update", "return"}
         => call[t].res # None
    /\ pc[t] = "close_real" => call[t].res \in {None, <<"close", 0>>}

CarefulAt(t) ==
    LET c == call[t]
        f == c.fd
    IN  /\ Running(t) => owner[f] = t
        /\ pc[t] \in IoPCs => c.n \in Counts
        /\ pc[t] \in {"seek_real", "seek_raw"} => /\ c.whence \in {"SEEK_SET", "SEEK_END"}
                                                  /\ c.off \in 0 .. MaxLen
        /\ c.op = "read" /\ pc[t] \in {"io_info", "io_submit", "io_wait"}
             => posix_files_[f].current_offset + c.n <= Len(data[kernel[f].ino])
        /\ pc[t] = "io_wait" => c.off = posix_files_[f].current_offset
        /\ pc[t] = "io_store" => c.off = posix_files_[f].current_offset + c.n
        /\ pc[t] = "seek_update" => c.off = kernel[f].off
        /\ pc[t] = "open_register" => kernel[f].off = 0 /\ posix_files_[f] = None

FilesInv == NamesDiffer /\ \A f \in Fds : FileAt(f)
CallsInv == \A t \in Threads : ResultAt(t) /\ CarefulAt(t)

CarefulInv == RoutedInv /\ FilesInv /\ CallsInv
-----------------------------------------------------------------------------
Active(u) == pc[u] \notin {"idle", "return"}

\* No other call in progress is about f.
Mine(t, f) == \A u \in Threads \ {t} : Active(u) => call[u].fd # f

\* A step of t that is about f, or about no descriptor when f is None.
StepOn(t, f) ==
    /\ \A u \in Threads \ {t} : pc'[u] = pc[u] /\ call'[u] = call[u]
    /\ \A g \in Fds \ {f} : /\ kernel'[g] = kernel[g] /\ posix_files_'[g] = posix_files_[g]
                            /\ owner'[g] = owner[g]
    /\ Mine(t, f)
    /\ Active(t) => call[t].fd = f
    /\ Active(t)' => call'[t].fd = f
    /\ \A g \in Fds : kernel[g] # None => Len(data'[kernel[g].ino]) >= Len(data[kernel[g].ino])

\* What is known of a call and its descriptor while it is in progress.
LEMMA CallFacts ==
    ASSUME CarefulInv, Habits = {}, NEW t \in Threads
    PROVE  /\ TypeInv /\ call[t] \in Call /\ pc[t] \in PCs /\ Locals(t)
           /\ Routed(t) /\ ResultAt(t) /\ CarefulAt(t)
           /\ call[t].n \in Nat /\ call[t].off \in Nat
           /\ Active(t) => call[t].fd \in Fds /\ (Running(t) \/ Holds(t, call[t].fd))
<1>1. TypeInv /\ call[t] \in Call /\ pc[t] \in PCs /\ Locals(t) /\ call[t].n \in Nat /\ call[t].off \in Nat
  BY CallType DEF CarefulInv, RoutedInv, RegInv
<1>2. Routed(t) /\ ResultAt(t) /\ CarefulAt(t)
  BY DEF CarefulInv, RoutedInv, CallsInv
<1>3. Active(t) => call[t].fd \in Fds /\ (Running(t) \/ Holds(t, call[t].fd))
  BY <1>1 DEF Active, Running, Holds, Locals, PCs, IoPCs, SeekPCs, ClosePCs
<1> QED
  BY <1>1, <1>2, <1>3

\* A descriptor that somebody runs a call on, or holds, is open.
LEMMA RunningOpen ==
    ASSUME CarefulInv, Habits = {}, NEW t \in Threads, Running(t)
    PROVE  LET f == call[t].fd IN
           /\ f \in Fds /\ owner[f] = t /\ kernel[f] # None /\ Agrees(f) /\ Mine(t, f)
           /\ \A u \in Threads : ~Holds(u, f)
<1>1. RegInv /\ call[t].fd \in Fds /\ owner[call[t].fd] = t /\ owner[call[t].fd] # None
  BY CallFacts, NoneAssumption DEF CarefulAt, Running, Active, CarefulInv, RoutedInv, IoPCs, SeekPCs
<1>2. kernel[call[t].fd] # None /\ Agrees(call[t].fd) /\ \A u \in Threads : ~Holds(u, call[t].fd)
  BY <1>1 DEF RegInv, TableInv, TableAt, Held, Agrees
<1>3. Mine(t, call[t].fd)
  BY <1>1, <1>2, CallFacts DEF Mine, CarefulAt
<1> QED
  BY <1>1, <1>2, <1>3

LEMMA HeldOpen ==
    ASSUME CarefulInv, Habits = {}, NEW t \in Threads, NEW f \in Fds, Holds(t, f)
    PROVE  /\ kernel[f] # None /\ Mine(t, f) /\ Held(t, f) /\ owner[f] = None
           /\ \A u \in Threads : Holds(u, f) => u = t
<1>1. Held(t, f)
  BY DEF CarefulInv, RoutedInv, RegInv, TableInv, TableAt
<1>2. ASSUME NEW u \in Threads \ {t}, Active(u), call[u].fd = f PROVE FALSE
  BY <1>1, <1>2, CallFacts, RunningOpen, NoneAssumption DEF Held
<1> QED
  BY <1>1, <1>2 DEF Held, Mine

\* An idle thread's own descriptor is nobody else's business, nor is a free one.
LEMMA OwnMine ==
    ASSUME CarefulInv, Habits = {}, NEW t \in Threads, NEW f \in Fds, owner[f] = t
    PROVE  Mine(t, f) /\ kernel[f] # None /\ Agrees(f) /\ \A u \in Threads : ~Holds(u, f)
<1>1. owner[f] # None
  BY NoneAssumption
<1>2. ASSUME NEW u \in Threads \ {t}, Active(u), call[u].fd = f PROVE FALSE
  BY <1>1, <1>2, CallFacts, RunningOpen, HeldOpen
<1> QED
  BY <1>1, <1>2, HeldOpen DEF Mine, CarefulInv, RoutedInv, RegInv, TableInv, TableAt, Agrees

LEMMA FreeMine ==
    ASSUME CarefulInv, Habits = {}, NEW t \in Threads, NEW f \in Fds, kernel[f] = None
    PROVE  /\ Mine(t, f) /\ posix_files_[f] = None /\ owner[f] = None
           /\ \A u \in Threads : ~Holds(u, f) /\ ~(Active(u) /\ call[u].fd = f)
<1>1. ASSUME NEW u \in Threads, Active(u), call[u].fd = f PROVE FALSE
  BY <1>1, CallFacts, RunningOpen, HeldOpen
<1>2. \A u \in Threads : ~Holds(u, f)
  BY HeldOpen
<1> QED
  BY <1>1, <1>2 DEF Mine, CarefulInv, RoutedInv, RegInv, TableInv, TableAt, Agrees

\* A step of t leaves what is true of the other calls.
LEMMA OthersCareful ==
    ASSUME CarefulInv, TypeInv', Habits = {}, NEW t \in Threads, NEW f, StepOn(t, f),
           NEW u \in Threads \ {t}
    PROVE  ResultAt(u)' /\ CarefulAt(u)'
<1>1. pc'[u] = pc[u] /\ call'[u] = call[u] /\ ResultAt(u) /\ CarefulAt(u) /\ Routed(u)
  BY CallFacts DEF StepOn
<1>2. ResultAt(u)'
  BY <1>1 DEF ResultAt
<1>3. CASE ~Active(u)
  <2>1. ~Running(u) /\ pc[u] \in {"idle", "return"}
    BY <1>3 DEF Active, Running, IoPCs, SeekPCs
  <2> QED
    BY <1>1, <1>2, <2>1 DEF CarefulAt, Running, IoPCs
<1>4. CASE Active(u)
  <2> DEFINE g == call[u].fd
  <2>1. g \in Fds /\ g # f /\ kernel[g] # None
    BY <1>4, CallFacts, RunningOpen, HeldOpen DEF StepOn, Mine
  <2>2. kernel'[g] = kernel[g] /\ posix_files_'[g] = posix_files_[g] /\ owner'[g] = owner[g]
    BY <2>1 DEF StepOn
  <2>3. pc[u] \in {"io_info", "io_submit", "io_wait"} =>
          posix_files_[g] # None
    BY <1>1 DEF Routed, IoPCs
  <2>4. /\ Len(data'[kernel[g].ino]) >= Len(data[kernel[g].ino])
        /\ Len(data'[kernel[g].ino]) \in Nat /\ Len(data[kernel[g].ino]) \in Nat
    <3>1. kernel[g] \in OpenFile /\ kernel[g].ino \in Inodes
      BY <2>1, CallFacts DEF TypeInv, TypeOK, OpenFile
    <3> QED
      BY <2>1, <3>1, CallFacts DEF StepOn, TypeInv, TypeOK
  <2>5. pc[u] \in {"io_info", "io_submit", "io_wait"} => posix_files_[g].current_offset \in Nat
    BY <2>1, <2>3, CallFacts DEF TypeInv, TypeOK, Entry
  <2>6. call[u].n \in Nat
    BY CallFacts
  <2>7. call[u].op = "read" /\ pc[u] \in {"io_info", "io_submit", "io_wait"} =>
          posix_files_[g].current_offset + call[u].n <= Len(data'[kernel[g].ino])
    <3>1. call[u].op = "read" /\ pc[u] \in {"io_info", "io_submit", "io_wait"} =>
            posix_files_[g].current_offset + call[u].n <= Len(data[kernel[g].ino])
      BY <1>1 DEF CarefulAt
    <3> DEFINE o == posix_files_[g].current_offset
               old == Len(data[kernel[g].ino])
               new == Len(data'[kernel[g].ino])
    <3>2. ASSUME o \in Nat, o + call[u].n <= old PROVE o + call[u].n <= new
      <4>1. new >= old /\ new \in Nat /\ old \in Nat /\ call[u].n \in Nat
        BY <2>4, <2>6
      <4> HIDE DEF o, old, new
      <4> QED
        BY <3>2, <4>1
    <3> QED
      BY <2>5, <3>1, <3>2
  <2> QED
    BY <1>1, <1>2, <2>1, <2>2, <2>7 DEF CarefulAt, Running
<1> QED
  BY <1>3, <1>4

-----------------------------------------------------------------------------
(***************************************************************************)
(* The mapped state: what the descriptors and the results of PosixFile are *)
(* in a state of the library.                                              *)
(***************************************************************************)
FileStep == [File!Next]_(File!vars)

\* A description of the file that k is open on, at another offset.
At(k, o) == [path |-> k.path, ino |-> k.ino, off |-> o, append |-> k.append]

LEMMA AtType ==
    ASSUME NEW k \in OpenFile, NEW o
    PROVE  /\ [k EXCEPT !.off = o] = At(k, o)
           /\ At(k, o).path = k.path /\ At(k, o).ino = k.ino /\ At(k, o).off = o
           /\ At(k, o).append = k.append
           /\ o \in Nat => At(k, o) \in OpenFile /\ At(k, o) # None
<1>1. k \in [path : Paths, ino : Inodes, off : Nat, append : BOOLEAN]
  BY DEF OpenFile
<1>2. [k EXCEPT !.off = o] = At(k, o)
  BY <1>1 DEF At
<1> QED
  BY <1>1, <1>2, NoneAssumption DEF At, OpenFile

\* The offset that the program sees, by what is under way on the descriptor.
OffsetFacts ==
    \A f \in Fds :
        /\ posix_files_[f] = None => Offset(f) = kernel[f].off
        /\ \A u \in Threads : posix_files_[f] # None /\ Transferred(u, f)
             => Offset(f) = posix_files_[f].current_offset + call[u].n
        /\ \A u \in Threads : posix_files_[f] # None /\ Sought(u, f) => Offset(f) = kernel[f].off
        /\ posix_files_[f] # None /\ (\A u \in Threads : ~Transferred(u, f) /\ ~Sought(u, f))
             => Offset(f) = posix_files_[f].current_offset

LEMMA OffsetLemma == CarefulInv /\ Habits = {} => OffsetFacts
<1> SUFFICES ASSUME CarefulInv, Habits = {}, NEW f \in Fds
             PROVE  /\ posix_files_[f] = None => Offset(f) = kernel[f].off
                    /\ \A u \in Threads : posix_files_[f] # None /\ Transferred(u, f)
                         => Offset(f) = posix_files_[f].current_offset + call[u].n
                    /\ \A u \in Threads : posix_files_[f] # None /\ Sought(u, f)
                         => Offset(f) = kernel[f].off
                    /\ posix_files_[f] # None /\ (\A u \in Threads : ~Transferred(u, f) /\ ~Sought(u, f))
                         => Offset(f) = posix_files_[f].current_offset
  BY DEF OffsetFacts
<1>1. \A u, w \in Threads : /\ Transferred(u, f) \/ Sought(u, f)
                            /\ Transferred(w, f) \/ Sought(w, f)
                            => u = w
  <2> SUFFICES ASSUME NEW u \in Threads, NEW w \in Threads,
                      Transferred(u, f) \/ Sought(u, f), Transferred(w, f) \/ Sought(w, f)
               PROVE  u = w
    OBVIOUS
  <2>1. Running(u) /\ Running(w) /\ call[u].fd = f /\ call[w].fd = f
    BY DEF Transferred, Sought, Running, IoPCs, SeekPCs
  <2> QED
    BY <2>1, RunningOpen
<1>2. ASSUME NEW u \in Threads, posix_files_[f] # None, Transferred(u, f)
      PROVE  Offset(f) = posix_files_[f].current_offset + call[u].n
  <2>1. \E w \in Threads : call[w].fd = f /\ pc[w] \in {"io_offset", "io_store"}
    BY <1>2 DEF Transferred
  <2>2. u = CHOOSE w \in Threads : call[w].fd = f /\ pc[w] \in {"io_offset", "io_store"}
    BY <1>1, <1>2, <2>1 DEF Transferred
  <2> QED
    BY <1>2, <2>1, <2>2 DEF Offset
<1>3. ASSUME NEW u \in Threads, posix_files_[f] # None, Sought(u, f)
      PROVE  Offset(f) = kernel[f].off
  <2>1. ~\E w \in Threads : call[w].fd = f /\ pc[w] \in {"io_offset", "io_store"}
    BY <1>1, <1>3 DEF Transferred, Sought
  <2>2. \E w \in Threads : call[w].fd = f /\ pc[w] = "seek_update"
    BY <1>3 DEF Sought
  <2> QED
    BY <1>3, <2>1, <2>2 DEF Offset
<1>4. posix_files_[f] = None => Offset(f) = kernel[f].off
  BY DEF Offset
<1>5. posix_files_[f] # None /\ (\A u \in Threads : ~Transferred(u, f) /\ ~Sought(u, f))
        => Offset(f) = posix_files_[f].current_offset
  BY DEF Offset, Transferred, Sought
<1> QED
  BY <1>2, <1>3, <1>4, <1>5

\* The primed form of OffsetLemma.
LEMMA OffsetLemmaNext ==
    ASSUME CarefulInv', Habits = {}
    PROVE  OffsetFacts'
<1>1. CarefulInv' /\ Habits' = {} => OffsetFacts'
  BY OffsetLemma, PTL
<1> QED
  BY <1>1

\* The offset is the same in the next state if what it is computed from is.
LEMMA OffsetSame ==
    ASSUME CarefulInv, CarefulInv', Habits = {}, NEW g \in Fds,
           kernel'[g] = kernel[g], posix_files_'[g] = posix_files_[g],
           \A u \in Threads : /\ Transferred(u, g)' <=> Transferred(u, g)
                              /\ Sought(u, g)' <=> Sought(u, g)
                              /\ Transferred(u, g) => call'[u].n = call[u].n
    PROVE  Offset(g)' = Offset(g)
<1>1. OffsetFacts
  BY OffsetLemma
<1>2. OffsetFacts'
  BY OffsetLemmaNext
<1>3. CASE posix_files_[g] = None
  BY <1>1, <1>2, <1>3 DEF OffsetFacts
<1>4. ASSUME NEW u \in Threads, posix_files_[g] # None, Transferred(u, g) PROVE Offset(g)' = Offset(g)
  BY <1>1, <1>2, <1>4 DEF OffsetFacts
<1>5. ASSUME NEW u \in Threads, posix_files_[g] # None, Sought(u, g) PROVE Offset(g)' = Offset(g)
  BY <1>1, <1>2, <1>5 DEF OffsetFacts
<1>6. CASE posix_files_[g] # None /\ \A u \in Threads : ~Transferred(u, g) /\ ~Sought(u, g)
  BY <1>1, <1>2, <1>6 DEF OffsetFacts
<1> QED
  BY <1>3, <1>4, <1>5, <1>6

\* The other descriptors are what they were, for the program as well.
LEMMA DescriptorSame ==
    ASSUME CarefulInv, CarefulInv', Habits = {}, NEW t \in Threads, NEW f, StepOn(t, f),
           NEW g \in Fds \ {f}
    PROVE  Descriptor(g)' = Descriptor(g)
<1>1. kernel'[g] = kernel[g] /\ posix_files_'[g] = posix_files_[g]
  BY DEF StepOn
<1>2. \A u \in Threads \ {t} : pc'[u] = pc[u] /\ call'[u] = call[u]
  BY DEF StepOn
<1>3. (Active(t) => call[t].fd # g) /\ (Active(t)' => call'[t].fd # g)
  BY DEF StepOn
<1>4. ASSUME NEW u \in Threads
      PROVE  /\ Transferred(u, g)' <=> Transferred(u, g)
             /\ Sought(u, g)' <=> Sought(u, g)
             /\ Transferred(u, g) => call'[u].n = call[u].n
             /\ (call[u].fd = g /\ pc[u] = "close_real" /\ call[u].res # None)
                  <=> (call'[u].fd = g /\ pc'[u] = "close_real" /\ call'[u].res # None)
  BY <1>2, <1>3 DEF Transferred, Sought, Active
<1>5. Offset(g)' = Offset(g)
  BY <1>1, <1>4, OffsetSame
<1>6. Gone(g)' <=> Gone(g)
  BY <1>1, <1>4 DEF Gone
<1> QED
  BY <1>1, <1>5, <1>6 DEF Descriptor

\* The offset is a number.
LEMMA OffsetType ==
    ASSUME CarefulInv, Habits = {}, NEW f \in Fds, kernel[f] # None
    PROVE  Offset(f) \in Nat
<1>1. kernel[f].off \in Nat /\ (posix_files_[f] # None => posix_files_[f].current_offset \in Nat)
  BY DEF CarefulInv, RoutedInv, RegInv, TypeInv, TypeOK, OpenFile, Entry
<1>2. \A u \in Threads : call[u].n \in Nat
  BY CallFacts
<1>3. OffsetFacts
  BY OffsetLemma
<1>4. ASSUME NEW u \in Threads, posix_files_[f] # None, Transferred(u, f) PROVE Offset(f) \in Nat
  BY <1>1, <1>2, <1>3, <1>4 DEF OffsetFacts
<1> QED
  BY <1>1, <1>3, <1>4 DEF OffsetFacts

\* What the program has of a descriptor that is not gone.
DescriptorFacts ==
    \A f \in Fds :
        /\ Gone(f) => Descriptor(f) = None
        /\ ~Gone(f) => /\ kernel[f] # None /\ kernel[f] \in OpenFile /\ Offset(f) \in Nat
                       /\ Descriptor(f) = At(kernel[f], Offset(f)) /\ Descriptor(f) # None

LEMMA DescriptorLemma == CarefulInv /\ Habits = {} => DescriptorFacts
<1> SUFFICES ASSUME CarefulInv, Habits = {}, NEW f \in Fds
             PROVE  /\ Gone(f) => Descriptor(f) = None
                    /\ ~Gone(f) => /\ kernel[f] # None /\ kernel[f] \in OpenFile /\ Offset(f) \in Nat
                                   /\ Descriptor(f) = At(kernel[f], Offset(f)) /\ Descriptor(f) # None
  BY DEF DescriptorFacts
<1>1. CASE ~Gone(f)
  <2>1. kernel[f] # None /\ kernel[f] \in OpenFile
    BY <1>1 DEF Gone, CarefulInv, RoutedInv, RegInv, TypeInv, TypeOK
  <2>2. Offset(f) \in Nat
    BY <2>1, OffsetType
  <2> QED
    BY <1>1, <2>1, <2>2, AtType DEF Descriptor
<1>2. CASE Gone(f)
  BY <1>2 DEF Descriptor
<1> QED
  BY <1>1, <1>2

LEMMA DescriptorLemmaNext ==
    ASSUME CarefulInv', Habits = {}
    PROVE  DescriptorFacts'
<1>1. CarefulInv' /\ Habits' = {} => DescriptorFacts'
  BY DescriptorLemma, PTL
<1> QED
  BY <1>1

\* A step in which no call takes effect is no step of PosixFile.
LEMMA SilentStep ==
    ASSUME CarefulInv, CarefulInv', Habits = {}, NEW t \in Threads, NEW f, StepOn(t, f),
           f \in Fds => Descriptor(f)' = Descriptor(f), call'[t].res = call[t].res, UNCHANGED <<dir, data>>
    PROVE  FileStep
<1>1. Descriptors' = Descriptors
  BY DescriptorSame DEF Descriptors
<1>2. Returning' = Returning
  BY DEF Returning, StepOn
<1>3. UNCHANGED File!vars
  BY <1>1, <1>2 DEF File!vars
<1> QED
  BY <1>3 DEF FileStep

\* A step in which the call of t takes effect, on f alone.
LEMMA TakenStep ==
    ASSUME CarefulInv, CarefulInv', Habits = {}, NEW t \in Threads, NEW f, StepOn(t, f),
           call[t].res = None, NEW r, call'[t].res = r, r # None
    PROVE  /\ File!Result(t, r) /\ Returning' # Returning
           /\ f \in Fds => Descriptors' = [Descriptors EXCEPT ![f] = Descriptor(f)']
           /\ f \notin Fds \/ Descriptor(f)' = Descriptor(f) => Descriptors' = Descriptors
<1>1. Returning[t] = None /\ Returning' = [Returning EXCEPT ![t] = r] /\ Returning' # Returning
  BY DEF Returning, StepOn
<1>2. File!Result(t, r)
  BY <1>1 DEF File!Result
<1>3. \A g \in Fds \ {f} : Descriptor(g)' = Descriptor(g)
  BY DescriptorSame
<1> QED
  BY <1>1, <1>2, <1>3 DEF Descriptors

-----------------------------------------------------------------------------
\* The parts of the invariant together, and the parts that a step may leave alone.
LEMMA CarefulNext ==
    ASSUME CarefulInv, Habits = {}, RoutedInv', NEW t \in Threads, NEW f, StepOn(t, f),
           FilesInv', ResultAt(t)', CarefulAt(t)'
    PROVE  CarefulInv'
<1>1. \A u \in Threads \ {t} : ResultAt(u)' /\ CarefulAt(u)'
  <2>1. TypeInv'
    BY DEF RoutedInv, RegInv
  <2> QED
    BY <2>1, OthersCareful
<1> QED
  BY <1>1 DEF CarefulInv, CallsInv

LEMMA FilesKept ==
    ASSUME FilesInv, dir' = dir,
           \A g \in Fds : kernel'[g] # None =>
               /\ kernel[g] # None
               /\ kernel'[g].path = kernel[g].path /\ kernel'[g].ino = kernel[g].ino
               /\ kernel'[g].append = kernel[g].append
    PROVE  FilesInv'
<1>1. NamesDiffer'
  BY DEF FilesInv, NamesDiffer
<1>2. ASSUME NEW g \in Fds PROVE FileAt(g)'
  BY <1>2 DEF FilesInv, FileAt
<1> QED
  BY <1>1, <1>2 DEF FilesInv

LEMMA LengthsKept ==
    ASSUME TypeInv, data' = data, NEW g \in Fds, kernel[g] # None
    PROVE  Len(data'[kernel[g].ino]) >= Len(data[kernel[g].ino])
<1>1. data[kernel[g].ino] \in Seq(Bytes)
  BY DEF TypeInv, TypeOK, OpenFile
<1> QED
  BY <1>1

\* A step of t that only moves its control and its locals.
LEMMA ControlStep ==
    ASSUME CarefulInv, Habits = {}, NEW t \in Threads, NEW f, NEW label, NEW c,
           Goto(t, label, c), UNCHANGED <<dir, data, kernel, posix_files_, owner>>,
           Mine(t, f), Active(t) => call[t].fd = f,
           label \notin {"idle", "return"} => c.fd = f
    PROVE  StepOn(t, f) /\ FilesInv' /\ pc'[t] = label /\ call'[t] = c
<1>0. TypeInv
  BY CallFacts
<1>1. pc'[t] = label /\ call'[t] = c /\ \A u \in Threads \ {t} : pc'[u] = pc[u] /\ call'[u] = call[u]
  BY <1>0, GotoFacts, GotoOthers
<1>2. StepOn(t, f)
  BY <1>0, <1>1, LengthsKept DEF StepOn, Active
<1>3. FilesInv'
  BY FilesKept DEF CarefulInv
<1> QED
  BY <1>1, <1>2, <1>3

GoneBy(u, f) == call[u].fd = f /\ pc[u] = "close_real" /\ call[u].res # None

\* Nothing that f is made of changes.
LEMMA DescriptorQuiet ==
    ASSUME CarefulInv, CarefulInv', Habits = {}, NEW t \in Threads, NEW f \in Fds, StepOn(t, f),
           kernel'[f] = kernel[f], posix_files_'[f] = posix_files_[f],
           Transferred(t, f)' <=> Transferred(t, f), Sought(t, f)' <=> Sought(t, f),
           GoneBy(t, f)' <=> GoneBy(t, f), Transferred(t, f) => call'[t].n = call[t].n
    PROVE  Descriptor(f)' = Descriptor(f)
<1>1. \A u \in Threads \ {t} : pc'[u] = pc[u] /\ call'[u] = call[u]
  BY DEF StepOn
<1>2. ASSUME NEW u \in Threads
      PROVE  /\ Transferred(u, f)' <=> Transferred(u, f)
             /\ Sought(u, f)' <=> Sought(u, f)
             /\ Transferred(u, f) => call'[u].n = call[u].n
             /\ GoneBy(u, f)' <=> GoneBy(u, f)
  BY <1>1 DEF Transferred, Sought, GoneBy
<1>3. Offset(f)' = Offset(f)
  BY <1>2, OffsetSame
<1>4. Gone(f)' <=> Gone(f)
  BY <1>2 DEF Gone, GoneBy
<1> QED
  BY <1>3, <1>4 DEF Descriptor

\* The steps that only decide, look up and compute.
LEMMA IoCallSim ==
    ASSUME CarefulInv, Habits = {}, RoutedInv', NEW t \in Threads, NEW op \in {"read", "write"},
           NEW f \in Fds, NEW n \in Counts, NEW v, IoCall(t, op, f, n, v)
    PROVE  CarefulInv' /\ FileStep
<1> DEFINE c == [NoCall EXCEPT !.op = op, !.fd = f, !.n = n, !.val = v]
           l == IF posix_files_[f] # None THEN "io_info" ELSE "io_real"
<1>1. c.fd = f /\ c.n = n /\ c.op = op /\ c.res = None
  BY DEF NoCall
<1>2. /\ Goto(t, l, c) /\ UNCHANGED <<dir, data, kernel, posix_files_, owner>>
      /\ pc[t] = "idle" /\ owner[f] # None /\ owner[f] = t
      /\ op = "read" /\ posix_files_[f] # None
           => Position(f) + n <= SizeOf(posix_files_[f].absolute_path)
  BY DEF IoCall, IsRegistered, MayUse
<1> HIDE DEF c
<1>3. Mine(t, f) /\ kernel[f] # None /\ Agrees(f)
  BY <1>2, OwnMine
<1>4. StepOn(t, f) /\ FilesInv' /\ pc'[t] = l /\ call'[t] = c
  BY <1>1, <1>2, <1>3, ControlStep DEF Active
<1>5. op = "read" /\ posix_files_[f] # None
        => posix_files_[f].current_offset + n <= Len(data[kernel[f].ino])
  <2>1. dir[kernel[f].path] = kernel[f].ino /\ kernel[f].ino # None
    BY <1>3, NoneAssumption DEF CarefulInv, FilesInv, FileAt, RoutedInv, RegInv, TypeInv, TypeOK, OpenFile
  <2> QED
    BY <1>2, <1>3, <2>1 DEF Agrees, Position, SizeOf
<1>6. CarefulAt(t)' /\ ResultAt(t)'
  <2>1. l \in {"io_info", "io_real"} /\ (l = "io_info" => posix_files_[f] # None)
    OBVIOUS
  <2> HIDE DEF l
  <2> QED
    BY <1>1, <1>2, <1>4, <1>5, <2>1 DEF CarefulAt, ResultAt, Running, IoPCs, SeekPCs
<1>7. CarefulInv'
  BY <1>4, <1>6, CarefulNext
<1>8. Descriptor(f)' = Descriptor(f)
  BY <1>2, <1>4, <1>7, DescriptorQuiet DEF Transferred, Sought, GoneBy
<1>9. call[t].res = None
  BY <1>2, CallFacts DEF ResultAt
<1> QED
  BY <1>1, <1>2, <1>4, <1>7, <1>8, <1>9, SilentStep

LEMMA SeekCallSim ==
    ASSUME CarefulInv, Habits = {}, RoutedInv', NEW t \in Threads, NEW f \in Fds,
           NEW whence \in Whences, NEW d \in 0 .. MaxLen, SeekCall(t, f, whence, d)
    PROVE  CarefulInv' /\ FileStep
<1> DEFINE c == [NoCall EXCEPT !.op = "lseek", !.fd = f, !.whence = whence, !.off = d]
           l == IF posix_files_[f] # None THEN "seek_real" ELSE "seek_raw"
<1>1. c.fd = f /\ c.whence = whence /\ c.off = d /\ c.op = "lseek" /\ c.res = None
  BY DEF NoCall
<1>2. /\ Goto(t, l, c) /\ UNCHANGED <<dir, data, kernel, posix_files_, owner>>
      /\ pc[t] = "idle" /\ owner[f] # None /\ owner[f] = t /\ whence # "SEEK_CUR"
  BY DEF SeekCall, IsRegistered, MayUse
<1> HIDE DEF c
<1>3. Mine(t, f)
  BY <1>2, OwnMine
<1>4. StepOn(t, f) /\ FilesInv' /\ pc'[t] = l /\ call'[t] = c
  BY <1>1, <1>2, <1>3, ControlStep DEF Active
<1>6. CarefulAt(t)' /\ ResultAt(t)'
  <2>1. l \in {"seek_real", "seek_raw"}
    OBVIOUS
  <2> HIDE DEF l
  <2> QED
    BY <1>1, <1>2, <1>4, <2>1 DEF CarefulAt, ResultAt, Running, IoPCs, SeekPCs, Whences
<1>7. CarefulInv'
  BY <1>4, <1>6, CarefulNext
<1>8. Descriptor(f)' = Descriptor(f)
  BY <1>2, <1>4, <1>7, DescriptorQuiet DEF Transferred, Sought, GoneBy
<1>9. call[t].res = None
  BY <1>2, CallFacts DEF ResultAt
<1> QED
  BY <1>1, <1>2, <1>4, <1>7, <1>8, <1>9, SilentStep

LEMMA IoInfoSim ==
    ASSUME CarefulInv, Habits = {}, RoutedInv', NEW t \in Threads, IoInfo(t)
    PROVE  CarefulInv' /\ FileStep
<1> DEFINE c == [call[t] EXCEPT !.ptr = "live"]
           f == call[t].fd
<1>1. c.fd = f /\ c.n = call[t].n /\ c.op = call[t].op /\ c.res = call[t].res
  BY CallFacts DEF Call
<1>2. pc[t] = "io_info" /\ UNCHANGED <<dir, data, kernel, posix_files_, owner>>
  BY DEF IoInfo
<1>3. posix_files_[f] # None /\ ResultAt(t) /\ CarefulAt(t)
  BY <1>2, CallFacts DEF Routed, IoPCs
<1>4. Goto(t, "io_submit", c)
  BY <1>3 DEF IoInfo, IsRegistered
<1>5. f \in Fds /\ Mine(t, f)
  BY <1>2, RunningOpen DEF Running, IoPCs
<1> HIDE DEF c
<1>6. StepOn(t, f) /\ FilesInv' /\ pc'[t] = "io_submit" /\ call'[t] = c
  BY <1>1, <1>2, <1>4, <1>5, ControlStep
<1>7. CarefulAt(t)' /\ ResultAt(t)'
  BY <1>1, <1>2, <1>3, <1>6 DEF CarefulAt, ResultAt, Running, IoPCs
<1>8. CarefulInv'
  BY <1>6, <1>7, CarefulNext
<1>9. Descriptor(f)' = Descriptor(f)
  BY <1>1, <1>2, <1>5, <1>6, <1>8, DescriptorQuiet DEF Transferred, Sought, GoneBy
<1> QED
  BY <1>1, <1>2, <1>6, <1>8, <1>9, SilentStep

LEMMA IoSubmitSim ==
    ASSUME CarefulInv, Habits = {}, RoutedInv', NEW t \in Threads, IoSubmit(t)
    PROVE  CarefulInv' /\ FileStep
<1> DEFINE f == call[t].fd
           e == posix_files_[f]
           c == [call[t] EXCEPT !.path = e.absolute_path, !.off = e.current_offset]
<1>1. /\ c.fd = f /\ c.n = call[t].n /\ c.op = call[t].op /\ c.res = call[t].res
      /\ c.off = e.current_offset
  BY CallFacts DEF Call
<1>2. pc[t] = "io_submit" /\ UNCHANGED <<dir, data, kernel, posix_files_, owner>>
  BY DEF IoSubmit
<1>3. ResultAt(t) /\ CarefulAt(t) /\ call[t].ptr = "live"
  BY <1>2, CallFacts DEF Routed, IoPCs, Call
<1>4. Goto(t, "io_wait", c)
  BY <1>3 DEF IoSubmit
<1>5. f \in Fds /\ Mine(t, f)
  BY <1>2, RunningOpen DEF Running, IoPCs
<1> HIDE DEF c
<1>6. StepOn(t, f) /\ FilesInv' /\ pc'[t] = "io_wait" /\ call'[t] = c
  BY <1>1, <1>2, <1>4, <1>5, ControlStep
<1>7. CarefulAt(t)' /\ ResultAt(t)'
  BY <1>1, <1>2, <1>3, <1>6 DEF CarefulAt, ResultAt, Running, IoPCs
<1>8. CarefulInv'
  BY <1>6, <1>7, CarefulNext
<1>9. Descriptor(f)' = Descriptor(f)
  BY <1>1, <1>2, <1>5, <1>6, <1>8, DescriptorQuiet DEF Transferred, Sought, GoneBy
<1> QED
  BY <1>1, <1>2, <1>6, <1>8, <1>9, SilentStep

LEMMA IoOffsetSim ==
    ASSUME CarefulInv, Habits = {}, RoutedInv', NEW t \in Threads, IoOffset(t)
    PROVE  CarefulInv' /\ FileStep
<1> DEFINE f == call[t].fd
           o == posix_files_[f].current_offset + call[t].n
           c == [call[t] EXCEPT !.off = o]
<1>1. /\ c.fd = f /\ c.n = call[t].n /\ c.op = call[t].op /\ c.res = call[t].res /\ c.off = o
  BY CallFacts DEF Call
<1>2. pc[t] = "io_offset" /\ UNCHANGED <<dir, data, kernel, posix_files_, owner>>
  BY DEF IoOffset
<1>3. ResultAt(t) /\ CarefulAt(t) /\ call[t].ptr = "live"
  BY <1>2, CallFacts DEF Routed, IoPCs, Call
<1>4. Goto(t, "io_store", c)
  BY <1>3 DEF IoOffset
<1>5. f \in Fds /\ Mine(t, f)
  BY <1>2, RunningOpen DEF Running, IoPCs
<1> HIDE DEF c
<1>6. StepOn(t, f) /\ FilesInv' /\ pc'[t] = "io_store" /\ call'[t] = c
  BY <1>1, <1>2, <1>4, <1>5, ControlStep
<1>7. CarefulAt(t)' /\ ResultAt(t)'
  BY <1>1, <1>2, <1>3, <1>6 DEF CarefulAt, ResultAt, Running, IoPCs
<1>8. CarefulInv'
  BY <1>6, <1>7, CarefulNext
<1>9. Descriptor(f)' = Descriptor(f)
  BY <1>1, <1>2, <1>5, <1>6, <1>8, DescriptorQuiet DEF Transferred, Sought, GoneBy
<1> QED
  BY <1>1, <1>2, <1>6, <1>8, <1>9, SilentStep

-----------------------------------------------------------------------------
\* The steps that store an offset, take a descriptor out of use or into use.
LEMMA FinishSim ==
    ASSUME CarefulInv, Habits = {}, NEW t \in Threads, NEW r, Finish(t, r)
    PROVE  /\ \A u \in Threads \ {t} : pc'[u] = pc[u] /\ call'[u] = call[u]
           /\ pc'[t] = "return" /\ call'[t].res = r
<1> DEFINE c == [NoCall EXCEPT !.op = call[t].op, !.fd = call[t].fd, !.res = r]
<1>1. c.res = r /\ Goto(t, "return", c)
  BY DEF NoCall, Finish
<1> HIDE DEF c
<1> QED
  BY <1>1, CallFacts, GotoFacts, GotoOthers

\* A call that is about to return has its result, and nothing else.
LEMMA ReturnCareful ==
    ASSUME NEW t \in Threads, pc'[t] = "return", call'[t].res # None
    PROVE  ResultAt(t)' /\ CarefulAt(t)'
  BY DEF ResultAt, CarefulAt, Running, IoPCs, SeekPCs

\* Storing the offset in an entry leaves the rest of the entry.
LEMMA StoreFacts ==
    ASSUME TypeInv, NEW f \in Fds, posix_files_[f] # None, NEW o \in Nat,
           posix_files_' = UpdateOffset(posix_files_, f, o)
    PROVE  /\ posix_files_'[f] # None /\ posix_files_'[f].current_offset = o
           /\ \A g \in Fds \ {f} : posix_files_'[g] = posix_files_[g]
<1>1. posix_files_[f] \in Entry /\ posix_files_ \in [Fds -> Entry \union {None}]
  BY DEF TypeInv, TypeOK
<1>2. posix_files_' = [posix_files_ EXCEPT ![f] = [posix_files_[f] EXCEPT !.current_offset = o]]
  BY DEF UpdateOffset, IsRegistered
<1>3. /\ [posix_files_[f] EXCEPT !.current_offset = o] \in Entry
      /\ [posix_files_[f] EXCEPT !.current_offset = o].current_offset = o
  BY <1>1 DEF Entry
<1> QED
  BY <1>1, <1>2, <1>3, NoneAssumption

\* An open descriptor that no close has taken is not gone, before or after.
LEMMA GoneMine ==
    ASSUME NEW t \in Threads, NEW f \in Fds, Mine(t, f),
           \A u \in Threads \ {t} : pc'[u] = pc[u] /\ call'[u] = call[u]
    PROVE  /\ kernel[f] # None /\ ~GoneBy(t, f) => ~Gone(f)
           /\ kernel'[f] # None /\ ~GoneBy(t, f)' => ~Gone(f)'
<1>1. \A u \in Threads \ {t} : ~GoneBy(u, f) /\ ~GoneBy(u, f)'
  BY DEF Mine, GoneBy, Active
<1> QED
  BY <1>1 DEF Gone, GoneBy

LEMMA IoStoreSim ==
    ASSUME CarefulInv, Habits = {}, RoutedInv', NEW t \in Threads, IoStore(t)
    PROVE  CarefulInv' /\ FileStep
<1>0. PICK f \in Fds : f = call[t].fd
  BY RunningOpen DEF IoStore, Running, IoPCs
<1>1. /\ pc[t] = "io_store" /\ UNCHANGED <<dir, data, kernel, owner>> /\ Finish(t, call[t].res)
      /\ posix_files_' = UpdateOffset(posix_files_, f, call[t].off)
  BY <1>0 DEF IoStore
<1>2. /\ f = call[t].fd /\ Mine(t, f) /\ kernel[f] # None /\ \A u \in Threads : ~Holds(u, f)
      /\ posix_files_[f] # None /\ call[t].res # None /\ TypeInv /\ call[t].off \in Nat
      /\ call[t].off = posix_files_[f].current_offset + call[t].n
  BY <1>0, <1>1, RunningOpen, CallFacts DEF Running, IoPCs, Routed, ResultAt, CarefulAt
<1>3. /\ posix_files_'[f] # None /\ posix_files_'[f].current_offset = call[t].off
      /\ \A g \in Fds \ {f} : posix_files_'[g] = posix_files_[g]
  BY <1>1, <1>2, StoreFacts
<1>4. /\ \A u \in Threads \ {t} : pc'[u] = pc[u] /\ call'[u] = call[u]
      /\ pc'[t] = "return" /\ call'[t].res = call[t].res
  BY <1>1, FinishSim
<1>5. StepOn(t, f)
  BY <1>1, <1>2, <1>3, <1>4, LengthsKept DEF StepOn, Active
<1>6. FilesInv'
  BY <1>1, FilesKept DEF CarefulInv
<1>7. CarefulInv'
  BY <1>2, <1>4, <1>5, <1>6, ReturnCareful, CarefulNext
<1>8. OffsetFacts /\ OffsetFacts'
  BY <1>7, OffsetLemma, OffsetLemmaNext
<1>9. Offset(f) = call[t].off
  BY <1>1, <1>2, <1>8 DEF OffsetFacts, Transferred
<1>10. \A u \in Threads : ~Transferred(u, f)' /\ ~Sought(u, f)'
  BY <1>2, <1>4 DEF Transferred, Sought, Mine, Active
<1>11. Offset(f)' = call[t].off
  BY <1>2, <1>3, <1>8, <1>10 DEF OffsetFacts
<1>12. Descriptor(f)' = Descriptor(f)
  BY <1>1, <1>2, <1>4, <1>9, <1>11, GoneMine DEF Descriptor, GoneBy
<1> QED
  BY <1>1, <1>4, <1>5, <1>7, <1>12, SilentStep

LEMMA SeekUpdateSim ==
    ASSUME CarefulInv, Habits = {}, RoutedInv', NEW t \in Threads, SeekUpdate(t)
    PROVE  CarefulInv' /\ FileStep
<1>0. PICK f \in Fds : f = call[t].fd
  BY RunningOpen DEF SeekUpdate, Running, SeekPCs
<1>1. /\ pc[t] = "seek_update" /\ UNCHANGED <<dir, data, kernel, owner>> /\ Finish(t, call[t].res)
      /\ posix_files_' = UpdateOffset(posix_files_, f, call[t].off)
  BY <1>0 DEF SeekUpdate
<1>2. /\ f = call[t].fd /\ Mine(t, f) /\ kernel[f] # None /\ \A u \in Threads : ~Holds(u, f)
      /\ posix_files_[f] # None /\ call[t].res # None /\ TypeInv /\ call[t].off \in Nat
      /\ call[t].off = kernel[f].off
  BY <1>0, <1>1, RunningOpen, CallFacts DEF Running, SeekPCs, Routed, ResultAt, CarefulAt
<1>3. /\ posix_files_'[f] # None /\ posix_files_'[f].current_offset = call[t].off
      /\ \A g \in Fds \ {f} : posix_files_'[g] = posix_files_[g]
  BY <1>1, <1>2, StoreFacts
<1>4. /\ \A u \in Threads \ {t} : pc'[u] = pc[u] /\ call'[u] = call[u]
      /\ pc'[t] = "return" /\ call'[t].res = call[t].res
  BY <1>1, FinishSim
<1>5. StepOn(t, f)
  BY <1>1, <1>2, <1>3, <1>4, LengthsKept DEF StepOn, Active
<1>6. FilesInv'
  BY <1>1, FilesKept DEF CarefulInv
<1>7. CarefulInv'
  BY <1>2, <1>4, <1>5, <1>6, ReturnCareful, CarefulNext
<1>8. OffsetFacts /\ OffsetFacts'
  BY <1>7, OffsetLemma, OffsetLemmaNext
<1>9. Offset(f) = call[t].off
  BY <1>1, <1>2, <1>8 DEF OffsetFacts, Sought
<1>10. \A u \in Threads : ~Transferred(u, f)' /\ ~Sought(u, f)'
  BY <1>2, <1>4 DEF Transferred, Sought, Mine, Active
<1>11. Offset(f)' = call[t].off
  BY <1>2, <1>3, <1>8, <1>10 DEF OffsetFacts
<1>12. Descriptor(f)' = Descriptor(f)
  BY <1>1, <1>2, <1>4, <1>9, <1>11, GoneMine DEF Descriptor, GoneBy
<1> QED
  BY <1>1, <1>4, <1>5, <1>7, <1>12, SilentStep

-----------------------------------------------------------------------------
\* The steps at which a call takes effect.
\* Moving the kernel's offset of f.
LEMMA KernelMoved ==
    ASSUME TypeInv, NEW f \in Fds, kernel[f] # None, NEW o \in Nat,
           kernel' = [kernel EXCEPT ![f].off = o]
    PROVE  /\ kernel'[f] # None /\ kernel'[f].off = o /\ kernel'[f] = At(kernel[f], o)
           /\ kernel'[f].path = kernel[f].path /\ kernel'[f].ino = kernel[f].ino
           /\ kernel'[f].append = kernel[f].append
           /\ \A g \in Fds \ {f} : kernel'[g] = kernel[g]
           /\ \A g \in Fds : kernel'[g] # None =>
                /\ kernel[g] # None
                /\ kernel'[g].path = kernel[g].path /\ kernel'[g].ino = kernel[g].ino
                /\ kernel'[g].append = kernel[g].append
<1>1. kernel[f] \in OpenFile /\ kernel \in [Fds -> OpenFile \union {None}]
  BY DEF TypeInv, TypeOK
<1>2. kernel' = [kernel EXCEPT ![f] = At(kernel[f], o)]
  BY <1>1, AtType
<1>3. kernel'[f] = At(kernel[f], o) /\ \A g \in Fds \ {f} : kernel'[g] = kernel[g]
  BY <1>1, <1>2
<1> QED
  BY <1>1, <1>3, AtType

\* The program sees its offset on f move, and nothing else of f.
LEMMA DescriptorMoved ==
    ASSUME CarefulInv, CarefulInv', Habits = {}, NEW f \in Fds, ~Gone(f), ~Gone(f)',
           NEW o \in Nat, Offset(f)' = o, kernel'[f].path = kernel[f].path,
           kernel'[f].ino = kernel[f].ino, kernel'[f].append = kernel[f].append
    PROVE  /\ Descriptors[f] # None /\ Descriptors[f].ino = kernel[f].ino /\ Descriptors[f].off = Offset(f)
           /\ Descriptors[f].append = kernel[f].append
           /\ Descriptor(f)' = [Descriptors[f] EXCEPT !.off = o]
<1>1. DescriptorFacts /\ DescriptorFacts'
  BY DescriptorLemma, DescriptorLemmaNext
<1>2. Descriptors[f] = At(kernel[f], Offset(f)) /\ Descriptors[f] # None /\ kernel[f] \in OpenFile
  BY <1>1 DEF DescriptorFacts, Descriptors
<1>3. Descriptor(f)' = At(kernel'[f], o)
  BY <1>1 DEF DescriptorFacts
<1>4. [At(kernel[f], Offset(f)) EXCEPT !.off = o] = At(kernel'[f], o)
  BY DEF At
<1> QED
  BY <1>2, <1>3, <1>4 DEF At

LEMMA SeekRealSim ==
    ASSUME CarefulInv, Habits = {}, RoutedInv', NEW t \in Threads, SeekReal(t)
    PROVE  CarefulInv' /\ FileStep
<1>0. PICK f \in Fds : f = call[t].fd
  BY RunningOpen DEF SeekReal, Running, SeekPCs
<1>1. PICK whence \in {"SEEK_SET", "SEEK_END"}, d \in 0 .. MaxLen :
        whence = call[t].whence /\ d = call[t].off
  BY CallFacts DEF SeekReal, CarefulAt
<1>2. /\ pc[t] \in {"seek_real", "seek_raw"} /\ Running(t) /\ TypeInv /\ call[t] \in Call
      /\ call[t].res = None /\ UNCHANGED <<dir, data, posix_files_, owner>>
      /\ posix_files_[f] = None <=> pc[t] = "seek_raw"
  BY <1>0, CallFacts DEF SeekReal, Running, SeekPCs, ResultAt, Routed
<1>3. /\ Mine(t, f) /\ kernel[f] # None /\ owner[f] = t /\ \A u \in Threads : ~Holds(u, f)
  BY <1>0, <1>2, RunningOpen
<1>4. kernel[f].off \in Nat /\ data[kernel[f].ino] \in Seq(Bytes) /\ d \in Nat /\ whence \in Whences
  BY <1>2, <1>3, BoundAssumption DEF TypeInv, TypeOK, OpenFile, Whences
<1>5. PICK pos \in Nat : pos = SeekTarget(data[kernel[f].ino], kernel[f].off, whence, d)
  BY <1>4, SeekTargetType
<1>6. kernel' = [kernel EXCEPT ![f].off = pos]
  BY <1>0, <1>1, <1>3, <1>5 DEF SeekReal
<1>7. /\ pc[t] = "seek_raw" => Finish(t, <<"lseek", pos>>)
      /\ pc[t] # "seek_raw" => Goto(t, "seek_update", [call[t] EXCEPT !.off = pos, !.res = <<"lseek", pos>>])
  BY <1>0, <1>1, <1>3, <1>5 DEF SeekReal
<1>8. /\ \A u \in Threads \ {t} : pc'[u] = pc[u] /\ call'[u] = call[u]
      /\ call'[t].res = <<"lseek", pos>>
      /\ pc[t] = "seek_raw" => pc'[t] = "return"
      /\ pc[t] = "seek_real" => /\ pc'[t] = "seek_update" /\ call'[t].fd = f
                                /\ call'[t].off = pos /\ call'[t].op = call[t].op
  <2>1. CASE pc[t] = "seek_raw"
    BY <1>7, <2>1, FinishSim
  <2>2. CASE pc[t] # "seek_raw"
    <3> DEFINE c == [call[t] EXCEPT !.off = pos, !.res = <<"lseek", pos>>]
    <3>1. c.fd = f /\ c.off = pos /\ c.op = call[t].op /\ c.res = <<"lseek", pos>>
      BY <1>0, <1>2 DEF Call
    <3>2. Goto(t, "seek_update", c)
      BY <1>7, <2>2
    <3> HIDE DEF c
    <3> QED
      BY <1>2, <2>2, <3>1, <3>2, GotoFacts, GotoOthers
  <2> QED
    BY <2>1, <2>2
<1>9. <<"lseek", pos>> # None
  BY OutcomeAssumption DEF Outcomes
<1>10. StepOn(t, f) /\ FilesInv'
  <2>1. FilesInv'
    BY <1>2, <1>3, <1>6, KernelMoved, FilesKept DEF CarefulInv
  <2> QED
    BY <1>0, <1>2, <1>3, <1>6, <1>8, <2>1, KernelMoved, LengthsKept DEF StepOn, Active
<1>11. ResultAt(t)' /\ CarefulAt(t)'
  <2>1. kernel'[f].off = pos
    BY <1>2, <1>3, <1>6, KernelMoved
  <2>2. CASE pc[t] = "seek_raw"
    BY <1>8, <1>9, <2>2, ReturnCareful
  <2>3. CASE pc[t] = "seek_real"
    BY <1>2, <1>3, <1>8, <1>9, <2>1, <2>3 DEF ResultAt, CarefulAt, Running, IoPCs, SeekPCs
  <2> QED
    BY <1>2, <2>2, <2>3
<1>12. CarefulInv'
  BY <1>10, <1>11, CarefulNext
<1>13. Offset(f)' = pos
  <2>1. OffsetFacts' /\ kernel'[f].off = pos
    BY <1>2, <1>3, <1>6, <1>12, OffsetLemmaNext, KernelMoved
  <2> QED
    BY <1>2, <1>8, <2>1 DEF OffsetFacts, Sought
<1>14. /\ Descriptors[f] # None /\ Descriptors[f].ino = kernel[f].ino
       /\ Descriptor(f)' = [Descriptors[f] EXCEPT !.off = pos]
  <2>1. ~Gone(f) /\ ~Gone(f)'
    BY <1>2, <1>3, <1>6, <1>8, KernelMoved, GoneMine DEF GoneBy
  <2> QED
    BY <1>2, <1>3, <1>6, <1>12, <1>13, <2>1, KernelMoved, DescriptorMoved
<1>15. File!Result(t, <<"lseek", pos>>) /\ Returning' # Returning /\ Descriptors' = [Descriptors EXCEPT ![f] = Descriptor(f)']
  BY <1>2, <1>8, <1>9, <1>10, <1>12, TakenStep
<1>16. pos = File!SeekTarget(data[Descriptors[f].ino], Descriptors[f].off, whence, d)
  BY <1>5, <1>14 DEF SeekTarget, File!SeekTarget
<1>17. File!Lseek(t, f, whence, d)
  <2>1. Descriptors' = [Descriptors EXCEPT ![f].off = pos]
    BY <1>14, <1>15
  <2>2. Descriptors[f] # None /\ File!Result(t, <<"lseek", pos>>) /\ UNCHANGED <<dir, data>>
    BY <1>2, <1>14, <1>15
  <2> QED
    BY <1>16, <2>1, <2>2 DEF File!Lseek
<1>18. File!Next
  BY <1>15, <1>17 DEF File!Next, File!Whences
<1> QED
  BY <1>12, <1>18 DEF FileStep

LEMMA OpenRegisterSim ==
    ASSUME CarefulInv, Habits = {}, RoutedInv', NEW t \in Threads, OpenRegister(t)
    PROVE  CarefulInv' /\ FileStep
<1>0. PICK f \in Fds : f = call[t].fd
  BY CallFacts DEF OpenRegister, Locals
<1>1. /\ pc[t] = "open_register" /\ UNCHANGED <<dir, data, kernel, owner>> /\ Finish(t, call[t].res)
      /\ posix_files_' = [posix_files_ EXCEPT ![f] = FileInfo(call[t].path)]
  BY <1>0 DEF OpenRegister, Register
<1>2. /\ Holds(t, f) /\ TypeInv /\ TypeInv' /\ call[t].res # None
      /\ kernel[f].off = 0 /\ posix_files_[f] = None
  BY <1>0, <1>1, CallFacts DEF Holds, ResultAt, CarefulAt, RoutedInv, RegInv
<1>3. /\ Mine(t, f) /\ kernel[f] # None
  BY <1>2, HeldOpen
<1>4. /\ posix_files_'[f] # None /\ posix_files_'[f].current_offset = 0
      /\ \A g \in Fds \ {f} : posix_files_'[g] = posix_files_[g]
  <2>1. FileInfo(call[t].path) \in Entry /\ FileInfo(call[t].path).current_offset = 0
    BY <1>1, CallFacts DEF Locals, FileInfo, Entry
  <2> QED
    BY <1>1, <1>2, <2>1, NoneAssumption DEF TypeInv, TypeOK
<1>5. /\ \A u \in Threads \ {t} : pc'[u] = pc[u] /\ call'[u] = call[u]
      /\ pc'[t] = "return" /\ call'[t].res = call[t].res
  BY <1>1, FinishSim
<1>6. StepOn(t, f)
  BY <1>0, <1>1, <1>2, <1>3, <1>4, <1>5, LengthsKept DEF StepOn, Active
<1>7. FilesInv'
  BY <1>1, FilesKept DEF CarefulInv
<1>8. CarefulInv'
  BY <1>2, <1>5, <1>6, <1>7, ReturnCareful, CarefulNext
<1>9. OffsetFacts /\ OffsetFacts'
  BY <1>8, OffsetLemma, OffsetLemmaNext
<1>10. \A u \in Threads : ~Transferred(u, f)' /\ ~Sought(u, f)'
  BY <1>3, <1>5 DEF Transferred, Sought, Mine, Active
<1>11. Offset(f) = 0 /\ Offset(f)' = 0
  BY <1>2, <1>4, <1>9, <1>10 DEF OffsetFacts
<1>12. Descriptor(f)' = Descriptor(f)
  BY <1>1, <1>3, <1>5, <1>11, GoneMine DEF Descriptor, GoneBy
<1> QED
  BY <1>1, <1>5, <1>6, <1>8, <1>12, SilentStep

LEMMA CloseCallSim ==
    ASSUME CarefulInv, Habits = {}, RoutedInv', NEW t \in Threads, NEW f \in Fds, CloseCall(t, f)
    PROVE  CarefulInv' /\ FileStep
<1> DEFINE c == [NoCall EXCEPT !.op = "close", !.fd = f]
           l == IF IsRegistered(posix_files_, f) THEN "close_unregister" ELSE "close_real"
<1>1. c.fd = f /\ c.res = None /\ c.op = "close"
  BY DEF NoCall
<1>2. /\ Goto(t, l, c) /\ UNCHANGED <<dir, data, kernel, posix_files_>>
      /\ owner' = [owner EXCEPT ![f] = None] /\ pc[t] = "idle" /\ owner[f] = t
      /\ l \in {"close_unregister", "close_real"}
  BY DEF CloseCall, MayUse
<1> HIDE DEF c, l
<1>3. Mine(t, f) /\ TypeInv /\ call[t].res = None
  BY <1>2, OwnMine, CallFacts DEF ResultAt
<1>4. pc'[t] = l /\ call'[t] = c /\ \A u \in Threads \ {t} : pc'[u] = pc[u] /\ call'[u] = call[u]
  BY <1>2, <1>3, GotoFacts, GotoOthers
<1>5. StepOn(t, f)
  BY <1>1, <1>2, <1>3, <1>4, LengthsKept DEF StepOn, Active, TypeInv, TypeOK
<1>6. FilesInv'
  BY <1>2, FilesKept DEF CarefulInv
<1>7. ResultAt(t)' /\ CarefulAt(t)'
  BY <1>1, <1>2, <1>4 DEF ResultAt, CarefulAt, Running, IoPCs, SeekPCs
<1>8. CarefulInv'
  BY <1>5, <1>6, <1>7, CarefulNext
<1>9. Descriptor(f)' = Descriptor(f)
  BY <1>1, <1>2, <1>4, <1>5, <1>8, DescriptorQuiet DEF Transferred, Sought, GoneBy
<1> QED
  BY <1>1, <1>2, <1>3, <1>4, <1>5, <1>8, <1>9, SilentStep

\* The close that a program sees: from the erased entry on, f is gone.
LEMMA CloseUnregisterSim ==
    ASSUME CarefulInv, Habits = {}, RoutedInv', NEW t \in Threads, CloseUnregister(t)
    PROVE  CarefulInv' /\ FileStep
<1>0. PICK f \in Fds : f = call[t].fd
  BY CallFacts DEF CloseUnregister, Locals, ClosePCs
<1>1. /\ pc[t] = "close_unregister" /\ UNCHANGED <<dir, data, kernel, owner>>
      /\ posix_files_' = [posix_files_ EXCEPT ![f] = None]
      /\ pc' = [pc EXCEPT ![t] = "close_real"]
  BY <1>0 DEF CloseUnregister, Unregister
<1>2. /\ Holds(t, f) /\ TypeInv /\ call[t] \in Call /\ call[t].res = None
  BY <1>0, <1>1, CallFacts DEF Holds, ClosePCs, ResultAt
<1>3. Mine(t, f) /\ kernel[f] # None
  BY <1>2, HeldOpen
<1>4. ASSUME NEW u \in Threads \ {t} PROVE pc'[u] = pc[u] /\ call'[u] = call[u]
  <2>1. call[u].fd = f => call[u].ptr # "live"
    BY <1>3, CallFacts DEF Mine, Active, Routed
  <2>2. call'[u] = Erase(f, call[u])
    BY <1>0 DEF CloseUnregister
  <2> QED
    BY <1>1, <1>2, <2>1, <2>2 DEF Erase, TypeInv, TypeOK
<1>5. pc'[t] = "close_real" /\ call'[t].fd = f /\ call'[t].res = <<"close", 0>> /\ call'[t].op = call[t].op
  <2>1. call'[t] = [call[t] EXCEPT !.res = <<"close", 0>>]
    BY DEF CloseUnregister
  <2> QED
    BY <1>0, <1>1, <1>2, <2>1 DEF TypeInv, TypeOK, Call
<1>6. <<"close", 0>> # None
  BY OutcomeAssumption DEF Outcomes
<1>7. StepOn(t, f)
  BY <1>0, <1>1, <1>2, <1>3, <1>4, <1>5, LengthsKept DEF StepOn, Active, TypeInv, TypeOK
<1>8. FilesInv'
  BY <1>1, FilesKept DEF CarefulInv
<1>9. ResultAt(t)' /\ CarefulAt(t)'
  BY <1>5 DEF ResultAt, CarefulAt, Running, IoPCs, SeekPCs
<1>10. CarefulInv'
  BY <1>7, <1>8, <1>9, CarefulNext
<1>11. Descriptor(f)' = None
  BY <1>5, <1>6 DEF Descriptor, Gone
<1>12. Descriptors[f] # None
  <2>1. ~Gone(f)
    BY <1>1, <1>3, <1>4, GoneMine DEF GoneBy
  <2> QED
    BY <2>1, DescriptorLemma DEF DescriptorFacts, Descriptors
<1>13. File!Result(t, <<"close", 0>>) /\ Returning' # Returning /\ Descriptors' = [Descriptors EXCEPT ![f] = None]
  BY <1>2, <1>5, <1>6, <1>7, <1>10, <1>11, TakenStep
<1>14. File!Close(t, f)
  BY <1>1, <1>12, <1>13 DEF File!Close
<1> QED
  BY <1>10, <1>13, <1>14 DEF FileStep, File!Next

LEMMA CloseRealSim ==
    ASSUME CarefulInv, Habits = {}, RoutedInv', NEW t \in Threads, CloseReal(t)
    PROVE  CarefulInv' /\ FileStep
<1>0. PICK f \in Fds : f = call[t].fd
  BY CallFacts DEF CloseReal, Locals, ClosePCs
<1>1. /\ pc[t] = "close_real" /\ UNCHANGED <<dir, data, posix_files_, owner>>
      /\ kernel' = [kernel EXCEPT ![f] = None] /\ Finish(t, <<"close", 0>>)
  BY <1>0 DEF CloseReal
<1>2. /\ Holds(t, f) /\ TypeInv /\ call[t].res \in {None, <<"close", 0>>}
  BY <1>0, <1>1, CallFacts DEF Holds, ClosePCs, ResultAt
<1>3. Mine(t, f) /\ kernel[f] # None /\ \A g \in Fds \ {f} : kernel'[g] = kernel[g]
  BY <1>1, <1>2, HeldOpen DEF TypeInv, TypeOK
<1>4. kernel'[f] = None
  BY <1>1, <1>2 DEF TypeInv, TypeOK
<1>5. /\ \A u \in Threads \ {t} : pc'[u] = pc[u] /\ call'[u] = call[u]
      /\ pc'[t] = "return" /\ call'[t].res = <<"close", 0>>
  BY <1>1, FinishSim
<1>6. <<"close", 0>> # None
  BY OutcomeAssumption DEF Outcomes
<1>7. StepOn(t, f)
  BY <1>0, <1>1, <1>2, <1>3, <1>5, LengthsKept DEF StepOn, Active
<1>8. FilesInv'
  BY <1>1, <1>3, <1>4, FilesKept DEF CarefulInv
<1>9. CarefulInv'
  BY <1>5, <1>6, <1>7, <1>8, ReturnCareful, CarefulNext
<1>10. Descriptor(f)' = None
  BY <1>4 DEF Descriptor, Gone
<1>11. CASE call[t].res = None
  <2>1. ~Gone(f)
    BY <1>3, <1>5, <1>11, GoneMine DEF GoneBy
  <2>2. Descriptors[f] # None
    BY <2>1, DescriptorLemma DEF DescriptorFacts, Descriptors
  <2>3. /\ File!Result(t, <<"close", 0>>) /\ Returning' # Returning
        /\ Descriptors' = [Descriptors EXCEPT ![f] = None]
    BY <1>5, <1>6, <1>7, <1>9, <1>10, <1>11, TakenStep
  <2>4. File!Close(t, f)
    BY <1>1, <2>2, <2>3 DEF File!Close
  <2> QED
    BY <1>9, <2>3, <2>4 DEF FileStep, File!Next
<1>12. CASE call[t].res # None
  <2>1. Gone(f)
    BY <1>0, <1>1, <1>12 DEF Gone
  <2>2. Descriptor(f)' = Descriptor(f)
    BY <1>10, <2>1 DEF Descriptor
  <2> QED
    BY <1>1, <1>2, <1>5, <1>7, <1>9, <1>12, <2>2, SilentStep
<1> QED
  BY <1>11, <1>12

LEMMA UnlinkSim ==
    ASSUME CarefulInv, Habits = {}, RoutedInv', NEW t \in Threads, NEW p \in Paths, Unlink(t, p)
    PROVE  CarefulInv' /\ FileStep
<1> DEFINE c == [NoCall EXCEPT !.op = "unlink", !.path = p, !.res = <<"unlink", 0>>]
<1>1. c.res = <<"unlink", 0>> /\ <<"unlink", 0>> # None
  BY OutcomeAssumption DEF NoCall, Outcomes
<1>2. /\ Goto(t, "return", c) /\ UNCHANGED <<data, kernel, posix_files_, owner>>
      /\ dir' = [dir EXCEPT ![p] = None] /\ pc[t] = "idle" /\ dir[p] # None /\ ~OpenOn(p)
  BY DEF Unlink
<1> HIDE DEF c
<1>3. TypeInv /\ call[t].res = None
  BY <1>2, CallFacts DEF ResultAt
<1>4. pc'[t] = "return" /\ call'[t] = c /\ \A u \in Threads \ {t} : pc'[u] = pc[u] /\ call'[u] = call[u]
  BY <1>2, <1>3, GotoFacts, GotoOthers
<1>5. Mine(t, None)
  BY CallFacts, NoneAssumption DEF Mine
<1>6. StepOn(t, None)
  BY <1>2, <1>3, <1>4, <1>5, LengthsKept DEF StepOn, Active
<1>7. FilesInv'
  <2>1. \A q \in Paths : dir'[q] = IF q = p THEN None ELSE dir[q]
    BY <1>2, <1>3 DEF TypeInv, TypeOK
  <2>2. NamesDiffer'
    BY <2>1 DEF CarefulInv, FilesInv, NamesDiffer
  <2>3. ASSUME NEW g \in Fds PROVE FileAt(g)'
    <3>1. kernel[g] # None => kernel[g].path \in Paths /\ kernel[g].path # p
      BY <1>2, <1>3 DEF OpenOn, TypeInv, TypeOK, OpenFile
    <3>2. FileAt(g)
      BY DEF CarefulInv, FilesInv
    <3> QED
      BY <1>2, <2>1, <3>1, <3>2 DEF FileAt
  <2> QED
    BY <2>2, <2>3 DEF FilesInv
<1>8. CarefulInv'
  BY <1>1, <1>4, <1>6, <1>7, ReturnCareful, CarefulNext
<1>9. File!Result(t, <<"unlink", 0>>) /\ Returning' # Returning /\ Descriptors' = Descriptors
  BY <1>1, <1>3, <1>4, <1>6, <1>8, NoneAssumption, TakenStep
<1>10. File!Unlink(t, p)
  BY <1>2, <1>9 DEF File!Unlink
<1> QED
  BY <1>8, <1>9, <1>10 DEF FileStep, File!Next

LEMMA ReturnSim ==
    ASSUME CarefulInv, Habits = {}, RoutedInv', NEW t \in Threads, Return(t)
    PROVE  CarefulInv' /\ FileStep
<1>1. /\ pc[t] = "return" /\ Goto(t, "idle", NoCall) /\ UNCHANGED <<dir, data, kernel, posix_files_>>
      /\ owner' = IF call[t].op = "open" /\ call[t].fd # None
                  THEN [owner EXCEPT ![call[t].fd] = t] ELSE owner
  BY DEF Return
<1>2. TypeInv /\ call[t].res # None /\ call[t] \in Call
  BY <1>1, CallFacts DEF ResultAt
<1>3. pc'[t] = "idle" /\ call'[t] = NoCall /\ \A u \in Threads \ {t} : pc'[u] = pc[u] /\ call'[u] = call[u]
  BY <1>1, <1>2, GotoFacts, GotoOthers
<1>4. NoCall.res = None
  BY DEF NoCall
<1>5. PICK f \in Fds \union {None} : StepOn(t, f)
  <2>1. CASE call[t].op = "open" /\ call[t].fd # None
    <3>1. PICK f \in Fds : f = call[t].fd
      BY <1>2, <2>1 DEF Call
    <3>2. Mine(t, f)
      BY <1>1, <2>1, <3>1, HeldOpen DEF Holds
    <3>3. owner' = [owner EXCEPT ![f] = t]
      BY <1>1, <2>1, <3>1
    <3> QED
      BY <1>1, <1>2, <1>3, <3>2, <3>3, LengthsKept DEF StepOn, Active, TypeInv, TypeOK
  <2>2. CASE ~(call[t].op = "open" /\ call[t].fd # None)
    <3>1. Mine(t, None)
      BY CallFacts, NoneAssumption DEF Mine
    <3>2. StepOn(t, None)
      BY <1>1, <1>2, <1>3, <2>2, <3>1, LengthsKept DEF StepOn, Active
    <3> QED
      BY <3>2
  <2> QED
    BY <2>1, <2>2
<1>6. FilesInv'
  BY <1>1, FilesKept DEF CarefulInv
<1>7. ResultAt(t)' /\ CarefulAt(t)'
  BY <1>3, <1>4 DEF ResultAt, CarefulAt, Running, IoPCs, SeekPCs
<1>8. CarefulInv'
  BY <1>5, <1>6, <1>7, CarefulNext
<1>9. f \in Fds => Descriptor(f)' = Descriptor(f)
  BY <1>1, <1>3, <1>5, <1>8, DescriptorQuiet DEF Transferred, Sought, GoneBy
<1>10. Descriptors' = Descriptors
  BY <1>5, <1>8, <1>9, DescriptorSame DEF Descriptors
<1>11. Returning[t] # None /\ Returning' = [Returning EXCEPT ![t] = None] /\ Returning' # Returning
  BY <1>2, <1>3, <1>4 DEF Returning
<1>12. File!Return(t)
  BY <1>1, <1>10, <1>11 DEF File!Return
<1> QED
  BY <1>8, <1>11, <1>12 DEF FileStep, File!Next

\* A read that ends within the file gets all the bytes it counts.
LEMMA WholeRead ==
    ASSUME NEW file \in Seq(Bytes), NEW off \in Nat, NEW n \in Nat, off + n <= Len(file)
    PROVE  LET got == ReadAt(file, off, n) IN
           /\ Len(got) = n
           /\ [b \in 1 .. n |-> IF b <= Len(got) THEN got[b] ELSE Junk] = got
<1> DEFINE m == IF off >= Len(file) THEN 0
                ELSE IF off + n > Len(file) THEN Len(file) - off ELSE n
           got == ReadAt(file, off, n)
<1>1. m = n
  OBVIOUS
<1>2. got = [i \in 1 .. m |-> file[off + i]]
  BY DEF ReadAt
<1> HIDE DEF m
<1>3. got = [i \in 1 .. n |-> file[off + i]]
  BY <1>1, <1>2
<1>4. Len(got) = n
  <2>1. \A i \in 1 .. n : file[off + i] \in Bytes
    OBVIOUS
  <2>2. got \in [1 .. n -> Bytes]
    BY <1>3, <2>1
  <2> QED
    BY <2>2
<1>5. [b \in 1 .. n |-> IF b <= Len(got) THEN got[b] ELSE Junk] = got
  BY <1>3, <1>4
<1> QED
  BY <1>4, <1>5

\* A write never makes a file shorter.
LEMMA WriteGrows ==
    ASSUME NEW file \in Seq(Bytes), NEW off \in Nat, NEW n \in Nat, NEW v \in Bytes
    PROVE  Len(WriteAt(file, off, v, n)) >= Len(file)
<1> DEFINE m == IF off + n > Len(file) THEN off + n ELSE Len(file)
<1>1. m \in Nat /\ m >= Len(file)
  OBVIOUS
<1>2. WriteAt(file, off, v, n) = [i \in 1 .. m |->
         IF i \in off + 1 .. off + n THEN v ELSE IF i <= Len(file) THEN file[i] ELSE Zero]
  BY DEF WriteAt
<1> HIDE DEF m
<1>3. \A i \in 1 .. m : (IF i \in off + 1 .. off + n THEN v
                         ELSE IF i <= Len(file) THEN file[i] ELSE Zero) \in Bytes
  BY DEF Bytes
<1>4. WriteAt(file, off, v, n) \in [1 .. m -> Bytes]
  BY <1>2, <1>3
<1> QED
  BY <1>1, <1>4

\* Neither does any step that writes to one file.
LEMMA LengthsGrow ==
    ASSUME TypeInv, NEW i \in Inodes, NEW off \in Nat, NEW n \in Nat, NEW v \in Bytes,
           data' = [data EXCEPT ![i] = WriteAt(@, off, v, n)], NEW g \in Fds, kernel[g] # None
    PROVE  Len(data'[kernel[g].ino]) >= Len(data[kernel[g].ino])
<1>1. kernel[g].ino \in Inodes /\ data[kernel[g].ino] \in Seq(Bytes)
  BY DEF TypeInv, TypeOK, OpenFile
<1>2. Len(WriteAt(data[kernel[g].ino], off, v, n)) >= Len(data[kernel[g].ino])
  BY <1>1, WriteGrows
<1>3. data'[kernel[g].ino] \in {data[kernel[g].ino], WriteAt(data[kernel[g].ino], off, v, n)}
  BY <1>1 DEF TypeInv, TypeOK
<1> QED
  BY <1>1, <1>2, <1>3

\* The write that the program sees.
FileWrites(t, f, v, n, i, off) ==
    /\ File!Result(t, <<"write", n>>) /\ dir' = dir
    /\ Descriptors[f] # None /\ Descriptors[f].ino = i
    /\ off = IF Descriptors[f].append THEN Len(data[i]) ELSE Descriptors[f].off
    /\ data' = [data EXCEPT ![i] = WriteAt(@, off, v, n)]
    /\ Descriptors' = [Descriptors EXCEPT ![f] = [Descriptors[f] EXCEPT !.off = off + n]]

LEMMA FileWritesIs ==
    ASSUME NEW t, NEW f \in Fds, NEW v, NEW n, NEW i, NEW off, FileWrites(t, f, v, n, i, off)
    PROVE  File!Write(t, f, v, n)
<1>1. data' = [data EXCEPT ![i] = File!WriteAt(data[i], off, v, n)]
  <2>1. File!WriteAt(data[i], off, v, n) = WriteAt(data[i], off, v, n)
    BY DEF File!WriteAt, WriteAt
  <2>2. data' = [data EXCEPT ![i] = WriteAt(data[i], off, v, n)]
    BY DEF FileWrites
  <2> QED
    BY <2>1, <2>2
<1>2. Descriptors' = [Descriptors EXCEPT ![f].off = off + n]
  BY DEF FileWrites
<1> QED
  BY <1>1, <1>2 DEF FileWrites, File!Write

\* The real read of a file that is not intercepted.
LEMMA RealReadSim ==
    ASSUME CarefulInv, Habits = {}, RoutedInv', NEW t \in Threads, IoReal(t), call[t].op = "read"
    PROVE  CarefulInv' /\ FileStep
<1>0. PICK f \in Fds, n \in Counts : f = call[t].fd /\ n = call[t].n
  BY RunningOpen, CallFacts DEF IoReal, Running, IoPCs, CarefulAt
<1>1. /\ pc[t] = "io_real" /\ Running(t) /\ TypeInv /\ call[t].res = None
      /\ UNCHANGED <<dir, posix_files_, owner>> /\ posix_files_[f] = None /\ n \in Nat
  BY <1>0, CallFacts DEF IoReal, Running, IoPCs, ResultAt, Routed
<1>2. Mine(t, f) /\ kernel[f] # None
  BY <1>0, <1>1, RunningOpen
<1>3. kernel[f].off \in Nat /\ data[kernel[f].ino] \in Seq(Bytes)
  BY <1>2, <1>1 DEF TypeInv, TypeOK, OpenFile
<1>4. PICK got \in Seq(Bytes) : got = ReadAt(data[kernel[f].ino], kernel[f].off, n)
  BY <1>1, <1>3, ReadAtType
<1>5. PICK o \in Nat : o = kernel[f].off + Len(got)
  BY <1>3, <1>4
<1>6. kernel' = [kernel EXCEPT ![f].off = o] /\ Finish(t, <<"read", got>>) /\ data' = data
  BY <1>0, <1>2, <1>4, <1>5 DEF IoReal
<1>7. /\ \A u \in Threads \ {t} : pc'[u] = pc[u] /\ call'[u] = call[u]
      /\ pc'[t] = "return" /\ call'[t].res = <<"read", got>>
  BY <1>6, FinishSim
<1>8. <<"read", got>> # None
  BY <1>4, OutcomeAssumption DEF Outcomes
<1>9. StepOn(t, f)
  BY <1>0, <1>1, <1>2, <1>6, <1>7, KernelMoved, LengthsKept DEF StepOn, Active
<1>10. FilesInv'
  BY <1>1, <1>2, <1>6, KernelMoved, FilesKept DEF CarefulInv
<1>11. CarefulInv'
  BY <1>7, <1>8, <1>9, <1>10, ReturnCareful, CarefulNext
<1>12. Offset(f) = kernel[f].off /\ Offset(f)' = o
  BY <1>1, <1>2, <1>6, <1>11, OffsetLemma, OffsetLemmaNext, KernelMoved DEF OffsetFacts
<1>13. /\ Descriptors[f] # None /\ Descriptors[f].ino = kernel[f].ino /\ Descriptors[f].off = Offset(f)
       /\ Descriptor(f)' = [Descriptors[f] EXCEPT !.off = o]
  <2>1. ~Gone(f) /\ ~Gone(f)'
    BY <1>1, <1>2, <1>6, <1>7, KernelMoved, GoneMine DEF GoneBy
  <2> QED
    BY <1>1, <1>2, <1>6, <1>11, <1>12, <2>1, KernelMoved, DescriptorMoved
<1>14. /\ File!Result(t, <<"read", got>>) /\ Returning' # Returning
       /\ Descriptors' = [Descriptors EXCEPT ![f] = Descriptor(f)']
  BY <1>1, <1>7, <1>8, <1>9, <1>11, TakenStep
<1>15. Descriptors' = [Descriptors EXCEPT ![f].off = Descriptors[f].off + Len(got)]
  BY <1>5, <1>12, <1>13, <1>14
<1>16. got = File!ReadAt(data[Descriptors[f].ino], Descriptors[f].off, n)
  BY <1>4, <1>12, <1>13 DEF ReadAt, File!ReadAt
<1>17. File!Read(t, f, n)
  BY <1>1, <1>6, <1>13, <1>14, <1>15, <1>16 DEF File!Read
<1> QED
  BY <1>11, <1>14, <1>17 DEF FileStep, File!Next

\* The real write.
LEMMA RealWriteSim ==
    ASSUME CarefulInv, Habits = {}, RoutedInv', NEW t \in Threads, IoReal(t), call[t].op # "read"
    PROVE  CarefulInv' /\ FileStep
<1>0. PICK f \in Fds, n \in Counts, v \in Values : f = call[t].fd /\ n = call[t].n /\ v = call[t].val
  BY RunningOpen, CallFacts DEF IoReal, Running, IoPCs, CarefulAt, Locals
<1>1. /\ pc[t] = "io_real" /\ Running(t) /\ TypeInv /\ call[t].res = None /\ call[t].op = "write"
      /\ UNCHANGED <<dir, posix_files_, owner>> /\ posix_files_[f] = None /\ n \in Nat /\ v \in Bytes
  BY <1>0, CallFacts DEF IoReal, Running, IoPCs, ResultAt, Routed, Locals, Bytes
<1>2. Mine(t, f) /\ kernel[f] # None
  BY <1>0, <1>1, RunningOpen
<1>3. /\ kernel[f].off \in Nat /\ kernel[f].ino \in Inodes /\ data[kernel[f].ino] \in Seq(Bytes)
      /\ kernel[f].append \in BOOLEAN
  BY <1>2, <1>1 DEF TypeInv, TypeOK, OpenFile
<1>4. PICK i \in Inodes : i = kernel[f].ino
  BY <1>3
<1>5. PICK off \in Nat : off = IF kernel[f].append THEN Len(data[i]) ELSE kernel[f].off
  BY <1>3, <1>4
<1>6. PICK o \in Nat : o = off + n
  BY <1>1, <1>5
<1>7. /\ kernel' = [kernel EXCEPT ![f].off = o] /\ Finish(t, <<"write", n>>)
      /\ data' = [data EXCEPT ![i] = WriteAt(@, off, v, n)]
  BY <1>0, <1>1, <1>2, <1>4, <1>5, <1>6 DEF IoReal
<1>8. /\ \A u \in Threads \ {t} : pc'[u] = pc[u] /\ call'[u] = call[u]
      /\ pc'[t] = "return" /\ call'[t].res = <<"write", n>>
  BY <1>7, FinishSim
<1>9. <<"write", n>> # None
  BY <1>1, OutcomeAssumption DEF Outcomes
<1>10. StepOn(t, f)
  <2>1. \A g \in Fds : kernel[g] # None => Len(data'[kernel[g].ino]) >= Len(data[kernel[g].ino])
    BY <1>1, <1>7, LengthsGrow
  <2> QED
    BY <1>0, <1>1, <1>2, <1>7, <1>8, <2>1, KernelMoved DEF StepOn, Active
<1>11. FilesInv'
  BY <1>1, <1>2, <1>7, KernelMoved, FilesKept DEF CarefulInv
<1>12. CarefulInv'
  BY <1>8, <1>9, <1>10, <1>11, ReturnCareful, CarefulNext
<1>13. Offset(f) = kernel[f].off /\ Offset(f)' = o
  BY <1>1, <1>2, <1>7, <1>12, OffsetLemma, OffsetLemmaNext, KernelMoved DEF OffsetFacts
<1>14. /\ Descriptors[f] # None /\ Descriptors[f].ino = i /\ Descriptors[f].off = kernel[f].off
       /\ Descriptors[f].append = kernel[f].append
       /\ Descriptor(f)' = [Descriptors[f] EXCEPT !.off = o]
  <2>1. ~Gone(f) /\ ~Gone(f)'
    BY <1>1, <1>2, <1>7, <1>8, KernelMoved, GoneMine DEF GoneBy
  <2> QED
    BY <1>1, <1>2, <1>4, <1>7, <1>12, <1>13, <2>1, KernelMoved, DescriptorMoved
<1>15. /\ File!Result(t, <<"write", n>>) /\ Returning' # Returning
       /\ Descriptors' = [Descriptors EXCEPT ![f] = Descriptor(f)']
  BY <1>1, <1>8, <1>9, <1>10, <1>12, TakenStep
<1>16. FileWrites(t, f, v, n, i, off)
  BY <1>1, <1>5, <1>6, <1>7, <1>14, <1>15 DEF FileWrites
<1> QED
  BY <1>12, <1>15, <1>16, FileWritesIs DEF FileStep, File!Next

\* The runtime's half of a transfer, on the file that the descriptor is open on, when the
\* runtime can open it and is the program's own node.
LEMMA ServeFacts ==
    ASSUME CarefulInv, Habits = {}, Deployment = {}, NEW t \in Threads, Serve(t)
    PROVE  \E f \in Fds, n \in Counts, i \in Inodes, off \in Nat :
             /\ f = call[t].fd /\ n = call[t].n /\ i = kernel[f].ino /\ off = call[t].off
             /\ pc[t] = "io_wait" /\ Running(t) /\ call[t].res = None /\ n \in Nat
             /\ posix_files_[f] # None /\ posix_files_[f].current_offset = off
             /\ Mine(t, f) /\ kernel[f] # None /\ ~kernel[f].append
             /\ data[i] \in Seq(Bytes) /\ dir' = dir /\ UNCHANGED <<kernel, posix_files_, owner>>
             /\ IF call[t].op = "read"
                THEN /\ data' = data
                     /\ Len(ReadAt(data[i], off, n)) = n /\ ReadAt(data[i], off, n) \in Seq(Bytes)
                     /\ Goto(t, "io_offset", [call[t] EXCEPT !.res = <<"read", ReadAt(data[i], off, n)>>])
                ELSE /\ call[t].op = "write" /\ call[t].val \in Values
                     /\ data' = [data EXCEPT ![i] = WriteAt(@, off, call[t].val, n)]
                     /\ Goto(t, "io_offset", [call[t] EXCEPT !.res = <<"write", n>>])
<1> DEFINE f == call[t].fd
           n == call[t].n
           i == kernel[f].ino
           off == call[t].off
<1>1. /\ pc[t] = "io_wait" /\ Running(t) /\ TypeInv /\ call[t].res = None /\ n \in Nat /\ n \in Counts
      /\ posix_files_[f] # None /\ posix_files_[f].current_offset = off /\ off \in Nat
      /\ call[t].path = posix_files_[f].absolute_path
      /\ call[t].op = "read" => posix_files_[f].current_offset + n <= Len(data[i])
      /\ call[t].op = "read" \/ (call[t].op = "write" /\ call[t].val \in Values)
      /\ UNCHANGED <<kernel, posix_files_, owner>>
  BY CallFacts DEF Serve, Running, IoPCs, ResultAt, CarefulAt, Routed, Locals
<1>2. f \in Fds /\ Mine(t, f) /\ kernel[f] # None /\ Agrees(f)
  BY <1>1, RunningOpen
<1>3. /\ i \in Inodes /\ data[i] \in Seq(Bytes) /\ kernel[f].path \in Paths
  BY <1>1, <1>2 DEF TypeInv, TypeOK, OpenFile
<1>4. call[t].path = kernel[f].path /\ dir[kernel[f].path] = i /\ ~kernel[f].append
  BY <1>1, <1>2 DEF Agrees, CarefulInv, FilesInv, FileAt
<1>5. dir[call[t].path] = i /\ dir[call[t].path] # None
  BY <1>3, <1>4, NoneAssumption
<1>6. dir' = dir
  <2>1. dir' = [dir EXCEPT ![call[t].path] = i]
    BY <1>5 DEF Serve
  <2> QED
    BY <1>1, <1>5, <2>1 DEF TypeInv, TypeOK
<1>7. CASE call[t].op = "read"
  <2> DEFINE got == ReadAt(data[i], off, n)
             buf == [b \in 1 .. n |-> IF b <= Len(got) THEN got[b] ELSE Junk]
  <2>1. /\ data' = [data EXCEPT ![i] = data[i]]
        /\ Goto(t, "io_offset", [call[t] EXCEPT !.res = <<"read", buf>>])
    BY <1>5, <1>7 DEF Serve, Served
  <2>2. Len(got) = n /\ buf = got /\ got \in Seq(Bytes)
    BY <1>1, <1>3, <1>7, WholeRead, ReadAtType
  <2>3. data' = data
    BY <1>1, <2>1 DEF TypeInv, TypeOK
  <2> HIDE DEF buf, got
  <2>4. Goto(t, "io_offset", [call[t] EXCEPT !.res = <<"read", got>>])
    BY <2>1, <2>2
  <2> QED
    BY <1>1, <1>2, <1>3, <1>4, <1>6, <1>7, <2>2, <2>3, <2>4 DEF got
<1>8. CASE call[t].op # "read"
  <2>1. /\ data' = [data EXCEPT ![i] = WriteAt(data[i], off, call[t].val, n)]
        /\ Goto(t, "io_offset", [call[t] EXCEPT !.res = <<"write", n>>])
    BY <1>1, <1>5, <1>8 DEF Serve, Served
  <2> QED
    BY <1>1, <1>2, <1>3, <1>4, <1>6, <1>8, <2>1
<1> QED
  BY <1>7, <1>8

\* What every transfer of the runtime leaves: the call has its result, and the
\* program's offset has moved past it.
LEMMA ServeMoves ==
    ASSUME CarefulInv, Habits = {}, RoutedInv', NEW t \in Threads, NEW f \in Fds, NEW n \in Counts,
           NEW off \in Nat, NEW r, NEW c,
           f = call[t].fd, n = call[t].n, n \in Nat, pc[t] = "io_wait", Running(t),
           call[t].res = None, posix_files_[f] # None, posix_files_[f].current_offset = off,
           Mine(t, f), kernel[f] # None, dir' = dir, UNCHANGED <<kernel, posix_files_, owner>>,
           \A g \in Fds : kernel[g] # None => Len(data'[kernel[g].ino]) >= Len(data[kernel[g].ino]),
           r # None, c.fd = f, c.n = n, c.op = call[t].op, c.res = r, Goto(t, "io_offset", c)
    PROVE  /\ CarefulInv'
           /\ File!Result(t, r) /\ Returning' # Returning
           /\ Descriptors[f] # None /\ Descriptors[f].ino = kernel[f].ino
           /\ Descriptors[f].off = off /\ Descriptors[f].append = kernel[f].append
           /\ Descriptors' = [Descriptors EXCEPT ![f] = [Descriptors[f] EXCEPT !.off = off + n]]
<1>1. TypeInv
  BY CallFacts
<1>3. pc'[t] = "io_offset" /\ call'[t] = c /\ \A u \in Threads \ {t} : pc'[u] = pc[u] /\ call'[u] = call[u]
  BY <1>1, GotoFacts, GotoOthers
<1>4. StepOn(t, f)
  BY <1>3 DEF StepOn, Active
<1>5. FilesInv'
  BY FilesKept DEF CarefulInv
<1>6. owner[f] = t
  BY CallFacts DEF CarefulAt
<1>7. ResultAt(t)' /\ CarefulAt(t)'
  BY <1>1, <1>3, <1>6 DEF ResultAt, CarefulAt, Running, IoPCs
<1>8. CarefulInv'
  BY <1>4, <1>5, <1>7, CarefulNext
<1>9. OffsetFacts /\ OffsetFacts'
  BY <1>8, OffsetLemma, OffsetLemmaNext
<1>10. Offset(f) = off
  <2>1. \A u \in Threads : ~Transferred(u, f) /\ ~Sought(u, f)
    BY DEF Transferred, Sought, Mine, Active
  <2> QED
    BY <1>9, <2>1 DEF OffsetFacts
<1>11. Offset(f)' = off + n
  <2>1. Transferred(t, f)' /\ call'[t].n = n
    BY <1>1, <1>3 DEF Transferred
  <2> QED
    BY <1>9, <2>1 DEF OffsetFacts
<1>12. /\ Descriptors[f] # None /\ Descriptors[f].ino = kernel[f].ino /\ Descriptors[f].off = off
       /\ Descriptors[f].append = kernel[f].append
       /\ Descriptor(f)' = [Descriptors[f] EXCEPT !.off = off + n]
  <2>1. ~Gone(f) /\ ~Gone(f)'
    BY <1>3, GoneMine DEF GoneBy
  <2>2. off + n \in Nat
    OBVIOUS
  <2> QED
    BY <1>8, <1>10, <1>11, <2>1, <2>2, DescriptorMoved
<1>13. /\ File!Result(t, r) /\ Returning' # Returning
       /\ Descriptors' = [Descriptors EXCEPT ![f] = Descriptor(f)']
  BY <1>1, <1>3, <1>4, <1>8, TakenStep
<1> QED
  BY <1>8, <1>12, <1>13

LEMMA ServeSim ==
    ASSUME CarefulInv, Habits = {}, Deployment = {}, RoutedInv', NEW t \in Threads, Serve(t)
    PROVE  CarefulInv' /\ FileStep
<1>0. PICK f \in Fds, n \in Counts, i \in Inodes, off \in Nat :
        /\ f = call[t].fd /\ n = call[t].n /\ i = kernel[f].ino /\ off = call[t].off
        /\ pc[t] = "io_wait" /\ Running(t) /\ call[t].res = None /\ n \in Nat
        /\ posix_files_[f] # None /\ posix_files_[f].current_offset = off
        /\ Mine(t, f) /\ kernel[f] # None /\ ~kernel[f].append
        /\ data[i] \in Seq(Bytes) /\ dir' = dir /\ UNCHANGED <<kernel, posix_files_, owner>>
        /\ IF call[t].op = "read"
           THEN /\ data' = data
                /\ Len(ReadAt(data[i], off, n)) = n /\ ReadAt(data[i], off, n) \in Seq(Bytes)
                /\ Goto(t, "io_offset", [call[t] EXCEPT !.res = <<"read", ReadAt(data[i], off, n)>>])
           ELSE /\ call[t].op = "write" /\ call[t].val \in Values
                /\ data' = [data EXCEPT ![i] = WriteAt(@, off, call[t].val, n)]
                /\ Goto(t, "io_offset", [call[t] EXCEPT !.res = <<"write", n>>])
  BY ServeFacts
<1>1. TypeInv
  BY CallFacts
<1>2. CASE call[t].op = "read"
  <2>1. PICK got \in Seq(Bytes) : got = ReadAt(data[i], off, n)
    BY <1>0, <1>2
  <2>2. Len(got) = n /\ data' = data /\ Goto(t, "io_offset", [call[t] EXCEPT !.res = <<"read", got>>])
    BY <1>0, <1>2, <2>1
  <2>3. <<"read", got>> # None
    BY <2>1, OutcomeAssumption DEF Outcomes
  <2>4. \A g \in Fds : kernel[g] # None => Len(data'[kernel[g].ino]) >= Len(data[kernel[g].ino])
    BY <1>1, <2>2, LengthsKept
  <2>5. /\ CarefulInv' /\ File!Result(t, <<"read", got>>) /\ Returning' # Returning
        /\ Descriptors[f] # None /\ Descriptors[f].ino = i /\ Descriptors[f].off = off
        /\ Descriptors' = [Descriptors EXCEPT ![f] = [Descriptors[f] EXCEPT !.off = off + n]]
    <3>1. /\ f = call[t].fd /\ n = call[t].n /\ n \in Nat /\ pc[t] = "io_wait" /\ Running(t)
          /\ call[t].res = None /\ posix_files_[f] # None /\ posix_files_[f].current_offset = off
          /\ Mine(t, f) /\ kernel[f] # None /\ dir' = dir /\ UNCHANGED <<kernel, posix_files_, owner>>
      BY <1>0
    <3> DEFINE r == <<"read", got>>
               c == [call[t] EXCEPT !.res = r]
    <3>2. /\ r # None /\ c.fd = f /\ c.n = n /\ c.op = call[t].op /\ c.res = r
          /\ Goto(t, "io_offset", c)
      BY <2>2, <2>3, <3>1, CallFacts DEF Call
    <3> HIDE DEF r, c
    <3>3. /\ CarefulInv' /\ File!Result(t, r) /\ Returning' # Returning
          /\ Descriptors[f] # None /\ Descriptors[f].ino = kernel[f].ino
          /\ Descriptors[f].off = off /\ Descriptors[f].append = kernel[f].append
          /\ Descriptors' = [Descriptors EXCEPT ![f] = [Descriptors[f] EXCEPT !.off = off + n]]
      BY <2>4, <3>1, <3>2, ServeMoves
    <3> QED
      BY <1>0, <3>3 DEF r
  <2>6. Descriptors' = [Descriptors EXCEPT ![f].off = Descriptors[f].off + Len(got)]
    BY <2>2, <2>5
  <2>7. got = File!ReadAt(data[Descriptors[f].ino], Descriptors[f].off, n)
    BY <2>1, <2>5 DEF ReadAt, File!ReadAt
  <2>8. File!Read(t, f, n)
    BY <1>0, <2>2, <2>5, <2>6, <2>7 DEF File!Read
  <2> QED
    BY <2>5, <2>8 DEF FileStep, File!Next
<1>3. CASE call[t].op # "read"
  <2>1. PICK v \in Values : v = call[t].val
    BY <1>0, <1>3
  <2>2. /\ data' = [data EXCEPT ![i] = WriteAt(@, off, v, n)]
        /\ Goto(t, "io_offset", [call[t] EXCEPT !.res = <<"write", n>>])
    BY <1>0, <1>3, <2>1
  <2>3. <<"write", n>> # None
    BY <1>0, OutcomeAssumption DEF Outcomes
  <2>4. \A g \in Fds : kernel[g] # None => Len(data'[kernel[g].ino]) >= Len(data[kernel[g].ino])
    <3>1. v \in Bytes
      BY DEF Bytes
    <3> QED
      BY <1>0, <1>1, <2>2, <3>1, LengthsGrow
  <2>5. /\ CarefulInv' /\ File!Result(t, <<"write", n>>) /\ Returning' # Returning
        /\ Descriptors[f] # None /\ Descriptors[f].ino = i /\ Descriptors[f].off = off
        /\ ~Descriptors[f].append
        /\ Descriptors' = [Descriptors EXCEPT ![f] = [Descriptors[f] EXCEPT !.off = off + n]]
    <3>1. /\ f = call[t].fd /\ n = call[t].n /\ n \in Nat /\ pc[t] = "io_wait" /\ Running(t)
          /\ call[t].res = None /\ posix_files_[f] # None /\ posix_files_[f].current_offset = off
          /\ Mine(t, f) /\ kernel[f] # None /\ dir' = dir /\ UNCHANGED <<kernel, posix_files_, owner>>
      BY <1>0
    <3> DEFINE r == <<"write", n>>
               c == [call[t] EXCEPT !.res = r]
    <3>2. /\ r # None /\ c.fd = f /\ c.n = n /\ c.op = call[t].op /\ c.res = r
          /\ Goto(t, "io_offset", c)
      BY <2>2, <2>3, <3>1, CallFacts DEF Call
    <3> HIDE DEF r, c
    <3>3. /\ CarefulInv' /\ File!Result(t, r) /\ Returning' # Returning
          /\ Descriptors[f] # None /\ Descriptors[f].ino = kernel[f].ino
          /\ Descriptors[f].off = off /\ Descriptors[f].append = kernel[f].append
          /\ Descriptors' = [Descriptors EXCEPT ![f] = [Descriptors[f] EXCEPT !.off = off + n]]
      BY <2>4, <3>1, <3>2, ServeMoves
    <3> QED
      BY <1>0, <3>3 DEF r
  <2>6. FileWrites(t, f, v, n, i, off)
    BY <1>0, <2>2, <2>5 DEF FileWrites
  <2> QED
    BY <2>5, <2>6, FileWritesIs DEF FileStep, File!Next
<1> QED
  BY <1>2, <1>3

-----------------------------------------------------------------------------
\* An open that fails has a result and does nothing else.
LEMMA OpenFailsSim ==
    ASSUME CarefulInv, Habits = {}, RoutedInv', NEW t \in Threads, NEW p \in Paths,
           NEW mode \in OpenModes, pc[t] = "idle", UNCHANGED <<dir, data, kernel, posix_files_, owner>>,
           Goto(t, "return", [NoCall EXCEPT !.op = "open", !.res = <<"open", None>>])
    PROVE  CarefulInv' /\ FileStep
<1> DEFINE c == [NoCall EXCEPT !.op = "open", !.res = <<"open", None>>]
<1>1. c.res = <<"open", None>> /\ <<"open", None>> # None
  BY OutcomeAssumption DEF NoCall, Outcomes
<1>2. Goto(t, "return", c)
  OBVIOUS
<1> HIDE DEF c
<1>3. call[t].res = None /\ Mine(t, None)
  BY CallFacts, NoneAssumption DEF ResultAt, Mine
<1>4. StepOn(t, None) /\ FilesInv' /\ pc'[t] = "return" /\ call'[t] = c
  BY <1>2, <1>3, ControlStep DEF Active
<1>5. CarefulInv'
  BY <1>1, <1>4, ReturnCareful, CarefulNext
<1>6. File!Result(t, <<"open", None>>) /\ Returning' # Returning /\ Descriptors' = Descriptors
  BY <1>1, <1>3, <1>4, <1>5, NoneAssumption, TakenStep
<1>7. File!Open(t, p, mode)
  BY <1>6 DEF File!Open
<1> QED
  BY <1>5, <1>6, <1>7 DEF FileStep, File!Next

\* What the real open of a careful program does to names, files and descriptors.
LEMMA RealOpenFacts ==
    ASSUME CarefulInv, Habits = {}, NEW t \in Threads, NEW p \in Paths, NEW mode \in OpenModes,
           NEW f \in Fds, NEW i \in Inodes, kernel[f] = None,
           dir[p] = i \/ (dir[p] = None /\ i \in FreeInodes),
           dir' = [dir EXCEPT ![p] = i],
           data' = IF dir[p] = None \/ "O_TRUNC" \in mode THEN [data EXCEPT ![i] = << >>] ELSE data,
           kernel' = [kernel EXCEPT ![f] = [path |-> p, ino |-> i, off |-> 0,
                                            append |-> "O_APPEND" \in mode]],
           "O_TRUNC" \in mode => ~OpenOn(p),
           "O_APPEND" \in mode => p \notin Intercepted
    PROVE  /\ FilesInv'
           /\ kernel'[f] = [path |-> p, ino |-> i, off |-> 0, append |-> "O_APPEND" \in mode]
           /\ kernel'[f] # None /\ \A g \in Fds \ {f} : kernel'[g] = kernel[g]
           /\ \A g \in Fds : kernel[g] # None => Len(data'[kernel[g].ino]) >= Len(data[kernel[g].ino])
<1> DEFINE k == [path |-> p, ino |-> i, off |-> 0, append |-> "O_APPEND" \in mode]
<1>0. TypeInv /\ FilesInv /\ None \notin Inodes
  BY CallFacts, NoneAssumption DEF CarefulInv
<1>1. k \in OpenFile /\ k # None /\ k.path = p /\ k.ino = i /\ (k.append => "O_APPEND" \in mode)
  <2>1. k \in OpenFile /\ k # None
    <3>1. [path |-> p, ino |-> i, off |-> 0, append |-> "O_APPEND" \in mode] \in OpenFile
      BY DEF OpenFile
    <3> QED
      BY <3>1, NoneAssumption
  <2>2. k.path = p /\ k.ino = i
    OBVIOUS
  <2>3. k.append => "O_APPEND" \in mode
    OBVIOUS
  <2> QED
    BY <2>1, <2>2, <2>3
<1>2. kernel'[f] = k /\ \A g \in Fds \ {f} : kernel'[g] = kernel[g]
  BY <1>0 DEF TypeInv, TypeOK
<1> HIDE DEF k
<1>3. \A q \in Paths : dir'[q] = IF q = p THEN i ELSE dir[q]
  BY <1>0 DEF TypeInv, TypeOK
<1>4. \A q \in Paths : dir[q] = i => q = p
  BY <1>0 DEF FilesInv, NamesDiffer, FreeInodes
<1>5. \A q \in Paths : dir[q] # None => dir'[q] = dir[q]
  BY <1>0, <1>3, <1>4
<1>6. NamesDiffer'
  <2> SUFFICES ASSUME NEW q \in Paths, NEW r \in Paths, dir'[q] = dir'[r], dir'[q] # None
               PROVE  q = r
    BY DEF NamesDiffer
  <2> QED
    BY <1>0, <1>3, <1>4 DEF FilesInv, NamesDiffer
<1>7. ASSUME NEW g \in Fds PROVE FileAt(g)'
  <2>1. CASE g = f
    <3>1. kernel'[g].path = p /\ kernel'[g].ino = i /\ (p \in Intercepted => ~kernel'[g].append)
      BY <1>1, <1>2, <2>1
    <3> QED
      BY <1>3, <3>1 DEF FileAt
  <2>2. CASE g # f
    <3>1. FileAt(g) /\ kernel'[g] = kernel[g]
      BY <1>0, <1>2, <2>2 DEF FilesInv
    <3>2. kernel[g] # None => kernel[g].path \in Paths /\ kernel[g].ino \in Inodes
      BY <1>0 DEF TypeInv, TypeOK, OpenFile
    <3> QED
      BY <1>0, <1>5, <3>1, <3>2 DEF FileAt
  <2> QED
    BY <2>1, <2>2
<1>8. ASSUME NEW g \in Fds, kernel[g] # None
      PROVE  Len(data'[kernel[g].ino]) >= Len(data[kernel[g].ino])
  <2>1. /\ kernel[g].path \in Paths /\ kernel[g].ino \in Inodes /\ data[kernel[g].ino] \in Seq(Bytes)
        /\ dir[kernel[g].path] = kernel[g].ino
    BY <1>0, <1>8 DEF TypeInv, TypeOK, OpenFile, FilesInv, FileAt
  <2>2. data'[kernel[g].ino] = data[kernel[g].ino]
    <3>1. CASE kernel[g].ino = i
      <4>1. kernel[g].path = p
        BY <1>4, <2>1, <3>1
      <4>2. dir[p] # None /\ OpenOn(p)
        BY <1>0, <1>8, <2>1, <4>1 DEF OpenOn
      <4> QED
        BY <4>2
    <3>2. CASE kernel[g].ino # i
      BY <1>0, <2>1, <3>2 DEF TypeInv, TypeOK
    <3> QED
      BY <3>1, <3>2
  <2> QED
    BY <2>1, <2>2
<1> QED
  BY <1>1, <1>2, <1>6, <1>7, <1>8 DEF FilesInv, k

LEMMA OpenSucceedsSim ==
    ASSUME CarefulInv, Habits = {}, RoutedInv', NEW t \in Threads, NEW p \in Paths,
           NEW mode \in OpenModes, NEW f \in Fds, pc[t] = "idle", RealOpen(f, p, mode),
           "O_TRUNC" \in mode => ~OpenOn(p),
           "O_APPEND" \in mode => p \notin Intercepted,
           UNCHANGED <<posix_files_, owner>>,
           Goto(t, IF p \in Intercepted THEN "open_register" ELSE "return",
                [NoCall EXCEPT !.op = "open", !.fd = f, !.path = p, !.res = <<"open", f>>])
    PROVE  CarefulInv' /\ FileStep
<1> DEFINE c == [NoCall EXCEPT !.op = "open", !.fd = f, !.path = p, !.res = <<"open", f>>]
           l == IF p \in Intercepted THEN "open_register" ELSE "return"
<1>1. /\ c.fd = f /\ c.op = "open" /\ c.res = <<"open", f>> /\ <<"open", f>> # None
      /\ l \in {"open_register", "return"}
  BY OutcomeAssumption DEF NoCall, Outcomes
<1>2. Goto(t, l, c)
  OBVIOUS
<1> HIDE DEF c, l
<1>3. call[t].res = None /\ TypeInv
  BY CallFacts DEF ResultAt
<1>4. pc'[t] = l /\ call'[t] = c /\ \A u \in Threads \ {t} : pc'[u] = pc[u] /\ call'[u] = call[u]
  BY <1>2, <1>3, GotoFacts, GotoOthers
<1>5. PICK i \in Inodes :
        /\ \/ dir[p] = i
           \/ dir[p] = None /\ "O_CREAT" \in mode /\ i \in FreeInodes
        /\ kernel' = [kernel EXCEPT ![f] = [path |-> p, ino |-> i, off |-> 0,
                                            append |-> "O_APPEND" \in mode]]
        /\ data' = IF dir[p] = None \/ "O_TRUNC" \in mode
                   THEN [data EXCEPT ![i] = << >>] ELSE data
        /\ dir' = [dir EXCEPT ![p] = i]
  BY DEF RealOpen
<1>6. kernel[f] = None
  BY DEF RealOpen
<1>7. /\ FilesInv'
      /\ kernel'[f] = [path |-> p, ino |-> i, off |-> 0, append |-> "O_APPEND" \in mode]
      /\ kernel'[f] # None /\ \A g \in Fds \ {f} : kernel'[g] = kernel[g]
      /\ \A g \in Fds : kernel[g] # None => Len(data'[kernel[g].ino]) >= Len(data[kernel[g].ino])
  BY <1>5, <1>6, RealOpenFacts
<1>8. Mine(t, f) /\ posix_files_[f] = None
  BY <1>6, FreeMine
<1>9. StepOn(t, f)
  BY <1>1, <1>4, <1>7, <1>8 DEF StepOn, Active
<1>10. ResultAt(t)' /\ CarefulAt(t)'
  <2>1. kernel'[f].off = 0 /\ posix_files_'[f] = None
    BY <1>7, <1>8
  <2> QED
    BY <1>1, <1>4, <2>1 DEF ResultAt, CarefulAt, Running, IoPCs, SeekPCs
<1>11. CarefulInv'
  BY <1>7, <1>9, <1>10, CarefulNext
<1>12. Descriptors[f] = None
  <2>1. Gone(f)
    BY <1>6 DEF Gone
  <2> QED
    BY <2>1 DEF Descriptors, Descriptor
<1>13. Descriptor(f)' = [path |-> p, ino |-> i, off |-> 0, append |-> "O_APPEND" \in mode]
  <2>1. ~Gone(f)'
    BY <1>1, <1>4, <1>7, <1>8, GoneMine DEF GoneBy
  <2>2. Offset(f)' = 0
    BY <1>7, <1>8, <1>11, OffsetLemmaNext DEF OffsetFacts
  <2>3. Descriptor(f)' = At(kernel'[f], 0)
    BY <1>11, <2>1, <2>2, DescriptorLemmaNext DEF DescriptorFacts
  <2> QED
    BY <1>7, <2>3 DEF At
<1>14. /\ File!Result(t, <<"open", f>>) /\ Returning' # Returning
       /\ Descriptors' = [Descriptors EXCEPT ![f] = Descriptor(f)']
  BY <1>1, <1>3, <1>4, <1>9, <1>11, TakenStep
<1>15. i \in FreeInodes => i \in File!FreeInodes
  <2> SUFFICES ASSUME i \in FreeInodes, NEW g \in Fds
               PROVE  Descriptors[g] = None \/ Descriptors[g].ino # i
    BY DEF FreeInodes, File!FreeInodes
  <2>1. CASE Gone(g)
    BY <2>1 DEF Descriptors, Descriptor
  <2>2. CASE ~Gone(g)
    BY <2>2, DescriptorLemma DEF DescriptorFacts, Descriptors, At, FreeInodes
  <2> QED
    BY <2>1, <2>2
<1>16. Descriptors' = [Descriptors EXCEPT ![f] = [path |-> p, ino |-> i, off |-> 0,
                                                  append |-> "O_APPEND" \in mode]]
  BY <1>13, <1>14
<1>17. File!Open(t, p, mode)
  BY <1>5, <1>12, <1>14, <1>15, <1>16 DEF File!Open
<1> QED
  BY <1>11, <1>14, <1>17 DEF FileStep, File!Next

LEMMA OpenSim ==
    ASSUME CarefulInv, Habits = {}, RoutedInv', NEW t \in Threads, NEW p \in Paths,
           NEW mode \in OpenModes, Open(t, p, mode)
    PROVE  CarefulInv' /\ FileStep
<1>1. /\ pc[t] = "idle" /\ UNCHANGED <<posix_files_, owner>>
      /\ "O_TRUNC" \in mode => ~OpenOn(p)
      /\ "O_APPEND" \in mode => p \notin Intercepted
  BY DEF Open
<1>2. CASE \E f \in Fds :
             /\ RealOpen(f, p, mode)
             /\ Goto(t, IF p \in Intercepted THEN "open_register" ELSE "return",
                     [NoCall EXCEPT !.op = "open", !.fd = f, !.path = p, !.res = <<"open", f>>])
  BY <1>1, <1>2, OpenSucceedsSim
<1>3. CASE /\ UNCHANGED <<dir, data, kernel>>
           /\ Goto(t, "return", [NoCall EXCEPT !.op = "open", !.res = <<"open", None>>])
  BY <1>1, <1>3, OpenFailsSim
<1> QED
  BY <1>2, <1>3 DEF Open

-----------------------------------------------------------------------------
LEMMA CarefulInit == Init => CarefulInv /\ File!Init
<1> SUFFICES ASSUME Init PROVE CarefulInv /\ File!Init
  OBVIOUS
<1>1. NoCall.res = None
  BY DEF NoCall
<1>2. RoutedInv /\ FilesInv
  BY RoutedInit DEF Init, FilesInv, NamesDiffer, FileAt
<1>3. \A t \in Threads : ResultAt(t) /\ CarefulAt(t)
  BY <1>1 DEF Init, ResultAt, CarefulAt, Running, IoPCs, SeekPCs
<1>4. Descriptors = [f \in Fds |-> None]
  BY DEF Init, Descriptors, Descriptor, Gone
<1>5. Returning = [t \in Threads |-> None]
  BY <1>1 DEF Init, Returning
<1> QED
  BY <1>2, <1>3, <1>4, <1>5 DEF CarefulInv, CallsInv, Init, File!Init

LEMMA CarefulStep ==
    ASSUME CarefulInv, Habits = {}, Deployment = {}, [Next]_vars
    PROVE  CarefulInv' /\ FileStep
<1>0. RoutedInv'
  BY RoutedStep DEF CarefulInv
<1>1. CASE UNCHANGED vars
  <2>1. FilesInv' /\ CallsInv'
    BY <1>1 DEF vars, CarefulInv, FilesInv, NamesDiffer, FileAt, CallsInv, ResultAt, CarefulAt, Running
  <2>2. UNCHANGED <<dir, data, Descriptors, Returning>>
    BY <1>1 DEF vars, Descriptors, Descriptor, Gone, Offset, Returning
  <2> QED
    BY <1>0, <2>1, <2>2 DEF CarefulInv, FileStep, File!vars
<1>2. ASSUME NEW t \in Threads, Begin(t) PROVE CarefulInv' /\ FileStep
  BY <1>0, <1>2, OpenSim, IoCallSim, SeekCallSim, CloseCallSim, UnlinkSim DEF Begin
<1>3. ASSUME NEW t \in Threads, Step(t) PROVE CarefulInv' /\ FileStep
  BY <1>0, <1>3, OpenRegisterSim, IoInfoSim, RealReadSim, RealWriteSim, IoSubmitSim, ServeSim,
     IoOffsetSim, IoStoreSim, SeekRealSim, SeekUpdateSim, CloseUnregisterSim, CloseRealSim,
     ReturnSim DEF Step
<1> QED
  BY <1>1, <1>2, <1>3 DEF Next

\* For a careful program, whatever its threads, paths and descriptors, and while the
\* runtime has the program's node only and descriptors left: open, read, write, lseek,
\* close and unlink through the library behave as the calls of PosixFile, each taking
\* effect at one instant of its wrapper.
THEOREM LibraryTransparent ==
    ASSUME Habits = {}, Deployment = {}
    PROVE  Spec => Transparent
<1>1. CarefulInv /\ [Next]_vars => CarefulInv' /\ FileStep
  BY CarefulStep
<1>2. CarefulInv /\ [Next]_vars => CarefulInv' /\ [File!Next]_(File!vars)
  BY <1>1 DEF FileStep
<1> QED
  BY CarefulInit, <1>2, PTL DEF Spec, Transparent, File!Spec
=============================================================================
