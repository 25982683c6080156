------------------------- MODULE StdioAdapterProofs -------------------------
(***************************************************************************)
(* What TLAPS proves of StdioAdapter, for any threads, FILE pointers,      *)
(* paths, buffers and bounds: its types, the bound on what the runtime     *)
(* holds back included; that the table never disagrees with the C library  *)
(* about an open stream; and that no byte that was written is lost or      *)
(* misplaced while the runtime lives.                                      *)
(***************************************************************************)
EXTENDS StdioAdapter, SequenceTheorems, TLAPS

\* A byte string put into a file makes a file.
LEMMA PutType ==
    ASSUME NEW file \in Seq(Bytes), NEW off \in Nat, NEW bytes \in Seq(Bytes)
    PROVE  Put(file, off, bytes) \in Seq(Bytes)
<1> DEFINE m == IF off + Len(bytes) > Len(file) THEN off + Len(bytes) ELSE Len(file)
<1>1. m \in Nat
  OBVIOUS
<1>2. \A i \in 1 .. m : (IF i \in off + 1 .. off + Len(bytes) THEN bytes[i - off]
                         ELSE IF i <= Len(file) THEN file[i] ELSE Zero) \in Bytes
  <2> SUFFICES ASSUME NEW i \in 1 .. m
               PROVE  (IF i \in off + 1 .. off + Len(bytes) THEN bytes[i - off]
                       ELSE IF i <= Len(file) THEN file[i] ELSE Zero) \in Bytes
    OBVIOUS
  <2>1. i \in off + 1 .. off + Len(bytes) => i - off \in 1 .. Len(bytes)
    OBVIOUS
  <2> QED
    BY <2>1 DEF Bytes
<1>3. Put(file, off, bytes) \in [1 .. m -> Bytes]
  BY <1>2 DEF Put
<1> QED
  BY <1>1, <1>3

LEMMA RepeatType ==
    ASSUME NEW v \in Values, NEW n \in Nat
    PROVE  /\ Repeat(v, n) \in Seq(Values) /\ Repeat(v, n) \in Seq(Bytes)
           /\ Len(Repeat(v, n)) = n
<1>1. Repeat(v, n) \in [1 .. n -> Values]
  BY DEF Repeat
<1>2. Repeat(v, n) \in [1 .. n -> Bytes]
  BY DEF Repeat, Bytes
<1> QED
  BY <1>1, <1>2

LEMMA BytesOfValues ==
    ASSUME NEW s \in Seq(Values) PROVE s \in Seq(Bytes)
<1>1. s \in [1 .. Len(s) -> Bytes]
  BY DEF Bytes
<1> QED
  BY <1>1

\* A list of streams without one of them.
LEMMA RemoveAtType ==
    ASSUME NEW S, NEW s \in Seq(S), NEW i \in DOMAIN s
    PROVE  /\ RemoveAt(s, i) \in Seq(S) /\ Len(RemoveAt(s, i)) = Len(s) - 1
           /\ \A j \in DOMAIN RemoveAt(s, i) : \E k \in DOMAIN s : RemoveAt(s, i)[j] = s[k]
           /\ \A k \in DOMAIN s : k # i => \E j \in DOMAIN RemoveAt(s, i) : RemoveAt(s, i)[j] = s[k]
<1> DEFINE a == SubSeq(s, 1, i - 1)
           b == SubSeq(s, i + 1, Len(s))
<1>1. a \in Seq(S) /\ Len(a) = i - 1 /\ \A j \in 1 .. i - 1 : a[j] = s[j]
  OBVIOUS
<1>2. b \in Seq(S) /\ Len(b) = Len(s) - i /\ \A j \in 1 .. Len(s) - i : b[j] = s[i + j]
  OBVIOUS
<1>3. RemoveAt(s, i) = a \o b
  BY DEF RemoveAt
<1> HIDE DEF a, b
<1>4. a \o b \in Seq(S) /\ Len(a \o b) = Len(s) - 1 /\ DOMAIN (a \o b) = 1 .. Len(s) - 1
  BY <1>1, <1>2
<1>5. ASSUME NEW j \in 1 .. Len(s) - 1 PROVE \E k \in DOMAIN s : (a \o b)[j] = s[k]
  <2>1. CASE j <= i - 1
    BY <2>1, <1>1, <1>2
  <2>2. CASE j > i - 1
    <3>1. (a \o b)[j] = b[j - (i - 1)]
      BY <2>2, <1>1, <1>2
    <3>2. j - (i - 1) \in 1 .. Len(s) - i
      BY <2>2
    <3>3. b[j - (i - 1)] = s[i + (j - (i - 1))]
      BY <3>2, <1>2
    <3> QED
      BY <3>1, <3>2, <3>3
  <2>3. j <= i - 1 \/ j > i - 1
    OBVIOUS
  <2> QED
    BY <2>1, <2>2, <2>3, Zenon
<1>6. \A j \in DOMAIN (a \o b) : \E k \in DOMAIN s : (a \o b)[j] = s[k]
  BY <1>4, <1>5
<1>7. ASSUME NEW k \in 1 .. Len(s), k # i PROVE \E j \in 1 .. Len(s) - 1 : (a \o b)[j] = s[k]
  <2>1. CASE k < i
    <3>1. k \in 1 .. Len(s) - 1 /\ k \in 1 .. i - 1
      BY <2>1
    <3>2. (a \o b)[k] = s[k]
      BY <3>1, <1>1, <1>2
    <3> QED
      BY <3>1, <3>2
  <2>2. CASE k > i
    <3>1. k - 1 \in 1 .. Len(s) - 1 /\ k - 1 > i - 1 /\ k - i \in 1 .. Len(s) - i
      BY <2>2
    <3>2. (a \o b)[k - 1] = b[(k - 1) - (i - 1)] /\ (k - 1) - (i - 1) = k - i
      BY <3>1, <1>1, <1>2
    <3>3. b[k - i] = s[i + (k - i)] /\ i + (k - i) = k
      BY <3>1, <1>2
    <3> QED
      BY <3>1, <3>2, <3>3
  <2>3. i \in 1 .. Len(s) /\ k \in 1 .. Len(s)
    BY <1>7
  <2>4. k < i \/ k > i
    BY <1>7, <2>3
  <2> QED
    BY <2>1, <2>2, <2>4
<1>8. DOMAIN s = 1 .. Len(s)
  OBVIOUS
<1> QED
  BY <1>3, <1>4, <1>6, <1>7, <1>8

-----------------------------------------------------------------------------
(***************************************************************************)
(* The inductive invariant.  A wrapper reads a stream and an entry through *)
(* its FILE pointer, so types depend on who has the pointer: a thread      *)
(* inside an fopen or fclose has it to itself, and one inside an fwrite is *)
(* its owner.                                                              *)
(***************************************************************************)
WritePCs == {"write_submit", "write_wait", "write_offset", "write_store", "write_real"}
SentPCs == {"write_wait", "write_offset", "write_store"}
ClosePCs == {"close_unregister", "close_real"}
PCs == {"idle", "open_register", "return"} \union WritePCs \union ClosePCs

Locals == [op : {"none", "fopen", "fwrite", "fclose"}, fp : Fps \union {None},
           path : Paths \union {None}, n : Nat, val : Values \union {None}, off : Nat]

\* The variables that a wrapper has set by the time it is at a step.
LocalsSet(t) ==
    /\ pc[t] # "idle" => call[t].fp \in Fps
    /\ pc[t] = "open_register" => call[t].op = "fopen" /\ call[t].path \in Paths
    /\ pc[t] \in WritePCs => call[t].op = "fwrite" /\ call[t].val \in Values
    /\ pc[t] \in SentPCs => call[t].path \in Paths
    /\ pc[t] \in ClosePCs => call[t].op = "fclose"
    /\ pc[t] = "return" /\ call[t].op = "fwrite"
         => call[t].path \in Paths /\ call[t].val \in Values

ControlOK ==
    /\ pc \in [Threads -> PCs] /\ call \in [Threads -> Locals]
    /\ \A t \in Threads : LocalsSet(t)

\* t has the stream f to itself: its fopen has not returned yet, or its fclose has
\* begun.
Holds(t, f) ==
    /\ call[t].fp = f
    /\ \/ pc[t] \in {"open_register"} \union ClosePCs
       \/ pc[t] = "return" /\ call[t].op = "fopen"

\* What is true of a stream while t has it.
HeldBy(t, f) ==
    /\ owner[f] = None /\ stream[f] # None
    /\ pc[t] = "open_register" => /\ call[t].path \in Intercepted
                                  /\ stream[f].path = call[t].path
    /\ pc[t] = "close_real" => stdio_files_[f] = None
    /\ pc[t] = "return" => Agrees(f)

TableAt(f) ==
    /\ stream[f] = None => stdio_files_[f] = None
    /\ owner[f] # None => Agrees(f)
    /\ \A t \in Threads : Holds(t, f) =>
          HeldBy(t, f) /\ \A u \in Threads : Holds(u, f) => u = t

\* A thread inside an fwrite owns the stream, and took the branch that is right for it.
Writes(t) ==
    LET f == call[t].fp
    IN  pc[t] \in WritePCs =>
          /\ owner[f] = t
          /\ pc[t] = "write_real" <=> stdio_files_[f] = None
          /\ pc[t] \in SentPCs => call[t].path = stream[f].path

\* What a stream, or a stream of the runtime, will be flushed to exists.
FilesExist ==
    /\ \A f \in Fps : stream[f] # None => data[stream[f].path] # None
    /\ \A i \in DOMAIN served : data[served[i].path] # None

StreamInv ==
    /\ TypeOK
    /\ ControlOK
    /\ \A f \in Fps : TableAt(f)
    /\ \A t \in Threads : Writes(t)
    /\ FilesExist

-----------------------------------------------------------------------------
LEMMA NoCallType == NoCall \in Locals /\ NoCall.op = "none"
  BY DEF NoCall, Locals

LEMMA StreamInit == Init => StreamInv
<1> SUFFICES ASSUME Init PROVE StreamInv
  OBVIOUS
<1>1. TypeOK
  BY SizeAssumption DEF Init, TypeOK
<1>2. ControlOK
  BY NoCallType DEF Init, ControlOK, LocalsSet, PCs, WritePCs, SentPCs, ClosePCs
<1>3. \A f \in Fps : TableAt(f)
  BY DEF Init, TableAt, Holds, ClosePCs
<1>4. \A t \in Threads : Writes(t)
  BY DEF Init, Writes, WritePCs
<1>5. FilesExist
  BY DEF Init, FilesExist
<1> QED
  BY <1>1, <1>2, <1>3, <1>4, <1>5 DEF StreamInv

-----------------------------------------------------------------------------
(***************************************************************************)
(* A step of a thread concerns one stream, which is the thread's own; what *)
(* the invariant says of the others, and of other threads, stays.          *)
(***************************************************************************)
Mine(t, g) == stream[g] = None \/ owner[g] = t \/ Holds(t, g)

Same(f) ==
    /\ owner'[f] = owner[f]
    /\ stream'[f] = None <=> stream[f] = None
    /\ stream[f] # None => stream'[f].path = stream[f].path
    /\ stdio_files_'[f] = None <=> stdio_files_[f] = None
    /\ stdio_files_[f] # None
         => stdio_files_'[f].absolute_path = stdio_files_[f].absolute_path

Others(t) == \A u \in Threads \ {t} : pc'[u] = pc[u] /\ call'[u] = call[u]

LEMMA NobodyElse ==
    ASSUME StreamInv, NEW t \in Threads, NEW g \in Fps, Mine(t, g), NEW u \in Threads, u # t
    PROVE  ~Holds(u, g) /\ (pc[u] \in WritePCs => call[u].fp # g)
<1>1. TableAt(g) /\ Writes(u)
  BY DEF StreamInv
<1> QED
  BY <1>1, NoneAssumption DEF Mine, TableAt, HeldBy, Writes, Agrees

LEMMA SameAgrees ==
    ASSUME NEW f \in Fps, Same(f), Agrees(f) PROVE Agrees(f)'
  BY DEF Same, Agrees

LEMMA SameTableAt ==
    ASSUME NEW t \in Threads, NEW f \in Fps, TableAt(f), Others(t), Same(f), ~Holds(t, f)'
    PROVE  TableAt(f)'
<1>1. Agrees(f) => Agrees(f)'
  BY SameAgrees
<1>2. ASSUME NEW u \in Threads, Holds(u, f)' PROVE u # t /\ Holds(u, f)
  BY <1>2 DEF Others, Holds
<1>3. ASSUME NEW u \in Threads, Holds(u, f)' PROVE HeldBy(u, f)'
  <2>1. u # t /\ HeldBy(u, f)
    BY <1>2, <1>3 DEF TableAt
  <2> QED
    BY <2>1, <1>1 DEF HeldBy, Same, Others
<1>4. ASSUME NEW u \in Threads, Holds(u, f)', NEW w \in Threads, Holds(w, f)' PROVE w = u
  BY <1>2, <1>4 DEF TableAt
<1> QED
  BY <1>1, <1>3, <1>4 DEF TableAt, Same

LEMMA SameWrites ==
    ASSUME NEW t \in Threads, NEW u \in Threads, u # t, Others(t), Writes(u),
           pc[u] \in WritePCs => Same(call[u].fp) /\ stream[call[u].fp] # None
    PROVE  Writes(u)'
  BY DEF Writes, Others, Same, WritePCs

\* A thread in an fwrite has an open stream.
LEMMA WritesToOpen ==
    ASSUME StreamInv, NEW u \in Threads, pc[u] \in WritePCs
    PROVE  /\ call[u].fp \in Fps /\ call[u] \in Locals /\ call[u].op = "fwrite"
           /\ call[u].val \in Values /\ call[u].n \in Nat /\ call[u].off \in Nat
           /\ owner[call[u].fp] = u /\ Agrees(call[u].fp)
           /\ stream[call[u].fp] \in Stream
           /\ pc[u] # "write_real" => /\ stdio_files_[call[u].fp] \in Entry
                                      /\ stream[call[u].fp].path \in Intercepted
           /\ pc[u] = "write_real" => stdio_files_[call[u].fp] = None
<1>1. call[u] \in Locals /\ LocalsSet(u) /\ Writes(u)
  BY DEF StreamInv, ControlOK
<1>2. call[u].fp \in Fps /\ call[u].op = "fwrite" /\ call[u].val \in Values
  BY <1>1 DEF LocalsSet, WritePCs
<1>3. call[u].n \in Nat /\ call[u].off \in Nat
  BY <1>1 DEF Locals
<1>4. owner[call[u].fp] = u /\ (pc[u] = "write_real" <=> stdio_files_[call[u].fp] = None)
  BY <1>1 DEF Writes
<1>5. Agrees(call[u].fp)
  BY <1>2, <1>4, NoneAssumption DEF StreamInv, TableAt
<1> QED
  BY <1>1, <1>2, <1>3, <1>4, <1>5 DEF StreamInv, TypeOK, Agrees

LEMMA StepKeeps ==
    ASSUME StreamInv, NEW t \in Threads, NEW g \in Fps, Mine(t, g), NEW l \in PCs,
           NEW c \in Locals, Goto(t, l, c), c.fp = g \/ l = "idle",
           \A f \in Fps \ {g} : Same(f),
           TypeOK', FilesExist', LocalsSet(t)', Writes(t)',
           stream'[g] = None => stdio_files_'[g] = None,
           owner'[g] # None => Agrees(g)',
           Holds(t, g)' => HeldBy(t, g)'
    PROVE  StreamInv'
<1>1. pc' \in [Threads -> PCs] /\ call' \in [Threads -> Locals]
  BY DEF Goto, StreamInv, ControlOK
<1>2. Others(t) /\ pc'[t] = l /\ call'[t] = c
  BY DEF Goto, Others, StreamInv, ControlOK
<1>3. ControlOK'
  <2>1. ASSUME NEW u \in Threads, u # t PROVE LocalsSet(u)'
    BY <2>1, <1>2 DEF Others, LocalsSet, StreamInv, ControlOK
  <2> QED
    BY <1>1, <2>1 DEF ControlOK
<1>4. ASSUME NEW u \in Threads, u # t
      PROVE  Writes(u)' /\ ~Holds(u, g)'
  <2>1. ~Holds(u, g) /\ (pc[u] \in WritePCs => call[u].fp # g)
    BY <1>4, NobodyElse
  <2>2. pc[u] \in WritePCs => Same(call[u].fp) /\ stream[call[u].fp] # None
    BY <2>1, WritesToOpen DEF Agrees
  <2>3. Writes(u)'
    BY <1>2, <1>4, <2>2, SameWrites DEF StreamInv
  <2> QED
    BY <1>2, <1>4, <2>1, <2>3 DEF Others, Holds
<1>5. ASSUME NEW f \in Fps, f # g PROVE TableAt(f)'
  <2>1. ~Holds(t, f)'
    BY <1>2, <1>5 DEF Holds, ClosePCs
  <2> QED
    BY <1>2, <1>5, <2>1, SameTableAt DEF StreamInv
<1>6. TableAt(g)'
  BY <1>4 DEF TableAt
<1> QED
  BY <1>3, <1>4, <1>5, <1>6 DEF StreamInv

\* A step that changes no more than where its thread is.
LEMMA MoveKeeps ==
    ASSUME StreamInv, NEW t \in Threads, NEW g \in Fps, Mine(t, g), NEW l \in PCs,
           NEW c \in Locals, Goto(t, l, c), c.fp = g,
           UNCHANGED <<data, stream, stdio_files_, served, runtime, owner, said>>,
           LocalsSet(t)', Writes(t)', Holds(t, g)' => HeldBy(t, g)'
    PROVE  StreamInv'
<1>1. TypeOK' /\ FilesExist'
  BY DEF StreamInv, TypeOK, FilesExist
<1>2. \A f \in Fps : Same(f)
  BY DEF Same
<1>3. TableAt(g)
  BY DEF StreamInv
<1>4. stream'[g] = None => stdio_files_'[g] = None
  BY <1>3 DEF TableAt
<1>5. owner'[g] # None => Agrees(g)'
  BY <1>2, <1>3, SameAgrees DEF TableAt
<1> QED
  BY <1>1, <1>2, <1>4, <1>5, StepKeeps

\* The streams of the runtime are streams of existing files.
LEMMA ServedType ==
    ASSUME StreamInv, NEW i \in DOMAIN served
    PROVE  /\ served[i] \in Served /\ served[i].path \in Paths
           /\ data[served[i].path] # None /\ data[served[i].path] \in Seq(Bytes)
<1>1. served[i] \in Served
  BY DEF StreamInv, TypeOK
<1> QED
  BY <1>1 DEF Served, StreamInv, FilesExist, TypeOK

\* fopen and fclose, until they return.
LEMMA fopenKeeps ==
    ASSUME StreamInv, NEW t \in Threads, NEW p \in Paths, NEW mode \in {"w", "a"}, fopen(t, p, mode)
    PROVE  StreamInv'
<1>1. PICK g \in Fps :
        /\ RealOpen(g, p, mode)
        /\ Goto(t, IF p \in Intercepted THEN "open_register" ELSE "return",
                [NoCall EXCEPT !.op = "fopen", !.fp = g, !.path = p])
  BY DEF fopen
<1> DEFINE c == [NoCall EXCEPT !.op = "fopen", !.fp = g, !.path = p]
           l == IF p \in Intercepted THEN "open_register" ELSE "return"
           new == [path |-> p, append |-> mode = "a", off |-> 0, buf |-> << >>]
<1>2. c \in Locals /\ c.op = "fopen" /\ c.fp = g /\ c.path = p
  BY DEF NoCall, Locals
<1>3. /\ l \in {"open_register", "return"} /\ l \in PCs
      /\ l = "open_register" <=> p \in Intercepted
  BY DEF PCs
<1>4. new \in Stream /\ new # None /\ new.path = p
  <2>1. (mode = "a") \in BOOLEAN /\ << >> \in Seq(Values)
    OBVIOUS
  <2>2. \A b \in BOOLEAN, q \in Seq(Values) :
          [path |-> p, append |-> b, off |-> 0, buf |-> q] \in Stream
    BY DEF Stream
  <2>3. new \in Stream
    BY <2>1, <2>2, Zenon
  <2> QED
    BY <2>3, NoneAssumption
<1>5. Goto(t, l, c) /\ stream[g] = None /\ stream' = [stream EXCEPT ![g] = new]
  BY <1>1 DEF RealOpen
<1> HIDE DEF c, l, new
<1>6. UNCHANGED <<stdio_files_, served, runtime, owner>>
  BY DEF fopen
<1>7. /\ data' \in [Paths -> Seq(Bytes) \union {None}] /\ said' \in [Paths -> Seq(Values)]
      /\ data'[p] # None /\ \A q \in Paths : data[q] # None => data'[q] # None
  <2>1. CASE mode = "w" \/ data[p] = None
    <3>1. << >> \in Seq(Bytes) /\ << >> \in Seq(Values)
      OBVIOUS
    <3>3. << >> # None
      BY <3>1, NoFileAssumption
    <3>2. data' = [data EXCEPT ![p] = << >>] /\ said' = [said EXCEPT ![p] = << >>]
      BY <1>1, <2>1 DEF RealOpen
    <3> QED
      BY <3>1, <3>2, <3>3 DEF StreamInv, TypeOK
  <2>2. CASE ~(mode = "w" \/ data[p] = None)
    BY <1>1, <2>2 DEF RealOpen, StreamInv, TypeOK
  <2> QED
    BY <2>1, <2>2
<1>8. stream' \in [Fps -> Stream \union {None}]
  BY <1>4, <1>5 DEF StreamInv, TypeOK
<1>9. TypeOK'
  BY <1>6, <1>7, <1>8 DEF StreamInv, TypeOK
<1>10. stream'[g] = new /\ \A f \in Fps \ {g} : stream'[f] = stream[f]
  BY <1>5 DEF StreamInv, TypeOK
<1>11. FilesExist'
  <2>1. \A f \in Fps : stream'[f] # None => data'[stream'[f].path] # None
    BY <1>4, <1>7, <1>10 DEF StreamInv, TypeOK, FilesExist, Stream
  <2>2. \A i \in DOMAIN served : data'[served[i].path] # None
    BY <1>7, ServedType
  <2> QED
    BY <1>6, <2>1, <2>2 DEF FilesExist
<1>12. \A f \in Fps \ {g} : Same(f)
  BY <1>6, <1>10 DEF Same
<1>13. pc'[t] = l /\ call'[t] = c
  BY <1>5 DEF Goto, StreamInv, ControlOK
<1>14. LocalsSet(t)' /\ Writes(t)'
  BY <1>2, <1>3, <1>13 DEF LocalsSet, Writes, WritePCs, SentPCs, ClosePCs
<1>15. owner[g] = None /\ stdio_files_[g] = None
  BY <1>5 DEF StreamInv, TableAt, Agrees
<1>16. HeldBy(t, g)'
  BY <1>2, <1>3, <1>4, <1>6, <1>10, <1>13, <1>15 DEF HeldBy, Agrees
<1> QED
  BY <1>2, <1>3, <1>4, <1>5, <1>6, <1>9, <1>10, <1>11, <1>12, <1>14, <1>15, <1>16, StepKeeps DEF Mine

\* What is known of a thread that has a stream to itself.
LEMMA HolderKnows ==
    ASSUME StreamInv, NEW t \in Threads, pc[t] \in {"open_register"} \union ClosePCs
    PROVE  /\ call[t].fp \in Fps /\ call[t] \in Locals
           /\ Holds(t, call[t].fp) /\ HeldBy(t, call[t].fp)
           /\ stream[call[t].fp] \in Stream
           /\ pc[t] = "open_register" => call[t].op = "fopen" /\ call[t].path \in Paths
           /\ pc[t] \in ClosePCs => call[t].op = "fclose"
<1>1. call[t] \in Locals /\ LocalsSet(t)
  BY DEF StreamInv, ControlOK
<1>2. call[t].fp \in Fps
  BY <1>1 DEF LocalsSet, ClosePCs
<1>3. Holds(t, call[t].fp)
  BY DEF Holds
<1>4. HeldBy(t, call[t].fp)
  BY <1>2, <1>3 DEF StreamInv, TableAt
<1>5. stream[call[t].fp] \in Stream
  BY <1>2, <1>4 DEF HeldBy, StreamInv, TypeOK
<1> QED
  BY <1>1, <1>2, <1>3, <1>4, <1>5 DEF LocalsSet

LEMMA OpenRegisterKeeps ==
    ASSUME StreamInv, NEW t \in Threads, OpenRegister(t)
    PROVE  StreamInv'
<1>0. PICK g \in Fps : g = call[t].fp
  BY HolderKnows DEF OpenRegister
<1> DEFINE new == [absolute_path |-> call[t].path, current_offset |-> 0]
<1>1. /\ call[t] \in Locals /\ Holds(t, g) /\ HeldBy(t, g)
      /\ call[t].op = "fopen" /\ call[t].path \in Paths /\ pc[t] = "open_register"
  BY <1>0, HolderKnows DEF OpenRegister
<1>2. new \in Entry /\ new # None /\ new.absolute_path = call[t].path
  BY <1>1, NoneAssumption DEF Entry
<1>3. stdio_files_' = [stdio_files_ EXCEPT ![g] = new]
  BY <1>0 DEF OpenRegister, Register, FileInfo
<1>4. UNCHANGED <<data, stream, served, runtime, owner, said>> /\ Goto(t, "return", call[t])
  BY DEF OpenRegister
<1> HIDE DEF new
<1>5. TypeOK' /\ FilesExist'
  BY <1>2, <1>3, <1>4 DEF StreamInv, TypeOK, FilesExist
<1>6. stdio_files_'[g] = new /\ \A f \in Fps \ {g} : stdio_files_'[f] = stdio_files_[f]
  BY <1>1, <1>3 DEF StreamInv, TypeOK
<1>7. \A f \in Fps \ {g} : Same(f)
  BY <1>4, <1>6 DEF Same
<1>8. pc'[t] = "return" /\ call'[t] = call[t]
  BY <1>4 DEF Goto, StreamInv, ControlOK
<1>9. LocalsSet(t)' /\ Writes(t)'
  BY <1>0, <1>1, <1>8 DEF LocalsSet, Writes, WritePCs, SentPCs, ClosePCs
<1>10. HeldBy(t, g)'
  BY <1>0, <1>1, <1>2, <1>4, <1>6, <1>8 DEF HeldBy, Agrees
<1>11. "return" \in PCs /\ Mine(t, g)
  BY <1>1 DEF PCs, Mine
<1>12. stream'[g] # None /\ owner'[g] = None
  BY <1>1, <1>4 DEF HeldBy
<1> QED
  BY <1>0, <1>1, <1>4, <1>5, <1>7, <1>9, <1>10, <1>11, <1>12, StepKeeps

LEMMA fcloseKeeps ==
    ASSUME StreamInv, NEW t \in Threads, NEW g \in Fps, fclose(t, g)
    PROVE  StreamInv'
<1> DEFINE c == [NoCall EXCEPT !.op = "fclose", !.fp = g]
           l == IF IsRegistered(stdio_files_, g) THEN "close_unregister" ELSE "close_real"
<1>1. c \in Locals /\ c.op = "fclose" /\ c.fp = g
  BY DEF NoCall, Locals
<1>2. l \in ClosePCs /\ l \in PCs /\ (l = "close_real" <=> stdio_files_[g] = None)
  BY DEF PCs, ClosePCs, IsRegistered
<1>3. /\ Goto(t, l, c) /\ owner[g] = t /\ owner' = [owner EXCEPT ![g] = None]
      /\ UNCHANGED <<data, stream, stdio_files_, served, runtime, said>>
  BY DEF fclose, MayUse
<1> HIDE DEF c, l
<1>4. TypeOK' /\ FilesExist'
  BY <1>3 DEF StreamInv, TypeOK, FilesExist
<1>5. owner'[g] = None /\ \A f \in Fps \ {g} : owner'[f] = owner[f]
  BY <1>3 DEF StreamInv, TypeOK
<1>6. \A f \in Fps \ {g} : Same(f)
  BY <1>3, <1>5 DEF Same
<1>7. pc'[t] = l /\ call'[t] = c
  BY <1>3 DEF Goto, StreamInv, ControlOK
<1>8. LocalsSet(t)' /\ Writes(t)'
  BY <1>1, <1>2, <1>7 DEF LocalsSet, Writes, WritePCs, SentPCs, ClosePCs
<1>9. TableAt(g) /\ Agrees(g)
  BY <1>3, NoneAssumption DEF StreamInv, TableAt
<1>10. HeldBy(t, g)'
  BY <1>2, <1>3, <1>5, <1>7, <1>9 DEF HeldBy, Agrees, ClosePCs
<1> QED
  BY <1>1, <1>2, <1>3, <1>4, <1>5, <1>6, <1>8, <1>9, <1>10, StepKeeps DEF Mine, TableAt

LEMMA CloseUnregisterKeeps ==
    ASSUME StreamInv, NEW t \in Threads, CloseUnregister(t)
    PROVE  StreamInv'
<1>0. PICK g \in Fps : g = call[t].fp
  BY HolderKnows DEF CloseUnregister, ClosePCs
<1>1. /\ call[t] \in Locals /\ Holds(t, g) /\ HeldBy(t, g)
      /\ call[t].op = "fclose"
  BY <1>0, HolderKnows DEF CloseUnregister, ClosePCs
<1>2. stdio_files_' = [stdio_files_ EXCEPT ![g] = None]
  BY <1>0 DEF CloseUnregister, Unregister
<1>3. UNCHANGED <<data, stream, served, runtime, owner, said>> /\ Goto(t, "close_real", call[t])
  BY DEF CloseUnregister
<1>4. TypeOK' /\ FilesExist'
  BY <1>2, <1>3 DEF StreamInv, TypeOK, FilesExist
<1>5. stdio_files_'[g] = None /\ \A f \in Fps \ {g} : stdio_files_'[f] = stdio_files_[f]
  BY <1>1, <1>2 DEF StreamInv, TypeOK
<1>6. \A f \in Fps \ {g} : Same(f)
  BY <1>3, <1>5 DEF Same
<1>7. pc'[t] = "close_real" /\ call'[t] = call[t]
  BY <1>3 DEF Goto, StreamInv, ControlOK
<1>8. LocalsSet(t)' /\ Writes(t)'
  BY <1>0, <1>1, <1>7 DEF LocalsSet, Writes, WritePCs, SentPCs, ClosePCs
<1>9. HeldBy(t, g)'
  BY <1>1, <1>3, <1>5, <1>7 DEF HeldBy
<1>10. "close_real" \in PCs /\ Mine(t, g)
  BY <1>1 DEF PCs, ClosePCs, Mine
<1>11. stream'[g] # None /\ owner'[g] = None
  BY <1>1, <1>3 DEF HeldBy
<1> QED
  BY <1>0, <1>1, <1>3, <1>4, <1>5, <1>6, <1>8, <1>9, <1>10, <1>11, StepKeeps

\* What a plain stream holds is put into its file.
LEMMA FlushedType ==
    ASSUME StreamInv, NEW f \in Fps, stream[f] # None
    PROVE  /\ Flushed(f) \in [Paths -> Seq(Bytes) \union {None}]
           /\ \A q \in Paths : data[q] # None => Flushed(f)[q] # None
<1>1. stream[f] \in Stream /\ data \in [Paths -> Seq(Bytes) \union {None}]
  BY DEF StreamInv, TypeOK
<1> DEFINE s == stream[f]
           off == IF s.append THEN Len(data[s.path]) ELSE s.off
           file == IF s.buf = << >> THEN data[s.path] ELSE Put(data[s.path], off, s.buf)
<1>2. s.path \in Paths /\ s.off \in Nat /\ s.buf \in Seq(Values)
  BY <1>1 DEF Stream
<1>3. data[s.path] \in Seq(Bytes)
  BY <1>1, <1>2 DEF StreamInv, FilesExist
<1>4. off \in Nat
  BY <1>2, <1>3
<1>5. Flushed(f) = [data EXCEPT ![s.path] = file]
  BY <1>1 DEF Flushed
<1> HIDE DEF off
<1>6. file \in Seq(Bytes)
  BY <1>2, <1>3, <1>4, PutType, BytesOfValues
<1> HIDE DEF file, s
<1> QED
  BY <1>1, <1>2, <1>5, <1>6, NoFileAssumption

LEMMA CloseRealKeeps ==
    ASSUME StreamInv, NEW t \in Threads, CloseReal(t)
    PROVE  StreamInv'
<1>0. PICK g \in Fps : g = call[t].fp
  BY HolderKnows DEF CloseReal, ClosePCs
<1>1. /\ call[t] \in Locals /\ Holds(t, g) /\ HeldBy(t, g)
      /\ call[t].op = "fclose" /\ pc[t] = "close_real"
  BY <1>0, HolderKnows DEF CloseReal, ClosePCs
<1>2. /\ data' = Flushed(g) /\ stream' = [stream EXCEPT ![g] = None]
      /\ UNCHANGED <<stdio_files_, served, runtime, owner, said>> /\ Goto(t, "return", call[t])
  BY <1>0 DEF CloseReal
<1>3. /\ data' \in [Paths -> Seq(Bytes) \union {None}]
      /\ \A q \in Paths : data[q] # None => data'[q] # None
  BY <1>1, <1>2, FlushedType DEF HeldBy
<1>4. TypeOK'
  BY <1>2, <1>3 DEF StreamInv, TypeOK
<1>5. stream'[g] = None /\ \A f \in Fps \ {g} : stream'[f] = stream[f]
  BY <1>2 DEF StreamInv, TypeOK
<1>6. FilesExist'
  <2>1. \A f \in Fps : stream'[f] # None => data'[stream'[f].path] # None
    BY <1>3, <1>5 DEF StreamInv, TypeOK, FilesExist, Stream
  <2>2. \A i \in DOMAIN served : data'[served[i].path] # None
    BY <1>3, ServedType
  <2> QED
    BY <1>2, <2>1, <2>2 DEF FilesExist
<1>7. \A f \in Fps \ {g} : Same(f)
  BY <1>2, <1>5 DEF Same
<1>8. pc'[t] = "return" /\ call'[t] = call[t]
  BY <1>2 DEF Goto, StreamInv, ControlOK
<1>9. LocalsSet(t)' /\ Writes(t)' /\ ~Holds(t, g)'
  BY <1>0, <1>1, <1>8 DEF LocalsSet, Writes, Holds, WritePCs, SentPCs, ClosePCs
<1>10. stdio_files_'[g] = None /\ owner'[g] = None
  BY <1>1, <1>2 DEF HeldBy
<1>11. "return" \in PCs /\ Mine(t, g)
  BY <1>1 DEF PCs, Mine
<1> QED
  BY <1>0, <1>1, <1>2, <1>4, <1>6, <1>7, <1>9, <1>10, <1>11, StepKeeps

\* The return of an fopen gives its stream to the thread; any other gives nothing.
LEMMA ReturnKeeps ==
    ASSUME StreamInv, NEW t \in Threads, Return(t)
    PROVE  StreamInv'
<1>1. /\ call[t] \in Locals /\ LocalsSet(t) /\ call[t].fp \in Fps /\ pc[t] = "return"
      /\ call[t].n \in Nat
  BY DEF Return, StreamInv, ControlOK, LocalsSet, Locals
<1>2. /\ UNCHANGED <<data, stream, stdio_files_, served, runtime>>
      /\ Goto(t, "idle", NoCall) /\ "idle" \in PCs /\ NoCall \in Locals
  BY NoCallType DEF Return, PCs
<1>3. said' \in [Paths -> Seq(Values)]
  <2>1. CASE call[t].op = "fwrite"
    <3>1. call[t].path \in Paths /\ Repeat(call[t].val, call[t].n) \in Seq(Values)
      BY <1>1, <2>1, RepeatType DEF LocalsSet
    <3>2. said' = [said EXCEPT ![call[t].path] = @ \o Repeat(call[t].val, call[t].n)]
      BY <2>1 DEF Return
    <3>3. said[call[t].path] \o Repeat(call[t].val, call[t].n) \in Seq(Values)
      BY <3>1 DEF StreamInv, TypeOK
    <3> QED
      BY <3>1, <3>2, <3>3 DEF StreamInv, TypeOK
  <2>2. CASE call[t].op # "fwrite"
    BY <2>2 DEF Return, StreamInv, TypeOK
  <2> QED
    BY <2>1, <2>2
<1>4. pc'[t] = "idle" /\ call'[t] = NoCall
  BY <1>2 DEF Goto, StreamInv, ControlOK
<1>5. LocalsSet(t)' /\ Writes(t)' /\ \A f \in Fps : ~Holds(t, f)'
  BY <1>4, NoCallType DEF LocalsSet, Writes, Holds, WritePCs, SentPCs, ClosePCs
<1>6. CASE call[t].op = "fopen"
  <2>0. PICK g \in Fps : g = call[t].fp
    BY <1>1
  <2>1. Holds(t, g) /\ HeldBy(t, g) /\ Agrees(g)
    BY <1>1, <1>6, <2>0 DEF Holds, StreamInv, TableAt, HeldBy
  <2>2. owner' = [owner EXCEPT ![g] = t]
    BY <1>6, <2>0 DEF Return
  <2>3. TypeOK' /\ FilesExist'
    BY <1>2, <1>3, <2>2 DEF StreamInv, TypeOK, FilesExist
  <2>4. \A f \in Fps \ {g} : Same(f)
    BY <1>2, <2>2 DEF Same, StreamInv, TypeOK
  <2>5. Agrees(g)'
    BY <1>2, <2>1 DEF Agrees
  <2>6. stream'[g] # None
    BY <2>5 DEF Agrees
  <2> QED
    BY <1>2, <1>5, <2>1, <2>3, <2>4, <2>5, <2>6, StepKeeps DEF Mine
<1>7. CASE call[t].op # "fopen"
  <2>1. UNCHANGED owner
    BY <1>7 DEF Return
  <2>2. TypeOK' /\ FilesExist'
    BY <1>2, <1>3, <2>1 DEF StreamInv, TypeOK, FilesExist
  <2>3. Others(t) /\ \A f \in Fps : Same(f)
    BY <1>2, <2>1 DEF Same, Others, Goto, StreamInv, ControlOK
  <2>4. ControlOK'
    BY <1>2, <1>5, <2>3 DEF Goto, Others, StreamInv, ControlOK, LocalsSet
  <2>5. \A f \in Fps : TableAt(f)'
    BY <1>5, <2>3, SameTableAt DEF StreamInv
  <2>6. ASSUME NEW u \in Threads, u # t PROVE Writes(u)'
    <3>1. pc[u] \in WritePCs => Same(call[u].fp) /\ stream[call[u].fp] # None
      BY <2>3, WritesToOpen DEF Agrees
    <3> QED
      BY <2>3, <2>6, <3>1, SameWrites DEF StreamInv
  <2> QED
    BY <1>5, <2>2, <2>4, <2>5, <2>6 DEF StreamInv
<1> QED
  BY <1>6, <1>7

-----------------------------------------------------------------------------
\* fwrite: the stream is the thread's own, from the choice of the branch on.
LEMMA fwriteKeeps ==
    ASSUME StreamInv, NEW t \in Threads, NEW g \in Fps, NEW v \in Values, NEW n \in Counts,
           fwrite(t, g, v, n)
    PROVE  StreamInv'
<1> DEFINE c == [NoCall EXCEPT !.op = "fwrite", !.fp = g, !.n = n, !.val = v]
           l == IF IsRegistered(stdio_files_, g) THEN "write_submit" ELSE "write_real"
<1>1. c \in Locals /\ c.op = "fwrite" /\ c.fp = g /\ c.val = v
  BY SizeAssumption DEF NoCall, Locals
<1>2. /\ l \in {"write_submit", "write_real"} /\ l \in PCs
      /\ l = "write_real" <=> stdio_files_[g] = None
  BY DEF PCs, WritePCs, IsRegistered
<1>3. /\ Goto(t, l, c) /\ owner[g] = t
      /\ UNCHANGED <<data, stream, stdio_files_, served, runtime, owner, said>>
  BY DEF fwrite, MayUse
<1> HIDE DEF c, l
<1>4. pc'[t] = l /\ call'[t] = c
  BY <1>3 DEF Goto, StreamInv, ControlOK
<1>5. LocalsSet(t)' /\ Writes(t)' /\ ~Holds(t, g)'
  BY <1>1, <1>2, <1>3, <1>4 DEF LocalsSet, Writes, Holds, WritePCs, SentPCs, ClosePCs
<1> QED
  BY <1>1, <1>2, <1>3, <1>5, MoveKeeps DEF Mine

LEMMA WriteSubmitKeeps ==
    ASSUME StreamInv, NEW t \in Threads, WriteSubmit(t)
    PROVE  StreamInv'
<1>0. PICK g \in Fps : g = call[t].fp
  BY WritesToOpen DEF WriteSubmit, WritePCs
<1>1. /\ call[t] \in Locals /\ call[t].op = "fwrite" /\ call[t].val \in Values
      /\ owner[g] = t /\ Agrees(g) /\ stream[g] \in Stream
      /\ stdio_files_[g] \in Entry /\ stream[g].path \in Intercepted
  BY <1>0, WritesToOpen DEF WriteSubmit, WritePCs
<1> DEFINE c == [call[t] EXCEPT !.path = stdio_files_[g].absolute_path,
                                !.off = stdio_files_[g].current_offset]
<1>2. /\ stdio_files_[g].absolute_path = stream[g].path /\ stdio_files_[g] # None
      /\ stdio_files_[g].absolute_path \in Paths /\ stdio_files_[g].current_offset \in Nat
  BY <1>1, NoneAssumption DEF Agrees, Entry
<1>3. c \in Locals /\ c.op = "fwrite" /\ c.fp = g /\ c.val \in Values /\ c.path = stream[g].path
      /\ c.path \in Paths
  BY <1>0, <1>1, <1>2 DEF Locals
<1>4. /\ Goto(t, "write_wait", c)
      /\ UNCHANGED <<data, stream, stdio_files_, served, runtime, owner, said>>
  BY <1>0 DEF WriteSubmit
<1> HIDE DEF c
<1>5. pc'[t] = "write_wait" /\ call'[t] = c
  BY <1>4 DEF Goto, StreamInv, ControlOK
<1>6. LocalsSet(t)' /\ Writes(t)' /\ ~Holds(t, g)'
  BY <1>1, <1>2, <1>3, <1>4, <1>5 DEF LocalsSet, Writes, Holds, WritePCs, SentPCs, ClosePCs
<1>7. "write_wait" \in PCs /\ Mine(t, g)
  BY <1>1 DEF PCs, WritePCs, Mine
<1> QED
  BY <1>3, <1>4, <1>6, <1>7, MoveKeeps

LEMMA WriteOffsetKeeps ==
    ASSUME StreamInv, NEW t \in Threads, WriteOffset(t)
    PROVE  StreamInv'
<1>0. PICK g \in Fps : g = call[t].fp
  BY WritesToOpen DEF WriteOffset, WritePCs
<1>1. /\ call[t] \in Locals /\ call[t].op = "fwrite" /\ call[t].val \in Values
      /\ call[t].n \in Nat /\ owner[g] = t /\ stdio_files_[g] \in Entry /\ call[t].path \in Paths
      /\ call[t].path = stream[g].path /\ stdio_files_[g] # None
  <2>1. Writes(t) /\ LocalsSet(t) /\ pc[t] = "write_offset"
    BY DEF StreamInv, ControlOK, WriteOffset
  <2> QED
    BY <1>0, <2>1, WritesToOpen, NoneAssumption DEF Writes, LocalsSet, WritePCs, SentPCs
<1> DEFINE c == [call[t] EXCEPT !.off = stdio_files_[g].current_offset + call[t].n]
<1>2. stdio_files_[g].current_offset + call[t].n \in Nat
  BY <1>1 DEF Entry
<1>3. c \in Locals /\ c.op = "fwrite" /\ c.fp = g /\ c.val \in Values /\ c.path = stream[g].path
      /\ c.path \in Paths
  BY <1>0, <1>1, <1>2 DEF Locals
<1>4. /\ Goto(t, "write_store", c)
      /\ UNCHANGED <<data, stream, stdio_files_, served, runtime, owner, said>>
  BY <1>0 DEF WriteOffset
<1> HIDE DEF c
<1>5. pc'[t] = "write_store" /\ call'[t] = c
  BY <1>4 DEF Goto, StreamInv, ControlOK
<1>6. LocalsSet(t)' /\ Writes(t)' /\ ~Holds(t, g)'
  BY <1>1, <1>3, <1>4, <1>5 DEF LocalsSet, Writes, Holds, WritePCs, SentPCs, ClosePCs
<1>7. "write_store" \in PCs /\ Mine(t, g)
  BY <1>1 DEF PCs, WritePCs, Mine
<1> QED
  BY <1>3, <1>4, <1>6, <1>7, MoveKeeps

LEMMA WriteRealKeeps ==
    ASSUME StreamInv, NEW t \in Threads, WriteReal(t)
    PROVE  StreamInv'
<1>0. PICK g \in Fps : g = call[t].fp
  BY WritesToOpen DEF WriteReal, WritePCs
<1>1. /\ call[t] \in Locals /\ call[t].op = "fwrite" /\ call[t].val \in Values
      /\ call[t].n \in Nat /\ owner[g] = t /\ Agrees(g) /\ stream[g] \in Stream
  BY <1>0, WritesToOpen DEF WriteReal, WritePCs
<1> DEFINE c == [call[t] EXCEPT !.path = stream[g].path]
           new == [stream[g] EXCEPT !.buf = @ \o Repeat(call[t].val, call[t].n)]
<1>2. stream[g].path \in Paths /\ stream[g].buf \in Seq(Values)
  BY <1>1 DEF Stream
<1>3. c \in Locals /\ c.op = "fwrite" /\ c.fp = g /\ c.val \in Values /\ c.path \in Paths
  BY <1>0, <1>1, <1>2 DEF Locals
<1>4. new \in Stream /\ new # None /\ new.path = stream[g].path
  <2>1. stream[g].buf \o Repeat(call[t].val, call[t].n) \in Seq(Values)
    BY <1>1, <1>2, RepeatType
  <2>2. \A q \in Seq(Values) : /\ [stream[g] EXCEPT !.buf = q] \in Stream
                               /\ [stream[g] EXCEPT !.buf = q].path = stream[g].path
    BY <1>1 DEF Stream
  <2>3. new = [stream[g] EXCEPT !.buf = stream[g].buf \o Repeat(call[t].val, call[t].n)]
    BY <1>1 DEF Stream
  <2> QED
    BY <2>1, <2>2, <2>3, NoneAssumption
<1>5. /\ stream' = [stream EXCEPT ![g] = new] /\ Goto(t, "return", c)
      /\ UNCHANGED <<data, stdio_files_, served, runtime, owner, said>>
  BY <1>0 DEF WriteReal
<1> HIDE DEF c, new
<1>6. stream'[g] = new /\ \A f \in Fps \ {g} : stream'[f] = stream[f]
  BY <1>5 DEF StreamInv, TypeOK
<1>7. \A f \in Fps : Same(f)
  BY <1>1, <1>4, <1>5, <1>6, NoneAssumption DEF Same
<1>8. TypeOK' /\ FilesExist'
  BY <1>1, <1>4, <1>5, <1>6, NoneAssumption DEF StreamInv, TypeOK, FilesExist
<1>9. pc'[t] = "return" /\ call'[t] = c
  BY <1>5 DEF Goto, StreamInv, ControlOK
<1>10. LocalsSet(t)' /\ Writes(t)' /\ ~Holds(t, g)'
  BY <1>3, <1>9 DEF LocalsSet, Writes, Holds, WritePCs, SentPCs, ClosePCs
<1>11. "return" \in PCs /\ Mine(t, g) /\ stream'[g] # None /\ Agrees(g)'
  BY <1>1, <1>4, <1>6, <1>7, SameAgrees DEF PCs, Mine
<1> QED
  BY <1>3, <1>5, <1>7, <1>8, <1>10, <1>11, StepKeeps

LEMMA WriteStoreKeeps ==
    ASSUME StreamInv, NEW t \in Threads, WriteStore(t)
    PROVE  StreamInv'
<1>0. PICK g \in Fps : g = call[t].fp
  BY WritesToOpen DEF WriteStore, WritePCs
<1>1. /\ call[t] \in Locals /\ call[t].op = "fwrite" /\ call[t].val \in Values
      /\ call[t].off \in Nat /\ owner[g] = t /\ Agrees(g) /\ stdio_files_[g] \in Entry
      /\ call[t].path \in Paths /\ stdio_files_[g] # None
  <2>1. LocalsSet(t) /\ pc[t] = "write_store"
    BY DEF StreamInv, ControlOK, WriteStore
  <2> QED
    BY <1>0, <2>1, WritesToOpen, NoneAssumption DEF LocalsSet, WritePCs, SentPCs
<1> DEFINE new == [stdio_files_[g] EXCEPT !.current_offset = call[t].off]
<1>2. new \in Entry /\ new # None /\ new.absolute_path = stdio_files_[g].absolute_path
  BY <1>1, NoneAssumption DEF Entry
<1>3. /\ stdio_files_' = [stdio_files_ EXCEPT ![g] = new] /\ Goto(t, "return", call[t])
      /\ UNCHANGED <<data, stream, served, runtime, owner, said>>
  BY <1>0, <1>1 DEF WriteStore, UpdateOffset, IsRegistered
<1> HIDE DEF new
<1>4. stdio_files_'[g] = new /\ \A f \in Fps \ {g} : stdio_files_'[f] = stdio_files_[f]
  BY <1>3 DEF StreamInv, TypeOK
<1>5. \A f \in Fps : Same(f)
  BY <1>1, <1>2, <1>3, <1>4 DEF Same
<1>6. TypeOK' /\ FilesExist'
  BY <1>2, <1>3 DEF StreamInv, TypeOK, FilesExist
<1>7. pc'[t] = "return" /\ call'[t] = call[t]
  BY <1>3 DEF Goto, StreamInv, ControlOK
<1>8. LocalsSet(t)' /\ Writes(t)' /\ ~Holds(t, g)'
  BY <1>0, <1>1, <1>7 DEF LocalsSet, Writes, Holds, WritePCs, SentPCs, ClosePCs
<1>9. "return" \in PCs /\ Mine(t, g) /\ Agrees(g)'
  BY <1>1, <1>5, SameAgrees DEF PCs, Mine
<1>10. stream'[g] # None
  BY <1>9 DEF Agrees
<1> QED
  BY <1>0, <1>1, <1>3, <1>5, <1>6, <1>8, <1>9, <1>10, StepKeeps

-----------------------------------------------------------------------------
\* A step of no thread leaves every thread where it is.
LEMMA IdleKeeps ==
    ASSUME StreamInv, UNCHANGED <<stdio_files_, owner, pc, call>>,
           \A f \in Fps : Same(f), TypeOK', FilesExist'
    PROVE  StreamInv'
<1>1. ControlOK'
  BY DEF StreamInv, ControlOK, LocalsSet
<1>2. ASSUME NEW f \in Fps PROVE TableAt(f)'
  <2>1. TableAt(f) /\ Same(f) /\ (Agrees(f) => Agrees(f)')
    BY SameAgrees DEF StreamInv
  <2>2. \A u \in Threads : Holds(u, f)' <=> Holds(u, f)
    BY DEF Holds
  <2>3. \A u \in Threads : HeldBy(u, f) => HeldBy(u, f)'
    BY <2>1 DEF HeldBy, Same
  <2> QED
    BY <2>1, <2>2, <2>3 DEF TableAt, Same
<1>3. ASSUME NEW u \in Threads PROVE Writes(u)'
  <2>1. Writes(u) /\ (pc[u] \in WritePCs => Same(call[u].fp) /\ stream[call[u].fp] # None)
    BY WritesToOpen DEF StreamInv, Agrees
  <2> QED
    BY <2>1 DEF Writes, Same, WritePCs
<1> QED
  BY <1>1, <1>2, <1>3 DEF StreamInv

\* A runtime that dies leaves the process as it is.
LEMMA DiesKeeps ==
    ASSUME StreamInv, Dies, UNCHANGED <<data, stream, stdio_files_, owner, pc, call, said>>
    PROVE  StreamInv'
<1>1. served' = << >> /\ << >> \in Seq(Served) /\ Len(<< >>) = 0 /\ DOMAIN << >> = {}
  BY DEF Dies
<1>2. TypeOK' /\ FilesExist'
  BY <1>1, SizeAssumption DEF Dies, StreamInv, TypeOK, FilesExist
<1>3. \A f \in Fps : Same(f)
  BY DEF Same
<1> QED
  BY <1>2, <1>3, IdleKeeps

\* The runtime puts what it does not hold back into the file.
LEMMA ServeKeeps ==
    ASSUME StreamInv, NEW t \in Threads, Serve(t)
    PROVE  StreamInv'
<1>0. PICK g \in Fps : g = call[t].fp
  BY WritesToOpen DEF Serve, WritePCs
<1>1. /\ call[t] \in Locals /\ call[t].op = "fwrite" /\ call[t].val \in Values
      /\ call[t].n \in Nat /\ call[t].off \in Nat /\ owner[g] = t /\ Agrees(g)
      /\ call[t].path \in Paths /\ call[t].path = stream[g].path /\ stdio_files_[g] # None
  <2>1. Writes(t) /\ LocalsSet(t) /\ pc[t] = "write_wait"
    BY DEF StreamInv, ControlOK, Serve
  <2> QED
    BY <1>0, <2>1, WritesToOpen, NoneAssumption DEF Writes, LocalsSet, WritePCs, SentPCs
<1> DEFINE p == call[t].path
<1>2. UNCHANGED <<stream, stdio_files_, owner, said>>
  BY DEF Serve
<1>3. CASE Dies /\ UNCHANGED <<data, pc, call>>
  BY <1>2, <1>3, DiesKeeps
<1>4. CASE /\ data[p] # None /\ Len(served) < MaxStreams
           /\ \E k \in {j \in 0 .. call[t].n : call[t].n - j < BufSize} :
                /\ data' = [data EXCEPT ![p] =
                       IF k = 0 THEN @ ELSE Put(@, call[t].off, Repeat(call[t].val, k))]
                /\ served' = Append(served, Held(call[t], k))
           /\ Goto(t, "write_offset", call[t]) /\ UNCHANGED runtime
  <2>1. PICK k \in {j \in 0 .. call[t].n : call[t].n - j < BufSize} :
          /\ data' = [data EXCEPT ![p] =
                 IF k = 0 THEN @ ELSE Put(@, call[t].off, Repeat(call[t].val, k))]
          /\ served' = Append(served, Held(call[t], k))
    BY <1>4
  <2> DEFINE file == IF k = 0 THEN data[p] ELSE Put(data[p], call[t].off, Repeat(call[t].val, k))
             held == Held(call[t], k)
  <2>2. k \in Nat /\ call[t].n - k \in Nat /\ call[t].n - k < BufSize /\ call[t].off + k \in Nat
    BY <1>1, <2>1
  <2>3. data[p] \in Seq(Bytes)
    BY <1>1, <1>4 DEF StreamInv, TypeOK
  <2>4. file \in Seq(Bytes)
    BY <1>1, <2>2, <2>3, PutType, RepeatType
  <2>5. held \in Served /\ Len(held.buf) < BufSize /\ held.path = p
    <3>1. Repeat(call[t].val, call[t].n - k) \in Seq(Values)
          /\ Len(Repeat(call[t].val, call[t].n - k)) = call[t].n - k
      BY <1>1, <2>2, RepeatType
    <3> QED
      BY <1>1, <2>2, <3>1 DEF Held, Served
  <2>6. data' = [data EXCEPT ![p] = file] /\ served' = Append(served, held)
    BY <1>1, <2>1 DEF StreamInv, TypeOK
  <2> HIDE DEF file, held
  <2>7. /\ data' \in [Paths -> Seq(Bytes) \union {None}]
        /\ \A q \in Paths : data[q] # None => data'[q] # None
    BY <1>1, <2>4, <2>6, NoFileAssumption DEF StreamInv, TypeOK
  <2>8. /\ served' \in Seq(Served) /\ Len(served') <= MaxStreams
        /\ \A i \in DOMAIN served' : \/ i \in DOMAIN served /\ served'[i] = served[i]
                                     \/ served'[i] = held
    <3>1. served \in Seq(Served) /\ MaxStreams \in Nat
      BY SizeAssumption DEF StreamInv, TypeOK
    <3> QED
      BY <1>4, <2>5, <2>6, <3>1
  <2>9. TypeOK'
    <3>1. \A i \in DOMAIN served' : Len(served'[i].buf) < BufSize
      BY <2>5, <2>8 DEF StreamInv, TypeOK
    <3> QED
      BY <1>2, <1>4, <2>7, <2>8, <3>1 DEF StreamInv, TypeOK
  <2>10. FilesExist'
    <3>1. \A f \in Fps : stream'[f] # None => data'[stream'[f].path] # None
      BY <1>2, <2>7 DEF StreamInv, TypeOK, FilesExist, Stream
    <3>2. \A i \in DOMAIN served' : data'[served'[i].path] # None
      BY <1>1, <1>4, <2>5, <2>7, <2>8, ServedType
    <3> QED
      BY <3>1, <3>2 DEF FilesExist
  <2>11. \A f \in Fps : Same(f)
    BY <1>2 DEF Same
  <2>12. pc'[t] = "write_offset" /\ call'[t] = call[t]
    BY <1>4 DEF Goto, StreamInv, ControlOK
  <2>13. LocalsSet(t)' /\ Writes(t)' /\ ~Holds(t, g)'
    BY <1>0, <1>1, <1>2, <2>12 DEF LocalsSet, Writes, Holds, WritePCs, SentPCs, ClosePCs
  <2>14. "write_offset" \in PCs /\ Mine(t, g) /\ Agrees(g)'
    BY <1>1, <2>11, SameAgrees DEF PCs, WritePCs, Mine
  <2>15. stream'[g] # None
    BY <2>14 DEF Agrees
  <2> QED
    BY <1>0, <1>1, <1>4, <2>9, <2>10, <2>11, <2>13, <2>14, <2>15, StepKeeps
<1> QED
  BY <1>3, <1>4 DEF Serve

LEMMA FlushKeeps ==
    ASSUME StreamInv, NEW g \in Fps, Flush(g)
    PROVE  StreamInv'
<1> DEFINE new == [stream[g] EXCEPT !.off = @ + Len(stream[g].buf), !.buf = << >>]
<1>1. stream[g] \in Stream /\ stream[g] # None
  BY DEF Flush, StreamInv, TypeOK
<1>2. new \in Stream /\ new # None /\ new.path = stream[g].path
  <2>1. stream[g].off + Len(stream[g].buf) \in Nat /\ << >> \in Seq(Values)
    BY <1>1 DEF Stream
  <2>2. \A m \in Nat, q \in Seq(Values) :
          /\ [stream[g] EXCEPT !.off = m, !.buf = q] \in Stream
          /\ [stream[g] EXCEPT !.off = m, !.buf = q].path = stream[g].path
    BY <1>1 DEF Stream
  <2>3. new = [stream[g] EXCEPT !.off = stream[g].off + Len(stream[g].buf), !.buf = << >>]
    BY <1>1 DEF Stream
  <2> QED
    BY <2>1, <2>2, <2>3, NoneAssumption
<1>3. /\ stream' = [stream EXCEPT ![g] = new] /\ data' = Flushed(g)
      /\ UNCHANGED <<stdio_files_, served, runtime, owner, pc, call, said>>
  BY <1>1 DEF Flush, StreamInv, TypeOK
<1> HIDE DEF new
<1>4. stream'[g] = new /\ \A f \in Fps \ {g} : stream'[f] = stream[f]
  BY <1>3 DEF StreamInv, TypeOK
<1>5. \A f \in Fps : Same(f)
  BY <1>1, <1>2, <1>3, <1>4 DEF Same
<1>6. /\ data' \in [Paths -> Seq(Bytes) \union {None}]
      /\ \A q \in Paths : data[q] # None => data'[q] # None
  BY <1>1, <1>3, FlushedType
<1>7. TypeOK'
  BY <1>2, <1>3, <1>6 DEF StreamInv, TypeOK
<1>8. FilesExist'
  <2>1. ASSUME NEW f \in Fps, stream'[f] # None PROVE data'[stream'[f].path] # None
    <3>1. stream[f] \in Stream /\ stream'[f].path = stream[f].path /\ data[stream[f].path] # None
      BY <1>5, <2>1 DEF Same, StreamInv, TypeOK, FilesExist
    <3> QED
      BY <1>6, <3>1 DEF Stream
  <2>2. \A i \in DOMAIN served : data'[served[i].path] # None
    BY <1>6, ServedType
  <2> QED
    BY <1>3, <2>1, <2>2 DEF FilesExist
<1> QED
  BY <1>3, <1>5, <1>7, <1>8, IdleKeeps

LEMMA FlushServedKeeps ==
    ASSUME StreamInv, FlushServed
    PROVE  StreamInv'
<1>1. PICK i \in DOMAIN served :
        /\ data' = [data EXCEPT ![served[i].path] =
               IF served[i].buf = << >> THEN @ ELSE Put(@, served[i].off, served[i].buf)]
        /\ served' = RemoveAt(served, i)
  BY DEF FlushServed
<1> DEFINE s == served[i]
           file == IF s.buf = << >> THEN data[s.path] ELSE Put(data[s.path], s.off, s.buf)
<1>2. /\ s.path \in Paths /\ s.off \in Nat /\ s.buf \in Seq(Values)
      /\ data[s.path] # None /\ data[s.path] \in Seq(Bytes)
  BY ServedType DEF Served
<1>3. file \in Seq(Bytes)
  BY <1>2, PutType, BytesOfValues
<1>4. data' = [data EXCEPT ![s.path] = file]
  BY <1>1, <1>2 DEF StreamInv, TypeOK
<1> HIDE DEF s, file
<1>5. /\ data' \in [Paths -> Seq(Bytes) \union {None}]
      /\ \A q \in Paths : data[q] # None => data'[q] # None
  BY <1>2, <1>3, <1>4, NoFileAssumption DEF StreamInv, TypeOK
<1>6. UNCHANGED <<runtime, stream, stdio_files_, owner, pc, call, said>>
  BY DEF FlushServed
<1>7. /\ served' \in Seq(Served) /\ Len(served') = Len(served) - 1
      /\ \A j \in DOMAIN served' : \E k \in DOMAIN served : served'[j] = served[k]
  <2>1. served \in Seq(Served)
    BY DEF StreamInv, TypeOK
  <2> QED
    BY <1>1, <2>1, RemoveAtType
<1>8. TypeOK'
  <2>1. Len(served') <= MaxStreams
    BY <1>7, SizeAssumption DEF StreamInv, TypeOK
  <2>2. \A j \in DOMAIN served' : Len(served'[j].buf) < BufSize
    BY <1>7 DEF StreamInv, TypeOK
  <2> QED
    BY <1>5, <1>6, <1>7, <2>1, <2>2 DEF StreamInv, TypeOK
<1>9. FilesExist'
  <2>1. \A f \in Fps : stream'[f] # None => data'[stream'[f].path] # None
    BY <1>5, <1>6 DEF StreamInv, TypeOK, FilesExist, Stream
  <2>2. \A j \in DOMAIN served' : data'[served'[j].path] # None
    BY <1>5, <1>7, ServedType
  <2> QED
    BY <2>1, <2>2 DEF FilesExist
<1>10. \A f \in Fps : Same(f)
  BY <1>6 DEF Same
<1> QED
  BY <1>6, <1>8, <1>9, <1>10, IdleKeeps

\* A step that changes at most the state of the runtime.
LEMMA StutterKeeps ==
    ASSUME StreamInv, runtime' \in {"up", "exiting", "dead"},
           UNCHANGED <<data, stream, stdio_files_, served, owner, pc, call, said>>
    PROVE  StreamInv'
<1>1. TypeOK' /\ FilesExist'
  BY DEF StreamInv, TypeOK, FilesExist
<1>2. \A f \in Fps : Same(f)
  BY DEF Same
<1> QED
  BY <1>1, <1>2, IdleKeeps

-----------------------------------------------------------------------------
LEMMA StreamStep == StreamInv /\ [Next]_vars => StreamInv'
<1> SUFFICES ASSUME StreamInv, [Next]_vars PROVE StreamInv'
  OBVIOUS
<1>1. ASSUME NEW t \in Threads, Begin(t) PROVE StreamInv'
  BY <1>1, fopenKeeps, fwriteKeeps, fcloseKeeps DEF Begin
<1>2. ASSUME NEW t \in Threads, Step(t) PROVE StreamInv'
  BY <1>2, OpenRegisterKeeps, WriteRealKeeps, WriteSubmitKeeps, ServeKeeps, WriteOffsetKeeps,
     WriteStoreKeeps, CloseUnregisterKeeps, CloseRealKeeps, ReturnKeeps DEF Step
<1>3. ASSUME NEW f \in Fps, Flush(f) PROVE StreamInv'
  BY <1>3, FlushKeeps
<1>4. CASE Exit
  BY <1>4, StutterKeeps DEF Exit
<1>5. CASE FlushServed
  BY <1>5, FlushServedKeeps
<1>6. CASE Crash
  BY <1>6, DiesKeeps DEF Crash
<1>7. CASE UNCHANGED vars
  BY <1>7, StutterKeeps DEF vars, StreamInv, TypeOK
<1> QED
  BY <1>1, <1>2, <1>3, <1>4, <1>5, <1>6, <1>7 DEF Next

\* The invariant says what StreamsMatch says.
LEMMA StreamInvMatches == StreamInv => StreamsMatch
<1> SUFFICES ASSUME StreamInv PROVE StreamsMatch
  OBVIOUS
<1>1. \A f \in Fps : owner[f] # None => Agrees(f)
  BY DEF StreamInv, TableAt
<1>2. ASSUME NEW t \in Threads
      PROVE  /\ pc[t] = "write_wait" => call[t].path = stream[call[t].fp].path
             /\ pc[t] = "write_real" => stream[call[t].fp].path \notin Intercepted
  BY WritesToOpen DEF StreamInv, Writes, WritePCs, SentPCs, Agrees
<1> QED
  BY <1>1, <1>2 DEF StreamsMatch

\* The model's types, for any number of threads, paths, FILE pointers and streams, and
\* with them the bound of what fwrite in the runtime holds back: less than one buffer
\* for each stream it has opened, and no more streams than it can open.
THEOREM TypeCorrect == Spec => []TypeOK
<1>1. StreamInv => TypeOK
  BY DEF StreamInv
<1> QED
  BY <1>1, StreamInit, StreamStep, PTL DEF Spec

\* From the return of fopen to the call of fclose, the table has an entry for a stream
\* exactly if its path is intercepted, however FILE pointers are given out again; and
\* fwrite sends a stream's data to the runtime under that stream's path, or to the C
\* library if the path is not intercepted.
THEOREM StreamsCorrect == Spec => []StreamsMatch
  BY StreamInit, StreamStep, StreamInvMatches, PTL DEF Spec

-----------------------------------------------------------------------------
(***************************************************************************)
(* The bytes.  A path has one stream, so at most one fwrite to it is under *)
(* way, and the entry's offset is the number of bytes written so far: each *)
(* task has the place of its data in the file to itself.                   *)
(***************************************************************************)
EndPCs == {"write_offset", "write_store", "return"}

\* The writes to a path that have been made and not yet reported.
Ending(p) == {t \in Threads : /\ call[t].op = "fwrite" /\ call[t].path = p
                              /\ pc[t] \in EndPCs}

\* A thread is about to return from a write to f.
Reports(t, f) == pc[t] = "return" /\ call[t].op = "fwrite" /\ call[t].fp = f

Alone ==
    \A f, g \in Fps :
        stream[f] # None /\ stream[g] # None /\ stream[f].path = stream[g].path => f = g

\* An entry is of its stream's path, and has counted what was written to it.
EntryAt(f) ==
    LET p == stream[f].path
        n == stdio_files_[f].current_offset
    IN  stdio_files_[f] # None =>
          /\ p \in Intercepted /\ stdio_files_[f].absolute_path = p
          /\ (\A t \in Threads : ~Reports(t, f)) => n = Len(said[p])
          /\ \A t \in Threads : Reports(t, f) => n = Len(said[p]) + call[t].n

\* Where a thread is in its call, and what it will write or store.
Counted(t) ==
    LET f == call[t].fp
        p == call[t].path
    IN  /\ pc[t] = "open_register" => said[p] = << >>
        /\ pc[t] = "write_wait" => call[t].off = Len(said[p])
        /\ pc[t] = "write_store" => call[t].off = Len(said[p]) + call[t].n
        /\ Reports(t, f) => owner[f] = t /\ stream[f].path = p

CountInv == Alone /\ (\A f \in Fps : EntryAt(f)) /\ (\A t \in Threads : Counted(t))

\* b is to be the i-th byte of p; it is in the file; the runtime holds it.
Due(p, i, b) == i <= Len(Expected(p)) /\ Expected(p)[i] = b
InFile(p, i, b) == data[p] # None /\ i <= Len(data[p]) /\ data[p][i] = b
HeldFor(p, i, b) ==
    \E j \in DOMAIN served :
        /\ served[j].path = p
        /\ i \in served[j].off + 1 .. served[j].off + Len(served[j].buf)
        /\ served[j].buf[i - served[j].off] = b

\* An intercepted path: what is written is in the file or held, and the rest Zero.
Split(p) ==
    \A i \in Nat \ {0}, b \in Values :
        /\ HeldFor(p, i, b) => Due(p, i, b)
        /\ b # Zero => /\ InFile(p, i, b) => Due(p, i, b)
                       /\ runtime # "dead" /\ Due(p, i, b) => InFile(p, i, b) \/ HeldFor(p, i, b)

\* A plain path: what is written is the file and then the buffer of its stream.
Joined(p) ==
    data[p] # None =>
        /\ \A f \in Fps : stream[f] # None /\ stream[f].path = p =>
             /\ Expected(p) = data[p] \o stream[f].buf
             /\ ~stream[f].append => stream[f].off = Len(data[p])
        /\ (\A f \in Fps : stream[f] # None => stream[f].path # p) => Expected(p) = data[p]

ContentInv ==
    /\ \A p \in Paths : data[p] = None => said[p] = << >>
    /\ \A j \in DOMAIN served : served[j].path \in Intercepted
    /\ \A f \in Fps : stream[f] # None /\ stream[f].path \in Intercepted => stream[f].buf = << >>
    /\ \A p \in Paths \ Intercepted : Joined(p)
    /\ \A p \in Intercepted : Split(p)

ByteInv == StreamInv /\ CountInv /\ ContentInv

-----------------------------------------------------------------------------
\* A thread in a write, to the report of it, is the only one that writes to its path.
InWrite(t) == pc[t] \in WritePCs \/ Reports(t, call[t].fp)

LEMMA Writer ==
    ASSUME StreamInv, CountInv, NEW t \in Threads, InWrite(t)
    PROVE  LET g == call[t].fp
               p == stream[g].path
           IN  /\ g \in Fps /\ owner[g] = t /\ stream[g] \in Stream /\ stream[g] # None
               /\ p \in Paths /\ call[t].val \in Values /\ call[t].n \in Nat
               /\ pc[t] \in SentPCs \union {"return"} => call[t].path = p
               /\ call[t].op = "fwrite"
<1>1. call[t] \in Locals /\ LocalsSet(t) /\ Counted(t) /\ Writes(t) /\ call[t].op = "fwrite"
  BY WritesToOpen DEF StreamInv, ControlOK, CountInv, InWrite, Reports
<1>2. call[t].fp \in Fps /\ call[t].val \in Values /\ call[t].n \in Nat
  BY <1>1 DEF InWrite, Reports, LocalsSet, WritePCs, Locals
<1>3. owner[call[t].fp] = t
  BY <1>1 DEF InWrite, Writes, Counted
<1>4. Agrees(call[t].fp)
  BY <1>2, <1>3, NoneAssumption DEF StreamInv, TableAt
<1>5. stream[call[t].fp] # None /\ stream[call[t].fp] \in Stream
  BY <1>2, <1>4 DEF Agrees, StreamInv, TypeOK
<1>6. stream[call[t].fp].path \in Paths
  BY <1>5 DEF Stream
<1>7. pc[t] \in SentPCs \union {"return"} => call[t].path = stream[call[t].fp].path
  BY <1>1 DEF Writes, Counted, InWrite, SentPCs, WritePCs
<1> QED
  BY <1>1, <1>2, <1>3, <1>5, <1>6, <1>7

LEMMA EndingWrites ==
    ASSUME StreamInv, CountInv, NEW p, NEW t \in Ending(p)
    PROVE  /\ t \in Threads /\ InWrite(t) /\ stream[call[t].fp].path = p
<1>1. t \in Threads /\ InWrite(t)
  BY DEF Ending, EndPCs, InWrite, WritePCs, Reports
<1> QED
  BY <1>1, Writer DEF Ending, EndPCs, SentPCs

LEMMA WritesAlone ==
    ASSUME StreamInv, CountInv, NEW t \in Threads, NEW u \in Threads, InWrite(t), InWrite(u),
           stream[call[t].fp].path = stream[call[u].fp].path
    PROVE  u = t
<1>1. /\ call[t].fp \in Fps /\ stream[call[t].fp] # None /\ owner[call[t].fp] = t
      /\ call[u].fp \in Fps /\ stream[call[u].fp] # None /\ owner[call[u].fp] = u
  BY Writer
<1> QED
  BY <1>1 DEF CountInv, Alone

\* What is expected of a path, without a choice.
LEMMA ExpectedNone ==
    ASSUME NEW p, Ending(p) = {} PROVE Expected(p) = said[p]
  BY DEF Expected, Ending, EndPCs

LEMMA ExpectedOne ==
    ASSUME NEW p, NEW t, Ending(p) = {t}
    PROVE  Expected(p) = said[p] \o Repeat(call[t].val, call[t].n)
<1>1. (CHOOSE u \in {t} : TRUE) = t
  OBVIOUS
<1> QED
  BY <1>1 DEF Expected, Ending, EndPCs

LEMMA EndingCases ==
    ASSUME StreamInv, CountInv, NEW p
    PROVE  Ending(p) = {} \/ \E t \in Threads : Ending(p) = {t}
<1>1. ASSUME NEW t \in Ending(p), NEW u \in Ending(p) PROVE u = t
  <2>1. /\ t \in Threads /\ InWrite(t) /\ stream[call[t].fp].path = p
        /\ u \in Threads /\ InWrite(u) /\ stream[call[u].fp].path = p
    BY <1>1, EndingWrites
  <2> QED
    BY <2>1, WritesAlone
<1>2. Ending(p) \subseteq Threads
  BY DEF Ending
<1> QED
  BY <1>1, <1>2

LEMMA ExpectedType ==
    ASSUME StreamInv, CountInv, NEW p \in Paths
    PROVE  Expected(p) \in Seq(Values) /\ said[p] \in Seq(Values)
<1>1. said[p] \in Seq(Values)
  BY DEF StreamInv, TypeOK
<1>2. CASE Ending(p) = {}
  BY <1>1, <1>2, ExpectedNone
<1>3. ASSUME NEW t \in Threads, Ending(p) = {t} PROVE Expected(p) \in Seq(Values)
  <2>1. call[t].val \in Values /\ call[t].n \in Nat
    BY <1>3, EndingWrites, Writer
  <2>2. Repeat(call[t].val, call[t].n) \in Seq(Values)
    BY <2>1, RepeatType
  <2>3. Expected(p) = said[p] \o Repeat(call[t].val, call[t].n)
    BY <1>3, ExpectedOne
  <2> QED
    BY <1>1, <2>2, <2>3
<1> QED
  BY <1>2, <1>3, <1>1, EndingCases

\* A step that neither makes nor reports a write to p.
LEMMA ExpectedKept ==
    ASSUME StreamInv, CountInv, NEW p, said'[p] = said[p], Ending(p)' = Ending(p),
           \A t \in Ending(p) : call'[t].val = call[t].val /\ call'[t].n = call[t].n
    PROVE  Expected(p)' = Expected(p)
<1>1. CASE Ending(p) = {}
  BY <1>1, ExpectedNone DEF Expected, Ending, EndPCs
<1>2. ASSUME NEW t \in Threads, Ending(p) = {t} PROVE Expected(p)' = Expected(p)
  <2>1. (CHOOSE u \in {t} : TRUE) = t
    OBVIOUS
  <2>2. Expected(p)' = said'[p] \o Repeat(call'[t].val, call'[t].n)
    BY <1>2, <2>1 DEF Expected, Ending, EndPCs, Repeat
  <2> QED
    BY <1>2, <2>2, ExpectedOne
<1> QED
  BY <1>1, <1>2, EndingCases

-----------------------------------------------------------------------------
(***************************************************************************)
(* The count.                                                              *)
(***************************************************************************)

\* What a step of t with the stream g leaves alone of the other streams and threads.
LEMMA CountKeeps ==
    ASSUME StreamInv, CountInv, NEW t \in Threads, NEW g \in Fps, Mine(t, g), Others(t),
           \A f \in Fps \ {g} : /\ Same(f) /\ stdio_files_'[f] = stdio_files_[f]
                                /\ ~Reports(t, f) /\ ~Reports(t, f)',
           \A p \in Paths : \/ said'[p] = said[p]
                            \/ \A f \in Fps \ {g} : stream[f] # None => stream[f].path # p,
           Alone', EntryAt(g)', Counted(t)'
    PROVE  CountInv'
<1>1. ASSUME NEW f \in Fps, f # g PROVE EntryAt(f)'
  <2>1. \A u \in Threads : Reports(u, f)' <=> Reports(u, f)
    BY <1>1 DEF Others, Reports
  <2>2. \A u \in Threads : Reports(u, f) => call'[u].n = call[u].n
    BY <1>1 DEF Others
  <2>3. CASE stdio_files_[f] # None
    <3>1. stream[f] # None /\ stream[f] \in Stream /\ stream[f].path \in Paths
      <4>1. stream[f] # None
        BY <2>3 DEF StreamInv, TableAt
      <4>2. stream[f] \in Stream
        BY <4>1 DEF StreamInv, TypeOK
      <4> QED
        BY <4>1, <4>2 DEF Stream
    <3>2. stream'[f].path = stream[f].path /\ said'[stream[f].path] = said[stream[f].path]
      BY <1>1, <3>1 DEF Same
    <3> QED
      BY <1>1, <2>1, <2>2, <3>2 DEF CountInv, EntryAt
  <2>4. CASE stdio_files_[f] = None
    BY <1>1, <2>4 DEF EntryAt
  <2> QED
    BY <2>3, <2>4
<1>2. ASSUME NEW u \in Threads, u # t PROVE Counted(u)'
  <2> DEFINE f == call[u].fp
  <2>1. Counted(u) /\ pc'[u] = pc[u] /\ call'[u] = call[u]
    BY <1>2 DEF Others, CountInv
  <2>2. CASE pc[u] \in {"open_register"} \union SentPCs \/ Reports(u, f)
    <3>1. /\ f \in Fps /\ stream[f] # None /\ stream[f] \in Stream
          /\ call[u].path = stream[f].path
      BY <2>2, HolderKnows, Writer DEF HeldBy, InWrite, SentPCs, WritePCs, Reports
    <3>2. f # g
      <4>1. CASE pc[u] = "open_register"
        BY <1>2, <4>1, NobodyElse DEF Holds
      <4>2. CASE InWrite(u)
        <5>1. owner[f] = u /\ TableAt(f)
          BY <3>1, <4>2, Writer DEF StreamInv
        <5> QED
          BY <1>2, <3>1, <5>1, NoneAssumption DEF Mine, TableAt, HeldBy
      <4> QED
        BY <2>2, <4>1, <4>2 DEF InWrite, SentPCs, WritePCs
    <3>3. /\ Same(f) /\ call[u].path \in Paths
          /\ said'[call[u].path] = said[call[u].path]
      BY <3>1, <3>2 DEF Stream
    <3>4. owner'[f] = owner[f] /\ stream'[f].path = stream[f].path
      BY <3>1, <3>3 DEF Same
    <3> QED
      BY <2>1, <3>3, <3>4 DEF Counted, Reports
  <2>3. CASE ~(pc[u] \in {"open_register"} \union SentPCs \/ Reports(u, f))
    BY <2>1, <2>3 DEF Counted, Reports, SentPCs
  <2> QED
    BY <2>2, <2>3
<1> QED
  BY <1>1, <1>2 DEF CountInv

\* No new stream has appeared.
LEMMA AloneKept ==
    ASSUME Alone, \A f \in Fps : stream'[f] # None =>
                       stream[f] # None /\ stream'[f].path = stream[f].path
    PROVE  Alone'
  BY DEF Alone

\* The thread that has a stream is the only one that reports a write to it.
LEMMA ReportsMine ==
    ASSUME StreamInv, CountInv, NEW t \in Threads, NEW g \in Fps, Mine(t, g),
           NEW u \in Threads, Reports(u, g)
    PROVE  u = t /\ owner[g] = t
<1>1. InWrite(u) /\ call[u].fp = g
  BY DEF InWrite, Reports
<1>2. owner[g] = u /\ stream[g] # None /\ TableAt(g)
  BY <1>1, Writer DEF StreamInv
<1>3. ~Holds(t, g)
  BY <1>2, NoneAssumption DEF TableAt, HeldBy
<1> QED
  BY <1>2, <1>3 DEF Mine

\* A step of t that leaves the streams and their entries alone, and reports nothing.
LEMMA CountMoves ==
    ASSUME StreamInv, CountInv, NEW t \in Threads, NEW g \in Fps, Mine(t, g), NEW l, NEW c,
           Goto(t, l, c), c.fp = g \/ l = "idle", pc[t] # "return" \/ call[t].fp = g,
           UNCHANGED <<stream, stdio_files_, said>>,
           \A f \in Fps \ {g} : owner'[f] = owner[f],
           Reports(t, g)' <=> Reports(t, g), Reports(t, g) => call'[t].n = call[t].n,
           Counted(t)'
    PROVE  CountInv'
<1>1. Others(t) /\ pc'[t] = l /\ call'[t] = c
  BY DEF Goto, Others, StreamInv, ControlOK
<1>2. \A f \in Fps \ {g} : Same(f) /\ ~Reports(t, f) /\ ~Reports(t, f)'
  BY <1>1 DEF Same, Reports
<1>3. Alone'
  BY DEF CountInv, Alone
<1>4. EntryAt(g)'
  <2>1. \A u \in Threads : Reports(u, g)' <=> Reports(u, g)
    BY <1>1 DEF Others, Reports
  <2>2. \A u \in Threads : Reports(u, g) => call'[u].n = call[u].n
    BY <1>1 DEF Others
  <2>3. EntryAt(g)
    BY DEF CountInv
  <2> QED
    BY <2>1, <2>2, <2>3 DEF EntryAt
<1> QED
  BY <1>1, <1>2, <1>3, <1>4, CountKeeps

LEMMA fopenCount ==
    ASSUME StreamInv, ByteInv, NEW t \in Threads, NEW p \in Paths, NEW mode \in {"w", "a"},
           fopen(t, p, mode)
    PROVE  CountInv'
<1> USE DEF ByteInv
<1>1. PICK g \in Fps :
        /\ RealOpen(g, p, mode)
        /\ Goto(t, IF p \in Intercepted THEN "open_register" ELSE "return",
                [NoCall EXCEPT !.op = "fopen", !.fp = g, !.path = p])
  BY DEF fopen
<1>2. /\ pc[t] = "idle" /\ stream[g] = None /\ UNCHANGED <<stdio_files_, owner>>
      /\ stream'[g].path = p /\ \A f \in Fps \ {g} : stream'[f] = stream[f]
  BY <1>1 DEF fopen, RealOpen, StreamInv, TypeOK
<1>3. /\ Others(t) /\ call'[t].op = "fopen" /\ call'[t].path = p
      /\ pc'[t] = "open_register" => p \in Intercepted
  BY <1>1 DEF Goto, Others, NoCall, StreamInv, ControlOK
<1>4. /\ \A f \in Fps : stream[f] # None => stream[f].path # p
      /\ p \in Intercepted => data[p] = None /\ mode = "w"
  BY DEF fopen, MayOpen
<1>5. /\ p \in Intercepted => said'[p] = << >>
      /\ \A q \in Paths : q # p => said'[q] = said[q]
  BY <1>1, <1>4 DEF RealOpen, StreamInv, TypeOK
<1>6. Alone'
  BY <1>2, <1>4 DEF CountInv, Alone
<1>7. EntryAt(g)'
  BY <1>2 DEF EntryAt, StreamInv, TableAt
<1>8. Counted(t)' /\ \A f \in Fps : ~Reports(t, f) /\ ~Reports(t, f)'
  BY <1>1, <1>2, <1>3, <1>5 DEF Counted, Reports, Goto, StreamInv, ControlOK
<1>9. \A f \in Fps \ {g} : Same(f) /\ stdio_files_'[f] = stdio_files_[f]
  BY <1>2 DEF Same
<1> QED
  BY <1>2, <1>3, <1>4, <1>5, <1>6, <1>7, <1>8, <1>9, CountKeeps DEF Mine

LEMMA OpenRegisterCount ==
    ASSUME StreamInv, ByteInv, NEW t \in Threads, OpenRegister(t)
    PROVE  CountInv'
<1> USE DEF ByteInv
<1>0. PICK g \in Fps : g = call[t].fp
  BY HolderKnows DEF OpenRegister
<1>1. /\ Holds(t, g) /\ HeldBy(t, g) /\ pc[t] = "open_register" /\ call[t].op = "fopen"
  BY <1>0, HolderKnows DEF OpenRegister
<1>2. /\ stdio_files_'[g] = [absolute_path |-> call[t].path, current_offset |-> 0]
      /\ \A f \in Fps \ {g} : stdio_files_'[f] = stdio_files_[f]
  BY <1>0 DEF OpenRegister, Register, FileInfo, StreamInv, TypeOK
<1>3. UNCHANGED <<stream, owner, said>> /\ Others(t) /\ pc'[t] = "return" /\ call'[t] = call[t]
  BY DEF OpenRegister, Goto, Others, StreamInv, ControlOK
<1>4. \A f \in Fps : ~Reports(t, f) /\ ~Reports(t, f)'
  BY <1>1, <1>3 DEF Reports
<1>5. \A u \in Threads : ~Reports(u, g)'
  <2>1. \A u \in Threads : ~Reports(u, g)
    BY <1>1, <1>4, ReportsMine DEF Mine
  <2> QED
    BY <1>3, <1>4, <2>1 DEF Others, Reports
<1>6. EntryAt(g)'
  <2>1. call[t].path \in Intercepted /\ stream[g].path = call[t].path
    BY <1>1 DEF HeldBy
  <2>2. said[call[t].path] = << >>
    BY <1>1 DEF CountInv, Counted
  <2> QED
    BY <1>2, <1>3, <1>5, <2>1, <2>2 DEF EntryAt
<1>7. Alone' /\ Counted(t)'
  BY <1>1, <1>3 DEF CountInv, Alone, Counted, Reports
<1>8. \A f \in Fps \ {g} : Same(f)
  BY <1>2, <1>3 DEF Same
<1> QED
  BY <1>1, <1>2, <1>3, <1>4, <1>6, <1>7, <1>8, CountKeeps DEF Mine

LEMMA fwriteCount ==
    ASSUME StreamInv, ByteInv, NEW t \in Threads, NEW g \in Fps, NEW v \in Values,
           NEW n \in Counts, fwrite(t, g, v, n)
    PROVE  CountInv'
<1> USE DEF ByteInv
<1> DEFINE l == IF IsRegistered(stdio_files_, g) THEN "write_submit" ELSE "write_real"
           c == [NoCall EXCEPT !.op = "fwrite", !.fp = g, !.n = n, !.val = v]
<1>1. Goto(t, l, c) /\ c.fp = g /\ l \in {"write_submit", "write_real"}
  BY DEF fwrite, NoCall
<1> HIDE DEF c, l
<1>2. /\ UNCHANGED <<stream, stdio_files_, owner, said>> /\ pc[t] = "idle" /\ owner[g] = t
      /\ pc'[t] = l
  BY <1>1 DEF fwrite, MayUse, Goto, StreamInv, ControlOK
<1>3. ~Reports(t, g) /\ ~Reports(t, g)' /\ Counted(t)'
  BY <1>1, <1>2 DEF Reports, Counted
<1> QED
  BY <1>1, <1>2, <1>3, CountMoves DEF Mine

LEMMA fcloseCount ==
    ASSUME StreamInv, ByteInv, NEW t \in Threads, NEW g \in Fps, fclose(t, g)
    PROVE  CountInv'
<1> USE DEF ByteInv
<1> DEFINE l == IF IsRegistered(stdio_files_, g) THEN "close_unregister" ELSE "close_real"
           c == [NoCall EXCEPT !.op = "fclose", !.fp = g]
<1>1. Goto(t, l, c) /\ c.fp = g /\ l \in ClosePCs
  BY DEF fclose, NoCall, ClosePCs
<1> HIDE DEF c, l
<1>2. /\ UNCHANGED <<stream, stdio_files_, said>> /\ pc[t] = "idle" /\ owner[g] = t /\ pc'[t] = l
      /\ \A f \in Fps \ {g} : owner'[f] = owner[f]
  BY <1>1 DEF fclose, MayUse, Goto, StreamInv, ControlOK, TypeOK
<1>3. ~Reports(t, g) /\ ~Reports(t, g)' /\ Counted(t)'
  BY <1>1, <1>2 DEF Reports, Counted, ClosePCs
<1> QED
  BY <1>1, <1>2, <1>3, CountMoves DEF Mine

\* A step in the middle of a write to the runtime.
LEMMA WriterMoves ==
    ASSUME StreamInv, ByteInv, NEW t \in Threads, pc[t] \in WritePCs, NEW l, NEW c,
           l # "return", Goto(t, l, c), c.fp = call[t].fp,
           UNCHANGED <<stream, stdio_files_, said, owner>>, Counted(t)'
    PROVE  CountInv'
<1>1. InWrite(t) /\ pc[t] # "return"
  BY DEF InWrite, WritePCs
<1>2. PICK g \in Fps : g = call[t].fp /\ owner[g] = t
  BY <1>1, Writer DEF ByteInv
<1>3. pc'[t] = l
  BY DEF Goto, StreamInv, ControlOK
<1>4. ~Reports(t, g) /\ ~Reports(t, g)'
  BY <1>1, <1>3 DEF Reports
<1> QED
  BY <1>1, <1>2, <1>4, CountMoves DEF Mine, ByteInv

\* The entry of a write to the runtime has counted what was written before.
LEMMA EntryCounts ==
    ASSUME StreamInv, ByteInv, NEW t \in Threads, pc[t] \in WritePCs \ {"write_real"}
    PROVE  LET f == call[t].fp
               p == stream[f].path
           IN  /\ f \in Fps /\ stdio_files_[f] \in Entry
               /\ stdio_files_[f].absolute_path = p /\ p \in Intercepted
               /\ stdio_files_[f].current_offset = Len(said[p])
<1>1. InWrite(t) /\ pc[t] # "return"
  BY DEF InWrite, WritePCs
<1>2. PICK g \in Fps : g = call[t].fp /\ owner[g] = t
  BY <1>1, Writer DEF ByteInv
<1>3. stdio_files_[g] \in Entry /\ stdio_files_[g] # None
  BY <1>2, WritesToOpen, NoneAssumption
<1>4. \A u \in Threads : ~Reports(u, g)
  BY <1>1, <1>2, ReportsMine DEF Mine, Reports, ByteInv
<1>5. EntryAt(g)
  BY DEF ByteInv, CountInv
<1> QED
  BY <1>2, <1>3, <1>4, <1>5 DEF EntryAt

LEMMA WriteSubmitCount ==
    ASSUME StreamInv, ByteInv, NEW t \in Threads, WriteSubmit(t)
    PROVE  CountInv'
<1> DEFINE info == stdio_files_[call[t].fp]
           c == [call[t] EXCEPT !.path = info.absolute_path, !.off = info.current_offset]
<1>1. pc[t] \in WritePCs \ {"write_real"}
  BY DEF WriteSubmit, WritePCs
<1>2. call[t] \in Locals /\ Goto(t, "write_wait", c)
  BY DEF WriteSubmit, StreamInv, ControlOK
<1>3. UNCHANGED <<stream, stdio_files_, owner, said>>
  BY DEF WriteSubmit
<1>4. c.fp = call[t].fp /\ c.path = info.absolute_path /\ c.off = info.current_offset
  BY <1>2 DEF Locals
<1>5. info.current_offset = Len(said[info.absolute_path])
  BY <1>1, EntryCounts
<1> HIDE DEF c, info
<1>6. pc'[t] = "write_wait" /\ call'[t] = c
  BY <1>2 DEF Goto, StreamInv, ControlOK
<1>7. Counted(t)'
  BY <1>3, <1>4, <1>5, <1>6 DEF Counted, Reports
<1> QED
  BY <1>1, <1>2, <1>3, <1>4, <1>7, WriterMoves

LEMMA ServeCount ==
    ASSUME StreamInv, ByteInv, NEW t \in Threads, Serve(t)
    PROVE  CountInv'
<1>1. pc[t] = "write_wait" /\ UNCHANGED <<stream, stdio_files_, owner, said>>
  BY DEF Serve
<1>2. CASE UNCHANGED <<pc, call>>
  BY <1>1, <1>2 DEF ByteInv, CountInv, Alone, EntryAt, Counted, Reports
<1>3. CASE Goto(t, "write_offset", call[t])
  <2>1. pc'[t] = "write_offset"
    BY <1>3 DEF Goto, StreamInv, ControlOK
  <2>2. Counted(t)'
    BY <2>1 DEF Counted, Reports
  <2> QED
    BY <1>1, <1>3, <2>2, WriterMoves DEF WritePCs
<1> QED
  BY <1>2, <1>3 DEF Serve

LEMMA WriteOffsetCount ==
    ASSUME StreamInv, ByteInv, NEW t \in Threads, WriteOffset(t)
    PROVE  CountInv'
<1> DEFINE info == stdio_files_[call[t].fp]
           c == [call[t] EXCEPT !.off = info.current_offset + call[t].n]
<1>1. pc[t] \in WritePCs \ {"write_real"} /\ pc[t] \in SentPCs
  BY DEF WriteOffset, WritePCs, SentPCs
<1>2. call[t] \in Locals /\ Goto(t, "write_store", c)
  BY DEF WriteOffset, StreamInv, ControlOK
<1>3. UNCHANGED <<stream, stdio_files_, owner, said>>
  BY DEF WriteOffset
<1>4. /\ c.fp = call[t].fp /\ c.path = call[t].path /\ c.n = call[t].n
      /\ c.off = info.current_offset + call[t].n
  BY <1>2 DEF Locals
<1>5. info.current_offset = Len(said[stream[call[t].fp].path])
  BY <1>1, EntryCounts
<1>6. call[t].path = stream[call[t].fp].path
  BY <1>1, Writer DEF InWrite, WritePCs, ByteInv
<1> HIDE DEF c, info
<1>7. pc'[t] = "write_store" /\ call'[t] = c
  BY <1>2 DEF Goto, StreamInv, ControlOK
<1>8. Counted(t)'
  BY <1>3, <1>4, <1>5, <1>6, <1>7 DEF Counted, Reports
<1> QED
  BY <1>1, <1>2, <1>3, <1>4, <1>8, WriterMoves

LEMMA WriteRealCount ==
    ASSUME StreamInv, ByteInv, NEW t \in Threads, WriteReal(t)
    PROVE  CountInv'
<1> USE DEF ByteInv
<1>0. InWrite(t) /\ pc[t] = "write_real"
  BY DEF WriteReal, InWrite, WritePCs
<1>1. PICK g \in Fps : /\ g = call[t].fp /\ owner[g] = t /\ stream[g] \in Stream
                       /\ stream[g] # None
  BY <1>0, Writer
<1>2. stdio_files_[g] = None
  BY <1>0, <1>1, WritesToOpen DEF WritePCs
<1> DEFINE c == [call[t] EXCEPT !.path = stream[g].path]
<1>3. call[t] \in Locals /\ c.fp = g /\ c.path = stream[g].path
  BY <1>1 DEF StreamInv, ControlOK, Locals
<1>4. /\ \A f \in Fps : f # g => stream'[f] = stream[f]
      /\ stream'[g].path = stream[g].path
      /\ UNCHANGED <<stdio_files_, owner, said>> /\ Goto(t, "return", c)
  BY <1>1 DEF WriteReal, StreamInv, TypeOK, Stream
<1> HIDE DEF c
<1>5. Others(t) /\ pc'[t] = "return" /\ call'[t] = c
  BY <1>4 DEF Goto, Others, StreamInv, ControlOK
<1>6. Alone'
  BY <1>1, <1>4, AloneKept DEF CountInv
<1>7. EntryAt(g)'
  BY <1>2, <1>4 DEF EntryAt
<1>8. Counted(t)'
  BY <1>1, <1>3, <1>4, <1>5 DEF Counted
<1>9. \A f \in Fps \ {g} : /\ Same(f) /\ stdio_files_'[f] = stdio_files_[f]
                           /\ ~Reports(t, f) /\ ~Reports(t, f)'
  BY <1>0, <1>3, <1>4, <1>5 DEF Same, Reports
<1> QED
  BY <1>1, <1>4, <1>5, <1>6, <1>7, <1>8, <1>9, CountKeeps DEF Mine

LEMMA WriteStoreCount ==
    ASSUME StreamInv, ByteInv, NEW t \in Threads, WriteStore(t)
    PROVE  CountInv'
<1> USE DEF ByteInv
<1>0. /\ InWrite(t) /\ pc[t] = "write_store" /\ pc[t] \in WritePCs \ {"write_real"}
      /\ pc[t] \in SentPCs
  BY DEF WriteStore, InWrite, WritePCs, SentPCs
<1>1. PICK g \in Fps : /\ g = call[t].fp /\ owner[g] = t /\ call[t].op = "fwrite"
                       /\ call[t].path = stream[g].path
  BY <1>0, Writer
<1>2. /\ stdio_files_[g] \in Entry /\ stdio_files_[g] # None
      /\ stdio_files_[g].absolute_path = stream[g].path /\ stream[g].path \in Intercepted
  BY <1>0, <1>1, EntryCounts, NoneAssumption
<1>3. call[t].off = Len(said[stream[g].path]) + call[t].n
  BY <1>0, <1>1 DEF CountInv, Counted
<1>4. /\ stdio_files_'[g].current_offset = call[t].off
      /\ stdio_files_'[g].absolute_path = stdio_files_[g].absolute_path
      /\ stdio_files_'[g] # None
      /\ \A f \in Fps : f # g => stdio_files_'[f] = stdio_files_[f]
  <2>1. stdio_files_' = [stdio_files_ EXCEPT ![g] = [stdio_files_[g] EXCEPT !.current_offset = call[t].off]]
    BY <1>1, <1>2 DEF WriteStore, UpdateOffset, IsRegistered
  <2>2. stdio_files_'[g] = [stdio_files_[g] EXCEPT !.current_offset = call[t].off]
    BY <2>1 DEF StreamInv, TypeOK
  <2>3. call[t].off \in Nat
    BY <1>0, WritesToOpen
  <2>4. stdio_files_'[g] \in Entry
    BY <1>2, <2>2, <2>3 DEF Entry
  <2> QED
    BY <1>2, <2>1, <2>2, <2>4, NoneAssumption DEF Entry, StreamInv, TypeOK
<1>5. UNCHANGED <<stream, owner, said>> /\ Others(t) /\ pc'[t] = "return" /\ call'[t] = call[t]
  BY DEF WriteStore, Goto, Others, StreamInv, ControlOK
<1>6. EntryAt(g)'
  <2>1. Reports(t, g)'
    BY <1>1, <1>5 DEF Reports
  <2>2. \A u \in Threads : ~Reports(u, g)
    BY <1>0, <1>1, ReportsMine DEF Mine, Reports
  <2>3. \A u \in Threads : Reports(u, g)' => u = t
    BY <1>5, <2>2 DEF Others, Reports
  <2> QED
    BY <1>2, <1>3, <1>4, <1>5, <2>1, <2>3 DEF EntryAt
<1>7. Alone' /\ Counted(t)'
  BY <1>1, <1>5 DEF CountInv, Alone, Counted
<1>8. \A f \in Fps \ {g} : /\ Same(f) /\ stdio_files_'[f] = stdio_files_[f]
                           /\ ~Reports(t, f) /\ ~Reports(t, f)'
  BY <1>0, <1>1, <1>4, <1>5 DEF Same, Reports
<1> QED
  BY <1>1, <1>5, <1>6, <1>7, <1>8, CountKeeps DEF Mine

LEMMA CloseUnregisterCount ==
    ASSUME StreamInv, ByteInv, NEW t \in Threads, CloseUnregister(t)
    PROVE  CountInv'
<1> USE DEF ByteInv
<1>0. PICK g \in Fps : g = call[t].fp /\ Holds(t, g)
  BY HolderKnows DEF CloseUnregister, ClosePCs
<1>1. /\ stdio_files_'[g] = None
      /\ \A f \in Fps \ {g} : stdio_files_'[f] = stdio_files_[f]
  BY <1>0 DEF CloseUnregister, Unregister, StreamInv, TypeOK
<1>2. /\ UNCHANGED <<stream, owner, said>> /\ pc[t] = "close_unregister"
      /\ Others(t) /\ pc'[t] = "close_real" /\ call'[t] = call[t]
  BY DEF CloseUnregister, Goto, Others, StreamInv, ControlOK
<1>3. Alone' /\ EntryAt(g)' /\ Counted(t)'
  BY <1>1, <1>2 DEF CountInv, Alone, EntryAt, Counted, Reports
<1>4. \A f \in Fps \ {g} : Same(f) /\ ~Reports(t, f) /\ ~Reports(t, f)'
  BY <1>1, <1>2 DEF Same, Reports
<1> QED
  BY <1>0, <1>1, <1>2, <1>3, <1>4, CountKeeps DEF Mine

LEMMA CloseRealCount ==
    ASSUME StreamInv, ByteInv, NEW t \in Threads, CloseReal(t)
    PROVE  CountInv'
<1> USE DEF ByteInv
<1>0. PICK g \in Fps : g = call[t].fp /\ Holds(t, g) /\ HeldBy(t, g)
  BY HolderKnows DEF CloseReal, ClosePCs
<1>1. /\ stream'[g] = None /\ \A f \in Fps \ {g} : stream'[f] = stream[f]
  BY <1>0 DEF CloseReal, StreamInv, TypeOK
<1>2. /\ UNCHANGED <<stdio_files_, owner, said>> /\ pc[t] = "close_real"
      /\ Others(t) /\ pc'[t] = "return" /\ call'[t] = call[t] /\ call[t].op = "fclose"
  BY HolderKnows DEF CloseReal, ClosePCs, Goto, Others, StreamInv, ControlOK
<1>3. stdio_files_[g] = None
  BY <1>0, <1>2 DEF HeldBy
<1>4. Alone'
  BY <1>1, AloneKept DEF CountInv
<1>5. EntryAt(g)' /\ Counted(t)'
  BY <1>2, <1>3 DEF EntryAt, Counted, Reports
<1>6. \A f \in Fps \ {g} : Same(f) /\ ~Reports(t, f) /\ ~Reports(t, f)'
  BY <1>1, <1>2 DEF Same, Reports
<1> QED
  BY <1>0, <1>2, <1>4, <1>5, <1>6, CountKeeps DEF Mine

\* A step of no thread, which leaves the streams' paths alone.
LEMMA CountIdle ==
    ASSUME CountInv, UNCHANGED <<stdio_files_, owner, pc, call, said>>,
           \A f \in Fps : /\ stream'[f] = None <=> stream[f] = None
                          /\ stream'[f].path = stream[f].path,
           \A t \in Threads : Reports(t, call[t].fp) => call[t].fp \in Fps
    PROVE  CountInv'
<1>1. Alone'
  BY AloneKept DEF CountInv
<1>2. ASSUME NEW f \in Fps PROVE EntryAt(f)'
  BY DEF CountInv, EntryAt, Reports
<1>3. ASSUME NEW t \in Threads PROVE Counted(t)'
  BY DEF CountInv, Counted, Reports
<1> QED
  BY <1>1, <1>2, <1>3 DEF CountInv

LEMMA ReturnCount ==
    ASSUME StreamInv, ByteInv, NEW t \in Threads, Return(t)
    PROVE  CountInv'
<1> USE DEF ByteInv
<1>1. /\ pc[t] = "return" /\ Others(t) /\ pc'[t] = "idle" /\ Goto(t, "idle", NoCall)
      /\ UNCHANGED <<stream, stdio_files_>>
  BY DEF Return, Goto, Others, StreamInv, ControlOK
<1>2. \A f : ~Reports(t, f)'
  BY <1>1 DEF Reports
<1>3. Counted(t)' /\ Alone'
  BY <1>1, <1>2 DEF Counted, CountInv, Alone
<1>4. CASE call[t].op = "fwrite"
  <2>1. InWrite(t)
    BY <1>1, <1>4 DEF InWrite, Reports
  <2>2. PICK g \in Fps : /\ g = call[t].fp /\ owner[g] = t /\ call[t].path = stream[g].path
                         /\ call[t].n \in Nat /\ call[t].val \in Values /\ stream[g] # None
                         /\ stream[g].path \in Paths
    BY <1>1, <2>1, Writer
  <2> DEFINE p == stream[g].path
             r == Repeat(call[t].val, call[t].n)
  <2>3. owner' = owner /\ said' = [said EXCEPT ![p] = said[p] \o r]
    BY <1>4, <2>2 DEF Return, StreamInv, TypeOK
  <2>4. r \in Seq(Values) /\ Len(r) = call[t].n
    BY <2>2, RepeatType
  <2> HIDE DEF r
  <2>5. said[p] \in Seq(Values)
    BY <2>2 DEF StreamInv, TypeOK
  <2>6. Len(said'[p]) = Len(said[p]) + call[t].n
    <3>1. said'[p] = said[p] \o r
      BY <2>2, <2>3 DEF StreamInv, TypeOK
    <3> QED
      BY <2>4, <2>5, <3>1
  <2>7. \A q \in Paths : q # p => said'[q] = said[q]
    BY <2>3 DEF StreamInv, TypeOK
  <2>8. \A f \in Fps \ {g} : stream[f] # None => stream[f].path # p
    BY <2>2 DEF CountInv, Alone
  <2>9. EntryAt(g)'
    <3>1. Reports(t, g) /\ EntryAt(g)
      BY <1>1, <1>4, <2>2 DEF Reports, CountInv
    <3>2. \A u \in Threads : Reports(u, g) => u = t
      BY <2>2, ReportsMine DEF Mine
    <3>3. \A u \in Threads : ~Reports(u, g)'
      BY <1>1, <1>2, <3>2 DEF Others, Reports
    <3> QED
      BY <1>1, <2>6, <3>1, <3>3 DEF EntryAt
  <2>10. \A f \in Fps \ {g} : Same(f) /\ stdio_files_'[f] = stdio_files_[f]
                              /\ ~Reports(t, f) /\ ~Reports(t, f)'
    BY <1>1, <1>2, <2>2, <2>3 DEF Same, Reports
  <2> QED
    BY <1>1, <1>3, <2>2, <2>7, <2>8, <2>9, <2>10, CountKeeps DEF Mine
<1>5. CASE call[t].op = "fopen"
  <2>1. PICK g \in Fps : g = call[t].fp
    BY <1>1 DEF StreamInv, ControlOK, LocalsSet
  <2>2. Holds(t, g)
    BY <1>1, <1>5, <2>1 DEF Holds
  <2>3. /\ said' = said /\ \A f \in Fps \ {g} : owner'[f] = owner[f]
    BY <1>5, <2>1 DEF Return, StreamInv, TypeOK
  <2>4. ~Reports(t, g)
    BY <1>5 DEF Reports
  <2> QED
    BY <1>1, <1>2, <1>3, <2>1, <2>2, <2>3, <2>4, CountMoves DEF Mine
<1>6. CASE call[t].op \notin {"fwrite", "fopen"}
  <2>1. said' = said /\ owner' = owner
    BY <1>6 DEF Return
  <2>2. \A u \in Threads : \A f : Reports(u, f)' <=> Reports(u, f)
    BY <1>1, <1>2, <1>6 DEF Others, Reports
  <2>3. \A u \in Threads \ {t} : Counted(u)'
    BY <1>1, <2>1, <2>2 DEF Others, CountInv, Counted
  <2>4. ASSUME NEW f \in Fps PROVE EntryAt(f)'
    <3>1. \A u \in Threads : Reports(u, f) => call'[u].n = call[u].n
      BY <1>1, <1>6 DEF Others, Reports
    <3> QED
      BY <1>1, <2>1, <2>2, <3>1 DEF CountInv, EntryAt
  <2> QED
    BY <1>3, <2>3, <2>4 DEF CountInv
<1> QED
  BY <1>4, <1>5, <1>6

LEMMA FlushCount ==
    ASSUME StreamInv, ByteInv, NEW g \in Fps, Flush(g)
    PROVE  CountInv' /\ stream'[g].path = stream[g].path
<1>1. stream[g] \in Stream /\ stream[g] # None
  BY DEF Flush, StreamInv, TypeOK
<1>2. /\ stream'[g] = [stream[g] EXCEPT !.off = @ + Len(stream[g].buf), !.buf = << >>]
      /\ \A f \in Fps \ {g} : stream'[f] = stream[f]
  BY DEF Flush, StreamInv, TypeOK
<1>3. stream'[g] # None /\ stream'[g].path = stream[g].path
  <2>1. stream[g].off + Len(stream[g].buf) \in Nat /\ << >> \in Seq(Values)
    BY <1>1 DEF Stream
  <2>2. \A m \in Nat, q \in Seq(Values) :
          /\ [stream[g] EXCEPT !.off = m, !.buf = q] \in Stream
          /\ [stream[g] EXCEPT !.off = m, !.buf = q].path = stream[g].path
    BY <1>1 DEF Stream
  <2>3. stream'[g] = [stream[g] EXCEPT !.off = stream[g].off + Len(stream[g].buf), !.buf = << >>]
    BY <1>1, <1>2 DEF Stream
  <2> QED
    BY <2>1, <2>2, <2>3, NoneAssumption
<1>4. UNCHANGED <<stdio_files_, owner, pc, call, said>>
  BY DEF Flush
<1>5. \A t \in Threads : Reports(t, call[t].fp) => call[t].fp \in Fps
  BY Writer DEF InWrite, ByteInv
<1> QED
  BY <1>1, <1>2, <1>3, <1>4, <1>5, CountIdle DEF ByteInv

LEMMA RestCount ==
    ASSUME StreamInv, ByteInv, UNCHANGED <<stream, stdio_files_, owner, pc, call, said>>
    PROVE  CountInv'
<1>1. \A t \in Threads : Reports(t, call[t].fp) => call[t].fp \in Fps
  BY Writer DEF InWrite, ByteInv
<1> QED
  BY <1>1, CountIdle DEF ByteInv

LEMMA CountStep == ByteInv /\ [Next]_vars => CountInv'
<1> SUFFICES ASSUME ByteInv, [Next]_vars PROVE CountInv'
  OBVIOUS
<1>0. StreamInv
  BY DEF ByteInv
<1>1. ASSUME NEW t \in Threads, Begin(t) PROVE CountInv'
  BY <1>0, <1>1, fopenCount, fwriteCount, fcloseCount DEF Begin
<1>2. ASSUME NEW t \in Threads, Step(t) PROVE CountInv'
  BY <1>0, <1>2, OpenRegisterCount, WriteRealCount, WriteSubmitCount, ServeCount,
     WriteOffsetCount, WriteStoreCount, CloseUnregisterCount, CloseRealCount, ReturnCount
     DEF Step
<1>3. ASSUME NEW f \in Fps, Flush(f) PROVE CountInv'
  BY <1>0, <1>3, FlushCount
<1>4. CASE Exit \/ FlushServed \/ Crash \/ UNCHANGED vars
  BY <1>0, <1>4, RestCount DEF Exit, FlushServed, Crash, vars
<1> QED
  BY <1>1, <1>2, <1>3, <1>4 DEF Next

-----------------------------------------------------------------------------
(***************************************************************************)
(* The content.                                                            *)
(***************************************************************************)

\* What a byte string put into a file changes.
LEMMA PutBytes ==
    ASSUME NEW file \in Seq(Bytes), NEW off \in Nat, NEW bytes \in Seq(Values),
           NEW i \in Nat \ {0}, NEW b \in Values, b # Zero
    PROVE  i <= Len(Put(file, off, bytes)) /\ Put(file, off, bytes)[i] = b
             <=> IF i \in off + 1 .. off + Len(bytes) THEN bytes[i - off] = b
                 ELSE i <= Len(file) /\ file[i] = b
<1> DEFINE m == IF off + Len(bytes) > Len(file) THEN off + Len(bytes) ELSE Len(file)
<1>1. m \in Nat /\ m >= Len(file) /\ m >= off + Len(bytes)
  OBVIOUS
<1>2. Put(file, off, bytes) \in Seq(Bytes)
  BY BytesOfValues, PutType
<1>3. Len(Put(file, off, bytes)) = m
  <2>1. DOMAIN Put(file, off, bytes) = 1 .. m
    BY DEF Put
  <2> QED
    BY <1>1, <1>2, <2>1
<1>4. i <= m => Put(file, off, bytes)[i] = IF i \in off + 1 .. off + Len(bytes) THEN bytes[i - off]
                                           ELSE IF i <= Len(file) THEN file[i] ELSE Zero
  BY <1>1 DEF Put
<1> HIDE DEF m
<1> QED
  BY <1>1, <1>3, <1>4

LEMMA PutEnd ==
    ASSUME NEW file \in Seq(Bytes), NEW bytes \in Seq(Values)
    PROVE  Put(file, Len(file), bytes) = file \o bytes
<1>1. Put(file, Len(file), bytes) =
        [i \in 1 .. Len(file) + Len(bytes) |->
            IF i \in Len(file) + 1 .. Len(file) + Len(bytes) THEN bytes[i - Len(file)]
            ELSE IF i <= Len(file) THEN file[i] ELSE Zero]
  <2>1. (IF Len(file) + Len(bytes) > Len(file) THEN Len(file) + Len(bytes) ELSE Len(file))
           = Len(file) + Len(bytes)
    OBVIOUS
  <2> QED
    BY <2>1 DEF Put
<1>2. bytes \in Seq(Bytes) /\ file \o bytes \in Seq(Bytes)
  BY BytesOfValues
<1>3. Len(file \o bytes) = Len(file) + Len(bytes)
  OBVIOUS
<1>4. ASSUME NEW i \in 1 .. Len(file) + Len(bytes)
      PROVE  (file \o bytes)[i] =
               IF i \in Len(file) + 1 .. Len(file) + Len(bytes) THEN bytes[i - Len(file)]
               ELSE IF i <= Len(file) THEN file[i] ELSE Zero
  OBVIOUS
<1>5. Put(file, Len(file), bytes) \in Seq(Bytes)
  BY <1>2, PutType
<1>6. DOMAIN Put(file, Len(file), bytes) = 1 .. Len(file) + Len(bytes)
  BY <1>1
<1>7. Len(Put(file, Len(file), bytes)) = Len(file) + Len(bytes)
  BY <1>5, <1>6
<1>8. \A i \in 1 .. Len(file) + Len(bytes) : Put(file, Len(file), bytes)[i] = (file \o bytes)[i]
  BY <1>1, <1>4
<1> QED
  BY <1>2, <1>3, <1>5, <1>7, <1>8, SeqEqual

LEMMA ConcatThree ==
    ASSUME NEW S, NEW r \in Seq(S), NEW s \in Seq(S), NEW u \in Seq(S)
    PROVE  (r \o s) \o u = r \o (s \o u)
  OBVIOUS

LEMMA ConcatNone == ASSUME NEW S, NEW r \in Seq(S) PROVE r \o << >> = r
  OBVIOUS

LEMMA ExpectedNoneNext == ASSUME NEW p, Ending(p)' = {} PROVE Expected(p)' = said'[p]
  BY DEF Expected, Ending, EndPCs

LEMMA ExpectedOneNext ==
    ASSUME NEW p, NEW t, Ending(p)' = {t}
    PROVE  Expected(p)' = said'[p] \o Repeat(call'[t].val, call'[t].n)
<1>1. (CHOOSE u \in {t} : TRUE) = t
  OBVIOUS
<1> QED
  BY <1>1 DEF Expected, Ending, EndPCs, Repeat

\* A step that neither makes nor reports a write.
LEMMA QuietExpected ==
    ASSUME StreamInv, CountInv, NEW t \in Threads, Others(t), NEW p, said'[p] = said[p],
           t \in Ending(p)' <=> t \in Ending(p),
           t \in Ending(p) => call'[t].val = call[t].val /\ call'[t].n = call[t].n
    PROVE  Expected(p)' = Expected(p)
<1>1. Ending(p)' = Ending(p)
  BY DEF Others, Ending
<1>2. \A u \in Ending(p) : call'[u].val = call[u].val /\ call'[u].n = call[u].n
  BY DEF Others, Ending
<1> QED
  BY <1>1, <1>2, ExpectedKept

LEMMA JoinedKept ==
    ASSUME NEW p, Joined(p), data'[p] = data[p], Expected(p)' = Expected(p),
           \A f \in Fps : \/ stream'[f] = stream[f]
                          \/ /\ stream[f] = None \/ stream[f].path # p
                             /\ stream'[f] = None \/ stream'[f].path # p
    PROVE  Joined(p)'
  BY DEF Joined

LEMMA SplitKept ==
    ASSUME NEW p, Split(p), data'[p] = data[p], Expected(p)' = Expected(p),
           runtime' # "dead" => runtime # "dead",
           \A i \in Nat \ {0}, b \in Values : HeldFor(p, i, b)' <=> HeldFor(p, i, b)
    PROVE  Split(p)'
  BY DEF Split, Due, InFile

LEMMA HeldSame ==
    ASSUME served' = served
    PROVE  \A p, i, b : HeldFor(p, i, b)' <=> HeldFor(p, i, b)
  BY DEF HeldFor

LEMMA ContentKeeps ==
    ASSUME ContentInv, UNCHANGED <<data, stream, served>>,
           runtime' # "dead" => runtime # "dead",
           \A p \in Paths : data[p] = None => said'[p] = << >>,
           \A p \in Paths : Expected(p)' = Expected(p)
    PROVE  ContentInv'
<1>1. \A p \in Paths \ Intercepted : Joined(p)'
  BY JoinedKept DEF ContentInv
<1>2. \A p \in Intercepted : Split(p)'
  BY PathAssumption, HeldSame, SplitKept DEF ContentInv
<1> QED
  BY <1>1, <1>2 DEF ContentInv

\* A step of t that changes at most where t is in its call.
LEMMA ContentMoves ==
    ASSUME StreamInv, ByteInv, NEW t \in Threads, Others(t),
           UNCHANGED <<data, stream, said, served, runtime>>,
           \A p : t \in Ending(p)' <=> t \in Ending(p),
           pc[t] \in EndPCs => call'[t].val = call[t].val /\ call'[t].n = call[t].n
    PROVE  ContentInv'
<1>1. \A p \in Paths : Expected(p)' = Expected(p)
  BY QuietExpected DEF ByteInv, Ending
<1> QED
  BY <1>1, ContentKeeps DEF ByteInv, ContentInv

LEMMA DiesContent ==
    ASSUME StreamInv, ByteInv, Dies, UNCHANGED <<data, stream, pc, call, said>>
    PROVE  ContentInv'
<1>1. \A p \in Paths : Expected(p)' = Expected(p)
  BY DEF Expected, Repeat
<1>2. served' = << >> /\ runtime' = "dead" /\ DOMAIN << >> = {}
  BY DEF Dies
<1>3. \A p \in Paths \ Intercepted : Joined(p)'
  BY <1>1, JoinedKept DEF ByteInv, ContentInv
<1>4. ASSUME NEW p \in Intercepted PROVE Split(p)'
  <2>1. Split(p) /\ p \in Paths
    BY <1>4, PathAssumption DEF ByteInv, ContentInv
  <2> QED
    BY <1>1, <1>2, <2>1 DEF Split, Due, InFile, HeldFor
<1> QED
  BY <1>2, <1>3, <1>4 DEF ByteInv, ContentInv

LEMMA fopenContent ==
    ASSUME StreamInv, ByteInv, NEW t \in Threads, NEW p \in Paths, NEW mode \in {"w", "a"},
           fopen(t, p, mode)
    PROVE  ContentInv'
<1> USE DEF ByteInv
<1>1. PICK g \in Fps :
        /\ RealOpen(g, p, mode)
        /\ Goto(t, IF p \in Intercepted THEN "open_register" ELSE "return",
                [NoCall EXCEPT !.op = "fopen", !.fp = g, !.path = p])
  BY DEF fopen
<1>2. /\ pc[t] = "idle" /\ stream[g] = None /\ UNCHANGED <<served, runtime>>
      /\ stream'[g] = [path |-> p, append |-> mode = "a", off |-> 0, buf |-> << >>]
      /\ \A f \in Fps \ {g} : stream'[f] = stream[f]
  BY <1>1 DEF fopen, RealOpen, StreamInv, TypeOK
<1>3. Others(t) /\ call'[t].op = "fopen"
  BY <1>1 DEF Goto, Others, NoCall, StreamInv, ControlOK
<1>4. /\ \A f \in Fps : stream[f] # None => stream[f].path # p
      /\ p \in Intercepted => data[p] = None /\ mode = "w"
  BY DEF fopen, MayOpen
<1>5. /\ \/ data'[p] = << >> /\ said'[p] = << >>
         \/ data'[p] = data[p] /\ said'[p] = said[p] /\ data[p] # None /\ mode = "a"
      /\ \A q \in Paths : q # p => data'[q] = data[q] /\ said'[q] = said[q]
  BY <1>1 DEF RealOpen, StreamInv, TypeOK
<1>6. \A q : t \notin Ending(q) /\ t \notin Ending(q)'
  BY <1>2, <1>3 DEF Ending, EndPCs
<1>7. \A q \in Paths : q # p => Expected(q)' = Expected(q)
  BY <1>3, <1>5, <1>6, QuietExpected
<1>8. Expected(p)' = said'[p] /\ Expected(p) = said[p]
  <2>1. Ending(p) = {}
    BY <1>4, EndingWrites, Writer
  <2>2. Ending(p)' = {}
    BY <1>3, <1>6, <2>1 DEF Others, Ending
  <2> QED
    BY <2>1, <2>2, ExpectedNone, ExpectedNoneNext
<1>9. << >> # None
  <2>1. << >> \in Seq(Bytes)
    OBVIOUS
  <2> QED
    BY <2>1, NoFileAssumption
<1>10. \A q \in Paths : data'[q] = None => said'[q] = << >>
  BY <1>5, <1>9 DEF ContentInv
<1>11. ASSUME NEW q \in Paths \ Intercepted PROVE Joined(q)'
  <2>1. CASE q # p
    BY <1>2, <1>5, <1>7, <2>1, JoinedKept DEF ContentInv
  <2>2. CASE q = p
    <3>1. \A f \in Fps : stream'[f] # None /\ stream'[f].path = p => f = g
      BY <1>2, <1>4
    <3>2. Expected(p)' = data'[p]
      BY <1>4, <1>5, <1>8, <1>11, <2>2 DEF ContentInv, Joined
    <3>3. data'[p] \in Seq(Bytes)
      <4>1. << >> \in Seq(Bytes)
        OBVIOUS
      <4> QED
        BY <1>5, <4>1 DEF StreamInv, TypeOK
    <3>4. data'[p] \o stream'[g].buf = data'[p]
      BY <1>2, <3>3, ConcatNone
    <3>5. ~stream'[g].append => stream'[g].off = Len(data'[p])
      <4>1. stream'[g].off = 0 /\ stream'[g].append = (mode = "a")
        <5>1. \A b \in BOOLEAN : LET s == [path |-> p, append |-> b, off |-> 0, buf |-> << >>]
                               IN  s.off = 0 /\ s.append = b
          OBVIOUS
        <5>2. (mode = "a") \in BOOLEAN
          OBVIOUS
        <5> QED
          BY <1>2, <5>1, <5>2, Zenon
      <4>2. ~stream'[g].append => data'[p] = << >>
        BY <1>5, <4>1, Zenon
      <4> QED
        BY <4>1, <4>2
    <3> QED
      BY <2>2, <3>1, <3>2, <3>4, <3>5 DEF Joined
  <2> QED
    BY <2>1, <2>2
<1>12. ASSUME NEW q \in Intercepted PROVE Split(q)'
  <2>1. CASE q # p
    BY <1>2, <1>5, <1>7, <1>12, <2>1, PathAssumption, HeldSame, SplitKept DEF ContentInv
  <2>2. CASE q = p
    <3>1. data'[p] = << >> /\ said'[p] = << >> /\ data[p] = None
      BY <1>4, <1>5, <1>12, <2>2
    <3>2. \A j \in DOMAIN served : served[j].path # p
      BY <3>1, ServedType
    <3>3. \A i, b : ~HeldFor(p, i, b)'
      BY <1>2, <3>2 DEF HeldFor
    <3>4. \A i \in Nat \ {0} : ~(i <= Len(<< >>))
      OBVIOUS
    <3> QED
      BY <1>8, <2>2, <3>1, <3>3, <3>4 DEF Split, InFile, Due
  <2> QED
    BY <2>1, <2>2
<1>13. \A f \in Fps : stream'[f] # None /\ stream'[f].path \in Intercepted => stream'[f].buf = << >>
  BY <1>2 DEF ContentInv
<1> QED
  BY <1>2, <1>10, <1>11, <1>12, <1>13 DEF ContentInv

LEMMA WriteRealContent ==
    ASSUME StreamInv, ByteInv, CountInv', NEW t \in Threads, WriteReal(t)
    PROVE  ContentInv'
<1> USE DEF ByteInv
<1>0. InWrite(t) /\ pc[t] = "write_real"
  BY DEF WriteReal, InWrite, WritePCs
<1>1. PICK g \in Fps, q \in Paths :
        /\ g = call[t].fp /\ q = stream[g].path /\ stream[g] \in Stream /\ stream[g] # None
        /\ call[t].op = "fwrite" /\ call[t].val \in Values /\ call[t].n \in Nat
  BY <1>0, Writer
<1>2. /\ stdio_files_[g] = None /\ Agrees(g)
  BY <1>0, <1>1, WritesToOpen DEF WritePCs
<1> DEFINE c == [call[t] EXCEPT !.path = q]
           r == Repeat(call[t].val, call[t].n)
<1>3. call[t] \in Locals /\ c.val = call[t].val /\ c.n = call[t].n /\ c.path = q /\ c.op = "fwrite"
  BY <1>1 DEF StreamInv, ControlOK, Locals
<1>4. /\ \A f \in Fps : f # g => stream'[f] = stream[f]
      /\ stream'[g] = [stream[g] EXCEPT !.buf = stream[g].buf \o r]
      /\ UNCHANGED <<data, said, served, runtime>> /\ Goto(t, "return", c)
  BY <1>1 DEF WriteReal, StreamInv, TypeOK, Stream
<1>5. /\ stream'[g].path = q /\ stream'[g].buf = stream[g].buf \o r
      /\ stream'[g].append = stream[g].append /\ stream'[g].off = stream[g].off
  BY <1>1, <1>4 DEF Stream
<1>6. Others(t) /\ pc'[t] = "return" /\ call'[t] = c
  BY <1>4 DEF Goto, Others, StreamInv, ControlOK
<1>7. q \in Paths \ Intercepted
  BY <1>1, <1>2 DEF Agrees
<1>8. Ending(q) = {} /\ Ending(q)' = {t}
  <2>1. t \notin Ending(q)
    BY <1>0 DEF Ending, EndPCs
  <2>2. Ending(q) = {}
    <3>1. ASSUME NEW u \in Ending(q) PROVE u = t
      <4>1. u \in Threads /\ InWrite(u) /\ stream[call[u].fp].path = q
        BY <3>1, EndingWrites
      <4> QED
        BY <1>0, <1>1, <4>1, WritesAlone
    <3> QED
      BY <2>1, <3>1
  <2>3. t \in Ending(q)'
    BY <1>3, <1>6 DEF Ending, EndPCs
  <2> QED
    BY <1>6, <2>2, <2>3 DEF Ending, Others
<1> HIDE DEF c
<1>9. r \in Seq(Values) /\ r \in Seq(Bytes) /\ Expected(q) = said[q]
      /\ Expected(q)' = said[q] \o r
  <2>1. r \in Seq(Values) /\ r \in Seq(Bytes)
    BY <1>1, RepeatType
  <2>2. Expected(q)' = said'[q] \o Repeat(call'[t].val, call'[t].n)
    BY <1>8, ExpectedOneNext
  <2>3. call'[t].val = call[t].val /\ call'[t].n = call[t].n
    BY <1>3, <1>6
  <2> QED
    BY <1>4, <1>8, <2>1, <2>2, <2>3, ExpectedNone
<1> HIDE DEF r
<1>10. \A p \in Paths : p # q => Expected(p)' = Expected(p)
  <2>1. \A p \in Paths : p # q => t \notin Ending(p) /\ t \notin Ending(p)'
    BY <1>0, <1>3, <1>6 DEF Ending, EndPCs
  <2> QED
    BY <1>4, <1>6, <2>1, QuietExpected
<1>11. Joined(q)'
  <2>1. data[q] # None /\ data[q] \in Seq(Bytes)
    BY <1>1 DEF StreamInv, TypeOK, FilesExist
  <2>2. stream[g].buf \in Seq(Bytes)
    BY <1>1, BytesOfValues DEF Stream
  <2>3. Expected(q) = data[q] \o stream[g].buf
        /\ (~stream[g].append => stream[g].off = Len(data[q]))
    BY <1>1, <1>7, <2>1 DEF ContentInv, Joined
  <2>4. Expected(q)' = data[q] \o (stream[g].buf \o r)
    <3>1. PICK d \in Seq(Bytes), b \in Seq(Bytes) : d = data[q] /\ b = stream[g].buf
      BY <2>1, <2>2
    <3>2. (d \o b) \o r = d \o (b \o r)
      BY <1>9, ConcatThree
    <3> QED
      BY <1>9, <2>3, <3>1, <3>2
  <2>5. \A f \in Fps : stream'[f] # None /\ stream'[f].path = q => f = g
    BY <1>1, <1>4 DEF CountInv, Alone
  <2>6. stream'[g] # None
    <3>1. stream[g].buf \o r \in Seq(Values)
      <4>1. stream[g].buf \in Seq(Values)
        BY <1>1 DEF Stream
      <4> QED
        BY <1>9, <4>1, ConcatProperties
    <3>2. \A s \in Seq(Values) : [stream[g] EXCEPT !.buf = s] \in Stream
      BY <1>1 DEF Stream
    <3> QED
      BY <1>4, <3>1, <3>2, NoneAssumption
  <2> QED
    BY <1>4, <1>5, <2>3, <2>4, <2>5, <2>6 DEF Joined
<1>12. \A p \in Paths \ Intercepted : p # q => Joined(p)'
  BY <1>1, <1>4, <1>5, <1>10, JoinedKept DEF ContentInv
<1>13. \A p \in Intercepted : Split(p)'
  BY <1>4, <1>7, <1>10, PathAssumption, HeldSame, SplitKept DEF ContentInv
<1>14. \A f \in Fps : stream'[f] # None /\ stream'[f].path \in Intercepted => stream'[f].buf = << >>
  BY <1>4, <1>5, <1>7 DEF ContentInv
<1> QED
  BY <1>4, <1>11, <1>12, <1>13, <1>14 DEF ContentInv

LEMMA QuietContent ==
    ASSUME StreamInv, ByteInv, NEW t \in Threads,
           \/ OpenRegister(t) \/ WriteSubmit(t) \/ WriteOffset(t) \/ WriteStore(t)
           \/ CloseUnregister(t)
    PROVE  ContentInv'
<1>0. call[t] \in Locals
  BY DEF StreamInv, ControlOK
<1>1. UNCHANGED <<data, stream, said, served, runtime>>
  BY DEF OpenRegister, WriteSubmit, WriteOffset, WriteStore, CloseUnregister
<1>2. PICK l, c : Goto(t, l, c) /\ \/ /\ pc[t] \notin EndPCs /\ l \notin EndPCs
                                   \/ /\ c.op = call[t].op /\ c.path = call[t].path
                                      /\ c.val = call[t].val /\ c.n = call[t].n
                                      /\ \/ pc[t] \in EndPCs /\ l \in EndPCs
                                         \/ call[t].op # "fwrite"
  <2>1. CASE OpenRegister(t)
    BY <2>1, HolderKnows DEF OpenRegister
  <2>2. CASE WriteSubmit(t)
    BY <2>2 DEF WriteSubmit, EndPCs
  <2>3. CASE WriteOffset(t)
    <3> DEFINE m == stdio_files_[call[t].fp].current_offset + call[t].n
               c == [call[t] EXCEPT !.off = m]
    <3>1. Goto(t, "write_store", c) /\ pc[t] = "write_offset"
      BY <2>3 DEF WriteOffset
    <3>2. /\ c.op = call[t].op /\ c.path = call[t].path
          /\ c.val = call[t].val /\ c.n = call[t].n
      BY <1>0 DEF Locals
    <3> QED
      BY <3>1, <3>2 DEF EndPCs
  <2>4. CASE WriteStore(t)
    BY <2>4 DEF WriteStore, EndPCs
  <2>5. CASE CloseUnregister(t)
    BY <2>5 DEF CloseUnregister, EndPCs
  <2> QED
    BY <2>1, <2>2, <2>3, <2>4, <2>5
<1>3. Others(t) /\ pc'[t] = l /\ call'[t] = c
  BY <1>2 DEF Goto, Others, StreamInv, ControlOK
<1>4. \A p : t \in Ending(p)' <=> t \in Ending(p)
  BY <1>2, <1>3 DEF Ending
<1>5. pc[t] \in EndPCs => call'[t].val = call[t].val /\ call'[t].n = call[t].n
  BY <1>2, <1>3
<1> QED
  BY <1>1, <1>3, <1>4, <1>5, ContentMoves

LEMMA BeginContent ==
    ASSUME StreamInv, ByteInv, NEW t \in Threads, NEW g \in Fps, NEW v, NEW n,
           fwrite(t, g, v, n) \/ fclose(t, g)
    PROVE  ContentInv'
<1>1. UNCHANGED <<data, stream, said, served, runtime>> /\ pc[t] = "idle"
  BY DEF fwrite, fclose
<1>2. PICK l, c : Goto(t, l, c) /\ l \notin EndPCs
  <2>1. CASE fwrite(t, g, v, n)
    BY <2>1 DEF fwrite, EndPCs
  <2>2. CASE fclose(t, g)
    BY <2>2 DEF fclose, EndPCs
  <2> QED
    BY <2>1, <2>2
<1>3. Others(t) /\ pc'[t] = l
  BY <1>2 DEF Goto, Others, StreamInv, ControlOK
<1> QED
  BY <1>1, <1>2, <1>3, ContentMoves DEF Ending, EndPCs

LEMMA ReturnContent ==
    ASSUME StreamInv, ByteInv, NEW t \in Threads, Return(t)
    PROVE  ContentInv'
<1> USE DEF ByteInv
<1>1. /\ pc[t] = "return" /\ Others(t) /\ pc'[t] = "idle"
      /\ UNCHANGED <<data, stream, served, runtime>>
  BY DEF Return, Goto, Others, StreamInv, ControlOK
<1>2. \A q : t \notin Ending(q)'
  BY <1>1 DEF Ending, EndPCs
<1>3. CASE call[t].op = "fwrite"
  <2>1. InWrite(t)
    BY <1>1, <1>3 DEF InWrite, Reports
  <2>2. PICK g \in Fps, p \in Paths :
          /\ g = call[t].fp /\ p = stream[g].path /\ call[t].path = p
          /\ call[t].n \in Nat /\ call[t].val \in Values /\ stream[g] # None
    BY <1>1, <2>1, Writer
  <2> DEFINE r == Repeat(call[t].val, call[t].n)
  <2>3. /\ said'[p] = said[p] \o r
        /\ \A q \in Paths : q # p => said'[q] = said[q]
    BY <1>3, <2>2 DEF Return, StreamInv, TypeOK
  <2>4. Ending(p) = {t} /\ Ending(p)' = {}
    <3>1. t \in Ending(p)
      BY <1>1, <1>3, <2>2 DEF Ending, EndPCs
    <3>2. ASSUME NEW u \in Ending(p) PROVE u = t
      <4>1. u \in Threads /\ InWrite(u) /\ stream[call[u].fp].path = p
        BY <3>2, EndingWrites
      <4> QED
        BY <2>1, <2>2, <4>1, WritesAlone
    <3>3. Ending(p) = {t}
      BY <3>1, <3>2
    <3> QED
      BY <1>1, <1>2, <3>3 DEF Others, Ending
  <2>5. Expected(p)' = Expected(p)
    BY <2>3, <2>4, ExpectedOne, ExpectedNoneNext
  <2>6. \A q \in Paths : q # p => Expected(q)' = Expected(q)
    <3>1. \A q \in Paths : q # p => t \notin Ending(q)
      BY <2>2 DEF Ending
    <3> QED
      BY <1>1, <1>2, <2>3, <3>1, QuietExpected
  <2>7. data[p] # None
    BY <2>2 DEF StreamInv, FilesExist
  <2> QED
    BY <1>1, <2>3, <2>5, <2>6, <2>7, ContentKeeps DEF ContentInv
<1>4. CASE call[t].op # "fwrite"
  <2>1. said' = said
    BY <1>4 DEF Return
  <2>2. \A p \in Paths : Expected(p)' = Expected(p)
    BY <1>1, <1>2, <1>4, <2>1, QuietExpected DEF Ending
  <2> QED
    BY <1>1, <2>1, <2>2, ContentKeeps DEF ContentInv
<1> QED
  BY <1>3, <1>4

\* What a plain stream holds goes to the end of its file.
LEMMA FlushedIs ==
    ASSUME StreamInv, ByteInv, NEW g \in Fps, stream[g] # None,
           NEW q \in Paths, q = stream[g].path
    PROVE  /\ data[q] # None /\ data[q] \in Seq(Bytes)
           /\ stream[g].buf \in Seq(Values)
           /\ Flushed(g)[q] = data[q] \o stream[g].buf
           /\ q \in Intercepted => Flushed(g)[q] = data[q]
           /\ \A p \in Paths : p # q => Flushed(g)[p] = data[p]
<1> USE DEF ByteInv
<1>1. stream[g] \in Stream
  BY DEF StreamInv, TypeOK
<1>2. /\ q \in Paths /\ data[q] # None /\ data[q] \in Seq(Bytes) /\ stream[g].buf \in Seq(Values)
  BY <1>1 DEF Stream, StreamInv, TypeOK, FilesExist
<1>3. \A p \in Paths : p # q => Flushed(g)[p] = data[p]
  BY <1>2 DEF Flushed, StreamInv, TypeOK
<1>4. CASE stream[g].buf = << >>
  <2>1. Flushed(g)[q] = data[q]
    BY <1>2, <1>4 DEF Flushed, StreamInv, TypeOK
  <2>2. data[q] \o << >> = data[q]
    BY <1>2, ConcatNone
  <2> QED
    BY <1>2, <1>3, <1>4, <2>1, <2>2
<1>5. CASE stream[g].buf # << >>
  <2>1. q \in Paths \ Intercepted
    BY <1>2, <1>5 DEF ContentInv
  <2>2. ~stream[g].append => stream[g].off = Len(data[q])
    BY <1>2, <2>1 DEF ContentInv, Joined
  <2>3. Flushed(g)[q] = Put(data[q], Len(data[q]), stream[g].buf)
    BY <1>2, <1>5, <2>2 DEF Flushed, StreamInv, TypeOK
  <2>4. Put(data[q], Len(data[q]), stream[g].buf) = data[q] \o stream[g].buf
    BY <1>2, PutEnd
  <2> QED
    BY <1>2, <1>3, <2>1, <2>3, <2>4
<1> QED
  BY <1>4, <1>5

LEMMA CloseRealContent ==
    ASSUME StreamInv, ByteInv, NEW t \in Threads, CloseReal(t)
    PROVE  ContentInv'
<1> USE DEF ByteInv
<1>0. PICK g \in Fps, q \in Paths : g = call[t].fp /\ stream[g] # None /\ q = stream[g].path
  BY HolderKnows DEF CloseReal, ClosePCs, HeldBy, Stream
<1>1. /\ stream'[g] = None /\ \A f \in Fps : f # g => stream'[f] = stream[f]
      /\ data' = Flushed(g) /\ UNCHANGED <<served, runtime, said>>
  BY <1>0 DEF CloseReal, StreamInv, TypeOK
<1>2. /\ pc[t] = "close_real" /\ Others(t) /\ call'[t] = call[t] /\ call[t].op = "fclose"
  BY HolderKnows DEF CloseReal, ClosePCs, Goto, Others, StreamInv, ControlOK
<1>3. \A p \in Paths : Expected(p)' = Expected(p)
  BY <1>1, <1>2, QuietExpected DEF Ending
<1>4. /\ data[q] # None /\ data[q] \in Seq(Bytes) /\ stream[g].buf \in Seq(Values)
      /\ data'[q] = data[q] \o stream[g].buf
      /\ q \in Intercepted => data'[q] = data[q]
      /\ \A p \in Paths : p # q => data'[p] = data[p]
  <2>1. \A p : Flushed(g)[p] = data'[p]
    BY <1>1
  <2> QED
    BY <1>0, <2>1, FlushedIs
<1>5. data'[q] # None
  <2>1. PICK d \in Seq(Bytes), b \in Seq(Bytes) : data'[q] = d \o b
    BY <1>4, BytesOfValues
  <2>2. d \o b \in Seq(Bytes)
    OBVIOUS
  <2> QED
    BY <2>1, <2>2, NoFileAssumption
<1>6. ASSUME q \notin Intercepted PROVE Joined(q)'
  <2>1. Expected(q) = data[q] \o stream[g].buf
    BY <1>0, <1>4, <1>6 DEF ContentInv, Joined
  <2>2. Expected(q)' = data'[q]
    BY <1>3, <1>4, <2>1
  <2>3. \A f \in Fps : stream'[f] # None => stream'[f].path # q
    BY <1>0, <1>1 DEF CountInv, Alone
  <2> QED
    BY <2>2, <2>3 DEF Joined
<1>7. \A p \in Paths \ Intercepted : p # q => Joined(p)'
  BY <1>0, <1>1, <1>3, <1>4, JoinedKept DEF ContentInv
<1>8. \A p \in Intercepted : Split(p)'
  <2>1. \A p \in Intercepted : data'[p] = data[p]
    BY <1>4, PathAssumption
  <2> QED
    BY <1>1, <1>3, <2>1, PathAssumption, HeldSame, SplitKept DEF ContentInv
<1> QED
  BY <1>1, <1>4, <1>5, <1>6, <1>7, <1>8 DEF ContentInv

LEMMA FlushContent ==
    ASSUME StreamInv, ByteInv, NEW g \in Fps, Flush(g)
    PROVE  ContentInv'
<1> USE DEF ByteInv
<1>0. PICK q \in Paths : stream[g] \in Stream /\ stream[g] # None /\ q = stream[g].path
  BY DEF Flush, StreamInv, TypeOK, Stream
<1>1. /\ stream' = [stream EXCEPT ![g].off = @ + Len(stream[g].buf), ![g].buf = << >>]
      /\ data' = Flushed(g) /\ UNCHANGED <<served, runtime, said, pc, call>>
  BY DEF Flush
<1>2. /\ stream'[g].path = q /\ stream'[g].buf = << >>
      /\ stream'[g].off = stream[g].off + Len(stream[g].buf)
      /\ stream'[g].append = stream[g].append
      /\ \A f \in Fps : f # g => stream'[f] = stream[f]
  BY <1>0, <1>1 DEF StreamInv, TypeOK, Stream
<1>3. \A p \in Paths : Expected(p)' = Expected(p)
  BY <1>1 DEF Expected, Repeat
<1>4. /\ data[q] # None /\ data[q] \in Seq(Bytes) /\ stream[g].buf \in Seq(Values)
      /\ data'[q] = data[q] \o stream[g].buf
      /\ q \in Intercepted => data'[q] = data[q]
      /\ \A p \in Paths : p # q => data'[p] = data[p]
  <2>1. stream[g] # None /\ q = stream[g].path
    BY <1>0
  <2>2. /\ data[q] # None /\ data[q] \in Seq(Bytes) /\ stream[g].buf \in Seq(Values)
        /\ Flushed(g)[q] = data[q] \o stream[g].buf
        /\ q \in Intercepted => Flushed(g)[q] = data[q]
        /\ \A p \in Paths : p # q => Flushed(g)[p] = data[p]
    BY <2>1, FlushedIs
  <2>3. data' = Flushed(g)
    BY <1>1
  <2> HIDE DEF ByteInv
  <2> QED
    BY <2>2, <2>3, Zenon
<1>5. PICK d \in Seq(Bytes), b \in Seq(Bytes) :
        /\ d = data[q] /\ b = stream[g].buf /\ data'[q] = d \o b /\ d \o b # None
        /\ (d \o b) \o << >> = d \o b /\ Len(d \o b) = Len(d) + Len(b)
  <2>1. PICK d \in Seq(Bytes), b \in Seq(Bytes) : d = data[q] /\ b = stream[g].buf
    BY <1>4, BytesOfValues
  <2>2. d \o b \in Seq(Bytes) /\ Len(d \o b) = Len(d) + Len(b)
    BY ConcatProperties
  <2>3. (d \o b) \o << >> = d \o b
    BY <2>2, ConcatNone
  <2> QED
    BY <1>4, <2>1, <2>2, <2>3, NoFileAssumption
<1>6. ASSUME q \notin Intercepted PROVE Joined(q)'
  <2>1. /\ Expected(q) = data[q] \o stream[g].buf
        /\ ~stream[g].append => stream[g].off = Len(data[q])
    BY <1>0, <1>4, <1>6 DEF ContentInv, Joined
  <2>2. Expected(q)' = data'[q] \o stream'[g].buf /\ Expected(q)' = data'[q]
    BY <1>2, <1>3, <1>5, <2>1
  <2>3. ~stream'[g].append => stream'[g].off = Len(data'[q])
    BY <1>2, <1>5, <2>1
  <2>4. \A f \in Fps : stream'[f] # None /\ stream'[f].path = q => f = g
    BY <1>0, <1>2 DEF CountInv, Alone
  <2> QED
    BY <2>2, <2>3, <2>4 DEF Joined
<1>7. \A p \in Paths \ Intercepted : p # q => Joined(p)'
  BY <1>0, <1>2, <1>3, <1>4, JoinedKept DEF ContentInv
<1>8. \A p \in Intercepted : Split(p)'
  <2>1. \A p \in Intercepted : data'[p] = data[p]
    BY <1>4, PathAssumption
  <2> QED
    BY <1>1, <1>3, <2>1, PathAssumption, HeldSame, SplitKept DEF ContentInv
<1>9. \A p \in Paths : data'[p] = None => said'[p] = << >>
  BY <1>1, <1>4, <1>5 DEF ContentInv
<1> QED
  BY <1>1, <1>2, <1>6, <1>7, <1>8, <1>9 DEF ContentInv

\* A stream of the runtime that is flushed puts its bytes where they are due.
LEMMA FlushServedContent ==
    ASSUME StreamInv, ByteInv, FlushServed
    PROVE  ContentInv'
<1> USE DEF ByteInv
<1>1. PICK x \in DOMAIN served :
        /\ data' = [data EXCEPT ![served[x].path] =
               IF served[x].buf = << >> THEN @ ELSE Put(@, served[x].off, served[x].buf)]
        /\ served' = RemoveAt(served, x)
  BY DEF FlushServed
<1>2. PICK q \in Intercepted, o \in Nat, s \in Seq(Values) :
        /\ q = served[x].path /\ o = served[x].off /\ s = served[x].buf
        /\ q \in Paths /\ data[q] # None /\ data[q] \in Seq(Bytes)
  BY ServedType DEF Served, ContentInv
<1>3. UNCHANGED <<runtime, stream, pc, call, said>> /\ runtime # "dead"
  BY DEF FlushServed
<1>4. \A p \in Paths : Expected(p)' = Expected(p)
  BY <1>3 DEF Expected, Repeat
<1>5. /\ \A p \in Paths : p # q => data'[p] = data[p]
      /\ data'[q] = IF s = << >> THEN data[q] ELSE Put(data[q], o, s)
  BY <1>1, <1>2 DEF StreamInv, TypeOK
<1>6. data'[q] # None /\ data'[q] \in Seq(Bytes)
  BY <1>2, <1>5, PutType, BytesOfValues, NoFileAssumption
<1>7. ASSUME NEW i \in Nat \ {0}, NEW b \in Values, b # Zero
      PROVE  InFile(q, i, b)' <=> IF i \in o + 1 .. o + Len(s) THEN s[i - o] = b
                                  ELSE InFile(q, i, b)
  <2>1. CASE s = << >>
    <3>1. i \notin o + 1 .. o + Len(s)
      BY <2>1
    <3> QED
      BY <1>2, <1>5, <2>1, <3>1 DEF InFile
  <2>2. CASE s # << >>
    <3>1. data'[q] = Put(data[q], o, s)
      BY <1>5, <2>2
    <3>2. PICK d \in Seq(Bytes) : d = data[q]
      BY <1>2
    <3>3. i <= Len(Put(d, o, s)) /\ Put(d, o, s)[i] = b
            <=> IF i \in o + 1 .. o + Len(s) THEN s[i - o] = b
                ELSE i <= Len(d) /\ d[i] = b
      BY <1>7, PutBytes
    <3>4. data'[q] = Put(d, o, s)
      BY <3>1, <3>2
    <3> QED
      BY <1>2, <1>6, <3>2, <3>3, <3>4 DEF InFile
  <2> QED
    BY <2>1, <2>2
<1>8. served \in Seq(Served)
  BY DEF StreamInv, TypeOK
<1>9. /\ \A j \in DOMAIN served' : \E k \in DOMAIN served : served'[j] = served[k]
      /\ \A k \in DOMAIN served : k # x => \E j \in DOMAIN served' : served'[j] = served[k]
  BY <1>1, <1>8, RemoveAtType
<1>10. ASSUME NEW p, NEW i, NEW b
       PROVE  /\ HeldFor(p, i, b)' => HeldFor(p, i, b)
              /\ HeldFor(p, i, b) => \/ HeldFor(p, i, b)'
                                     \/ p = q /\ i \in o + 1 .. o + Len(s) /\ s[i - o] = b
              /\ p = q /\ i \in o + 1 .. o + Len(s) /\ s[i - o] = b => HeldFor(p, i, b)
  <2>1. HeldFor(p, i, b)' => HeldFor(p, i, b)
    BY <1>9 DEF HeldFor
  <2>2. ASSUME HeldFor(p, i, b)
        PROVE  \/ HeldFor(p, i, b)'
               \/ p = q /\ i \in o + 1 .. o + Len(s) /\ s[i - o] = b
    <3>1. PICK k \in DOMAIN served : /\ served[k].path = p
                                     /\ i \in served[k].off + 1 .. served[k].off + Len(served[k].buf)
                                     /\ served[k].buf[i - served[k].off] = b
      BY <2>2 DEF HeldFor
    <3>2. CASE k = x
      BY <1>2, <3>1, <3>2
    <3>3. CASE k # x
      <4>1. PICK j \in DOMAIN served' : served'[j] = served[k]
        BY <1>9, <3>3
      <4>2. /\ served'[j].path = p
            /\ i \in served'[j].off + 1 .. served'[j].off + Len(served'[j].buf)
            /\ served'[j].buf[i - served'[j].off] = b
        BY <3>1, <4>1
      <4>3. HeldFor(p, i, b)'
        BY <4>2 DEF HeldFor
      <4> QED
        BY <4>3
    <3> QED
      BY <3>2, <3>3
  <2>3. p = q /\ i \in o + 1 .. o + Len(s) /\ s[i - o] = b => HeldFor(p, i, b)
    BY <1>2 DEF HeldFor
  <2> QED
    BY <2>1, <2>2, <2>3
<1>11. Split(q)'
  <2> SUFFICES ASSUME NEW i \in Nat \ {0}, NEW b \in Values
               PROVE  /\ HeldFor(q, i, b)' => Due(q, i, b)
                      /\ b # Zero => /\ InFile(q, i, b)' => Due(q, i, b)
                                     /\ Due(q, i, b) => InFile(q, i, b)' \/ HeldFor(q, i, b)'
    BY <1>2, <1>4 DEF Split, Due
  <2>1. Split(q)
    BY DEF ContentInv
  <2>2. HeldFor(q, i, b)' => Due(q, i, b)
    BY <1>10, <2>1 DEF Split
  <2>3. ASSUME b # Zero, InFile(q, i, b)' PROVE Due(q, i, b)
    BY <1>7, <1>10, <2>1, <2>3 DEF Split
  <2>4. ASSUME b # Zero, Due(q, i, b) PROVE InFile(q, i, b)' \/ HeldFor(q, i, b)'
    <3>1. InFile(q, i, b) \/ HeldFor(q, i, b)
      BY <1>3, <2>1, <2>4 DEF Split
    <3>2. CASE i \in o + 1 .. o + Len(s)
      <4>1. s[i - o] \in Values
        <5>1. i - o \in 1 .. Len(s)
          BY <3>2
        <5> QED
          BY <5>1
      <4>2. HeldFor(q, i, s[i - o])
        BY <1>10, <3>2
      <4>3. Due(q, i, s[i - o])
        BY <2>1, <4>1, <4>2 DEF Split
      <4>4. s[i - o] = b
        BY <2>4, <4>3 DEF Due
      <4> QED
        BY <1>7, <2>4, <3>2, <4>4
    <3>3. CASE i \notin o + 1 .. o + Len(s)
      BY <1>7, <1>10, <2>4, <3>1, <3>3
    <3> QED
      BY <3>2, <3>3
  <2> QED
    BY <2>2, <2>3, <2>4
<1>12. ASSUME NEW p \in Intercepted, p # q PROVE Split(p)'
  <2>1. \A i \in Nat \ {0}, b \in Values : HeldFor(p, i, b)' <=> HeldFor(p, i, b)
    BY <1>10, <1>12
  <2>2. Split(p) /\ p \in Paths
    BY <1>12, PathAssumption DEF ContentInv
  <2> QED
    BY <1>3, <1>4, <1>5, <1>12, <2>1, <2>2, SplitKept
<1>13. \A p \in Paths \ Intercepted : Joined(p)'
  BY <1>2, <1>3, <1>4, <1>5, JoinedKept DEF ContentInv
<1>14. \A j \in DOMAIN served' : served'[j].path \in Intercepted
  BY <1>9 DEF ContentInv
<1>15. \A p \in Paths : data'[p] = None => said'[p] = << >>
  BY <1>3, <1>5, <1>6 DEF ContentInv
<1> QED
  BY <1>3, <1>11, <1>12, <1>13, <1>14, <1>15 DEF ContentInv

\* The i-th byte of what a repeated value is appended to, put into or held at.
At(s, i, b) == i <= Len(s) /\ s[i] = b
Between(i, k, n) == i \in k + 1 .. n
From(off, s, i, b) == i \in off + 1 .. off + Len(s) /\ s[i - off] = b

LEMMA RepeatAppended ==
    ASSUME NEW e \in Seq(Values), NEW v \in Values, NEW n \in Nat, NEW i \in Nat \ {0}, NEW b
    PROVE  At(e \o Repeat(v, n), i, b)
             <=> At(e, i, b) \/ (Between(i, Len(e), Len(e) + n) /\ b = v)
<1> DEFINE r == Repeat(v, n)
<1>1. r \in Seq(Values) /\ Len(r) = n /\ \A j \in 1 .. n : r[j] = v
  <2>1. \A j \in 1 .. n : r[j] = v
    BY DEF Repeat
  <2> QED
    BY <2>1, RepeatType
<1> HIDE DEF r
<1>2. Len(e \o r) = Len(e) + n
  BY <1>1
<1>3. i <= Len(e) + n => (e \o r)[i] = IF i <= Len(e) THEN e[i] ELSE r[i - Len(e)]
  BY <1>1
<1>4. i \in Len(e) + 1 .. Len(e) + n => r[i - Len(e)] = v
  BY <1>1
<1> QED
  BY <1>2, <1>3, <1>4 DEF r, At, Between

LEMMA RepeatPut ==
    ASSUME NEW file \in Seq(Bytes), NEW off \in Nat, NEW v \in Values, NEW k \in Nat,
           NEW i \in Nat \ {0}, NEW b \in Values, b # Zero
    PROVE  At(Put(file, off, Repeat(v, k)), i, b)
             <=> IF Between(i, off, off + k) THEN b = v ELSE At(file, i, b)
<1> DEFINE r == Repeat(v, k)
<1>1. r \in Seq(Values) /\ Len(r) = k /\ \A j \in 1 .. k : r[j] = v
  <2>1. \A j \in 1 .. k : r[j] = v
    BY DEF Repeat
  <2> QED
    BY <2>1, RepeatType
<1> HIDE DEF r
<1>2. i <= Len(Put(file, off, r)) /\ Put(file, off, r)[i] = b
        <=> IF i \in off + 1 .. off + Len(r) THEN r[i - off] = b
            ELSE i <= Len(file) /\ file[i] = b
  BY <1>1, PutBytes
<1>3. i \in off + 1 .. off + k => r[i - off] = v
  BY <1>1
<1> QED
  BY <1>1, <1>2, <1>3 DEF r, At, Between

LEMMA RepeatHeld ==
    ASSUME NEW off \in Nat, NEW v \in Values, NEW n \in Nat, NEW k \in 0 .. n, NEW i \in Nat,
           NEW b
    PROVE  From(off + k, Repeat(v, n - k), i, b) <=> Between(i, off + k, off + n) /\ b = v
<1>1. n - k \in Nat /\ off + k + (n - k) = off + n
  OBVIOUS
<1>2. Len(Repeat(v, n - k)) = n - k
  BY <1>1, RepeatType
<1>3. i \in off + k + 1 .. off + n => i - (off + k) \in 1 .. n - k
  OBVIOUS
<1>4. \A j \in 1 .. n - k : Repeat(v, n - k)[j] = v
  BY DEF Repeat
<1> QED
  BY <1>1, <1>2, <1>3, <1>4 DEF Between, From

\* The write that t has under way.
Sends(t, q, o, v, n) ==
    call[t].path = q /\ call[t].off = o /\ call[t].val = v /\ call[t].n = n

\* A write to the runtime: what fills its buffer goes to the file, the rest is held.
LEMMA ServeWritesContent ==
    ASSUME StreamInv, ByteInv, NEW t \in Threads, pc[t] = "write_wait",
           NEW n \in Nat, NEW k \in 0 .. n, NEW q \in Paths, NEW o \in Nat, NEW v \in Values,
           Sends(t, q, o, v, n), data[q] # None,
           data' = [data EXCEPT ![q] = IF k = 0 THEN @ ELSE Put(@, o, Repeat(v, k))],
           served' = Append(served, Held(call[t], k)),
           Goto(t, "write_offset", call[t]),
           UNCHANGED <<runtime, stream, said>>
    PROVE  ContentInv'
<1> USE DEF ByteInv
<1>0. InWrite(t) /\ pc[t] = "write_wait" /\ t \notin Ending(q)
  BY DEF InWrite, WritePCs, Ending, EndPCs
<1>1. PICK g \in Fps : /\ g = call[t].fp /\ q = stream[g].path /\ stream[g] # None
                       /\ call[t].op = "fwrite"
  BY <1>0, Writer DEF SentPCs, Sends
<1>2. q \in Intercepted /\ o = Len(said[q]) /\ said[q] \in Seq(Values)
  <2>1. q \in Intercepted
    BY <1>0, <1>1, EntryCounts DEF WritePCs
  <2>2. Counted(t) /\ said[q] \in Seq(Values)
    BY <1>1 DEF CountInv, StreamInv, TypeOK
  <2> QED
    BY <1>0, <2>1, <2>2 DEF Counted, Sends
<1> DEFINE h == Held(call[t], k)
<1>3. k \in Nat /\ Repeat(v, k) \in Seq(Values)
  BY RepeatType
<1>4. h.path = q /\ h.off = o + k /\ h.buf = Repeat(v, n - k)
  BY DEF Held, Sends
<1>5. Others(t) /\ pc'[t] = "write_offset" /\ call'[t] = call[t]
  BY DEF Goto, Others, StreamInv, ControlOK
<1>6. Ending(q) = {} /\ Ending(q)' = {t}
  <2>1. Ending(q) = {}
    <3>1. ASSUME NEW u \in Ending(q) PROVE u = t
      <4>1. u \in Threads /\ InWrite(u) /\ stream[call[u].fp].path = q
        BY <3>1, EndingWrites
      <4> QED
        BY <1>0, <1>1, <4>1, WritesAlone
    <3> QED
      BY <1>0, <3>1
  <2>2. t \in Ending(q)'
    BY <1>1, <1>5 DEF Ending, EndPCs, Sends
  <2> QED
    BY <1>5, <2>1, <2>2 DEF Ending, Others
<1>7. /\ Expected(q) = said[q] /\ Expected(q)' = said[q] \o Repeat(v, n)
      /\ \A p \in Paths : p # q => Expected(p)' = Expected(p)
  <2>1. Expected(q)' = said'[q] \o Repeat(call'[t].val, call'[t].n)
    BY <1>6, ExpectedOneNext
  <2>2. \A p \in Paths : p # q => t \notin Ending(p) /\ t \notin Ending(p)'
    BY <1>5 DEF Ending, Sends
  <2> QED
    BY <1>5, <1>6, <2>1, <2>2, ExpectedNone, QuietExpected DEF Sends
<1> HIDE DEF h
<1>8. ASSUME NEW i \in Nat \ {0}, NEW b
      PROVE  /\ Due(q, i, b) <=> i <= o /\ said[q][i] = b
             /\ Due(q, i, b)' <=> Due(q, i, b) \/ (Between(i, o, o + n) /\ b = v)
  <2>1. PICK e \in Seq(Values) : e = said[q]
    BY <1>2
  <2>2. Due(q, i, b) <=> At(e, i, b)
    BY <1>7, <2>1 DEF Due, At
  <2>3. Due(q, i, b)' <=> At(e \o Repeat(v, n), i, b)
    BY <1>7, <2>1 DEF Due, At
  <2>4. Len(e) = o
    BY <1>2, <2>1
  <2>5. At(e \o Repeat(v, n), i, b) <=> At(e, i, b) \/ (Between(i, o, o + n) /\ b = v)
    BY <2>4, RepeatAppended
  <2> QED
    BY <2>1, <2>2, <2>3, <2>4, <2>5 DEF At
<1>9. /\ data[q] \in Seq(Bytes) /\ \A p \in Paths : p # q => data'[p] = data[p]
      /\ data'[q] = IF k = 0 THEN data[q] ELSE Put(data[q], o, Repeat(v, k))
  BY <1>1 DEF StreamInv, TypeOK
<1>10. data'[q] # None /\ data'[q] \in Seq(Bytes)
  BY <1>2, <1>3, <1>9, PutType, BytesOfValues, NoFileAssumption
<1>11. ASSUME NEW i \in Nat \ {0}, NEW b \in Values, b # Zero
       PROVE  InFile(q, i, b)' <=> IF Between(i, o, o + k) THEN b = v ELSE InFile(q, i, b)
  <2>1. PICK d \in Seq(Bytes) : d = data[q]
    BY <1>9
  <2>2. CASE k = 0
    <3>1. ~Between(i, o, o + k)
      BY <1>2, <2>2 DEF Between
    <3> QED
      BY <1>9, <2>2, <3>1 DEF InFile
  <2>3. CASE k # 0
    <3>1. At(Put(d, o, Repeat(v, k)), i, b)
            <=> IF Between(i, o, o + k) THEN b = v ELSE At(d, i, b)
      BY <1>3, <1>11, RepeatPut
    <3>2. data'[q] = Put(d, o, Repeat(v, k))
      BY <1>9, <2>1, <2>3
    <3> QED
      BY <1>10, <2>1, <3>1, <3>2 DEF InFile, At
  <2> QED
    BY <2>2, <2>3
<1>12. /\ DOMAIN served' = DOMAIN served \union {Len(served) + 1}
       /\ served'[Len(served) + 1] = h
       /\ \A j \in DOMAIN served : served'[j] = served[j]
  <2>1. served \in Seq(Served) /\ served' = Append(served, h)
    BY DEF StreamInv, TypeOK, h
  <2> QED
    BY <2>1
<1>13. ASSUME NEW p, NEW i \in Nat, NEW b
       PROVE  HeldFor(p, i, b)' <=> \/ HeldFor(p, i, b)
                                    \/ p = q /\ Between(i, o + k, o + n) /\ b = v
  <2> DEFINE A(s) == s.path = p /\ From(s.off, s.buf, i, b)
  <2>1. HeldFor(p, i, b) <=> \E j \in DOMAIN served : A(served[j])
    BY DEF HeldFor, From
  <2>2. HeldFor(p, i, b)' <=> \E j \in DOMAIN served' : A(served'[j])
    BY DEF HeldFor, From
  <2>3. A(h) <=> p = q /\ Between(i, o + k, o + n) /\ b = v
    <3>1. From(o + k, Repeat(v, n - k), i, b) <=> Between(i, o + k, o + n) /\ b = v
      BY RepeatHeld
    <3> QED
      BY <1>4, <3>1
  <2> HIDE DEF A
  <2>4. (\E j \in DOMAIN served' : A(served'[j]))
          <=> (\E j \in DOMAIN served : A(served[j])) \/ A(h)
    BY <1>12
  <2> QED
    BY <2>1, <2>2, <2>3, <2>4
<1>14. Split(q)'
  <2> SUFFICES ASSUME NEW i \in Nat \ {0}, NEW b \in Values
               PROVE  /\ HeldFor(q, i, b)' => Due(q, i, b)'
                      /\ b # Zero => /\ InFile(q, i, b)' => Due(q, i, b)'
                                     /\ runtime # "dead" /\ Due(q, i, b)'
                                          => InFile(q, i, b)' \/ HeldFor(q, i, b)'
    BY DEF Split
  <2>1. /\ HeldFor(q, i, b) => Due(q, i, b)
        /\ b # Zero => /\ InFile(q, i, b) => Due(q, i, b)
                       /\ runtime # "dead" /\ Due(q, i, b) => InFile(q, i, b) \/ HeldFor(q, i, b)
    BY <1>2 DEF ContentInv, Split
  <2>2. Between(i, o, o + n) <=> Between(i, o, o + k) \/ Between(i, o + k, o + n)
    BY <1>2 DEF Between
  <2>3. i <= o => ~Between(i, o, o + n)
    BY <1>2 DEF Between
  <2>4. HeldFor(q, i, b)' => Due(q, i, b)'
    BY <1>8, <1>13, <2>1, <2>2
  <2>5. b # Zero /\ InFile(q, i, b)' => Due(q, i, b)'
    BY <1>8, <1>11, <2>1, <2>2
  <2>6. ASSUME b # Zero, runtime # "dead", Due(q, i, b)'
        PROVE  InFile(q, i, b)' \/ HeldFor(q, i, b)'
    BY <1>8, <1>11, <1>13, <2>1, <2>2, <2>3, <2>6
  <2> QED
    BY <2>4, <2>5, <2>6
<1>15. ASSUME NEW p \in Intercepted, p # q PROVE Split(p)'
  <2>1. \A i \in Nat \ {0}, b \in Values : HeldFor(p, i, b)' <=> HeldFor(p, i, b)
    BY <1>13, <1>15
  <2>2. Split(p) /\ p \in Paths
    BY <1>15, PathAssumption DEF ContentInv
  <2> QED
    BY <1>7, <1>9, <1>15, <2>1, <2>2, SplitKept
<1>16. \A p \in Paths \ Intercepted : Joined(p)'
  BY <1>2, <1>7, <1>9, JoinedKept DEF ContentInv
<1>17. \A j \in DOMAIN served' : served'[j].path \in Intercepted
  BY <1>2, <1>4, <1>12 DEF ContentInv
<1>18. \A p \in Paths : data'[p] = None => said'[p] = << >>
  BY <1>9, <1>10 DEF ContentInv
<1> QED
  BY <1>14, <1>15, <1>16, <1>17, <1>18 DEF ContentInv

LEMMA ServeContent ==
    ASSUME StreamInv, ByteInv, NEW t \in Threads, Serve(t)
    PROVE  ContentInv'
<1>1. UNCHANGED <<stream, said>> /\ pc[t] = "write_wait"
  BY DEF Serve
<1>2. CASE Dies /\ UNCHANGED <<data, pc, call>>
  BY <1>1, <1>2, DiesContent
<1>3. CASE /\ data[call[t].path] # None /\ Goto(t, "write_offset", call[t]) /\ UNCHANGED runtime
           /\ \E k \in {j \in 0 .. call[t].n : call[t].n - j < BufSize} :
                 /\ data' = [data EXCEPT ![call[t].path] =
                        IF k = 0 THEN @ ELSE Put(@, call[t].off, Repeat(call[t].val, k))]
                 /\ served' = Append(served, Held(call[t], k))
  <2>1. PICK n \in Nat : n = call[t].n
    BY <1>1, WritesToOpen DEF WritePCs
  <2>2. PICK k \in 0 .. n :
          /\ data' = [data EXCEPT ![call[t].path] =
                 IF k = 0 THEN @ ELSE Put(@, call[t].off, Repeat(call[t].val, k))]
          /\ served' = Append(served, Held(call[t], k))
    BY <1>3, <2>1
  <2>3. data[call[t].path] # None /\ Goto(t, "write_offset", call[t]) /\ UNCHANGED runtime
    BY <1>3
  <2>4. PICK q \in Paths, o \in Nat, v \in Values :
          q = call[t].path /\ o = call[t].off /\ v = call[t].val
    BY <1>1, WritesToOpen, Writer DEF ByteInv, InWrite, WritePCs, SentPCs
  <2>5. Sends(t, q, o, v, n)
    BY <2>1, <2>4 DEF Sends
  <2>6. /\ data[q] # None
        /\ data' = [data EXCEPT ![q] = IF k = 0 THEN @ ELSE Put(@, o, Repeat(v, k))]
    BY <2>2, <2>3, <2>4
  <2> QED
    BY <1>1, <2>2, <2>3, <2>5, <2>6, ServeWritesContent
<1> QED
  BY <1>2, <1>3 DEF Serve

LEMMA ContentStep == ByteInv /\ [Next]_vars /\ CountInv' => ContentInv'
<1> SUFFICES ASSUME ByteInv, [Next]_vars, CountInv' PROVE ContentInv'
  OBVIOUS
<1>0. StreamInv
  BY DEF ByteInv
<1>1. ASSUME NEW t \in Threads, Begin(t) PROVE ContentInv'
  BY <1>0, <1>1, fopenContent, BeginContent DEF Begin
<1>2. ASSUME NEW t \in Threads, Step(t) PROVE ContentInv'
  BY <1>0, <1>2, QuietContent, WriteRealContent, ServeContent, CloseRealContent, ReturnContent
     DEF Step
<1>3. ASSUME NEW f \in Fps, Flush(f) PROVE ContentInv'
  BY <1>0, <1>3, FlushContent
<1>4. CASE FlushServed
  BY <1>0, <1>4, FlushServedContent
<1>5. CASE Crash
  BY <1>0, <1>5, DiesContent DEF Crash
<1>6. CASE Exit \/ UNCHANGED vars
  <2>1. /\ UNCHANGED <<data, stream, served, said, pc, call>>
        /\ runtime' # "dead" => runtime # "dead"
    BY <1>6 DEF Exit, vars
  <2>2. \A p \in Paths : Expected(p)' = Expected(p)
    BY <2>1 DEF Expected, Repeat
  <2> QED
    BY <2>1, <2>2, ContentKeeps DEF ByteInv, ContentInv
<1> QED
  BY <1>1, <1>2, <1>3, <1>4, <1>5, <1>6 DEF Next

LEMMA ByteInit == Init => ByteInv
<1> SUFFICES ASSUME Init PROVE ByteInv
  OBVIOUS
<1>1. /\ \A p \in Paths : data[p] = None /\ said[p] = << >>
      /\ \A f \in Fps : stream[f] = None /\ stdio_files_[f] = None
      /\ \A t \in Threads : pc[t] = "idle" /\ call[t] = NoCall
      /\ served = << >>
  BY DEF Init
<1>2. CountInv
  BY <1>1 DEF CountInv, Alone, EntryAt, Counted, Reports
<1>3. \A p \in Paths : Expected(p) = << >>
  <2>1. \A p \in Paths : Ending(p) = {}
    BY <1>1 DEF Ending, EndPCs
  <2> QED
    BY <1>1, <2>1, ExpectedNone
<1>4. DOMAIN << >> = {} /\ Len(<< >>) = 0
  OBVIOUS
<1>5. \A p \in Intercepted : Split(p)
  BY <1>1, <1>3, <1>4, PathAssumption DEF Split, Due, InFile, HeldFor
<1>6. ContentInv
  BY <1>1, <1>4, <1>5 DEF ContentInv, Joined
<1> QED
  BY <1>2, <1>6, StreamInit DEF ByteInv

LEMMA ByteStep == ByteInv /\ [Next]_vars => ByteInv'
<1>1. ByteInv /\ [Next]_vars => StreamInv'
  BY StreamStep DEF ByteInv
<1> QED
  BY <1>1, CountStep, ContentStep DEF ByteInv

-----------------------------------------------------------------------------
\* A plain stream holds b as the i-th byte of p.
Buffered(p, i, b) ==
    \E f \in Fps : /\ stream[f] # None /\ stream[f].path = p
                   /\ From(IF stream[f].append THEN Len(data[p]) ELSE stream[f].off,
                           stream[f].buf, i, b)

LEMMA CopiesAre ==
    ASSUME StreamInv, NEW p, NEW i, NEW b
    PROVE  b \in Copies(p, i) <=> InFile(p, i, b) \/ HeldFor(p, i, b) \/ Buffered(p, i, b)
<1>1. \A off, buf : b \in HeldBytes(off, buf, i) <=> From(off, buf, i, b)
  BY DEF HeldBytes, From
<1>2. b \in UNION {HeldBytes(s.off, s.buf, i) : s \in {x \in ToSet(served) : x.path = p}}
        <=> HeldFor(p, i, b)
  <2>1. ToSet(served) = {served[j] : j \in DOMAIN served}
    BY DEF ToSet
  <2>2. b \in UNION {HeldBytes(s.off, s.buf, i) : s \in {x \in ToSet(served) : x.path = p}}
          <=> \E j \in DOMAIN served : /\ served[j].path = p
                                       /\ b \in HeldBytes(served[j].off, served[j].buf, i)
    BY <2>1
  <2> QED
    BY <1>1, <2>2 DEF HeldFor, From
<1>3. b \in UNION {HeldBytes(IF s.append THEN Len(data[p]) ELSE s.off, s.buf, i) :
                   s \in {x \in Range(stream) \ {None} : x.path = p}}
        <=> Buffered(p, i, b)
  <2>1. Range(stream) = {stream[f] : f \in Fps}
    BY DEF Range, StreamInv, TypeOK
  <2>2. b \in UNION {HeldBytes(IF s.append THEN Len(data[p]) ELSE s.off, s.buf, i) :
                     s \in {x \in Range(stream) \ {None} : x.path = p}}
          <=> \E f \in Fps : /\ stream[f] # None /\ stream[f].path = p
                             /\ b \in HeldBytes(IF stream[f].append THEN Len(data[p])
                                                ELSE stream[f].off, stream[f].buf, i)
    BY <2>1
  <2> QED
    BY <1>1, <2>2 DEF Buffered
<1> DEFINE F == IF data[p] # None /\ i <= Len(data[p]) THEN {data[p][i]} ELSE {}
           H == UNION {HeldBytes(s.off, s.buf, i) : s \in {x \in ToSet(served) : x.path = p}}
           B == UNION {HeldBytes(IF s.append THEN Len(data[p]) ELSE s.off, s.buf, i) :
                       s \in {x \in Range(stream) \ {None} : x.path = p}}
<1>4. b \in F <=> InFile(p, i, b)
  BY DEF InFile
<1>5. Copies(p, i) = (F \union H) \union B
  BY DEF Copies
<1>6. (b \in H <=> HeldFor(p, i, b)) /\ (b \in B <=> Buffered(p, i, b))
  BY <1>2, <1>3
<1> HIDE DEF F, H, B
<1> QED
  BY <1>4, <1>5, <1>6

\* A path that is not intercepted has each of its bytes once.
LEMMA PlainCopies ==
    ASSUME ByteInv, NEW p \in Paths \ Intercepted, NEW i \in Nat \ {0}, NEW b
    PROVE  b \in Copies(p, i) <=> Due(p, i, b)
<1> USE DEF ByteInv
<1>1. ~HeldFor(p, i, b)
  BY DEF ContentInv, HeldFor
<1>2. CASE data[p] = None
  <2>1. \A f \in Fps : stream[f] # None => stream[f].path # p
    BY <1>2 DEF StreamInv, FilesExist
  <2>2. Ending(p) = {}
    <3>1. ASSUME NEW t \in Ending(p) PROVE FALSE
      <4>1. t \in Threads /\ InWrite(t) /\ stream[call[t].fp].path = p
        BY <3>1, EndingWrites
      <4>2. call[t].fp \in Fps /\ stream[call[t].fp] # None
        BY <4>1, Writer
      <4> QED
        BY <2>1, <4>1, <4>2
    <3> QED
      BY <3>1
  <2>3. Expected(p) = << >>
    BY <1>2, <2>2, ExpectedNone DEF ContentInv
  <2>4. ~Due(p, i, b) /\ ~InFile(p, i, b) /\ ~Buffered(p, i, b)
    BY <1>2, <2>1, <2>3 DEF Due, InFile, Buffered
  <2> QED
    BY <1>1, <2>4, CopiesAre
<1>3. CASE data[p] # None
  <2>1. Joined(p)
    BY DEF ContentInv
  <2>2. PICK d \in Seq(Bytes) : d = data[p]
    BY <1>3 DEF StreamInv, TypeOK
  <2>3. InFile(p, i, b) <=> At(d, i, b)
    BY <1>3, <2>2 DEF InFile, At
  <2>4. CASE \A f \in Fps : stream[f] # None => stream[f].path # p
    <3>1. Expected(p) = d
      BY <1>3, <2>1, <2>2, <2>4 DEF Joined
    <3>2. ~Buffered(p, i, b)
      BY <2>4 DEF Buffered
    <3>3. Due(p, i, b) <=> At(d, i, b)
      BY <3>1 DEF Due, At
    <3> QED
      BY <1>1, <2>3, <3>2, <3>3, CopiesAre
  <2>5. ASSUME NEW f \in Fps, stream[f] # None, stream[f].path = p
        PROVE  b \in Copies(p, i) <=> Due(p, i, b)
    <3>1. PICK s \in Seq(Bytes) : s = stream[f].buf
      BY <2>5, BytesOfValues DEF StreamInv, TypeOK, Stream
    <3>2. Expected(p) = d \o s
      BY <1>3, <2>1, <2>2, <2>5, <3>1 DEF Joined
    <3>3. (IF stream[f].append THEN Len(data[p]) ELSE stream[f].off) = Len(d)
      BY <1>3, <2>1, <2>2, <2>5 DEF Joined
    <3>4. Buffered(p, i, b) <=> From(Len(d), s, i, b)
      BY <2>5, <3>1, <3>3 DEF Buffered, CountInv, Alone
    <3>5. Due(p, i, b) <=> At(d \o s, i, b)
      BY <3>2 DEF Due, At
    <3>6. At(d \o s, i, b) <=> At(d, i, b) \/ From(Len(d), s, i, b)
      <4>1. Len(d \o s) = Len(d) + Len(s)
        OBVIOUS
      <4>2. i <= Len(d) + Len(s) => (d \o s)[i] = IF i <= Len(d) THEN d[i] ELSE s[i - Len(d)]
        OBVIOUS
      <4> QED
        BY <4>1, <4>2 DEF At, From
    <3> QED
      BY <1>1, <2>3, <3>4, <3>5, <3>6, CopiesAre
  <2> QED
    BY <2>4, <2>5
<1> QED
  BY <1>2, <1>3

\* Of an intercepted one, what is there is due, and what is due is there unless the
\* runtime died.
LEMMA SplitCopies ==
    ASSUME ByteInv, NEW p \in Intercepted, NEW i \in Nat \ {0}, NEW b, b # Zero
    PROVE  /\ b \in Copies(p, i) => Due(p, i, b)
           /\ runtime # "dead" /\ Due(p, i, b) => b \in Copies(p, i)
<1> USE DEF ByteInv
<1>1. p \in Paths /\ Split(p)
  BY PathAssumption DEF ContentInv
<1>2. ~Buffered(p, i, b)
  <2>1. \A off \in Nat : ~From(off, << >>, i, b)
    BY DEF From
  <2>2. ASSUME NEW f \in Fps, stream[f] # None, stream[f].path = p
        PROVE  /\ stream[f].buf = << >>
               /\ (IF stream[f].append THEN Len(data[p]) ELSE stream[f].off) \in Nat
    <3>1. data[p] \in Seq(Bytes) /\ stream[f].off \in Nat
      BY <1>1, <2>2 DEF StreamInv, TypeOK, FilesExist, Stream
    <3>2. Len(data[p]) \in Nat
      BY <3>1, LenProperties
    <3> QED
      BY <2>2, <3>1, <3>2 DEF ContentInv
  <2> QED
    BY <2>1, <2>2 DEF Buffered
<1>3. InFile(p, i, b) => b \in Values
  <2>1. data[p] # None => data[p] \in Seq(Bytes)
    BY <1>1 DEF StreamInv, TypeOK
  <2>2. \A d \in Seq(Bytes) : At(d, i, b) => b \in Values
    BY DEF At, Bytes
  <2> QED
    BY <2>1, <2>2 DEF InFile, At
<1>4. HeldFor(p, i, b) => b \in Values
  <2>1. ASSUME NEW s \in Seq(Values), NEW o \in Nat, From(o, s, i, b) PROVE b \in Values
    <3>1. i - o \in 1 .. Len(s)
      BY <2>1 DEF From
    <3> QED
      BY <2>1, <3>1 DEF From
  <2>2. \A j \in DOMAIN served : served[j].buf \in Seq(Values) /\ served[j].off \in Nat
    BY ServedType DEF Served
  <2> QED
    BY <2>1, <2>2 DEF HeldFor, From
<1>5. Due(p, i, b) => b \in Values
  <2>1. PICK e \in Seq(Values) : e = Expected(p)
    BY <1>1, ExpectedType
  <2>2. At(e, i, b) => b \in Values
    BY DEF At
  <2> QED
    BY <2>1, <2>2 DEF Due, At
<1>6. b \in Values => /\ InFile(p, i, b) \/ HeldFor(p, i, b) => Due(p, i, b)
                      /\ runtime # "dead" /\ Due(p, i, b) => InFile(p, i, b) \/ HeldFor(p, i, b)
  BY <1>1 DEF Split
<1> QED
  BY <1>2, <1>3, <1>4, <1>5, <1>6, CopiesAre

LEMMA ByteInvLost == ByteInv => NoByteLost
<1> SUFFICES ASSUME ByteInv, NEW p \in Paths, NEW i \in 1 .. MaxLen + 1
             PROVE  LET due == Expected(p)
                        right == IF i <= Len(due) THEN {due[i]} ELSE {}
                        there == Copies(p, i) \ {Zero}
                    IN  IF runtime = "dead" /\ p \in Intercepted THEN there \subseteq right
                        ELSE there = right \ {Zero}
  BY DEF NoByteLost
<1> DEFINE right == IF i <= Len(Expected(p)) THEN {Expected(p)[i]} ELSE {}
<1>1. i \in Nat \ {0}
  BY SizeAssumption
<1>2. \A b : b \in right <=> Due(p, i, b)
  BY DEF Due
<1> HIDE DEF right
<1>3. CASE p \in Intercepted
  <2>1. \A b : b # Zero => /\ b \in Copies(p, i) => b \in right
                           /\ runtime # "dead" /\ b \in right => b \in Copies(p, i)
    BY <1>1, <1>2, <1>3, SplitCopies
  <2> QED
    BY <1>3, <2>1 DEF right
<1>4. CASE p \notin Intercepted
  <2>1. \A b : b \in Copies(p, i) <=> b \in right
    BY <1>1, <1>2, <1>4, PlainCopies
  <2> QED
    BY <1>4, <2>1 DEF right
<1> QED
  BY <1>3, <1>4

\* What fwrite reported written is, each byte at its own place, in the file or in a
\* buffer that has yet to be flushed, and nothing else is, so long as the runtime lives:
\* no two tasks write the same place, whatever the order in which the runtime's streams
\* are flushed.  A runtime that dies loses what it held and leaves nothing wrong.
THEOREM BytesKept == Spec => []NoByteLost
  BY ByteInit, ByteStep, ByteInvLost, PTL DEF Spec
=============================================================================
