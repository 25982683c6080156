---------------------------- MODULE StdioAdapter ----------------------------
(***************************************************************************)
(* The STDIO interception library of one application process, fopen,       *)
(* fwrite and fclose, with the runtime's half of an fwrite.  The runtime   *)
(* opens a stream of its own for every fwrite and never closes it: what    *)
(* does not fill the stream's buffer reaches the file when the runtime     *)
(* exits, in no particular order, and is lost if the runtime dies.         *)
(*                                                                         *)
(* The table of intercepted streams is ClientMetadataManager's, keyed by   *)
(* FILE pointer.  The C library and the kernel are external: a FILE        *)
(* pointer may be given out again once it is closed, and a stream's buffer *)
(* may be written out early.  So is the program: its threads use streams   *)
(* of their own, so that an entry stays while a call uses it and fwrite's  *)
(* fallback is out of reach; a path has one stream at a time, and an       *)
(* intercepted path is opened once, to be written.                         *)
(***************************************************************************)
EXTENDS FileOps, SequencesExt

INSTANCE ClientMetadataManager

CONSTANTS
    Threads, Paths, Fps,
    Intercepted,    \* the paths for which ShouldIntercept answers true
    Counts,         \* sizes of the program's writes
    BufSize,        \* size of a stream's buffer in the runtime
    MaxStreams,     \* streams that the runtime's process can have open
    MaxLen          \* bound: size of a file

ASSUME PathAssumption == Intercepted \subseteq Paths
ASSUME SizeAssumption ==
    Counts \subseteq Nat \ {0} /\ BufSize \in Nat \ {0} /\ MaxStreams \in Nat /\ MaxLen \in Nat

VARIABLES
    data,           \* path -> bytes, or None                           (kernel)
    stream,         \* FILE pointer -> Stream, or None                 (C library)
    stdio_files_,   \* FILE pointer -> FileInfo, or None: the shared table
    served,         \* the runtime's streams: a list of Served
    runtime,        \* "up", "exiting" or "dead"
    owner,          \* FILE pointer -> the thread that opened it, from the
                    \* return of fopen until fclose is called; else None
    pc, call,       \* thread -> where in a wrapper it is, and its variables
    said            \* history: path -> the bytes that fwrite has reported written

vars == <<data, stream, stdio_files_, served, runtime, owner, pc, call, said>>

\* A stream of the program, one of the runtime, an entry of the table.
Stream == [path : Paths, append : BOOLEAN, off : Nat, buf : Seq(Values)]
Served == [path : Paths, off : Nat, buf : Seq(Values)]
Entry == [absolute_path : Paths, current_offset : Nat]

ASSUME NoneAssumption == None \notin Threads /\ None \notin Stream /\ None \notin Entry
ASSUME NoFileAssumption == None \notin Seq(Bytes)

NoCall == [op |-> "none", fp |-> None, path |-> None, n |-> 0, val |-> None, off |-> 0]

Init ==
    /\ data = [p \in Paths |-> None]
    /\ stream = [f \in Fps |-> None]
    /\ stdio_files_ = [f \in Fps |-> None]
    /\ served = << >> /\ runtime = "up"
    /\ owner = [f \in Fps |-> None]
    /\ pc = [t \in Threads |-> "idle"] /\ call = [t \in Threads |-> NoCall]
    /\ said = [p \in Paths |-> << >>]

-----------------------------------------------------------------------------
\* Which calls the program makes.

MayUse(t, f) == owner[f] = t

\* A path has one stream at a time; an intercepted one is opened once.
MayOpen(p, mode) ==
    /\ \A f \in Fps : stream[f] # None => stream[f].path # p
    /\ p \in Intercepted => data[p] = None /\ mode = "w"

\* Bound: the size of a file.
WithinBound(f, n) ==
    (IF stdio_files_[f] # None THEN stdio_files_[f].current_offset
     ELSE Len(said[stream[f].path])) + n <= MaxLen

Goto(t, label, locals) ==
    /\ pc' = [pc EXCEPT ![t] = label]
    /\ call' = [call EXCEPT ![t] = locals]

Repeat(v, n) == [i \in 1 .. n |-> v]

\* The program learns what was written, or has a stream to use.
Return(t) ==
    LET c == call[t]
    IN  /\ pc[t] = "return"
        /\ owner' = IF c.op = "fopen" THEN [owner EXCEPT ![c.fp] = t] ELSE owner
        /\ said' = IF c.op = "fwrite" THEN [said EXCEPT ![c.path] = @ \o Repeat(c.val, c.n)]
                   ELSE said
        /\ Goto(t, "idle", NoCall)
        /\ UNCHANGED <<data, stream, stdio_files_, served, runtime>>

-----------------------------------------------------------------------------
\* fopen: the real call first, for every path; if it fails nothing has changed.

RealOpen(f, p, mode) ==
    /\ stream[f] = None
    /\ stream' = [stream EXCEPT ![f] =
                     [path |-> p, append |-> mode = "a", off |-> 0, buf |-> << >>]]
    /\ IF mode = "w" \/ data[p] = None
       THEN data' = [data EXCEPT ![p] = << >>] /\ said' = [said EXCEPT ![p] = << >>]
       ELSE UNCHANGED <<data, said>>

fopen(t, p, mode) ==
    /\ pc[t] = "idle" /\ MayOpen(p, mode)
    /\ \E f \in Fps :
          /\ RealOpen(f, p, mode)
          /\ Goto(t, IF p \in Intercepted THEN "open_register" ELSE "return",
                  [NoCall EXCEPT !.op = "fopen", !.fp = f, !.path = p])
    /\ UNCHANGED <<stdio_files_, served, runtime, owner>>

\* The mode is stored with the entry and never read.
OpenRegister(t) ==
    /\ pc[t] = "open_register"
    /\ stdio_files_' = Register(stdio_files_, call[t].fp, call[t].path)
    /\ Goto(t, "return", call[t])
    /\ UNCHANGED <<data, stream, served, runtime, owner, said>>

-----------------------------------------------------------------------------
\* fwrite

\* IsStdioFpRegistered decides between the runtime and the real call.
fwrite(t, f, v, n) ==
    /\ pc[t] = "idle" /\ MayUse(t, f) /\ WithinBound(f, n)
    /\ Goto(t, IF IsRegistered(stdio_files_, f) THEN "write_submit" ELSE "write_real",
            [NoCall EXCEPT !.op = "fwrite", !.fp = f, !.n = n, !.val = v])
    /\ UNCHANGED <<data, stream, stdio_files_, served, runtime, owner, said>>

WriteReal(t) ==
    LET c == call[t]
    IN  /\ pc[t] = "write_real"
        /\ stream' = [stream EXCEPT ![c.fp].buf = @ \o Repeat(c.val, c.n)]
        /\ Goto(t, "return", [c EXCEPT !.path = stream[c.fp].path])
        /\ UNCHANGED <<data, stdio_files_, served, runtime, owner, said>>

\* The task carries the offset and the path that the entry has now.
WriteSubmit(t) ==
    LET info == stdio_files_[call[t].fp]
    IN  /\ pc[t] = "write_submit"
        /\ Goto(t, "write_wait", [call[t] EXCEPT !.path = info.absolute_path,
                                                 !.off = info.current_offset])
        /\ UNCHANGED <<data, stream, stdio_files_, served, runtime, owner, said>>

\* A byte string put into a file, a hole before it read as Zero.
Put(file, off, bytes) ==
    [i \in 1 .. (IF off + Len(bytes) > Len(file) THEN off + Len(bytes) ELSE Len(file)) |->
        IF i \in off + 1 .. off + Len(bytes) THEN bytes[i - off]
        ELSE IF i <= Len(file) THEN file[i] ELSE Zero]

\* The runtime dies, and with it what its streams hold.
Dies == runtime' = "dead" /\ served' = << >>

\* A mistaken Held: the stream is not moved to the task's offset.
HeldAtStart(c, k) == [path |-> c.path, off |-> k, buf |-> Repeat(c.val, c.n - k)]

\* A stream of the runtime, at an offset, with what it holds back.
Held(c, k) == [path |-> c.path, off |-> c.off + k, buf |-> Repeat(c.val, c.n - k)]

\* A mistaken Serve: all of the data is held back, however long.
ServeHoldsAll(t) ==
    /\ pc[t] = "write_wait" /\ runtime = "up"
    /\ served' = Append(served, Held(call[t], 0))
    /\ Goto(t, "write_offset", call[t])
    /\ UNCHANGED <<data, runtime, stream, stdio_files_, owner, said>>

\* Write in the runtime: fopen with "rw+", fseek, fwrite.  Less than a buffer is held
\* back.  A stream that cannot be opened is a null pointer, which fseek follows.
Serve(t) ==
    LET c == call[t]
    IN  /\ pc[t] = "write_wait" /\ runtime = "up"
        /\ \/ /\ data[c.path] = None \/ Len(served) = MaxStreams
              /\ Dies
              /\ UNCHANGED <<data, pc, call>>
           \/ /\ data[c.path] # None /\ Len(served) < MaxStreams
              /\ \E k \in {j \in 0 .. c.n : c.n - j < BufSize} :
                    /\ data' = [data EXCEPT ![c.path] =
                                   IF k = 0 THEN @ ELSE Put(@, c.off, Repeat(c.val, k))]
                    /\ served' = Append(served, Held(c, k))
              /\ Goto(t, "write_offset", c)
              /\ UNCHANGED runtime
        /\ UNCHANGED <<stream, stdio_files_, owner, said>>

\* The argument of UpdateStdioOffset is computed from the entry, without the lock, and
\* stored under it.
WriteOffset(t) ==
    /\ pc[t] = "write_offset"
    /\ Goto(t, "write_store",
            [call[t] EXCEPT !.off = stdio_files_[call[t].fp].current_offset + call[t].n])
    /\ UNCHANGED <<data, stream, stdio_files_, served, runtime, owner, said>>

WriteStore(t) ==
    /\ pc[t] = "write_store"
    /\ stdio_files_' = UpdateOffset(stdio_files_, call[t].fp, call[t].off)
    /\ Goto(t, "return", call[t])
    /\ UNCHANGED <<data, stream, served, runtime, owner, said>>

-----------------------------------------------------------------------------
\* fclose

\* A mistaken fclose: the entry stays.
fcloseForgets(t, f) ==
    /\ pc[t] = "idle" /\ MayUse(t, f)
    /\ owner' = [owner EXCEPT ![f] = None]
    /\ Goto(t, "close_real", [NoCall EXCEPT !.op = "fclose", !.fp = f])
    /\ UNCHANGED <<data, stream, stdio_files_, served, runtime, said>>

fclose(t, f) ==
    /\ pc[t] = "idle" /\ MayUse(t, f)
    /\ owner' = [owner EXCEPT ![f] = None]
    /\ Goto(t, IF IsRegistered(stdio_files_, f) THEN "close_unregister" ELSE "close_real",
            [NoCall EXCEPT !.op = "fclose", !.fp = f])
    /\ UNCHANGED <<data, stream, stdio_files_, served, runtime, said>>

CloseUnregister(t) ==
    /\ pc[t] = "close_unregister"
    /\ stdio_files_' = Unregister(stdio_files_, call[t].fp)
    /\ Goto(t, "close_real", call[t])
    /\ UNCHANGED <<data, stream, served, runtime, owner, said>>

\* What a plain stream holds goes to its file, at the end of it when appending.
Flushed(f) ==
    LET s == stream[f]
        off == IF s.append THEN Len(data[s.path]) ELSE s.off
    IN  [data EXCEPT ![s.path] = IF s.buf = << >> THEN @ ELSE Put(@, off, s.buf)]

CloseReal(t) ==
    /\ pc[t] = "close_real"
    /\ data' = Flushed(call[t].fp)
    /\ stream' = [stream EXCEPT ![call[t].fp] = None]
    /\ Goto(t, "return", call[t])
    /\ UNCHANGED <<stdio_files_, served, runtime, owner, said>>

\* The C library writes a buffer out early.
Flush(f) ==
    /\ stream[f] # None /\ stream[f].buf # << >>
    /\ data' = Flushed(f)
    /\ stream' = [stream EXCEPT ![f].off = @ + Len(stream[f].buf), ![f].buf = << >>]
    /\ UNCHANGED <<stdio_files_, served, runtime, owner, pc, call, said>>

-----------------------------------------------------------------------------
\* The end of the runtime: orderly, once the program has made its calls, with its
\* streams flushed one after the other; or not.

Exit ==
    /\ runtime = "up" /\ \A t \in Threads : pc[t] = "idle"
    /\ runtime' = "exiting"
    /\ UNCHANGED <<data, stream, stdio_files_, served, owner, pc, call, said>>

FlushServed ==
    /\ runtime = "exiting"
    /\ \E i \in DOMAIN served :
          LET s == served[i]
          IN  /\ data' = [data EXCEPT ![s.path] =
                             IF s.buf = << >> THEN @ ELSE Put(@, s.off, s.buf)]
              /\ served' = RemoveAt(served, i)
    /\ UNCHANGED <<runtime, stream, stdio_files_, owner, pc, call, said>>

Crash ==
    /\ runtime \in {"up", "exiting"} /\ Dies
    /\ UNCHANGED <<data, stream, stdio_files_, owner, pc, call, said>>

Step(t) ==
    \/ OpenRegister(t) \/ WriteReal(t) \/ WriteSubmit(t) \/ Serve(t) \/ WriteOffset(t)
    \/ WriteStore(t) \/ CloseUnregister(t) \/ CloseReal(t) \/ Return(t)

Begin(t) ==
    /\ runtime # "exiting"
    /\ \/ \E p \in Paths, mode \in {"w", "a"} : fopen(t, p, mode)
       \/ \E f \in Fps, v \in Values, n \in Counts : fwrite(t, f, v, n)
       \/ \E f \in Fps : fclose(t, f)

Next ==
    \/ \E t \in Threads : Begin(t) \/ Step(t)
    \/ \E f \in Fps : Flush(f)
    \/ Exit \/ FlushServed \/ Crash

Spec == Init /\ [][Next]_vars

-----------------------------------------------------------------------------
\* Types, and with them that the runtime holds back less than a buffer for each of at
\* most MaxStreams streams.
TypeOK ==
    /\ data \in [Paths -> Seq(Bytes) \union {None}]
    /\ stream \in [Fps -> Stream \union {None}]
    /\ stdio_files_ \in [Fps -> Entry \union {None}]
    /\ served \in Seq(Served) /\ Len(served) <= MaxStreams
    /\ \A i \in DOMAIN served : Len(served[i].buf) < BufSize
    /\ runtime \in {"up", "exiting", "dead"}
    /\ owner \in [Fps -> Threads \union {None}]
    /\ said \in [Paths -> Seq(Values)]

\* The table is right about an open stream.
Agrees(f) ==
    /\ stream[f] # None
    /\ IF stream[f].path \in Intercepted
       THEN stdio_files_[f] # None /\ stdio_files_[f].absolute_path = stream[f].path
       ELSE stdio_files_[f] = None

\* From the return of fopen until fclose is called, the table has an entry for a stream
\* exactly if its path is intercepted, and of that path, though FILE pointers are given
\* out again; and what is written goes to the runtime under the stream's own path, or,
\* for a path that is not intercepted, to the real stream.
StreamsMatch ==
    /\ \A f \in Fps : owner[f] # None => Agrees(f)
    /\ \A t \in Threads :
          /\ pc[t] = "write_wait" => call[t].path = stream[call[t].fp].path
          /\ pc[t] = "write_real" => stream[call[t].fp].path \notin Intercepted

\* What a path holds as its i-th byte, in the file, in the runtime, in a plain stream.
HeldBytes(off, buf, i) == IF i \in off + 1 .. off + Len(buf) THEN {buf[i - off]} ELSE {}
Copies(p, i) ==
    (IF data[p] # None /\ i <= Len(data[p]) THEN {data[p][i]} ELSE {})
    \union (UNION {HeldBytes(s.off, s.buf, i) : s \in {x \in ToSet(served) : x.path = p}})
    \union (UNION {HeldBytes(IF s.append THEN Len(data[p]) ELSE s.off, s.buf, i) :
                   s \in {x \in Range(stream) \ {None} : x.path = p}})

\* What was reported written, and what is about to be.
Expected(p) ==
    LET ending == {t \in Threads : /\ call[t].op = "fwrite" /\ call[t].path = p
                                   /\ pc[t] \in {"write_offset", "write_store", "return"}}
    IN  IF ending = {} THEN said[p]
        ELSE LET c == call[CHOOSE t \in ending : TRUE] IN said[p] \o Repeat(c.val, c.n)

\* Every byte that was written is, at its own place, in the file or held in a buffer
\* that has yet to be flushed, and nothing else is there, so that all is in the file
\* once the runtime has flushed its streams, whatever their order.  A runtime that dies
\* loses what it held and leaves nothing wrong.  A Zero is not told from a hole.
NoByteLost ==
    \A p \in Paths : \A i \in 1 .. MaxLen + 1 :
        LET due == Expected(p)
            right == IF i <= Len(due) THEN {due[i]} ELSE {}
            there == Copies(p, i) \ {Zero}
        IN  IF runtime = "dead" /\ p \in Intercepted THEN there \subseteq right
            ELSE there = right \ {Zero}
=============================================================================
