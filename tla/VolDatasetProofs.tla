-------------------------- MODULE VolDatasetProofs --------------------------
(***************************************************************************)
(* What TLAPS proves of VolDataset, for any datasets, ranks, programs and  *)
(* selections, and wherever ranks die: the chunks of a call are a division *)
(* of its selection, what a rank has read of a chunk is what the chunk has *)
(* for as long as it is used, the background buffer is not overrun if the  *)
(* memory type is no smaller than the dataset's, and writing a dataset is  *)
(* writing the array that DatasetArray specifies, if besides no conversion *)
(* leaves a member unread.                                                 *)
(***************************************************************************)
EXTENDS VolDataset, VolSelectProofs

(***************************************************************************)
(* The chunks of a call.                                                   *)
(***************************************************************************)
\* What ChunksOfCall says of one call and a list of chunks.
TakenFrom(call, infos) ==
    \A i \in DOMAIN infos :
        LET here == infos[i]
        IN  /\ Moved(here.fspace.sel, here.chunk_coords)
                 = {c \in call.fsel : Coords(c) = here.chunk_coords}
            /\ here.mspace.sel \subseteq real_mem_space(call).sel
            /\ Cardinality(here.mspace.sel) = Cardinality(here.fspace.sel)
            /\ \A other \in {infos[j] : j \in DOMAIN infos \ {i}} :
                  /\ other.chunk_coords # here.chunk_coords
                  /\ other.mspace.sel \intersect here.mspace.sel = {}

IsDataset(ds) == /\ ds.layout \in {Contiguous, Chunked} /\ IsType(ds.type)
                 /\ ds.dims \in Seq(Nat) /\ ds.chunk \in Seq(Nat \ {0})
                 /\ Len(ds.chunk) = Len(ds.dims)

\* The one chunk of a contiguous dataset takes the whole selection.
LEMMA ContiguousTaken ==
    ASSUME IsDataset(dset), dset.layout = Contiguous, NEW call, IsCall(dset, call),
           NEW infos, infos = Chunks(call)
    PROVE  /\ infos \in Seq(Range(infos)) /\ TakenFrom(call, infos)
           /\ \A c \in call.fsel : Coords(c) \in CoordsOf(infos)
<1> DEFINE k == Len(dset.dims)
           here == [chunk_coords |-> Origin(dset.dims), fspace |-> real_file_space(call),
                    mspace |-> real_mem_space(call)]
<1>1. k \in Nat /\ dset.dims \in Coordinates(k)
  BY SeqIs DEF IsDataset, Coordinates
<1>2. infos = <<here>>
  BY DEF Chunks
<1>3. here.fspace.sel = call.fsel /\ here.chunk_coords = Origin(dset.dims)
      /\ here.mspace = real_mem_space(call)
  BY DEF real_file_space, Space
<1>4. DOMAIN infos = {1} /\ infos[1] = here /\ infos \in Seq(Range(infos))
      /\ CoordsOf(infos) = {Origin(dset.dims)}
  <2> HIDE DEF here
  <2>1. infos \in Seq({here}) /\ Len(infos) = 1 /\ infos[1] = here
    BY <1>2
  <2>2. DOMAIN infos = {1}
    BY <2>1
  <2>3. Range(infos) = {here}
    BY <2>1, <2>2 DEF Range
  <2>4. CoordsOf(infos) = {here.chunk_coords}
    BY <2>1, <2>2 DEF CoordsOf
  <2> QED
    BY <1>3, <2>1, <2>2, <2>3, <2>4
<1>5. \A c : Coords(c) = Origin(dset.dims)
  BY DEF Coords
<1>6. Moved(call.fsel, Origin(dset.dims)) = call.fsel
  <2>1. ASSUME NEW c \in call.fsel PROVE Plus(c, Origin(dset.dims)) = c
    <3>1. c \in Coordinates(k)
      BY <1>1, ExtentIs DEF IsCall
    <3>2. Dims(c) = 1 .. k /\ \A d \in 1 .. k : Origin(dset.dims)[d] = 0
      BY <1>1, <3>1 DEF Dims, Coordinates, Origin
    <3>3. Plus(c, Origin(dset.dims)) = [d \in 1 .. k |-> c[d] + Origin(dset.dims)[d]]
      BY <3>2 DEF Plus
    <3>4. \A d \in 1 .. k : c[d] + Origin(dset.dims)[d] = c[d]
      BY <3>1, <3>2 DEF Coordinates
    <3>5. Plus(c, Origin(dset.dims)) = [d \in 1 .. k |-> c[d]]
      BY <3>3, <3>4
    <3> QED
      BY <3>1, <3>5 DEF Coordinates
  <2> QED
    BY <2>1 DEF Moved
<1>7. Cardinality(real_mem_space(call).sel) = Cardinality(call.fsel)
  BY DEF real_mem_space, real_file_space, Space, IsCall
<1> HIDE DEF here, k
<1> QED
  BY <1>3, <1>4, <1>5, <1>6, <1>7 DEF TakenFrom

\* The walk's chunks take the selection of a chunked dataset.
LEMMA ChunkedTaken ==
    ASSUME IsDataset(dset), dset.layout = Chunked, NEW call, IsCall(dset, call),
           call.fsel # {}, ~Mismatch(call), NEW infos, infos = Chunks(call)
    PROVE  /\ infos \in Seq(Range(infos)) /\ TakenFrom(call, infos)
           /\ \A c \in call.fsel : Coords(c) \in CoordsOf(infos)
<1> DEFINE k == Len(dset.dims)
           file == real_file_space(call)
           mem == real_mem_space(call)
           chunk == dset.chunk
           S == ChunkInfos(k, file, mem, chunk)
<1>1. k \in Nat /\ IsChunk(k, chunk) /\ dset.dims \in Coordinates(k)
  BY SeqIs DEF IsDataset, Coordinates, IsChunk
<1>2. file.sel = call.fsel /\ file.dims = dset.dims
  BY DEF real_file_space, Space
<1>3. SameShape(file, mem)
  BY DEF Mismatch
<1>4. IsSpace(k, file)
  BY <1>1, <1>2 DEF IsSpace, IsCall
<1>5. IsSpace(k, mem)
  <2>1. CASE call.mem = All
    BY <1>4, <2>1 DEF real_mem_space
  <2>2. CASE call.mem # All
    <3>1. mem = call.mem
      BY <2>2 DEF real_mem_space
    <3>2. call.mem.dims \in Seq(Nat) /\ Len(call.mem.dims) = k
          /\ call.mem.sel \subseteq Extent(call.mem.dims)
      BY <2>2 DEF IsCall
    <3>3. call.mem.dims \in Coordinates(k)
      BY <3>2, SeqIs DEF Coordinates
    <3>4. mem.sel # {}
      BY <1>2, <1>3 DEF SameShape, Moved
    <3> QED
      BY <3>1, <3>2, <3>3, <3>4 DEF IsSpace
  <2> QED
    BY <2>1, <2>2
<1>6. MayWalk(k, file, mem, chunk)
  BY <1>1, <1>3, <1>4, <1>5 DEF MayWalk
<1>7. infos = get_selected_chunk_info(file, mem, chunk)
  BY LayoutAssumption DEF Chunks
<1> HIDE DEF k, file, mem, chunk, S
<1>8. infos \in Seq(S) /\ CoordsOf(infos) = {Corner(c, chunk) : c \in file.sel} /\ Distinct(infos)
  BY <1>1, <1>6, <1>7, WalkTakesAll DEF S
<1>9. \A c : Coords(c) = Corner(c, chunk)
  BY LayoutAssumption DEF Coords, Corner, Floor, chunk
<1>10. infos \in Seq(Range(infos))
  <2>1. infos \in [1 .. Len(infos) -> S] /\ Len(infos) \in Nat
    BY <1>8, SeqIs
  <2>2. infos \in [1 .. Len(infos) -> Range(infos)]
    BY <2>1 DEF Range
  <2> QED
    BY <2>1, <2>2
<1>11. ASSUME NEW i \in DOMAIN infos
       PROVE  LET at == infos[i].chunk_coords
                  H == InChunk(at, file, chunk)
              IN  /\ Moved(infos[i].fspace.sel, at) = H
                  /\ infos[i].mspace.sel = {Plus(c, ToMemory(file, mem)) : c \in H}
                  /\ infos[i].mspace.sel \subseteq mem.sel
                  /\ Cardinality(infos[i].mspace.sel) = Cardinality(infos[i].fspace.sel)
  <2>1. infos[i] \in S
    BY <1>8
  <2>2. PICK at \in Aligned(k, chunk) : infos[i] = ChunkInfo(at, chunk, file, mem)
    BY <2>1 DEF S, ChunkInfos
  <2> QED
    BY <1>1, <1>3, <1>4, <1>5, <2>2, ChunkInfoIs
<1>12. ASSUME NEW c \in file.sel, NEW e \in file.sel,
              Plus(c, ToMemory(file, mem)) = Plus(e, ToMemory(file, mem))
       PROVE  c = e
  <2>1. \A d \in 1 .. k : c[d] + SelStart(mem)[d] - SelStart(file)[d]
                          = e[d] + SelStart(mem)[d] - SelStart(file)[d]
    BY <1>1, <1>3, <1>4, <1>5, <1>12, MemorySelection
  <2>2. c \in Coordinates(k) /\ e \in Coordinates(k) /\ SelStart(mem) \in Coordinates(k)
        /\ SelStart(file) \in Coordinates(k)
    BY <1>1, <1>4, <1>5, SelectedIs, BoundsAre
  <2>3. \A d \in 1 .. k : c[d] \in Nat /\ e[d] \in Nat /\ SelStart(mem)[d] \in Nat
                          /\ SelStart(file)[d] \in Nat
    BY <2>2 DEF Coordinates
  <2>4. \A d \in 1 .. k : c[d] = e[d]
    BY <2>1, <2>3
  <2>5. c = [d \in 1 .. k |-> c[d]] /\ e = [d \in 1 .. k |-> e[d]]
    BY <2>2 DEF Coordinates
  <2> QED
    BY <2>4, <2>5
<1>13. ASSUME NEW i \in DOMAIN infos, NEW j \in DOMAIN infos, j # i
       PROVE  /\ infos[j].chunk_coords # infos[i].chunk_coords
              /\ infos[j].mspace.sel \intersect infos[i].mspace.sel = {}
  <2>1. infos[j].chunk_coords # infos[i].chunk_coords
    BY <1>8, <1>13 DEF Distinct
  <2>2. InChunk(infos[j].chunk_coords, file, chunk) \intersect InChunk(infos[i].chunk_coords, file, chunk) = {}
    BY <2>1 DEF InChunk
  <2>3. \A l \in DOMAIN infos : InChunk(infos[l].chunk_coords, file, chunk) \subseteq file.sel
    BY DEF InChunk
  <2> QED
    BY <1>11, <1>12, <2>1, <2>2, <2>3
<1>14. TakenFrom(call, infos)
  <2> SUFFICES ASSUME NEW i \in DOMAIN infos
               PROVE  /\ Moved(infos[i].fspace.sel, infos[i].chunk_coords)
                           = {c \in call.fsel : Coords(c) = infos[i].chunk_coords}
                      /\ infos[i].mspace.sel \subseteq real_mem_space(call).sel
                      /\ Cardinality(infos[i].mspace.sel) = Cardinality(infos[i].fspace.sel)
                      /\ \A other \in {infos[j] : j \in DOMAIN infos \ {i}} :
                            /\ other.chunk_coords # infos[i].chunk_coords
                            /\ other.mspace.sel \intersect infos[i].mspace.sel = {}
    BY DEF TakenFrom
  <2>1. InChunk(infos[i].chunk_coords, file, chunk)
          = {c \in call.fsel : Coords(c) = infos[i].chunk_coords}
    BY <1>2, <1>9 DEF InChunk
  <2> QED
    BY <1>11, <1>13, <2>1 DEF mem
<1> QED
  BY <1>2, <1>8, <1>9, <1>10, <1>14

-----------------------------------------------------------------------------
(***************************************************************************)
(* The inductive invariant: the program is one of those given, a rank in a *)
(* call has the call and its chunks, and no other rank has any.            *)
(***************************************************************************)
AllCalls == UNION {UNION {Range(p.calls[r]) : r \in Ranks} : p \in Programs}

ProgramInv ==
    /\ IsDataset(dset)
    /\ todo \in [Ranks -> Seq(AllCalls)]
    /\ \A r \in Ranks : \A i \in DOMAIN todo[r] : IsCall(dset, todo[r][i])

ControlAt(r) ==
    /\ chunk_info[r] \in Seq(Range(chunk_info[r]))
    /\ Running(r) => todo[r] # << >>
    /\ chunk_info[r] # << >> => Running(r)
    /\ pc[r] = "convert" => chunk_info[r] # << >>
    /\ bkg_buf[r] # << >> => Running(r)

ControlInv ==
    /\ pc \in [Ranks -> {"idle", "chunk", "convert", "dead"}]
    /\ chunk_info = [r \in Ranks |-> chunk_info[r]]
    /\ bkg_buf = [r \in Ranks |-> bkg_buf[r]]
    /\ \A r \in Ranks : ControlAt(r)

ChunkInv == \A r \in Ranks : TakenFrom(Call(r), chunk_info[r])

WriteInv == ProgramInv /\ ControlInv /\ ChunkInv

\* So the chunks of a call take its selection, whatever the layout.
LEMMA ChunksTaken ==
    ASSUME IsDataset(dset), NEW call, IsCall(dset, call), call.fsel # {}, ~Mismatch(call),
           NEW infos, infos = Chunks(call)
    PROVE  /\ infos \in Seq(Range(infos)) /\ TakenFrom(call, infos)
           /\ \A c \in call.fsel : Coords(c) \in CoordsOf(infos)
<1>1. dset.layout = Contiguous \/ dset.layout = Chunked
  BY DEF IsDataset
<1> QED
  BY <1>1, ContiguousTaken, ChunkedTaken

\* The tail of a list.
LEMMA TailIs ==
    ASSUME NEW q, q \in Seq(Range(q)), q # << >>
    PROVE  /\ Tail(q) \in Seq(Range(Tail(q)))
           /\ \A i \in DOMAIN Tail(q) : i + 1 \in DOMAIN q /\ Tail(q)[i] = q[i + 1]
           /\ Range(Tail(q)) \subseteq Range(q)
<1>1. /\ Len(q) \in Nat \ {0} /\ DOMAIN q = 1 .. Len(q) /\ Tail(q) \in Seq(Range(q))
      /\ Len(Tail(q)) = Len(q) - 1 /\ DOMAIN Tail(q) = 1 .. Len(q) - 1
      /\ \A i \in 1 .. Len(q) - 1 : Tail(q)[i] = q[i + 1]
  OBVIOUS
<1>2. \A i \in DOMAIN Tail(q) : i + 1 \in DOMAIN q /\ Tail(q)[i] = q[i + 1]
  BY <1>1
<1>3. Range(Tail(q)) \subseteq Range(q)
  BY <1>2 DEF Range
<1>4. \A i \in 1 .. Len(Tail(q)) : Tail(q)[i] \in Range(Tail(q))
  BY <1>1 DEF Range
<1>5. Tail(q) \in Seq(Range(Tail(q)))
  <2>1. PICK t, T : t = Tail(q) /\ T = Range(t)
    OBVIOUS
  <2>2. t \in Seq(Range(q)) /\ \A i \in 1 .. Len(t) : t[i] \in T
    BY <1>1, <1>4, <2>1
  <2>3. t \in Seq(T)
    BY <2>2, SequenceInto
  <2> QED
    BY <2>1, <2>3
<1> QED
  BY <1>2, <1>3, <1>5

\* With its first chunk written a list of chunks is still one.
LEMMA TakenTail ==
    ASSUME NEW call, NEW q, q \in Seq(Range(q)), q # << >>, TakenFrom(call, q)
    PROVE  TakenFrom(call, Tail(q))
<1> SUFFICES ASSUME NEW i \in DOMAIN Tail(q)
             PROVE  /\ Moved(Tail(q)[i].fspace.sel, Tail(q)[i].chunk_coords)
                         = {c \in call.fsel : Coords(c) = Tail(q)[i].chunk_coords}
                    /\ Tail(q)[i].mspace.sel \subseteq real_mem_space(call).sel
                    /\ Cardinality(Tail(q)[i].mspace.sel) = Cardinality(Tail(q)[i].fspace.sel)
                    /\ \A other \in {Tail(q)[j] : j \in DOMAIN Tail(q) \ {i}} :
                          /\ other.chunk_coords # Tail(q)[i].chunk_coords
                          /\ other.mspace.sel \intersect Tail(q)[i].mspace.sel = {}
  BY DEF TakenFrom
<1>1. i + 1 \in DOMAIN q /\ Tail(q)[i] = q[i + 1]
  BY TailIs
<1>2. \A j \in DOMAIN Tail(q) \ {i} : j + 1 \in DOMAIN q \ {i + 1} /\ Tail(q)[j] = q[j + 1]
  <2>1. DOMAIN Tail(q) \subseteq Nat
    <3>1. Tail(q) \in Seq(Range(Tail(q)))
      BY TailIs
    <3> QED
      BY <3>1
  <2>2. \A j \in Nat : j # i => j + 1 # i + 1
    BY <2>1
  <2> QED
    BY <2>1, <2>2, TailIs
<1>3. {Tail(q)[j] : j \in DOMAIN Tail(q) \ {i}} \subseteq {q[j] : j \in DOMAIN q \ {i + 1}}
  BY <1>2
<1> QED
  BY <1>1, <1>3 DEF TakenFrom

\* Whether a list is one of chunks depends on the dataset and the call alone.
LEMMA TakenSame ==
    ASSUME dset' = dset, NEW r \in Ranks, Call(r)' = Call(r),
           TakenFrom(Call(r), chunk_info'[r])
    PROVE  TakenFrom(Call(r), chunk_info[r])'
<1>1. Call(r)'.fsel = Call(r).fsel /\ real_mem_space(Call(r))' = real_mem_space(Call(r))
  BY DEF real_mem_space, real_file_space
<1>2. \A c : Coords(c)' = Coords(c)
  BY DEF Coords
<1> QED
  BY <1>1, <1>2 DEF TakenFrom

\* At first no rank is in a call.
LEMMA WriteInit == Init => WriteInv
<1> SUFFICES ASSUME Init PROVE WriteInv
  OBVIOUS
<1>1. PICK p \in Programs :
        /\ dset = p.dset /\ todo = p.calls
        /\ pc = [r \in Ranks |-> "idle"]
        /\ chunk_info = [r \in Ranks |-> << >>]
        /\ bkg_buf = [r \in Ranks |-> << >>]
        /\ object = << >>
  BY DEF Init
<1>2. ProgramInv
  <2>1. IsDataset(dset)
    BY <1>1, ProgramAssumption DEF IsDataset
  <2>2. \A r \in Ranks : todo[r] \in Seq(UNION {Range(p.calls[s]) : s \in Ranks})
    BY <1>1, ProgramAssumption
  <2>3. UNION {Range(p.calls[s]) : s \in Ranks} \subseteq AllCalls
    BY DEF AllCalls
  <2>4. ASSUME NEW r \in Ranks PROVE todo[r] \in Seq(AllCalls)
    <3> DEFINE C == UNION {Range(p.calls[s]) : s \in Ranks}
    <3>1. todo[r] \in Seq(C) /\ C \subseteq AllCalls
      BY <2>2, <2>3
    <3> HIDE DEF C
    <3>2. \A i \in 1 .. Len(todo[r]) : todo[r][i] \in AllCalls
      BY <3>1
    <3>3. PICK q : q = todo[r]
      OBVIOUS
    <3>4. q \in Seq(C) /\ \A i \in 1 .. Len(q) : q[i] \in AllCalls
      BY <3>1, <3>2, <3>3
    <3>5. q \in Seq(AllCalls)
      BY <3>4, SequenceInto
    <3> QED
      BY <3>3, <3>5
  <2>5. todo = [r \in Ranks |-> todo[r]]
    BY <1>1, ProgramAssumption
  <2> QED
    BY <1>1, <2>1, <2>4, <2>5, ProgramAssumption DEF ProgramInv
<1>3. ControlInv
  BY <1>1 DEF ControlInv, ControlAt, Running
<1>4. ChunkInv
  BY <1>1 DEF ChunkInv, TakenFrom
<1> QED
  BY <1>2, <1>3, <1>4 DEF WriteInv

\* A step of r that leaves its call, or ends it with no chunks left.
LEMMA StepKeeps ==
    ASSUME WriteInv, NEW r \in Ranks, dset' = dset, ProgramInv', NEW to, to \in {"idle", "chunk", "convert", "dead"},
           pc' = [pc EXCEPT ![r] = to], \A s \in Ranks \ {r} : todo'[s] = todo[s],
           NEW infos, chunk_info' = [chunk_info EXCEPT ![r] = infos], NEW bkg, bkg_buf' = [bkg_buf EXCEPT ![r] = bkg],
           ControlAt(r)', TakenFrom(Call(r), chunk_info[r])'
    PROVE  WriteInv'
<1>1. ControlInv'
  <2>1. /\ pc' \in [Ranks -> {"idle", "chunk", "convert", "dead"}]
        /\ chunk_info' = [s \in Ranks |-> chunk_info'[s]] /\ bkg_buf' = [s \in Ranks |-> bkg_buf'[s]]
    BY DEF WriteInv, ControlInv
  <2>2. ASSUME NEW s \in Ranks, s # r PROVE ControlAt(s)'
    <3>1. pc'[s] = pc[s] /\ chunk_info'[s] = chunk_info[s] /\ bkg_buf'[s] = bkg_buf[s] /\ todo'[s] = todo[s]
      BY <2>2 DEF WriteInv, ControlInv
    <3>2. ControlAt(s)
      BY DEF WriteInv, ControlInv
    <3> QED
      BY <3>1, <3>2 DEF ControlAt, Running
  <2> QED
    BY <2>1, <2>2 DEF ControlInv
<1>2. ASSUME NEW s \in Ranks, s # r PROVE TakenFrom(Call(s), chunk_info[s])'
  <2>1. chunk_info'[s] = chunk_info[s] /\ Call(s)' = Call(s)
    BY <1>2 DEF WriteInv, ControlInv, Call
  <2>2. TakenFrom(Call(s), chunk_info'[s])
    BY <2>1 DEF WriteInv, ChunkInv
  <2> QED
    BY <2>1, <2>2, TakenSame
<1>3. ChunkInv'
  BY <1>2 DEF ChunkInv
<1> QED
  BY <1>1, <1>3 DEF WriteInv

\* The programs stay, when no call is finished ...
LEMMA ProgramKept ==
    ASSUME ProgramInv, dset' = dset, todo' = todo
    PROVE  ProgramInv'
  BY DEF ProgramInv

\* ... and when one is.
LEMMA ProgramShorter ==
    ASSUME ProgramInv, dset' = dset, NEW r \in Ranks, todo[r] # << >>,
           todo' = [todo EXCEPT ![r] = Tail(@)]
    PROVE  ProgramInv'
<1>1. todo[r] \in Seq(AllCalls) /\ \A i \in DOMAIN todo[r] : IsCall(dset, todo[r][i])
  BY DEF ProgramInv
<1>2. Tail(todo[r]) \in Seq(AllCalls) /\ \A i \in DOMAIN Tail(todo[r]) :
        i + 1 \in DOMAIN todo[r] /\ Tail(todo[r])[i] = todo[r][i + 1]
  BY <1>1
<1>3. todo' \in [Ranks -> Seq(AllCalls)]
  BY <1>2 DEF ProgramInv
<1>4. \A s \in Ranks : \A i \in DOMAIN todo'[s] : IsCall(dset, todo'[s][i])
  BY <1>1, <1>2 DEF ProgramInv
<1> QED
  BY <1>3, <1>4 DEF ProgramInv

\* What the invariant says of the rank that moves.
LEMMA RankIs ==
    ASSUME WriteInv, NEW r \in Ranks
    PROVE  /\ IsDataset(dset) /\ ControlAt(r) /\ TakenFrom(Call(r), chunk_info[r])
           /\ todo[r] # << >> => IsCall(dset, Call(r))
<1>1. todo[r] # << >> => IsCall(dset, Call(r))
  <2> HAVE todo[r] # << >>
  <2>1. todo[r] \in Seq(AllCalls)
    BY DEF WriteInv, ProgramInv
  <2>2. 1 \in DOMAIN todo[r] /\ Call(r) = todo[r][1]
    BY <2>1 DEF Call
  <2> QED
    BY <2>2 DEF WriteInv, ProgramInv
<1> QED
  BY <1>1 DEF WriteInv, ProgramInv, ControlInv, ChunkInv

\* A call that selects nothing, or two shapes, writes nothing and is finished.
LEMMA NothingKeeps ==
    ASSUME WriteInv, NEW r \in Ranks, WriteNothing(r)
    PROVE  WriteInv'
<1>1. pc[r] = "idle" /\ todo[r] # << >> /\ UNCHANGED <<dset, pc, chunk_info, bkg_buf>>
      /\ todo' = [todo EXCEPT ![r] = Tail(@)]
  BY DEF WriteNothing
<1>2. ProgramInv'
  BY <1>1, ProgramShorter DEF WriteInv
<1>3. chunk_info[r] = << >> /\ bkg_buf[r] = << >> /\ ControlAt(r)
  BY <1>1, RankIs DEF ControlAt, Running
<1>4. ControlAt(r)' /\ TakenFrom(Call(r), chunk_info[r])'
  BY <1>1, <1>3 DEF ControlAt, Running, TakenFrom
<1>5. /\ pc' = [pc EXCEPT ![r] = "idle"] /\ chunk_info' = [chunk_info EXCEPT ![r] = chunk_info[r]]
      /\ bkg_buf' = [bkg_buf EXCEPT ![r] = bkg_buf[r]]
      /\ \A s \in Ranks \ {r} : todo'[s] = todo[s]
  BY <1>1 DEF WriteInv, ControlInv, ProgramInv
<1> QED
  BY <1>1, <1>2, <1>4, <1>5, StepKeeps

\* The start of a call gives it the chunks of its selection.
LEMMA BeginChunks ==
    ASSUME WriteInv, NEW r \in Ranks, Begin(r), ~Mismatch(Call(r))
    PROVE  /\ pc' = [pc EXCEPT ![r] = "chunk"]
           /\ chunk_info' = [chunk_info EXCEPT ![r] = Chunks(Call(r))]
           /\ Chunks(Call(r)) \in Seq(Range(Chunks(Call(r))))
           /\ TakenFrom(Call(r), Chunks(Call(r)))
           /\ \A c \in Call(r).fsel : Coords(c) \in CoordsOf(Chunks(Call(r)))
<1>1. todo[r] # << >> /\ Call(r).fsel # {}
  BY DEF Begin
<1>2. IsDataset(dset) /\ IsCall(dset, Call(r))
  BY <1>1, RankIs
<1>3. /\ pc' = [pc EXCEPT ![r] = "chunk"]
      /\ chunk_info' = [chunk_info EXCEPT ![r] = Chunks(Call(r))]
  BY DEF Begin, Goto
<1> QED
  BY <1>1, <1>2, <1>3, ChunksTaken

\* A call that begins has the chunks of its selection before it.
LEMMA BeginKeeps ==
    ASSUME WriteInv, NEW r \in Ranks, Begin(r)
    PROVE  WriteInv'
<1>1. pc[r] = "idle" /\ todo[r] # << >> /\ UNCHANGED <<dset, todo, bkg_buf>>
  BY DEF Begin
<1>2. ProgramInv' /\ Call(r)' = Call(r)
  BY <1>1, ProgramKept DEF WriteInv, Call
<1>3. chunk_info[r] = << >> /\ bkg_buf[r] = << >> /\ ControlAt(r)
  BY <1>1, RankIs DEF ControlAt, Running
<1>4. /\ bkg_buf' = [bkg_buf EXCEPT ![r] = bkg_buf[r]] /\ r \in DOMAIN pc /\ r \in DOMAIN chunk_info
      /\ \A s \in Ranks \ {r} : todo'[s] = todo[s]
  BY <1>1 DEF WriteInv, ControlInv
<1>5. CASE Mismatch(Call(r))
  <2>1. pc' = [pc EXCEPT ![r] = "dead"] /\ chunk_info' = chunk_info
    BY <1>5 DEF Begin, Goto
  <2>2. chunk_info' = [chunk_info EXCEPT ![r] = << >>]
    BY <1>3, <2>1 DEF WriteInv, ControlInv
  <2>3. pc'[r] = "dead" /\ chunk_info'[r] = << >> /\ bkg_buf'[r] = << >>
    BY <1>1, <1>3, <1>4, <2>1
  <2>4. ControlAt(r)' /\ TakenFrom(Call(r), chunk_info[r])'
    <3>1. << >> \in Seq(Range(chunk_info'[r]))
      OBVIOUS
    <3>2. ControlAt(r)'
      BY <2>3, <3>1 DEF ControlAt, Running
    <3> QED
      BY <2>3, <3>2 DEF TakenFrom
  <2> QED
    BY <1>1, <1>2, <1>4, <2>1, <2>2, <2>4, StepKeeps
<1>6. CASE ~Mismatch(Call(r))
  <2> DEFINE infos == Chunks(Call(r))
  <2>1. /\ pc' = [pc EXCEPT ![r] = "chunk"] /\ chunk_info' = [chunk_info EXCEPT ![r] = infos]
        /\ infos \in Seq(Range(infos)) /\ TakenFrom(Call(r), infos)
    BY <1>6, BeginChunks
  <2> HIDE DEF infos
  <2>2. pc'[r] = "chunk" /\ chunk_info'[r] = infos /\ bkg_buf'[r] = << >> /\ todo'[r] # << >>
    BY <1>1, <1>3, <1>4, <2>1
  <2>3. ControlAt(r)'
    BY <2>1, <2>2 DEF ControlAt, Running
  <2>4. TakenFrom(Call(r), chunk_info[r])'
    BY <1>1, <1>2, <2>1, <2>2, TakenSame
  <2> QED
    BY <1>1, <1>2, <1>4, <2>1, <2>3, <2>4, StepKeeps
<1> QED
  BY <1>5, <1>6

\* A chunk that is written is taken off the list, whatever the background buffer holds.
LEMMA ObjectKeeps ==
    ASSUME WriteInv, NEW r \in Ranks, Running(r), chunk_info[r] # << >>,
           NEW ops, NEW source, WriteObject(r, ops, source),
           NEW bkg, bkg_buf' = [bkg_buf EXCEPT ![r] = bkg]
    PROVE  WriteInv'
<1>1. /\ UNCHANGED <<dset, todo>> /\ pc' = [pc EXCEPT ![r] = "chunk"]
      /\ chunk_info' = [chunk_info EXCEPT ![r] = Tail(@)]
  BY DEF WriteObject, Goto
<1>2. ProgramInv' /\ Call(r)' = Call(r)
  BY <1>1, ProgramKept DEF WriteInv, Call
<1>3. ControlAt(r) /\ TakenFrom(Call(r), chunk_info[r]) /\ todo[r] # << >>
  BY RankIs DEF ControlAt
<1>4. /\ Tail(chunk_info[r]) \in Seq(Range(Tail(chunk_info[r])))
      /\ TakenFrom(Call(r), Tail(chunk_info[r]))
  BY <1>3, TailIs, TakenTail DEF ControlAt
<1>5. /\ pc'[r] = "chunk" /\ chunk_info'[r] = Tail(chunk_info[r])
      /\ chunk_info' = [chunk_info EXCEPT ![r] = Tail(chunk_info[r])]
      /\ \A s \in Ranks \ {r} : todo'[s] = todo[s]
  BY <1>1 DEF WriteInv, ControlInv
<1>6. ControlAt(r)'
  BY <1>1, <1>3, <1>4, <1>5 DEF ControlAt, Running
<1>7. TakenFrom(Call(r), chunk_info[r])'
  BY <1>1, <1>2, <1>4, <1>5, TakenSame
<1> QED
  BY <1>1, <1>2, <1>5, <1>6, <1>7, StepKeeps

\* A chunk that is written without conversion is done.
LEMMA EqualKeeps ==
    ASSUME WriteInv, NEW r \in Ranks, WriteEqual(r)
    PROVE  WriteInv'
<1>1. pc[r] = "chunk" /\ chunk_info[r] # << >> /\ bkg_buf' = bkg_buf
  BY DEF WriteEqual
<1>2. bkg_buf' = [bkg_buf EXCEPT ![r] = bkg_buf[r]]
  BY <1>1 DEF WriteInv, ControlInv
<1>3. PICK ops, source : WriteObject(r, ops, source)
  BY DEF WriteEqual
<1> QED
  BY <1>1, <1>2, <1>3, ObjectKeeps DEF Running

\* So is one that is written with it.
LEMMA ConvertedKeeps ==
    ASSUME WriteInv, NEW r \in Ranks, WriteConverted(r)
    PROVE  WriteInv'
<1>1. Running(r) /\ chunk_info[r] # << >>
  BY RankIs DEF WriteConverted, ControlAt, Running
<1>2. PICK bkg : bkg_buf' = [bkg_buf EXCEPT ![r] = bkg]
  BY DEF WriteConverted
<1>3. PICK ops, source : WriteObject(r, ops, source)
  BY DEF WriteConverted
<1> QED
  BY <1>1, <1>2, <1>3, ObjectKeeps

\* Reading the background leaves the chunks as they are.
LEMMA BackgroundKeeps ==
    ASSUME WriteInv, NEW r \in Ranks, ReadBackground(r)
    PROVE  WriteInv'
<1>1. /\ pc[r] = "chunk" /\ chunk_info[r] # << >> /\ UNCHANGED <<dset, todo, chunk_info>>
      /\ pc' = [pc EXCEPT ![r] = "convert"]
  BY DEF ReadBackground, Goto
<1>2. PICK bkg : bkg_buf' = [bkg_buf EXCEPT ![r] = bkg]
  BY DEF ReadBackground
<1>3. ProgramInv' /\ Call(r)' = Call(r)
  BY <1>1, ProgramKept DEF WriteInv, Call
<1>4. ControlAt(r) /\ TakenFrom(Call(r), chunk_info[r])
  BY RankIs
<1>5. /\ pc'[r] = "convert" /\ chunk_info' = [chunk_info EXCEPT ![r] = chunk_info[r]]
      /\ chunk_info'[r] = chunk_info[r]
      /\ \A s \in Ranks \ {r} : todo'[s] = todo[s]
  BY <1>1 DEF WriteInv, ControlInv
<1>6. ControlAt(r)'
  BY <1>1, <1>4, <1>5 DEF ControlAt, Running
<1>7. TakenFrom(Call(r), chunk_info[r])'
  BY <1>1, <1>3, <1>4, <1>5, TakenSame
<1> QED
  BY <1>1, <1>2, <1>3, <1>5, <1>6, <1>7, StepKeeps

\* A call returns when it has no chunk left.
LEMMA ReturnKeeps ==
    ASSUME WriteInv, NEW r \in Ranks, Return(r)
    PROVE  WriteInv'
<1>1. /\ pc[r] = "chunk" /\ chunk_info[r] = << >> /\ UNCHANGED <<dset, chunk_info>>
      /\ pc' = [pc EXCEPT ![r] = "idle"] /\ todo' = [todo EXCEPT ![r] = Tail(@)]
      /\ bkg_buf' = [bkg_buf EXCEPT ![r] = << >>]
  BY DEF Return, Goto
<1>2. ControlAt(r) /\ todo[r] # << >>
  BY <1>1, RankIs DEF ControlAt, Running
<1>3. ProgramInv'
  BY <1>1, <1>2, ProgramShorter DEF WriteInv
<1>4. /\ pc'[r] = "idle" /\ chunk_info' = [chunk_info EXCEPT ![r] = chunk_info[r]]
      /\ bkg_buf'[r] = << >> /\ \A s \in Ranks \ {r} : todo'[s] = todo[s]
  BY <1>1 DEF WriteInv, ControlInv, ProgramInv
<1>5. ControlAt(r)' /\ TakenFrom(Call(r), chunk_info[r])'
  <2>1. chunk_info'[r] = << >> /\ << >> \in Seq(Range(chunk_info'[r]))
    BY <1>1
  <2>2. ControlAt(r)'
    BY <1>4, <2>1 DEF ControlAt, Running
  <2> QED
    BY <2>1, <2>2 DEF TakenFrom
<1> QED
  BY <1>1, <1>3, <1>4, <1>5, StepKeeps

\* A rank that dies has no chunk left to write.
LEMMA DieKeeps ==
    ASSUME WriteInv, NEW r \in Ranks, Die(r)
    PROVE  WriteInv'
<1>1. /\ UNCHANGED <<dset, todo>> /\ pc' = [pc EXCEPT ![r] = "dead"]
      /\ chunk_info' = [chunk_info EXCEPT ![r] = << >>] /\ bkg_buf' = [bkg_buf EXCEPT ![r] = << >>]
  BY DEF Die, Goto
<1>2. ProgramInv'
  BY <1>1, ProgramKept DEF WriteInv
<1>3. pc'[r] = "dead" /\ chunk_info'[r] = << >> /\ bkg_buf'[r] = << >>
      /\ \A s \in Ranks \ {r} : todo'[s] = todo[s]
  BY <1>1 DEF WriteInv, ControlInv
<1>4. ControlAt(r)' /\ TakenFrom(Call(r), chunk_info[r])'
  BY <1>3 DEF ControlAt, Running, TakenFrom
<1> QED
  BY <1>1, <1>2, <1>3, <1>4, StepKeeps

\* No step breaks the invariant of the calls.
LEMMA WriteStep ==
    ASSUME WriteInv, [Next]_vars
    PROVE  WriteInv'
<1>1. CASE UNCHANGED vars
  <2>1. UNCHANGED <<dset, todo, pc, chunk_info, bkg_buf>>
    BY <1>1 DEF vars
  <2>2. ProgramInv' /\ ControlInv'
    BY <2>1, ProgramKept DEF WriteInv, ControlInv, ControlAt, Running
  <2>3. ASSUME NEW r \in Ranks PROVE TakenFrom(Call(r), chunk_info[r])'
    <3>1. Call(r)' = Call(r) /\ TakenFrom(Call(r), chunk_info'[r])
      BY <2>1, RankIs DEF Call
    <3> QED
      BY <2>1, <3>1, TakenSame
  <2> QED
    BY <2>2, <2>3 DEF WriteInv, ChunkInv
<1>2. ASSUME NEW r \in Ranks, WriteNothing(r) \/ Begin(r) \/ Step(r) \/ Die(r) PROVE WriteInv'
  BY <1>2, NothingKeeps, BeginKeeps, EqualKeeps, BackgroundKeeps, ConvertedKeeps, ReturnKeeps,
     DieKeeps DEF Step
<1> QED
  BY <1>1, <1>2 DEF Next

\* For any programs, ranks, dimensions, chunk sizes and selections, and wherever ranks
\* die: the chunks that a dataset_write has yet to write are disjoint parts of its
\* selection in the file, and of the one in memory, of the same sizes.
THEOREM ChunksCorrect == Spec => []ChunksOfCall
<1>1. WriteInv => ChunksOfCall
  BY DEF WriteInv, ChunkInv, TakenFrom, ChunksOfCall
<1> QED
  BY WriteInit, WriteStep, <1>1, PTL DEF Spec

\* get_selected_chunk_info, with its carry from one dimension to the next and its end
\* when the points are counted, gives a dataset_write a chunk for each of its elements.
THEOREM WalkComplete == Spec => WholeSelection
<1>1. ASSUME WriteInv, [Next]_vars
      PROVE  [\A r \in Ranks : pc[r] = "idle" /\ pc'[r] = "chunk" =>
                 \A c \in Call(r).fsel : \E i \in DOMAIN chunk_info'[r] :
                     chunk_info'[r][i].chunk_coords = Coords(c)]_vars
  <2> SUFFICES ASSUME NEW r \in Ranks, Next, pc[r] = "idle", pc'[r] = "chunk",
                      NEW c \in Call(r).fsel
               PROVE  \E i \in DOMAIN chunk_info'[r] : chunk_info'[r][i].chunk_coords = Coords(c)
    BY <1>1
  <2>1. DOMAIN pc = Ranks /\ DOMAIN chunk_info = Ranks
    BY <1>1 DEF WriteInv, ControlInv
  <2>2. Begin(r)
    <3>1. PICK s \in Ranks : WriteNothing(s) \/ Begin(s) \/ Step(s) \/ Die(s)
      BY DEF Next
    <3>2. s = r
      <4>1. \E to : pc' = [pc EXCEPT ![s] = to] \/ pc' = pc
        BY <3>1 DEF WriteNothing, Begin, Step, WriteEqual, ReadBackground, WriteConverted,
                    WriteObject, Return, Die, Goto
      <4> QED
        BY <2>1, <4>1
    <3>3. ~WriteNothing(r) /\ ~Step(r) /\ ~Die(r)
      BY DEF WriteNothing, Step, WriteEqual, ReadBackground, WriteConverted, Return, Die, Running
    <3> QED
      BY <3>1, <3>2, <3>3
  <2>3. ~Mismatch(Call(r))
    BY <2>1, <2>2 DEF Begin, Goto
  <2>4. chunk_info'[r] = Chunks(Call(r)) /\ Coords(c) \in CoordsOf(Chunks(Call(r)))
    BY <1>1, <2>1, <2>2, <2>3, BeginChunks
  <2> QED
    BY <2>4 DEF CoordsOf
<1> QED
  BY WriteInit, WriteStep, <1>1, PTL DEF Spec, WholeSelection

(***************************************************************************)
(* The chunks of a call as parts of the array.                             *)
(***************************************************************************)
Dim == Len(dset.dims)
MemDim(call) == Len(real_mem_space(call).dims)

\* A chunk has its elements where they lie in it, and their counterparts in memory are in
\* the same places, in the chunk and in the whole of the selection.
ChunkIs(call, here) ==
    /\ here.fspace.dims = StoreDims /\ here.mspace.dims = real_mem_space(call).dims
    /\ InExtent(Dim, here.fspace) /\ InExtent(MemDim(call), here.mspace)
    /\ MemDim(call) \in Nat
    /\ \E c \in call.fsel : Coords(c) = here.chunk_coords
    /\ \A c \in call.fsel : Coords(c) = here.chunk_coords =>
          /\ Minus(c, here.chunk_coords) \in here.fspace.sel
          /\ \E y \in here.mspace.sel :
                /\ PlaceIn(MemDim(call), here.mspace.sel, y)
                     = PlaceIn(Dim, here.fspace.sel, Minus(c, here.chunk_coords))
                /\ PlaceIn(MemDim(call), real_mem_space(call).sel, y) = PlaceIn(Dim, call.fsel, c)

\* What is moved by the origin stays where it is.
LEMMA OriginIs ==
    ASSUME NEW k \in Nat, NEW dims \in Coordinates(k), NEW c \in Coordinates(k)
    PROVE  Minus(c, Origin(dims)) = c /\ Plus(c, Origin(dims)) = c /\ Origin(dims) \in Coordinates(k)
<1>1. c = [d \in 1 .. k |-> c[d]] /\ \A d \in 1 .. k : c[d] \in Nat
  BY DEF Coordinates
<1>2. Origin(dims) = [d \in 1 .. k |-> 0]
  BY DEF Origin, Dims, Coordinates
<1>3. /\ Minus(c, Origin(dims)) = [d \in 1 .. k |-> c[d] - 0]
      /\ Plus(c, Origin(dims)) = [d \in 1 .. k |-> c[d] + 0]
  BY <1>1, <1>2 DEF Minus, Plus, Dims
<1>4. \A d \in 1 .. k : c[d] - 0 = c[d] /\ c[d] + 0 = c[d]
  BY <1>1
<1> QED
  BY <1>1, <1>2, <1>3, <1>4 DEF Coordinates

\* What a dataset is.
LEMMA DatasetIs ==
    ASSUME IsDataset(dset)
    PROVE  /\ Dim \in Nat /\ dset.dims \in Coordinates(Dim) /\ IsChunk(Dim, dset.chunk)
           /\ StoreDims \in Coordinates(Dim)
           /\ dset.layout = Contiguous \/ (dset.layout = Chunked /\ dset.layout # Contiguous)
           /\ dset.type # << >> /\ Len(dset.type) \in Size /\ DOMAIN dset.type = 1 .. Len(dset.type)
<1>1. Dim \in Nat /\ dset.dims \in Coordinates(Dim) /\ IsChunk(Dim, dset.chunk)
  BY SeqIs DEF IsDataset, Coordinates, IsChunk, Dim
<1>2. StoreDims \in Coordinates(Dim)
  BY <1>1 DEF StoreDims, IsChunk, Coordinates
<1>3. dset.layout = Contiguous \/ (dset.layout = Chunked /\ dset.layout # Contiguous)
  BY LayoutAssumption DEF IsDataset
<1>4. PICK T : T = Range(dset.type)
  OBVIOUS
<1>5. dset.type \in Seq(T) \ {<< >>}
  BY <1>4 DEF IsDataset, IsType
<1>6. dset.type # << >> /\ Len(dset.type) \in Size /\ DOMAIN dset.type = 1 .. Len(dset.type)
  BY <1>5 DEF Size
<1> QED
  BY <1>1, <1>2, <1>3, <1>6

\* The two selections of a call.
LEMMA CallIs ==
    ASSUME IsDataset(dset), NEW call, IsCall(dset, call)
    PROVE  /\ real_file_space(call).sel = call.fsel /\ real_file_space(call).dims = dset.dims
           /\ InExtent(Dim, real_file_space(call))
           /\ MemDim(call) \in Nat /\ InExtent(MemDim(call), real_mem_space(call))
           /\ Cardinality(real_mem_space(call).sel) = Cardinality(call.fsel)
           /\ dset.layout = Chunked => MemDim(call) = Dim
<1>1. Dim \in Nat /\ dset.dims \in Coordinates(Dim)
  BY DatasetIs
<1>2. real_file_space(call).sel = call.fsel /\ real_file_space(call).dims = dset.dims
  BY DEF real_file_space, Space
<1>3. InExtent(Dim, real_file_space(call))
  BY <1>1, <1>2 DEF InExtent, IsCall
<1>4. CASE call.mem = All
  <2>1. real_mem_space(call) = real_file_space(call)
    BY <1>4 DEF real_mem_space
  <2>2. MemDim(call) = Dim
    BY <1>2, <2>1 DEF MemDim, Dim
  <2> QED
    BY <1>1, <1>2, <1>3, <2>1, <2>2
<1>5. CASE call.mem # All
  <2>1. real_mem_space(call) = call.mem
    BY <1>5 DEF real_mem_space
  <2>2. /\ call.mem.dims \in Seq(Nat) /\ call.mem.sel \subseteq Extent(call.mem.dims)
        /\ Cardinality(call.mem.sel) = Cardinality(call.fsel)
        /\ dset.layout = Chunked => Len(call.mem.dims) = Len(dset.dims)
    BY <1>5 DEF IsCall
  <2>3. MemDim(call) \in Nat /\ call.mem.dims \in Coordinates(MemDim(call))
    BY <2>1, <2>2, SeqIs DEF MemDim, Coordinates
  <2> QED
    BY <1>2, <1>3, <2>1, <2>2, <2>3 DEF InExtent, MemDim, Dim
<1> QED
  BY <1>4, <1>5

\* The chunk of a contiguous dataset lies with its counterpart in memory.
LEMMA ContiguousPaired ==
    ASSUME IsDataset(dset), dset.layout = Contiguous, NEW call, IsCall(dset, call), call.fsel # {},
           NEW infos, infos = Chunks(call), NEW i \in DOMAIN infos
    PROVE  ChunkIs(call, infos[i])
<1> DEFINE here == infos[i]
           file == real_file_space(call)
           mem == real_mem_space(call)
<1>1. here = [chunk_coords |-> Origin(dset.dims), fspace |-> file, mspace |-> mem]
  <2>1. infos = <<[chunk_coords |-> Origin(dset.dims), fspace |-> file, mspace |-> mem]>>
    BY DEF Chunks
  <2> QED
    BY <2>1
<1>2. here.chunk_coords = Origin(dset.dims) /\ here.fspace = file /\ here.mspace = mem
  BY <1>1
<1>3. /\ file.sel = call.fsel /\ file.dims = dset.dims /\ InExtent(Dim, file)
      /\ MemDim(call) \in Nat /\ InExtent(MemDim(call), mem) /\ Dim \in Nat
      /\ Cardinality(mem.sel) = Cardinality(call.fsel) /\ dset.dims \in Coordinates(Dim)
      /\ StoreDims = dset.dims
  BY CallIs, DatasetIs DEF StoreDims
<1> HIDE DEF here, file, mem
<1>4. \A c : Coords(c) = Origin(dset.dims)
  BY DEF Coords
<1>5. ASSUME NEW c \in call.fsel
      PROVE  /\ Minus(c, here.chunk_coords) = c
             /\ \E y \in mem.sel : PlaceIn(MemDim(call), mem.sel, y) = PlaceIn(Dim, call.fsel, c)
  <2>1. c \in Coordinates(Dim)
    BY <1>3, ExtentIs DEF InExtent
  <2>2. Minus(c, here.chunk_coords) = c
    BY <1>2, <1>3, <2>1, OriginIs
  <2>3. PlaceIn(Dim, file.sel, c) \in 0 .. Cardinality(file.sel) - 1
    BY <1>3, PlaceIs
  <2>4. \E y \in mem.sel : PlaceIn(MemDim(call), mem.sel, y) = PlaceIn(Dim, call.fsel, c)
    BY <1>3, <2>3, PlaceIs
  <2> QED
    BY <2>2, <2>4
<1>6. ChunkIs(call, here)
  BY <1>2, <1>3, <1>4, <1>5 DEF ChunkIs, mem
<1> QED
  BY <1>6 DEF here

\* So do the walk's chunks.
LEMMA ChunkedPaired ==
    ASSUME IsDataset(dset), dset.layout = Chunked, NEW call, IsCall(dset, call),
           call.fsel # {}, ~Mismatch(call),
           NEW infos, infos = Chunks(call), NEW i \in DOMAIN infos
    PROVE  ChunkIs(call, infos[i])
<1> DEFINE k == Dim
           here == infos[i]
           file == real_file_space(call)
           mem == real_mem_space(call)
           chunk == dset.chunk
           G == ToMemory(file, mem)
<1>1. k \in Nat /\ IsChunk(k, chunk) /\ StoreDims = chunk
  <2>1. StoreDims = chunk
    BY LayoutAssumption DEF StoreDims
  <2> QED
    BY <2>1, DatasetIs
<1>2. /\ file.sel = call.fsel /\ InExtent(k, file) /\ InExtent(k, mem) /\ MemDim(call) = k
  BY CallIs
<1>3. SameShape(file, mem)
  BY DEF Mismatch
<1>4. IsSpace(k, file)
  BY <1>2 DEF IsSpace, InExtent
<1>5. IsSpace(k, mem)
  <2>1. mem.sel # {}
    BY <1>2, <1>3 DEF SameShape, Moved
  <2> QED
    BY <1>2, <2>1 DEF IsSpace, InExtent
<1>6. infos = get_selected_chunk_info(file, mem, chunk)
  BY LayoutAssumption DEF Chunks
<1> HIDE DEF k, file, mem, chunk, G
<1>7. infos \in Seq(ChunkInfos(k, file, mem, chunk)) /\ CoordsOf(infos) = {Corner(c, chunk) : c \in file.sel}
  BY <1>1, <1>3, <1>4, <1>5, <1>6, WalkTakesAll DEF MayWalk
<1>8. PICK at \in Aligned(k, chunk) : here = ChunkInfo(at, chunk, file, mem)
  <2>1. here \in ChunkInfos(k, file, mem, chunk)
    BY <1>7
  <2> QED
    BY <2>1 DEF ChunkInfos
<1>9. here.chunk_coords = at
  BY <1>8 DEF ChunkInfo
<1>10. \A c : Coords(c) = Corner(c, chunk)
  BY LayoutAssumption DEF Coords, Corner, Floor, chunk
<1>11. \E c \in call.fsel : Coords(c) = here.chunk_coords
  BY <1>2, <1>7, <1>10 DEF CoordsOf
<1>12. /\ here.fspace.dims = chunk /\ here.mspace.dims = mem.dims
       /\ InExtent(k, here.fspace) /\ InExtent(k, here.mspace)
       /\ \A c \in InChunk(at, file, chunk) :
             /\ Minus(c, at) \in here.fspace.sel /\ Plus(c, G) \in here.mspace.sel
             /\ PlaceIn(k, here.mspace.sel, Plus(c, G)) = PlaceIn(k, here.fspace.sel, Minus(c, at))
             /\ PlaceIn(k, mem.sel, Plus(c, G)) = PlaceIn(k, file.sel, c)
  BY <1>1, <1>3, <1>4, <1>5, <1>8, ChunkPaired DEF G
<1>13. ASSUME NEW c \in call.fsel, Coords(c) = here.chunk_coords
       PROVE  /\ Minus(c, here.chunk_coords) \in here.fspace.sel
              /\ \E y \in here.mspace.sel :
                    /\ PlaceIn(k, here.mspace.sel, y)
                         = PlaceIn(k, here.fspace.sel, Minus(c, here.chunk_coords))
                    /\ PlaceIn(k, mem.sel, y) = PlaceIn(k, call.fsel, c)
  <2>1. c \in InChunk(at, file, chunk)
    BY <1>2, <1>9, <1>10, <1>13 DEF InChunk
  <2> QED
    BY <1>2, <1>9, <1>12, <2>1
<1>14. ChunkIs(call, here)
  <2>1. /\ here.fspace.dims = StoreDims /\ here.mspace.dims = real_mem_space(call).dims
        /\ InExtent(Dim, here.fspace) /\ InExtent(MemDim(call), here.mspace)
        /\ MemDim(call) \in Nat
    BY <1>1, <1>2, <1>12 DEF k, mem
  <2>2. \A c \in call.fsel : Coords(c) = here.chunk_coords =>
          /\ Minus(c, here.chunk_coords) \in here.fspace.sel
          /\ \E y \in here.mspace.sel :
                /\ PlaceIn(MemDim(call), here.mspace.sel, y)
                     = PlaceIn(Dim, here.fspace.sel, Minus(c, here.chunk_coords))
                /\ PlaceIn(MemDim(call), real_mem_space(call).sel, y) = PlaceIn(Dim, call.fsel, c)
    BY <1>2, <1>13 DEF k, mem
  <2> QED
    BY <1>11, <2>1, <2>2 DEF ChunkIs
<1> QED
  BY <1>14 DEF here

\* So do the chunks of a call, whatever the layout.
LEMMA ChunksPaired ==
    ASSUME IsDataset(dset), NEW call, IsCall(dset, call), call.fsel # {}, ~Mismatch(call),
           NEW infos, infos = Chunks(call), NEW i \in DOMAIN infos
    PROVE  ChunkIs(call, infos[i])
  BY ContiguousPaired, ChunkedPaired DEF IsDataset

(***************************************************************************)
(* Where the units of an element are.                                      *)
(***************************************************************************)
Offset(c, j) == Linear(StoreDims, Minus(c, Coords(c))) * Len(dset.type) + j - 1

\* The offset of a unit of an element in the object of its chunk.
LEMMA OffsetIs ==
    ASSUME IsDataset(dset), NEW c \in Extent(dset.dims), NEW size, size = Len(dset.type),
           NEW at, at = Coords(c), NEW j \in 1 .. size
    PROVE  /\ c \in Coordinates(Dim) /\ Minus(c, at) \in Extent(StoreDims) /\ Plus(Minus(c, at), at) = c
           /\ Linear(StoreDims, Minus(c, at)) \in Nat /\ size \in Size /\ j - 1 \in 0 .. size - 1
           /\ Offset(c, j) = UnitAt(Linear(StoreDims, Minus(c, at)), size, j - 1)
           /\ Offset(c, j) \div size = Linear(StoreDims, Minus(c, at)) /\ (Offset(c, j) % size) + 1 = j
           /\ Offset(c, j) \in Nat
<1>1. /\ Dim \in Nat /\ dset.dims \in Coordinates(Dim) /\ IsChunk(Dim, dset.chunk)
      /\ StoreDims \in Coordinates(Dim) /\ size \in Size
  BY DatasetIs
<1>2. c \in Coordinates(Dim)
  BY <1>1, ExtentIs
<1>3. Minus(c, at) \in Extent(StoreDims) /\ Plus(Minus(c, at), at) = c
  <2>1. CASE dset.layout = Contiguous
    <3>1. at = Origin(dset.dims) /\ StoreDims = dset.dims
      BY <2>1 DEF Coords, StoreDims
    <3> QED
      BY <1>1, <1>2, <3>1, OriginIs
  <2>2. CASE dset.layout # Contiguous
    <3>1. at = Corner(c, dset.chunk) /\ StoreDims = dset.chunk
      BY <2>2 DEF Coords, StoreDims, Corner, Floor
    <3> QED
      BY <1>1, <1>2, <3>1, CellInChunk
  <2> QED
    BY <2>1, <2>2
<1>4. Linear(StoreDims, Minus(c, at)) \in Nat
  <2>1. Minus(c, at) \in Coordinates(Dim)
    BY <1>1, <1>3, ExtentIs
  <2> QED
    BY <1>1, <2>1, LinearIn
<1>5. PICK n \in Nat : n = Linear(StoreDims, Minus(c, at))
  BY <1>4
<1>6. size \in Nat \ {0} /\ j \in Nat /\ j - 1 \in 0 .. size - 1
  BY <1>1 DEF Size
<1>7. Offset(c, j) = n * size + j - 1
  BY <1>5 DEF Offset
<1>8. n * size \in Nat
  BY <1>5, <1>6
<1>9. Offset(c, j) = UnitAt(n, size, j - 1)
  <2>1. PICK u : u = n * size
    OBVIOUS
  <2>2. u + j - 1 = u + (j - 1)
    BY <1>6, <1>8, <2>1
  <2> QED
    BY <1>7, <2>1, <2>2 DEF UnitAt
<1>10. Offset(c, j) \div size = n /\ Offset(c, j) % size = j - 1 /\ Offset(c, j) \in Nat
  BY <1>1, <1>5, <1>6, <1>9, UnitIs, UnitOrder
<1>11. (j - 1) + 1 = j
  BY <1>6
<1> QED
  BY <1>1, <1>2, <1>3, <1>4, <1>5, <1>6, <1>9, <1>10, <1>11

\* What the storage has at that offset.
LEMMA UnitFrom ==
    ASSUME NEW c, NEW j
    PROVE  Unit(c, j) = IF Coords(c) \in DOMAIN object /\ Offset(c, j) \in DOMAIN object[Coords(c)]
                        THEN object[Coords(c)][Offset(c, j)] ELSE Junk
  BY DEF Unit, Offset, StoreDims

\* The chunk that a rank is about to write: what it is of its call.
Taken(call, here) ==
    /\ ChunkIs(call, here)
    /\ Moved(here.fspace.sel, here.chunk_coords) = {c \in call.fsel : Coords(c) = here.chunk_coords}
    /\ Cardinality(here.mspace.sel) = Cardinality(here.fspace.sel)
    /\ here.mspace.sel \subseteq real_mem_space(call).sel

\* The units of a chunk that are written are those of its selected elements.
UnitsOf(space) == Units(Places(space), Len(dset.type))

\* The units that a chunk selects are those of the elements of the call in it.
LEMMA UnitsSelected ==
    ASSUME IsDataset(dset), NEW call, NEW here, Taken(call, here),
           NEW c \in Extent(dset.dims), Coords(c) = here.chunk_coords, NEW j \in 1 .. Len(dset.type)
    PROVE  Offset(c, j) \in UnitsOf(here.fspace) <=> c \in call.fsel
<1> DEFINE at == here.chunk_coords
<1>1. /\ Dim \in Nat /\ Len(dset.type) \in Size
      /\ InExtent(Dim, here.fspace) /\ here.fspace.dims = StoreDims
  BY DatasetIs DEF Taken, ChunkIs
<1>2. /\ Minus(c, at) \in Extent(StoreDims) /\ Plus(Minus(c, at), at) = c /\ j - 1 \in 0 .. Len(dset.type) - 1
      /\ Offset(c, j) = UnitAt(Linear(StoreDims, Minus(c, at)), Len(dset.type), j - 1)
  BY OffsetIs
<1>3. Offset(c, j) \in UnitsOf(here.fspace) <=> Minus(c, at) \in here.fspace.sel
  BY <1>1, <1>2, NotSelected DEF UnitsOf
<1>4. c \in call.fsel => Minus(c, at) \in here.fspace.sel
  BY DEF Taken, ChunkIs
<1>5. Minus(c, at) \in here.fspace.sel => c \in call.fsel
  BY <1>2 DEF Taken, Moved
<1> QED
  BY <1>3, <1>4, <1>5

(***************************************************************************)
(* The element in memory that a selected element gets.                     *)
(***************************************************************************)
LEMMA PositionIs ==
    ASSUME NEW k \in Nat, NEW space, InExtent(k, space), NEW c \in space.sel
    PROVE  Array!Position(c, space.sel) = PlaceIn(k, space.sel, c)
<1>1. \A b \in space.sel : b \in Coordinates(k)
  BY ExtentIs DEF InExtent
<1>2. \A b \in space.sel : DOMAIN b = 1 .. k
  BY <1>1 DEF Coordinates
<1>3. \A b \in space.sel : Array!Before(b, c) <=> Before(k, b, c)
  BY <1>2 DEF Array!Before, Before
<1>4. {b \in space.sel : Array!Before(b, c)} = {b \in space.sel : Before(k, b, c)}
  BY <1>3
<1> QED
  BY <1>4, Zenon DEF Array!Position, PlaceIn, Array!Cardinality, Cardinality

\* The element in memory that has the same place is the one the array takes.
LEMMA PlaceOf ==
    ASSUME IsDataset(dset), NEW call, IsCall(dset, call), NEW c \in call.fsel,
           NEW y \in real_mem_space(call).sel,
           PlaceIn(MemDim(call), real_mem_space(call).sel, y) = PlaceIn(Dim, call.fsel, c)
    PROVE  Array!Place(AbstractCall(call), c) = y
<1> DEFINE file == real_file_space(call)
           mem == real_mem_space(call)
           l == MemDim(call)
<1>1. /\ file.sel = call.fsel /\ InExtent(Dim, file) /\ Dim \in Nat
      /\ l \in Nat /\ InExtent(l, mem)
  BY CallIs, DatasetIs
<1>2. AbstractCall(call).fsel = file.sel /\ AbstractCall(call).msel = mem.sel
  BY DEF AbstractCall, real_mem_space, real_file_space, Space
<1> HIDE DEF file, mem, l
<1>3. Array!Position(c, file.sel) = PlaceIn(Dim, file.sel, c)
  BY <1>1, PositionIs
<1>4. \A m \in mem.sel : Array!Position(m, mem.sel) = PlaceIn(l, mem.sel, m)
  BY <1>1, PositionIs
<1>5. y \in mem.sel /\ PlaceIn(l, mem.sel, y) = PlaceIn(Dim, file.sel, c)
  BY <1>1 DEF mem, l
<1>6. \A m \in mem.sel : Array!Position(m, mem.sel) = Array!Position(c, file.sel) => m = y
  BY <1>1, <1>3, <1>4, <1>5, PlaceIs
<1>7. Array!Place(AbstractCall(call), c)
        = CHOOSE m \in mem.sel : Array!Position(m, mem.sel) = Array!Position(c, file.sel)
  BY <1>2 DEF Array!Place
<1> QED
  BY <1>3, <1>4, <1>5, <1>6, <1>7

\* An element of a chunk has its counterpart among those of the chunk in memory.
LEMMA CounterpartIs ==
    ASSUME IsDataset(dset), NEW call, IsCall(dset, call), NEW here, Taken(call, here),
           NEW c \in call.fsel, Coords(c) = here.chunk_coords,
           NEW y, y = Array!Place(AbstractCall(call), c),
           NEW x, x = Minus(c, here.chunk_coords)
    PROVE  /\ x \in here.fspace.sel /\ y \in here.mspace.sel /\ y \in Extent(real_mem_space(call).dims)
           /\ PlaceIn(MemDim(call), here.mspace.sel, y) = PlaceIn(Dim, here.fspace.sel, x)
<1>1. x \in here.fspace.sel
  BY DEF Taken, ChunkIs
<1>2. PICK z \in here.mspace.sel :
        /\ PlaceIn(MemDim(call), here.mspace.sel, z) = PlaceIn(Dim, here.fspace.sel, x)
        /\ PlaceIn(MemDim(call), real_mem_space(call).sel, z) = PlaceIn(Dim, call.fsel, c)
  BY DEF Taken, ChunkIs
<1>3. z \in real_mem_space(call).sel
  BY <1>2 DEF Taken
<1>4. y = z
  BY <1>2, <1>3, PlaceOf
<1>5. InExtent(MemDim(call), real_mem_space(call))
  BY CallIs
<1> QED
  BY <1>1, <1>2, <1>3, <1>4, <1>5 DEF InExtent

\* What the caller's buffer holds at a unit of an element.
IsUnit(space, y, size, j, o) ==
    /\ y \in Extent(space.dims) /\ size \in Size /\ j \in 1 .. size
    /\ o = UnitAt(Linear(space.dims, y), size, j - 1)

\* A unit of the user's buffer is that of the member and the element.
LEMMA BufferIs ==
    ASSUME NEW r \in Ranks, NEW k \in Nat, NEW y, NEW j, NEW from,
           InExtent(k, real_mem_space(Call(r))),
           IsUnit(real_mem_space(Call(r)), y, Len(Call(r).type), j, from)
    PROVE  Buffer(r, from) = <<r, Call(r).buf, y, Call(r).type[j]>>
<1> DEFINE space == real_mem_space(Call(r))
           size == Len(Call(r).type)
<1>1. /\ InExtent(k, space) /\ y \in Extent(space.dims) /\ size \in Size /\ j \in 1 .. size
      /\ from = UnitAt(Linear(space.dims, y), size, j - 1)
  BY DEF IsUnit
<1>2. \A o : Buffer(r, o) = <<r, Call(r).buf, CHOOSE c \in Extent(space.dims) : Linear(space.dims, c) = o \div size,
                       Call(r).type[(o % size) + 1]>>
  BY DEF Buffer
<1> HIDE DEF space, size
<1>3. space.dims \in Coordinates(k)
  BY <1>1 DEF InExtent
<1>4. \A c \in Extent(space.dims) : c \in Coordinates(k)
  BY <1>3, ExtentIs
<1>5. PICK n \in Nat : n = Linear(space.dims, y)
  BY <1>1, <1>3, <1>4, LinearIn
<1>6. size \in Nat \ {0} /\ j - 1 \in 0 .. size - 1 /\ (j - 1) + 1 = j
  BY <1>1 DEF Size
<1>7. PICK o : o = UnitAt(n, size, j - 1)
  OBVIOUS
<1>8. o \div size = n /\ (o % size) + 1 = j
  BY <1>1, <1>6, <1>7, UnitIs
<1>9. (CHOOSE c \in Extent(space.dims) : Linear(space.dims, c) = n) = y
  BY <1>1, <1>3, <1>5, LinearBefore
<1> QED
  BY <1>1, <1>5, <1>7, <1>8, <1>9, <1>2

\* The gathered elements are those of the memory space, in order.
LEMMA GatheredIs ==
    ASSUME NEW k \in Nat, NEW space, InExtent(k, space), NEW y \in space.sel,
           NEW n, n = PlaceIn(k, space.sel, y)
    PROVE  Gathered(space)[n + 1] = y
<1> DEFINE P == Places(space)
<1>1. /\ \A c \in space.sel : Below(P, Linear(space.dims, c)) = PlaceIn(k, space.sel, c)
      /\ n \in 0 .. Cardinality(space.sel) - 1
      /\ \A c \in space.sel : PlaceIn(k, space.sel, c) = n => c = y
  BY PlaceIs
<1>2. Cardinality(space.sel) \in Nat
  BY PlacesAre
<1>3. n + 1 \in 1 .. Cardinality(space.sel) /\ (n + 1) - 1 = n
  BY <1>1, <1>2
<1>4. Gathered(space) = [i \in 1 .. Cardinality(space.sel) |->
                            CHOOSE c \in space.sel : Below(P, Linear(space.dims, c)) = i - 1]
  BY DEF Gathered, Places
<1> HIDE DEF P
<1>5. Gathered(space)[n + 1] = CHOOSE c \in space.sel : Below(P, Linear(space.dims, c)) = n
  BY <1>3, <1>4
<1> QED
  BY <1>1, <1>5

(***************************************************************************)
(* What a chunk's list of transfers brings to its elements.                *)
(***************************************************************************)
\* What a unit of a selected element is to hold: the member of its counterpart, or, if the
\* call has no such member, the value that it has, if it has one.
Meant(r, c, j, v) ==
    LET m == dset.type[j]
    IN  IF m \in MembersOf(Call(r).type)
        THEN v = <<r, Call(r).buf, Array!Place(AbstractCall(Call(r)), c), m>>
        ELSE Unit(c, j) # Junk => v = Unit(c, j)

Delivers(r, here, ops, source) ==
    \A c \in Call(r).fsel : Coords(c) = here.chunk_coords =>
        \A j \in 1 .. Len(dset.type) : dset.type[j] \in MembersOf(dset.type) =>
            Meant(r, c, j, source[Source(ops, Offset(c, j))])

\* The rank, its call and the chunk it is about to write.
AtChunk(r, here) ==
    /\ r \in Ranks /\ IsDataset(dset) /\ IsCall(dset, Call(r)) /\ Taken(Call(r), here)

\* The spaces of the chunk a rank is at.
LEMMA AtChunkIs ==
    ASSUME NEW r, NEW here, AtChunk(r, here)
    PROVE  /\ Dim \in Nat /\ MemDim(Call(r)) \in Nat /\ Len(dset.type) \in Size
           /\ InExtent(Dim, here.fspace) /\ InExtent(MemDim(Call(r)), here.mspace)
           /\ InExtent(MemDim(Call(r)), real_mem_space(Call(r)))
           /\ here.fspace.dims = StoreDims /\ here.mspace.dims = real_mem_space(Call(r)).dims
           /\ Cardinality(here.mspace.sel) = Cardinality(here.fspace.sel)
           /\ \A c \in Call(r).fsel : c \in Extent(dset.dims)
<1>1. IsDataset(dset) /\ IsCall(dset, Call(r)) /\ Taken(Call(r), here)
  BY DEF AtChunk
<1>2. Dim \in Nat /\ MemDim(Call(r)) \in Nat /\ Len(dset.type) \in Size
      /\ InExtent(MemDim(Call(r)), real_mem_space(Call(r)))
  BY <1>1, DatasetIs, CallIs
<1> QED
  BY <1>1, <1>2 DEF Taken, ChunkIs, IsCall

\* A selected element of the chunk, its counterpart, and one of its units.
LEMMA ElementIs ==
    ASSUME NEW r, NEW here, AtChunk(r, here), NEW c \in Call(r).fsel, Coords(c) = here.chunk_coords,
           NEW j \in 1 .. Len(dset.type),
           NEW y, y = Array!Place(AbstractCall(Call(r)), c)
    PROVE  /\ Offset(c, j) \in UnitsOf(here.fspace)
           /\ Below(UnitsOf(here.fspace), Offset(c, j))
                = UnitAt(PlaceIn(MemDim(Call(r)), here.mspace.sel, y), Len(dset.type), j - 1)
           /\ PlaceIn(MemDim(Call(r)), here.mspace.sel, y) \in Nat
           /\ UnitAt(Linear(here.mspace.dims, y), Len(dset.type), j - 1) \in UnitsOf(here.mspace)
           /\ Below(UnitsOf(here.mspace), UnitAt(Linear(here.mspace.dims, y), Len(dset.type), j - 1))
                = Below(UnitsOf(here.fspace), Offset(c, j))
           /\ y \in here.mspace.sel /\ y \in Extent(real_mem_space(Call(r)).dims)
           /\ j - 1 \in 0 .. Len(dset.type) - 1
<1>1. /\ IsDataset(dset) /\ IsCall(dset, Call(r)) /\ Taken(Call(r), here) /\ c \in Extent(dset.dims)
      /\ Dim \in Nat /\ MemDim(Call(r)) \in Nat /\ Len(dset.type) \in Size
      /\ InExtent(Dim, here.fspace) /\ InExtent(MemDim(Call(r)), here.mspace) /\ here.fspace.dims = StoreDims
  BY AtChunkIs DEF AtChunk
<1>2. PICK x : x = Minus(c, here.chunk_coords)
  OBVIOUS
<1>3. /\ x \in here.fspace.sel /\ y \in here.mspace.sel /\ y \in Extent(real_mem_space(Call(r)).dims)
      /\ PlaceIn(MemDim(Call(r)), here.mspace.sel, y) = PlaceIn(Dim, here.fspace.sel, x)
  BY <1>1, <1>2, CounterpartIs
<1>4. /\ Offset(c, j) = UnitAt(Linear(here.fspace.dims, x), Len(dset.type), j - 1)
      /\ j - 1 \in 0 .. Len(dset.type) - 1
  <2>1. PICK size, at : size = Len(dset.type) /\ at = Coords(c)
    OBVIOUS
  <2>2. j \in 1 .. size
    BY <2>1
  <2>3. /\ Offset(c, j) = UnitAt(Linear(StoreDims, Minus(c, at)), size, j - 1)
        /\ j - 1 \in 0 .. size - 1
    BY <1>1, <2>1, <2>2, OffsetIs
  <2> QED
    BY <1>1, <1>2, <2>1, <2>3
<1>5. PICK from : from = UnitAt(Linear(here.mspace.dims, y), Len(dset.type), j - 1)
  OBVIOUS
<1>6. PICK to : to = Offset(c, j)
  OBVIOUS
<1>7. PICK Um, Uf : Um = Units(Places(here.mspace), Len(dset.type)) /\ Uf = Units(Places(here.fspace), Len(dset.type))
  OBVIOUS
<1>8. /\ to \in Uf /\ from \in Um /\ Below(Um, from) = Below(Uf, to)
      /\ Below(Uf, to) = UnitAt(PlaceIn(Dim, here.fspace.sel, x), Len(dset.type), j - 1)
      /\ PlaceIn(Dim, here.fspace.sel, x) \in Nat
  BY <1>1, <1>3, <1>4, <1>5, <1>6, <1>7, UnitPaired
<1> QED
  BY <1>3, <1>4, <1>5, <1>6, <1>7, <1>8 DEF UnitsOf

\* Whichever the list, it writes the units of the chunk's elements.
LEMMA ListsTo ==
    ASSUME NEW r, NEW here, AtChunk(r, here), NEW size, size = Len(dset.type)
    PROVE  /\ To(build_io_op_merge(here.mspace, here.fspace, size)) = UnitsOf(here.fspace)
           /\ To(build_io_op_match(here.fspace, size)) = UnitsOf(here.fspace)
           /\ To(build_io_op_contig(here.fspace, size)) = UnitsOf(here.fspace)
<1>1. /\ Dim \in Nat /\ MemDim(Call(r)) \in Nat /\ size \in Size
      /\ InExtent(Dim, here.fspace) /\ InExtent(MemDim(Call(r)), here.mspace)
      /\ Cardinality(here.mspace.sel) = Cardinality(here.fspace.sel)
  BY AtChunkIs
<1>2. PICK Um, Uf : Um = Units(Places(here.mspace), size) /\ Uf = Units(Places(here.fspace), size)
  OBVIOUS
<1>3. PICK f : Pairs(build_io_op_merge(here.mspace, here.fspace, size), f, Uf)
  BY <1>1, <1>2, MergePairs
<1>4. PICK g : Pairs(build_io_op_match(here.fspace, size), g, Uf)
  BY <1>1, <1>2, MatchPairs
<1>5. PICK h : Pairs(build_io_op_contig(here.fspace, size), h, Uf)
  BY <1>1, <1>2, ContigPairs
<1> QED
  BY <1>2, <1>3, <1>4, <1>5, SourceIs DEF UnitsOf

\* The merged list brings what is meant, when types are equal.
LEMMA MergeDelivers ==
    ASSUME NEW r, NEW here, AtChunk(r, here), types_equal(Call(r)),
           NEW ops, ops = build_io_op_merge(here.mspace, here.fspace, Len(dset.type)),
           NEW source, source = [o \in From(ops) |-> Buffer(r, o)]
    PROVE  Delivers(r, here, ops, source)
<1> DEFINE size == Len(dset.type)
           Um == UnitsOf(here.mspace)
           Uf == UnitsOf(here.fspace)
<1>1. /\ Dim \in Nat /\ MemDim(Call(r)) \in Nat /\ size \in Size
      /\ InExtent(Dim, here.fspace) /\ InExtent(MemDim(Call(r)), here.mspace)
      /\ InExtent(MemDim(Call(r)), real_mem_space(Call(r)))
      /\ here.mspace.dims = real_mem_space(Call(r)).dims
      /\ Cardinality(here.mspace.sel) = Cardinality(here.fspace.sel)
  BY AtChunkIs
<1>2. Call(r).type = dset.type /\ r \in Ranks
  BY DEF types_equal, AtChunk
<1>3. PICK f : f = [y \in Uf |-> Partner(Um, Uf, y)]
  OBVIOUS
<1>4. /\ Pairs(ops, f, Uf)
      /\ \A y \in Uf : \A x \in Um : Below(Um, x) = Below(Uf, y) => Partner(Um, Uf, y) = x
  <2>1. Um = Units(Places(here.mspace), size) /\ Uf = Units(Places(here.fspace), size)
    BY DEF UnitsOf
  <2> HIDE DEF Um, Uf
  <2> QED
    BY <1>1, <1>3, <2>1, MergePairs
<1> HIDE DEF Um, Uf
<1>5. To(ops) = Uf /\ \A x \in Uf : Source(ops, x) = f[x] /\ f[x] \in From(ops)
  BY <1>4, SourceIs
<1>6. ASSUME NEW c \in Call(r).fsel, Coords(c) = here.chunk_coords,
             NEW j \in 1 .. size, dset.type[j] \in MembersOf(dset.type)
      PROVE  Meant(r, c, j, source[Source(ops, Offset(c, j))])
  <2>1. PICK y : y = Array!Place(AbstractCall(Call(r)), c)
    OBVIOUS
  <2>2. PICK from : from = UnitAt(Linear(here.mspace.dims, y), size, j - 1)
    OBVIOUS
  <2>3. /\ Offset(c, j) \in Uf /\ from \in Um /\ Below(Um, from) = Below(Uf, Offset(c, j))
        /\ y \in Extent(real_mem_space(Call(r)).dims)
    BY <1>6, <2>1, <2>2, ElementIs DEF Um, Uf
  <2>4. Source(ops, Offset(c, j)) = from /\ from \in From(ops)
    BY <1>3, <1>4, <1>5, <2>3
  <2>5. source[Source(ops, Offset(c, j))] = Buffer(r, from)
    BY <2>4
  <2>6. Buffer(r, from) = <<r, Call(r).buf, y, Call(r).type[j]>>
    <3>1. IsUnit(real_mem_space(Call(r)), y, Len(Call(r).type), j, from)
      BY <1>1, <1>2, <2>2, <2>3 DEF IsUnit
    <3> QED
      BY <1>1, <1>2, <3>1, BufferIs
  <2>7. source[Source(ops, Offset(c, j))] = <<r, Call(r).buf, y, dset.type[j]>>
    BY <1>2, <2>5, <2>6
  <2> QED
    BY <1>2, <1>6, <2>1, <2>7 DEF Meant
<1> QED
  BY <1>6 DEF Delivers

\* With the extent of the only chunk, an element is in the same place in memory, in the
\* file and in the chunk.
LEMMA OnlyChunk ==
    ASSUME IsDataset(dset), dset.dims = StoreDims, NEW c \in Extent(dset.dims)
    PROVE  Minus(c, Coords(c)) = c
<1>1. /\ Dim \in Nat /\ dset.dims \in Coordinates(Dim) /\ IsChunk(Dim, dset.chunk)
  BY DatasetIs
<1>2. c \in Coordinates(Dim) /\ \A d \in 1 .. Dim : c[d] < dset.dims[d]
  BY <1>1, ExtentIs
<1>3. Coords(c) = Origin(dset.dims)
  <2>1. CASE dset.layout = Contiguous
    BY <2>1 DEF Coords
  <2>2. CASE dset.layout # Contiguous
    <3>1. dset.chunk = dset.dims
      BY <2>2 DEF StoreDims
    <3>2. Coords(c) = [d \in 1 .. Dim |-> (c[d] \div dset.chunk[d]) * dset.chunk[d]]
      BY <1>2, <2>2 DEF Coords, Dims, Coordinates
    <3>3. ASSUME NEW d \in 1 .. Dim PROVE (c[d] \div dset.chunk[d]) * dset.chunk[d] = 0
      <4>1. PICK a, b : a = c[d] /\ b = dset.chunk[d]
        OBVIOUS
      <4>2. a \in Nat /\ b \in Nat \ {0} /\ a < b
        BY <1>1, <1>2, <3>1, <4>1 DEF IsChunk, Coordinates
      <4>3. a \div b = 0
        BY <4>2
      <4> QED
        BY <4>1, <4>2, <4>3
    <3>4. Origin(dset.dims) = [d \in 1 .. Dim |-> 0]
      BY <1>1 DEF Origin, Dims, Coordinates
    <3> QED
      BY <3>2, <3>3, <3>4
  <2> QED
    BY <2>1, <2>2
<1> QED
  BY <1>1, <1>2, <1>3, OriginIs

\* So does the list for a selection that is the same in memory.
LEMMA MatchDelivers ==
    ASSUME NEW r, NEW here, AtChunk(r, here), types_equal(Call(r)),
           Call(r).mem = All, dset.dims = here.fspace.dims,
           NEW ops, ops = build_io_op_match(here.fspace, Len(dset.type)),
           NEW source, source = [o \in From(ops) |-> Buffer(r, o)]
    PROVE  Delivers(r, here, ops, source)
<1> DEFINE size == Len(dset.type)
           Uf == UnitsOf(here.fspace)
           file == real_file_space(Call(r))
<1>1. /\ Dim \in Nat /\ size \in Size /\ InExtent(Dim, here.fspace) /\ dset.dims = StoreDims
      /\ \A c \in Call(r).fsel : c \in Extent(dset.dims)
  BY AtChunkIs
<1>2. /\ Call(r).type = dset.type /\ r \in Ranks /\ IsDataset(dset) /\ IsCall(dset, Call(r))
      /\ real_mem_space(Call(r)) = file
  BY DEF types_equal, AtChunk, real_mem_space
<1>3. file.sel = Call(r).fsel /\ file.dims = dset.dims /\ InExtent(Dim, file) /\ MemDim(Call(r)) = Dim
  BY <1>2, CallIs DEF MemDim, Dim
<1>4. PICK f : f = [x \in Uf |-> x]
  OBVIOUS
<1>5. Pairs(ops, f, Uf)
  <2>1. Uf = Units(Places(here.fspace), size)
    BY DEF UnitsOf
  <2> HIDE DEF Uf
  <2> QED
    BY <1>1, <1>4, <2>1, MatchPairs
<1> HIDE DEF Uf
<1>6. To(ops) = Uf /\ \A x \in Uf : Source(ops, x) = f[x] /\ f[x] \in From(ops)
  BY <1>5, SourceIs
<1>7. ASSUME NEW c \in Call(r).fsel, Coords(c) = here.chunk_coords,
             NEW j \in 1 .. size, dset.type[j] \in MembersOf(dset.type)
      PROVE  Meant(r, c, j, source[Source(ops, Offset(c, j))])
  <2>1. Array!Place(AbstractCall(Call(r)), c) = c
    BY <1>2, <1>3, PlaceOf
  <2>2. Offset(c, j) \in Uf
    BY <1>7, ElementIs DEF Uf
  <2>3. Offset(c, j) = UnitAt(Linear(file.dims, c), size, j - 1)
    <3>1. c \in Extent(dset.dims)
      BY <1>1
    <3>2. Minus(c, Coords(c)) = c
      BY <1>1, <1>2, <3>1, OnlyChunk
    <3>3. Offset(c, j) = UnitAt(Linear(StoreDims, Minus(c, Coords(c))), size, j - 1)
      BY <1>2, <3>1, OffsetIs
    <3> QED
      BY <1>1, <1>3, <3>2, <3>3
  <2>4. source[Source(ops, Offset(c, j))] = Buffer(r, Offset(c, j))
    BY <1>4, <1>6, <2>2
  <2>5. Buffer(r, Offset(c, j)) = <<r, Call(r).buf, c, Call(r).type[j]>>
    <3>1. IsUnit(real_mem_space(Call(r)), c, Len(Call(r).type), j, Offset(c, j))
      BY <1>1, <1>2, <1>3, <2>3 DEF IsUnit
    <3> QED
      BY <1>1, <1>2, <1>3, <3>1, BufferIs
  <2>6. source[Source(ops, Offset(c, j))] = <<r, Call(r).buf, c, dset.type[j]>>
    BY <1>2, <2>4, <2>5
  <2> QED
    BY <1>2, <1>7, <2>1, <2>6 DEF Meant
<1> QED
  BY <1>7 DEF Delivers

ObjectAt(at) == IF at \in DOMAIN object THEN object[at] ELSE << >>

\* The background buffer of a rank has what the chunk's object has in the selected elements.
Holds(bkg, space, obj) ==
    \A m \in Moves(build_io_op_contig(space, Len(dset.type))) :
        m[2] \in DOMAIN obj => m[1] \in DOMAIN bkg /\ bkg[m[1]] = obj[m[2]]

Background(r, here) == Holds(bkg_buf[r], here.fspace, ObjectAt(here.chunk_coords))

\* The units of the objects: how many a chunk has, and where an element's are in order.
Bound == Len(dset.type) * Cardinality(Extent(StoreDims))

LEMMA BoundIs ==
    ASSUME IsDataset(dset)
    PROVE  /\ Cardinality(Extent(StoreDims)) \in Nat /\ Len(dset.type) \in Nat /\ Bound \in Nat
<1>1. Dim \in Nat /\ StoreDims \in Coordinates(Dim) /\ Len(dset.type) \in Size
  BY DatasetIs
<1>2. Cardinality(Extent(StoreDims)) \in Nat
  BY <1>1, ExtentFinite, FS_CardinalityType
<1>3. PICK n \in Nat, l \in Nat : n = Cardinality(Extent(StoreDims)) /\ l = Len(dset.type)
  BY <1>1, <1>2 DEF Size
<1>4. l * n \in Nat
  OBVIOUS
<1> QED
  BY <1>3, <1>4 DEF Bound

\* The units of a chunk's elements are in the chunk.
LEMMA UnitsBound ==
    ASSUME NEW r, NEW here, AtChunk(r, here)
    PROVE  UnitsOf(here.fspace) \subseteq 0 .. Bound - 1
<1> SUFFICES ASSUME NEW u \in UnitsOf(here.fspace) PROVE u \in 0 .. Bound - 1
  OBVIOUS
<1>1. /\ Dim \in Nat /\ Len(dset.type) \in Size /\ InExtent(Dim, here.fspace) /\ here.fspace.dims = StoreDims
  BY AtChunkIs
<1>2. PICK size \in Size : size = Len(dset.type)
  BY <1>1
<1>3. PICK o \in Places(here.fspace), i \in 0 .. size - 1 : u = UnitAt(o, size, i)
  BY <1>2 DEF UnitsOf, Units
<1>4. PICK x \in here.fspace.sel : o = Linear(StoreDims, x)
  BY <1>1 DEF Places
<1>5. PICK n : n = Cardinality(Extent(StoreDims))
  OBVIOUS
<1>6. o \in Nat /\ n \in Nat /\ o < n
  <2>1. StoreDims \in Coordinates(Dim) /\ x \in Extent(StoreDims)
    BY <1>1 DEF InExtent
  <2> QED
    BY <1>1, <1>4, <1>5, <2>1, LinearBound
<1>7. size \in Nat /\ 0 \in 0 .. size - 1
  BY DEF Size
<1>8. u \in Nat /\ u < UnitAt(n, size, 0)
  BY <1>3, <1>6, <1>7, UnitOrder
<1>9. UnitAt(n, size, 0) = size * n /\ size * n \in Nat
  <2>1. n * size = size * n /\ n * size \in Nat
    BY <1>6, <1>7
  <2> QED
    BY <2>1 DEF UnitAt
<1>10. Bound = size * n
  BY <1>2, <1>5 DEF Bound
<1> QED
  BY <1>8, <1>9, <1>10

\* What is read through build_io_op_contig is in the buffer in order, and stays within a
\* chunk's length.
LEMMA ContigIs ==
    ASSUME NEW r, NEW here, AtChunk(r, here)
    PROVE  LET ops == build_io_op_contig(here.fspace, Len(dset.type))
               U == UnitsOf(here.fspace)
           IN  /\ \A x \in U : <<Below(U, x), x>> \in Moves(ops)
               /\ \A m, n \in Moves(ops) : m[1] = n[1] => m[2] = n[2]
               /\ \A m \in Moves(ops) : m[1] \in 0 .. Bound - 1
               /\ From(ops) \subseteq 0 .. Bound - 1
<1> PICK ops, U : ops = build_io_op_contig(here.fspace, Len(dset.type)) /\ U = UnitsOf(here.fspace)
  OBVIOUS
<1>1. /\ Dim \in Nat /\ Len(dset.type) \in Size /\ InExtent(Dim, here.fspace)
  BY AtChunkIs
<1>2. U = Units(Places(here.fspace), Len(dset.type))
  BY DEF UnitsOf
<1>3. Moves(ops) = {<<Below(U, x), x>> : x \in U}
  BY <1>1, <1>2, ContigMoves
<1>4. Numbers(U)
  BY <1>1, <1>2, PlacesAre, UnitsBelow
<1>5. \A x, z \in U : Below(U, x) = Below(U, z) => x = z
  BY <1>4, BelowOnto
<1>6. Bound \in Nat /\ U \subseteq 0 .. Bound - 1
  BY UnitsBound, BoundIs DEF AtChunk
<1>7. ASSUME NEW x \in U PROVE Below(U, x) \in 0 .. Bound - 1
  <2>1. Cardinality(U) \in Nat /\ Cardinality(U) <= Bound
    <3>1. IsFiniteSet(0 .. Bound - 1) /\ Cardinality(0 .. Bound - 1) = Bound
      <4>1. 0 \in Int /\ Bound - 1 \in Int
        BY <1>6
      <4>2. Cardinality(0 .. Bound - 1) = IF 0 > Bound - 1 THEN 0 ELSE (Bound - 1) - 0 + 1
        BY <4>1, FS_Interval
      <4> QED
        BY <1>6, <4>1, <4>2, FS_Interval
    <3> QED
      BY <1>6, <3>1, FS_Subset, FS_CardinalityType
  <2>2. Below(U, x) \in 0 .. Cardinality(U) - 1
    BY <1>4, BelowOnto
  <2> QED
    BY <1>6, <2>1, <2>2
<1>8. ASSUME NEW m \in Moves(ops) PROVE m[1] \in 0 .. Bound - 1
  <2>1. PICK x \in U : m = <<Below(U, x), x>>
    BY <1>3
  <2> QED
    BY <1>7, <2>1
<1>9. From(ops) \subseteq 0 .. Bound - 1
  BY <1>8 DEF From
<1>10. \A x \in U : <<Below(U, x), x>> \in Moves(ops)
  BY <1>3
<1>11. ASSUME NEW m \in Moves(ops), NEW n \in Moves(ops), m[1] = n[1] PROVE m[2] = n[2]
  <2>1. PICK x \in U, z \in U : m = <<Below(U, x), x>> /\ n = <<Below(U, z), z>>
    BY <1>3
  <2> QED
    BY <1>5, <1>11, <2>1
<1> QED
  BY <1>8, <1>9, <1>10, <1>11

\* The length of the buffer.
LEMMA RoomUnits ==
    ASSUME IsDataset(dset), NEW call, IsCall(dset, call)
    PROVE  Len(call.type) \in Nat /\ BufferUnits(call) \in Nat
<1>1. PICK n, t : n = Cardinality(Extent(StoreDims)) /\ t = Len(call.type)
  OBVIOUS
<1>2. n \in Nat
  BY <1>1, BoundIs
<1>3. t \in Nat
  <2>1. PICK q, T : q = call.type /\ T = Range(q)
    OBVIOUS
  <2>2. q \in Seq(T)
    BY <2>1 DEF IsCall, IsType
  <2> QED
    BY <1>1, <2>1, <2>2
<1>4. n * t \in Nat
  BY <1>2, <1>3
<1> QED
  BY <1>1, <1>3, <1>4 DEF BufferUnits

\* A buffer with room for elements of the dataset's type has room for a chunk of them.
LEMMA RoomIs ==
    ASSUME IsDataset(dset), NEW call, IsCall(dset, call), HasRoom(call)
    PROVE  \A o \in 0 .. Bound - 1 : o \in 0 .. BufferUnits(call) - 1
<1>1. PICK n, l, t : n = Cardinality(Extent(StoreDims)) /\ l = Len(dset.type) /\ t = Len(call.type)
  OBVIOUS
<1>2. n \in Nat /\ l \in Nat
  BY <1>1, BoundIs
<1>3. t \in Nat
  BY <1>1, RoomUnits
<1>4. t >= l
  BY <1>1 DEF HasRoom
<1>5. PICK d \in Nat : t = l + d
  <2>1. t - l \in Nat /\ t = l + (t - l)
    BY <1>2, <1>3, <1>4
  <2> QED
    BY <2>1
<1>6. n * t = l * n + n * d /\ l * n \in Nat /\ n * d \in Nat
  BY <1>2, <1>5
<1>7. Bound = l * n /\ BufferUnits(call) = n * t
  BY <1>1 DEF Bound, BufferUnits
<1>8. PICK a \in Nat, b \in Nat : a = l * n /\ b = n * d
  BY <1>6
<1>9. Bound = a /\ BufferUnits(call) = a + b
  BY <1>6, <1>7, <1>8
<1> QED
  BY <1>9

\* So does the conversion, with the background read or with nothing to leave.
LEMMA ConvertDelivers ==
    ASSUME NEW r, NEW here, AtChunk(r, here),
           \/ Background(r, here) /\ HasRoom(Call(r))
           \/ MembersOf(dset.type) \subseteq MembersOf(Call(r).type),
           NEW ops, ops = build_io_op_contig(here.fspace, Len(dset.type)),
           NEW source, source = [o \in From(ops) |-> Converted(r, here.mspace, o)]
    PROVE  Delivers(r, here, ops, source)
<1> DEFINE size == Len(dset.type)
           Uf == UnitsOf(here.fspace)
<1>1. /\ Dim \in Nat /\ MemDim(Call(r)) \in Nat /\ size \in Size
      /\ InExtent(Dim, here.fspace) /\ InExtent(MemDim(Call(r)), here.mspace)
  BY AtChunkIs
<1>2. PICK f : f = [x \in Uf |-> Below(Uf, x)]
  OBVIOUS
<1>3. Pairs(ops, f, Uf)
  <2>1. Uf = Units(Places(here.fspace), size)
    BY DEF UnitsOf
  <2> HIDE DEF Uf
  <2> QED
    BY <1>1, <1>2, <2>1, ContigPairs
<1> HIDE DEF Uf
<1>4. To(ops) = Uf /\ \A x \in Uf : Source(ops, x) = f[x] /\ f[x] \in From(ops)
  BY <1>3, SourceIs
<1>5. ASSUME NEW c \in Call(r).fsel, Coords(c) = here.chunk_coords,
             NEW j \in 1 .. size, dset.type[j] \in MembersOf(dset.type)
      PROVE  Meant(r, c, j, source[Source(ops, Offset(c, j))])
  <2>1. PICK y : y = Array!Place(AbstractCall(Call(r)), c)
    OBVIOUS
  <2>2. PICK n : n = PlaceIn(MemDim(Call(r)), here.mspace.sel, y)
    OBVIOUS
  <2>3. /\ Offset(c, j) \in Uf /\ Below(Uf, Offset(c, j)) = UnitAt(n, size, j - 1) /\ n \in Nat
        /\ y \in here.mspace.sel /\ j - 1 \in 0 .. size - 1
    BY <1>5, <2>1, <2>2, ElementIs DEF Uf
  <2>4. PICK o : o = UnitAt(n, size, j - 1)
    OBVIOUS
  <2>5. Source(ops, Offset(c, j)) = o /\ o \in From(ops)
    BY <1>2, <1>4, <2>3, <2>4
  <2>6. o \div size = n /\ (o % size) + 1 = j
    <3>1. o \div size = n /\ o % size = j - 1 /\ size \in Nat
      BY <1>1, <2>3, <2>4, UnitIs DEF Size
    <3>2. (j - 1) + 1 = j
      BY <3>1
    <3> QED
      BY <3>1, <3>2
  <2>7. Gathered(here.mspace)[n + 1] = y
    BY <1>1, <2>2, <2>3, GatheredIs
  <2>8. source[Source(ops, Offset(c, j))] = Converted(r, here.mspace, o)
    BY <2>5
  <2>9. Converted(r, here.mspace, o)
          = IF dset.type[j] \in MembersOf(Call(r).type) THEN <<r, Call(r).buf, y, dset.type[j]>>
            ELSE Kept(r, o)
    <3>1. Converted(r, here.mspace, o)
            = IF dset.type[(o % size) + 1] \in MembersOf(Call(r).type)
              THEN <<r, Call(r).buf, Gathered(here.mspace)[(o \div size) + 1], dset.type[(o % size) + 1]>>
              ELSE Kept(r, o)
      BY DEF Converted
    <3> QED
      BY <2>6, <2>7, <3>1
  <2>10. CASE dset.type[j] \in MembersOf(Call(r).type)
    BY <2>1, <2>8, <2>9, <2>10 DEF Meant
  <2>11. CASE dset.type[j] \notin MembersOf(Call(r).type)
    <3>1. Background(r, here) /\ HasRoom(Call(r))
      BY <1>5, <2>11
    <3>2. SUFFICES ASSUME Unit(c, j) # Junk PROVE Kept(r, o) = Unit(c, j)
      BY <2>8, <2>9, <2>11 DEF Meant
    <3>3. PICK obj : obj = ObjectAt(here.chunk_coords)
      OBVIOUS
    <3>4. Offset(c, j) \in DOMAIN obj /\ Unit(c, j) = obj[Offset(c, j)]
      BY <1>5, <3>2, <3>3, UnitFrom DEF ObjectAt
    <3>5. <<o, Offset(c, j)>> \in Moves(ops)
      <4>1. \A x \in Uf : <<Below(Uf, x), x>> \in Moves(ops)
        BY ContigIs DEF Uf
      <4> QED
        BY <2>3, <2>4, <4>1
    <3>6. o \in DOMAIN bkg_buf[r] /\ bkg_buf[r][o] = obj[Offset(c, j)]
      <4>1. PICK m : m = <<o, Offset(c, j)>>
        OBVIOUS
      <4>2. m \in Moves(ops) /\ m[1] = o /\ m[2] = Offset(c, j)
        BY <3>5, <4>1
      <4> QED
        BY <3>1, <3>3, <3>4, <4>2 DEF Background, Holds
    <3>7. o < BufferUnits(Call(r))
      <4>1. o \in 0 .. Bound - 1
        BY <2>5, ContigIs
      <4>2. o \in 0 .. BufferUnits(Call(r)) - 1
        BY <3>1, <4>1, RoomIs DEF AtChunk
      <4>3. BufferUnits(Call(r)) \in Int
        BY RoomUnits DEF AtChunk
      <4> QED
        BY <4>2, <4>3
    <3> QED
      BY <3>4, <3>6, <3>7 DEF Kept
  <2> QED
    BY <2>10, <2>11
<1> QED
  BY <1>5 DEF Delivers

(***************************************************************************)
(* The invariant of the objects: the chunks lie with their counterparts,   *)
(* what the object has of what a rank has read for the conversion to leave *)
(* is in the rank's buffer, and objects and buffers are no longer than a   *)
(* chunk.                                                                  *)
(***************************************************************************)
PairedInv == \A r \in Ranks : \A i \in DOMAIN chunk_info[r] : ChunkIs(Call(r), chunk_info[r][i])
ApartInv == \A r \in Ranks : Running(r) => MayBegin(r)
BackgroundAt(r) == pc[r] = "convert" => fill_bkg(Call(r)) /\ Background(r, Here(r))
BackgroundInv == \A r \in Ranks : BackgroundAt(r)
BoundInv == \A at \in DOMAIN object : DOMAIN object[at] \subseteq 0 .. Bound - 1
BufferInv == \A r \in Ranks : DOMAIN bkg_buf[r] \subseteq 0 .. Bound - 1

\* A rank with a chunk left is at the first of these.
LEMMA HereIs ==
    ASSUME WriteInv, PairedInv, NEW r \in Ranks, Running(r), chunk_info[r] # << >>
    PROVE  /\ AtChunk(r, Here(r)) /\ 1 \in DOMAIN chunk_info[r] /\ Here(r) = chunk_info[r][1]
           /\ chunk_info[r] \in Seq(Range(chunk_info[r]))
<1>1. chunk_info[r] \in Seq(Range(chunk_info[r])) /\ todo[r] # << >>
  BY RankIs DEF ControlAt
<1>2. 1 \in DOMAIN chunk_info[r] /\ Here(r) = chunk_info[r][1]
  <2>1. PICK q, S : q = chunk_info[r] /\ S = Range(q)
    OBVIOUS
  <2>2. q \in Seq(S) /\ q # << >>
    BY <1>1, <2>1
  <2>3. 1 \in DOMAIN q /\ Head(q) = q[1]
    BY <2>2
  <2> QED
    BY <2>1, <2>3 DEF Here
<1>3. ChunkIs(Call(r), Here(r))
  BY <1>2 DEF PairedInv
<1>4. IsDataset(dset) /\ IsCall(dset, Call(r)) /\ TakenFrom(Call(r), chunk_info[r])
  BY <1>1, RankIs
<1>5. Taken(Call(r), Here(r))
  BY <1>2, <1>3, <1>4 DEF TakenFrom, Taken
<1> QED
  BY <1>1, <1>2, <1>4, <1>5 DEF AtChunk

\* A read brings what the object has, and stays within a chunk's length.
LEMMA ReadIs ==
    ASSUME NEW r, NEW here, AtChunk(r, here), NEW obj, NEW old, DOMAIN old \subseteq 0 .. Bound - 1
    PROVE  LET bkg == ReadInto(build_io_op_contig(here.fspace, Len(dset.type)), obj, old)
           IN  Holds(bkg, here.fspace, obj) /\ DOMAIN bkg \subseteq 0 .. Bound - 1
<1> PICK ops, bkg : /\ ops = build_io_op_contig(here.fspace, Len(dset.type))
                    /\ bkg = ReadInto(ops, obj, old)
  OBVIOUS
<1>1. /\ \A m, n \in Moves(ops) : m[1] = n[1] => m[2] = n[2]
      /\ \A m \in Moves(ops) : m[1] \in 0 .. Bound - 1
  BY ContigIs
<1>2. From(ops) \subseteq 0 .. Bound - 1
  BY <1>1 DEF From
<1>3. PICK got, from : got = {m \in Moves(ops) : m[2] \in DOMAIN obj} /\ from = {m[1] : m \in got}
  OBVIOUS
<1>4. bkg = [o \in DOMAIN old \union from |->
                IF o \in from THEN obj[(CHOOSE m \in got : m[1] = o)[2]] ELSE old[o]]
  BY <1>3 DEF ReadInto
<1>5. from \subseteq From(ops)
  BY <1>3 DEF From
<1>6. ASSUME NEW m \in Moves(ops), m[2] \in DOMAIN obj
      PROVE  m[1] \in DOMAIN bkg /\ bkg[m[1]] = obj[m[2]]
  <2>1. m \in got /\ m[1] \in from
    BY <1>3, <1>6
  <2>2. \A n \in got : n[1] = m[1] => n[2] = m[2]
    BY <1>1, <1>3, <1>6
  <2>3. (CHOOSE n \in got : n[1] = m[1])[2] = m[2]
    BY <2>1, <2>2
  <2> QED
    BY <1>4, <2>1, <2>3
<1>7. Holds(bkg, here.fspace, obj)
  BY <1>6 DEF Holds
<1>8. DOMAIN bkg \subseteq 0 .. Bound - 1
  BY <1>2, <1>4, <1>5
<1> QED
  BY <1>7, <1>8

\* Selections that have no element in common have no unit in common.
LEMMA UnitsApart ==
    ASSUME NEW r, NEW here, AtChunk(r, here), NEW s, NEW other, AtChunk(s, other),
           here.chunk_coords = other.chunk_coords, Call(r).fsel \intersect Call(s).fsel = {}
    PROVE  UnitsOf(here.fspace) \intersect UnitsOf(other.fspace) = {}
<1> SUFFICES ASSUME NEW u \in UnitsOf(here.fspace), u \in UnitsOf(other.fspace) PROVE FALSE
  OBVIOUS
<1>1. /\ Dim \in Nat /\ Len(dset.type) \in Size
      /\ InExtent(Dim, here.fspace) /\ InExtent(Dim, other.fspace)
      /\ here.fspace.dims = StoreDims /\ other.fspace.dims = StoreDims
  BY AtChunkIs
<1>2. PICK size \in Size : size = Len(dset.type)
  BY <1>1
<1>3. PICK o \in Places(here.fspace), i \in 0 .. size - 1 : u = UnitAt(o, size, i)
  BY <1>2 DEF UnitsOf, Units
<1>4. PICK p \in Places(other.fspace), j \in 0 .. size - 1 : u = UnitAt(p, size, j)
  BY <1>2 DEF UnitsOf, Units
<1>5. o = p
  <2>1. o \in Nat /\ p \in Nat
    BY <1>1, <1>3, <1>4, PlacesAre DEF Numbers
  <2>2. UnitAt(o, size, i) = UnitAt(p, size, j) <=> o = p /\ i = j
    BY <2>1, UnitOrder
  <2> QED
    BY <1>3, <1>4, <2>2
<1>6. PICK x \in here.fspace.sel : o = Linear(StoreDims, x)
  BY <1>1 DEF Places
<1>7. PICK z \in other.fspace.sel : p = Linear(StoreDims, z)
  BY <1>1 DEF Places
<1>8. StoreDims \in Coordinates(Dim) /\ x \in Extent(StoreDims) /\ z \in Extent(StoreDims)
  BY <1>1 DEF InExtent
<1>9. x = z
  BY <1>1, <1>5, <1>6, <1>7, <1>8, LinearBefore
<1>10. Plus(x, here.chunk_coords) \in Call(r).fsel /\ Plus(z, other.chunk_coords) \in Call(s).fsel
  BY DEF AtChunk, Taken, Moved
<1> QED
  BY <1>9, <1>10

\* A step that writes a chunk, with whatever list of transfers.
WritesChunk(r, ops, source) ==
    /\ Running(r) /\ chunk_info[r] # << >> /\ AtChunk(r, Here(r))
    /\ WriteObject(r, ops, source) /\ To(ops) = UnitsOf(Here(r).fspace)

\* A chunk is written with one of the three lists.
LEMMA WriteIs ==
    ASSUME WriteInv, PairedInv, NEW r \in Ranks, WriteEqual(r) \/ WriteConverted(r)
    PROVE  \E ops, source : WritesChunk(r, ops, source)
<1>1. Running(r) /\ chunk_info[r] # << >>
  BY RankIs DEF WriteEqual, WriteConverted, ControlAt, Running
<1>2. AtChunk(r, Here(r))
  BY <1>1, HereIs
<1>3. CASE WriteEqual(r)
  <2>1. PICK source, ops : /\ WriteObject(r, ops, source)
                           /\ \/ ops = build_io_op_match(Here(r).fspace, Len(dset.type))
                              \/ ops = build_io_op_merge(Here(r).mspace, Here(r).fspace, Len(dset.type))
    BY <1>3 DEF WriteEqual
  <2> QED
    BY <1>1, <1>2, <2>1, ListsTo DEF WritesChunk
<1>4. CASE WriteConverted(r)
  <2>1. PICK source, ops : /\ WriteObject(r, ops, source)
                           /\ ops = build_io_op_contig(Here(r).fspace, Len(dset.type))
    BY <1>4 DEF WriteConverted
  <2> QED
    BY <1>1, <1>2, <2>1, ListsTo DEF WritesChunk
<1> QED
  BY <1>3, <1>4

\* What is written.
LEMMA ObjectIs ==
    ASSUME NEW r, NEW here, here = Here(r), NEW ops, NEW source, WritesChunk(r, ops, source), NEW at
    PROVE  /\ at # here.chunk_coords => /\ at \in DOMAIN object' <=> at \in DOMAIN object
                                        /\ ObjectAt(at)' = ObjectAt(at)
           /\ at = here.chunk_coords =>
                 /\ at \in DOMAIN object'
                 /\ DOMAIN object'[at] = DOMAIN ObjectAt(at) \union UnitsOf(here.fspace)
                 /\ \A to \in UnitsOf(here.fspace) : object'[at][to] = source[Source(ops, to)]
                 /\ \A to \in DOMAIN ObjectAt(at) \ UnitsOf(here.fspace) :
                       object'[at][to] = ObjectAt(at)[to]
<1>1. object' = [a \in DOMAIN object \union {here.chunk_coords} |->
                    IF a = here.chunk_coords THEN Written(ObjectAt(here.chunk_coords), ops, source)
                    ELSE object[a]]
  BY DEF WritesChunk, WriteObject, Object, ObjectAt
<1>2. To(ops) = UnitsOf(here.fspace)
  BY DEF WritesChunk
<1>3. CASE at # here.chunk_coords
  BY <1>1, <1>3 DEF ObjectAt
<1>4. CASE at = here.chunk_coords
  <2>1. at \in DOMAIN object' /\ object'[at] = Written(ObjectAt(at), ops, source)
    BY <1>1, <1>4
  <2>2. PICK obj : obj = ObjectAt(at)
    OBVIOUS
  <2>3. object'[at] = Written(obj, ops, source)
    BY <2>1, <2>2
  <2>4. PICK W : W = Written(obj, ops, source)
    OBVIOUS
  <2>5. /\ DOMAIN W = DOMAIN obj \union To(ops) /\ \A to \in To(ops) : W[to] = source[Source(ops, to)]
        /\ \A to \in DOMAIN obj \ To(ops) : W[to] = obj[to]
    BY <2>4 DEF Written, Source
  <2> QED
    BY <1>2, <1>4, <2>1, <2>2, <2>3, <2>4, <2>5
<1> QED
  BY <1>3, <1>4

ObjectInv == WriteInv /\ PairedInv /\ ApartInv /\ BackgroundInv /\ BoundInv /\ BufferInv

\* What depends on the dataset and the call alone.
LEMMA CallSame ==
    ASSUME dset' = dset, NEW r, Call(r)' = Call(r)
    PROVE  /\ fill_bkg(Call(r))' = fill_bkg(Call(r))
           /\ \A here : ChunkIs(Call(r), here) => ChunkIs(Call(r), here)'
           /\ \A space : UnitsOf(space)' = UnitsOf(space)
<1>1. fill_bkg(Call(r))' = fill_bkg(Call(r))
  BY DEF fill_bkg, types_equal
<1>2. \A space : UnitsOf(space)' = UnitsOf(space)
  BY DEF UnitsOf
<1>3. /\ StoreDims' = StoreDims /\ real_mem_space(Call(r))' = real_mem_space(Call(r)) /\ Dim' = Dim
      /\ MemDim(Call(r))' = MemDim(Call(r)) /\ \A c : Coords(c)' = Coords(c)
  BY DEF StoreDims, real_mem_space, real_file_space, Dim, MemDim, Coords
<1>4. ASSUME NEW here, ChunkIs(Call(r), here) PROVE ChunkIs(Call(r), here)'
  BY <1>3, <1>4 DEF ChunkIs
<1> QED
  BY <1>1, <1>2, <1>4

\* The chunks of ranks that do not step lie as they did.
LEMMA PairedKept ==
    ASSUME WriteInv, PairedInv, dset' = dset, NEW r \in Ranks,
           \A s \in Ranks \ {r} : todo'[s] = todo[s] /\ chunk_info'[s] = chunk_info[s],
           \A i \in DOMAIN chunk_info'[r] :
               Call(r)' = Call(r) /\ ChunkIs(Call(r), chunk_info'[r][i])
    PROVE  PairedInv'
<1> SUFFICES ASSUME NEW s \in Ranks, NEW i, i \in DOMAIN chunk_info'[s]
             PROVE  ChunkIs(Call(s), chunk_info[s][i])'
  BY DEF PairedInv
<1>1. Call(s)' = Call(s) /\ ChunkIs(Call(s), chunk_info'[s][i])
  <2>1. CASE s = r
    BY <2>1
  <2>2. CASE s # r
    <3>1. todo'[s] = todo[s] /\ chunk_info'[s] = chunk_info[s]
      BY <2>2
    <3> QED
      BY <3>1 DEF PairedInv, Call
  <2> QED
    BY <2>1, <2>2
<1>2. PICK here : here = chunk_info'[s][i]
  OBVIOUS
<1>3. ChunkIs(Call(s), here)'
  BY <1>1, <1>2, CallSame
<1>4. (Call(s))' = Call(s)
  BY <1>1
<1> QED
  BY <1>2, <1>3, <1>4 DEF ChunkIs

\* Ranks that do not step are as far apart as they were.
LEMMA ApartKept ==
    ASSUME ApartInv, dset' = dset, NEW r \in Ranks,
           \A s \in Ranks \ {r} : todo'[s] = todo[s] /\ pc'[s] = pc[s],
           Running(r)' => todo'[r] = todo[r] /\ MayBegin(r)
    PROVE  ApartInv'
<1> SUFFICES ASSUME NEW s \in Ranks, Running(s)', NEW t \in Ranks \ {s}, Running(t)',
                    fill_bkg(Call(t))' \/ fill_bkg(Call(s))'
             PROVE  Call(t)'.fsel \intersect Call(s)'.fsel = {}
  BY DEF ApartInv, MayBegin
<1>1. Call(s)' = Call(s) /\ Call(t)' = Call(t)
  BY DEF Call
<1>2. fill_bkg(Call(t)) \/ fill_bkg(Call(s))
  BY <1>1, CallSame
<1>3. \A q \in Ranks \ {r} : Running(q)' => Running(q)
  BY DEF Running
<1>4. CASE s = r
  BY <1>1, <1>2, <1>3, <1>4 DEF MayBegin
<1>5. CASE t = r
  BY <1>1, <1>2, <1>3, <1>5 DEF MayBegin
<1>6. CASE s # r /\ t # r
  BY <1>1, <1>2, <1>3, <1>6 DEF MayBegin, ApartInv
<1> QED
  BY <1>4, <1>5, <1>6

\* Of a rank that does not move, when what it has read is not written.
LEMMA BackgroundKept ==
    ASSUME WriteInv, PairedInv, NEW s \in Ranks, BackgroundAt(s), dset' = dset, todo'[s] = todo[s], pc'[s] = pc[s],
           chunk_info'[s] = chunk_info[s], bkg_buf'[s] = bkg_buf[s],
           pc[s] = "convert" =>
               \A x \in UnitsOf(Here(s).fspace) :
                  LET old == ObjectAt(Here(s).chunk_coords)
                      new == ObjectAt(Here(s).chunk_coords)'
                  IN  x \in DOMAIN new => x \in DOMAIN old /\ new[x] = old[x]
    PROVE  BackgroundAt(s)'
<1> SUFFICES ASSUME pc[s] = "convert" PROVE BackgroundAt(s)'
  BY DEF BackgroundAt
<1>1. Call(s)' = Call(s) /\ Here(s)' = Here(s)
  BY DEF Call, Here
<1>2. fill_bkg(Call(s))'
  BY <1>1, CallSame DEF BackgroundAt
<1>3. PICK U, old, new, ops :
        /\ U = UnitsOf(Here(s).fspace) /\ old = ObjectAt(Here(s).chunk_coords)
        /\ new = ObjectAt(Here(s).chunk_coords)'
        /\ ops = build_io_op_contig(Here(s).fspace, Len(dset.type))
  OBVIOUS
<1>4. To(ops) = U
  <2>1. AtChunk(s, Here(s))
    BY HereIs, RankIs DEF Running, ControlAt
  <2> QED
    BY <1>3, <2>1, ListsTo
<1>5. \A x \in U : x \in DOMAIN new => x \in DOMAIN old /\ new[x] = old[x]
  BY <1>3
<1>6. \A m \in Moves(ops) : m[2] \in DOMAIN old =>
          m[1] \in DOMAIN bkg_buf[s] /\ bkg_buf[s][m[1]] = old[m[2]]
  BY <1>3 DEF BackgroundAt, Background, Holds
<1>7. \A m \in Moves(ops) : m[2] \in U
  BY <1>4 DEF To
<1>8. \A m \in Moves(ops) : m[2] \in DOMAIN new =>
          m[1] \in DOMAIN bkg_buf[s] /\ bkg_buf[s][m[1]] = new[m[2]]
  BY <1>5, <1>6, <1>7
<1>9. Background(s, Here(s))'
  BY <1>1, <1>3, <1>8 DEF Background, Holds
<1> QED
  BY <1>2, <1>9 DEF BackgroundAt

\* Backgrounds are what the objects have, while no object changes.
LEMMA BackgroundsKept ==
    ASSUME WriteInv, PairedInv, BackgroundInv, dset' = dset, object' = object, NEW r \in Ranks, BackgroundAt(r)',
           \A s \in Ranks \ {r} : /\ todo'[s] = todo[s] /\ pc'[s] = pc[s]
                                  /\ chunk_info'[s] = chunk_info[s] /\ bkg_buf'[s] = bkg_buf[s]
    PROVE  BackgroundInv'
<1> SUFFICES ASSUME NEW s \in Ranks \ {r} PROVE BackgroundAt(s)'
  BY DEF BackgroundInv
<1>1. BackgroundAt(s) /\ todo'[s] = todo[s] /\ pc'[s] = pc[s]
      /\ chunk_info'[s] = chunk_info[s] /\ bkg_buf'[s] = bkg_buf[s]
  BY DEF BackgroundInv
<1>2. Here(s)' = Here(s)
  BY <1>1 DEF Here
<1>3. ObjectAt(Here(s).chunk_coords)' = ObjectAt(Here(s).chunk_coords)
  BY <1>2 DEF ObjectAt
<1> QED
  BY <1>1, <1>3, BackgroundKept

\* The step of a rank that leaves the objects alone.
LEMMA QuietStep ==
    ASSUME ObjectInv, WriteInv', NEW r \in Ranks, dset' = dset, object' = object,
           \A s \in Ranks \ {r} : /\ todo'[s] = todo[s] /\ pc'[s] = pc[s]
                                  /\ chunk_info'[s] = chunk_info[s] /\ bkg_buf'[s] = bkg_buf[s],
           \A i \in DOMAIN chunk_info'[r] :
               Call(r)' = Call(r) /\ ChunkIs(Call(r), chunk_info'[r][i]),
           Running(r)' => todo'[r] = todo[r] /\ MayBegin(r),
           BackgroundAt(r)', DOMAIN bkg_buf'[r] \subseteq 0 .. Bound - 1
    PROVE  ObjectInv'
<1>1. WriteInv /\ PairedInv /\ ApartInv /\ BackgroundInv /\ BoundInv /\ BufferInv
  BY DEF ObjectInv
<1>2. PairedInv'
  BY <1>1, PairedKept
<1>3. ApartInv'
  BY <1>1, ApartKept
<1>4. BackgroundInv'
  BY <1>1, BackgroundsKept
<1>5. Bound' = Bound
  BY DEF Bound, StoreDims
<1>6. BoundInv' /\ BufferInv'
  BY <1>1, <1>5 DEF BoundInv, BufferInv
<1> QED
  BY <1>2, <1>3, <1>4, <1>6 DEF ObjectInv

\* A call that writes nothing leaves all as it is.
LEMMA NothingSteps ==
    ASSUME ObjectInv, WriteInv', NEW r \in Ranks, WriteNothing(r)
    PROVE  ObjectInv'
<1>1. /\ pc[r] = "idle" /\ todo[r] # << >> /\ UNCHANGED <<dset, pc, chunk_info, bkg_buf, object>>
      /\ todo' = [todo EXCEPT ![r] = Tail(@)] /\ WriteInv
  BY DEF WriteNothing, ObjectInv
<1>2. chunk_info[r] = << >>
  BY <1>1, RankIs DEF ControlAt, Running
<1>3. ~Running(r)' /\ BackgroundAt(r)' /\ DOMAIN chunk_info'[r] = {}
  BY <1>1, <1>2 DEF Running, BackgroundAt
<1>4. /\ \A s \in Ranks \ {r} : todo'[s] = todo[s]
      /\ DOMAIN bkg_buf'[r] \subseteq 0 .. Bound - 1
  BY <1>1 DEF ObjectInv, BufferInv
<1> QED
  BY <1>1, <1>3, <1>4, QuietStep

\* A call begins only apart from those that run, and with its chunks in place.
LEMMA BeginSteps ==
    ASSUME ObjectInv, WriteInv', NEW r \in Ranks, Begin(r)
    PROVE  ObjectInv'
<1>1. /\ pc[r] = "idle" /\ todo[r] # << >> /\ MayBegin(r) /\ Call(r).fsel # {}
      /\ UNCHANGED <<dset, todo, bkg_buf, object>> /\ WriteInv /\ Call(r)' = Call(r)
  BY DEF Begin, ObjectInv, Call
<1>2. /\ chunk_info[r] = << >> /\ IsDataset(dset) /\ IsCall(dset, Call(r))
      /\ DOMAIN pc = Ranks /\ DOMAIN chunk_info = Ranks /\ DOMAIN bkg_buf'[r] \subseteq 0 .. Bound - 1
  BY <1>1, RankIs DEF ControlAt, Running, WriteInv, ControlInv, ObjectInv, BufferInv
<1>3. CASE Mismatch(Call(r))
  <2>1. chunk_info' = chunk_info /\ pc' = [pc EXCEPT ![r] = "dead"]
    BY <1>3 DEF Begin, Goto
  <2>2. ~Running(r)' /\ BackgroundAt(r)' /\ DOMAIN chunk_info'[r] = {}
    BY <1>2, <2>1 DEF Running, BackgroundAt
  <2> QED
    BY <1>1, <1>2, <2>1, <2>2, QuietStep
<1>4. CASE ~Mismatch(Call(r))
  <2>1. PICK infos : infos = Chunks(Call(r))
    OBVIOUS
  <2>2. chunk_info' = [chunk_info EXCEPT ![r] = infos] /\ pc' = [pc EXCEPT ![r] = "chunk"]
    BY <1>4, <2>1 DEF Begin, Goto
  <2>3. \A i \in DOMAIN infos : ChunkIs(Call(r), infos[i])
    BY <1>1, <1>2, <1>4, <2>1, ChunksPaired
  <2>4. chunk_info'[r] = infos /\ pc'[r] = "chunk"
        /\ \A s \in Ranks \ {r} : pc'[s] = pc[s] /\ chunk_info'[s] = chunk_info[s]
    BY <1>2, <2>2
  <2>5. BackgroundAt(r)'
    BY <2>4 DEF BackgroundAt
  <2> QED
    BY <1>1, <1>2, <2>3, <2>4, <2>5, QuietStep
<1> QED
  BY <1>3, <1>4

\* What is read of an object is what it has.
LEMMA BackgroundSteps ==
    ASSUME ObjectInv, WriteInv', NEW r \in Ranks, ReadBackground(r)
    PROVE  ObjectInv'
<1>1. /\ pc[r] = "chunk" /\ chunk_info[r] # << >> /\ fill_bkg(Call(r))
      /\ UNCHANGED <<dset, todo, chunk_info, object>> /\ WriteInv /\ PairedInv
      /\ pc' = [pc EXCEPT ![r] = "convert"] /\ Call(r)' = Call(r) /\ Here(r)' = Here(r)
  BY DEF ReadBackground, ObjectInv, Call, Goto, Here
<1>2. Running(r) /\ todo[r] # << >> /\ MayBegin(r)
  BY <1>1, RankIs DEF ControlAt, Running, ObjectInv, ApartInv
<1>3. AtChunk(r, Here(r))
  BY <1>1, <1>2, HereIs
<1>4. PICK obj, ops : /\ obj = ObjectAt(Here(r).chunk_coords)
                      /\ ops = build_io_op_contig(Here(r).fspace, Len(dset.type))
  OBVIOUS
<1>5. PICK bkg : bkg = ReadInto(ops, obj, bkg_buf[r])
  OBVIOUS
<1>6. bkg_buf' = [bkg_buf EXCEPT ![r] = bkg]
  BY <1>4, <1>5 DEF ReadBackground, Object, ObjectAt
<1>7. DOMAIN pc = Ranks /\ DOMAIN bkg_buf = Ranks
  BY <1>1 DEF WriteInv, ControlInv
<1>8. bkg_buf'[r] = bkg /\ \A s \in Ranks \ {r} : pc'[s] = pc[s] /\ bkg_buf'[s] = bkg_buf[s]
  BY <1>1, <1>6, <1>7
<1>9. Holds(bkg, Here(r).fspace, obj) /\ DOMAIN bkg \subseteq 0 .. Bound - 1
  <2>1. PICK here, old : here = Here(r) /\ old = bkg_buf[r]
    OBVIOUS
  <2>2. AtChunk(r, here) /\ DOMAIN old \subseteq 0 .. Bound - 1
    BY <1>3, <2>1 DEF ObjectInv, BufferInv
  <2> QED
    BY <1>4, <1>5, <2>1, <2>2, ReadIs
<1>10. Background(r, Here(r))'
  <2>1. Holds(bkg, Here(r).fspace, obj)'
    BY <1>1, <1>9 DEF Holds
  <2>2. ObjectAt(Here(r).chunk_coords)' = obj
    BY <1>1, <1>4 DEF ObjectAt
  <2> QED
    BY <1>1, <1>8, <2>1, <2>2 DEF Background
<1>11. fill_bkg(Call(r))'
  BY <1>1, CallSame
<1>12. BackgroundAt(r)' /\ DOMAIN bkg_buf'[r] \subseteq 0 .. Bound - 1
  BY <1>8, <1>9, <1>10, <1>11 DEF BackgroundAt
<1>13. \A i \in DOMAIN chunk_info'[r] : ChunkIs(Call(r), chunk_info'[r][i])
  BY <1>1 DEF PairedInv
<1> QED
  BY <1>1, <1>2, <1>8, <1>12, <1>13, QuietStep

\* A call that returns has no chunk left to be in place.
LEMMA ReturnSteps ==
    ASSUME ObjectInv, WriteInv', NEW r \in Ranks, Return(r)
    PROVE  ObjectInv'
<1>1. /\ pc[r] = "chunk" /\ chunk_info[r] = << >> /\ UNCHANGED <<dset, chunk_info, object>>
      /\ pc' = [pc EXCEPT ![r] = "idle"] /\ todo' = [todo EXCEPT ![r] = Tail(@)] /\ WriteInv
      /\ bkg_buf' = [bkg_buf EXCEPT ![r] = << >>]
  BY DEF Return, Goto, ObjectInv
<1>2. todo[r] # << >> /\ DOMAIN pc = Ranks /\ DOMAIN bkg_buf = Ranks
  BY <1>1, RankIs DEF ControlAt, Running, WriteInv, ControlInv
<1>3. /\ ~Running(r)' /\ BackgroundAt(r)' /\ DOMAIN chunk_info'[r] = {}
      /\ DOMAIN bkg_buf'[r] \subseteq 0 .. Bound - 1
  BY <1>1, <1>2 DEF Running, BackgroundAt
<1>4. \A s \in Ranks \ {r} : todo'[s] = todo[s] /\ pc'[s] = pc[s] /\ bkg_buf'[s] = bkg_buf[s]
  BY <1>1
<1> QED
  BY <1>1, <1>2, <1>3, <1>4, QuietStep

\* Nor has a rank that dies.
LEMMA DieSteps ==
    ASSUME ObjectInv, WriteInv', NEW r \in Ranks, Die(r)
    PROVE  ObjectInv'
<1>1. /\ Running(r) /\ UNCHANGED <<dset, todo, object>> /\ pc' = [pc EXCEPT ![r] = "dead"]
      /\ chunk_info' = [chunk_info EXCEPT ![r] = << >>] /\ bkg_buf' = [bkg_buf EXCEPT ![r] = << >>]
      /\ WriteInv
  BY DEF Die, Goto, ObjectInv
<1>2. todo[r] # << >> /\ DOMAIN pc = Ranks /\ DOMAIN chunk_info = Ranks /\ DOMAIN bkg_buf = Ranks
  BY <1>1, RankIs DEF ControlAt, Running, WriteInv, ControlInv
<1>3. /\ ~Running(r)' /\ BackgroundAt(r)' /\ DOMAIN chunk_info'[r] = {}
      /\ DOMAIN bkg_buf'[r] \subseteq 0 .. Bound - 1
  BY <1>1, <1>2 DEF Running, BackgroundAt
<1>4. \A s \in Ranks \ {r} : pc'[s] = pc[s] /\ chunk_info'[s] = chunk_info[s] /\ bkg_buf'[s] = bkg_buf[s]
  BY <1>1
<1> QED
  BY <1>1, <1>2, <1>3, <1>4, QuietStep

\* A write changes no place that another rank has read, and none beyond a chunk.
LEMMA WriteSteps ==
    ASSUME ObjectInv, WriteInv', NEW r \in Ranks, WriteEqual(r) \/ WriteConverted(r)
    PROVE  ObjectInv'
<1>1. PICK ops, source : WritesChunk(r, ops, source)
  BY WriteIs DEF ObjectInv
<1>2. /\ UNCHANGED <<dset, todo>> /\ pc' = [pc EXCEPT ![r] = "chunk"]
      /\ chunk_info' = [chunk_info EXCEPT ![r] = Tail(@)] /\ chunk_info[r] # << >> /\ Running(r)
      /\ AtChunk(r, Here(r)) /\ Call(r)' = Call(r)
  BY <1>1 DEF WritesChunk, WriteObject, Goto, Call
<1>3. /\ WriteInv /\ PairedInv /\ ApartInv /\ BackgroundInv /\ BoundInv /\ BufferInv
      /\ DOMAIN pc = Ranks /\ DOMAIN chunk_info = Ranks /\ DOMAIN bkg_buf = Ranks
  BY DEF ObjectInv, WriteInv, ControlInv
<1>4. /\ pc'[r] = "chunk" /\ chunk_info'[r] = Tail(chunk_info[r])
      /\ \A s \in Ranks \ {r} : /\ pc'[s] = pc[s] /\ chunk_info'[s] = chunk_info[s]
                                /\ todo'[s] = todo[s] /\ bkg_buf'[s] = bkg_buf[s]
  BY <1>2, <1>3 DEF WriteEqual, WriteConverted
<1>5. BoundInv'
  <2> SUFFICES ASSUME NEW at, at \in DOMAIN object' PROVE DOMAIN object'[at] \subseteq 0 .. Bound - 1
    BY <1>2 DEF BoundInv, Bound, StoreDims
  <2>1. PICK here : here = Here(r)
    OBVIOUS
  <2>2. CASE at # here.chunk_coords
    <3>1. at \in DOMAIN object /\ ObjectAt(at)' = ObjectAt(at)
      BY <1>1, <2>1, <2>2, ObjectIs
    <3>2. object'[at] = object[at]
      BY <3>1 DEF ObjectAt
    <3> QED
      BY <1>3, <3>1, <3>2 DEF BoundInv
  <2>3. CASE at = here.chunk_coords
    <3>1. DOMAIN object'[at] = DOMAIN ObjectAt(at) \union UnitsOf(here.fspace)
      BY <1>1, <2>1, <2>3, ObjectIs
    <3>2. UnitsOf(here.fspace) \subseteq 0 .. Bound - 1
      BY <1>2, <2>1, UnitsBound
    <3>3. DOMAIN ObjectAt(at) \subseteq 0 .. Bound - 1
      BY <1>3 DEF ObjectAt, BoundInv
    <3> QED
      BY <3>1, <3>2, <3>3
  <2> QED
    BY <2>2, <2>3
<1>6. PairedInv'
  <2>1. chunk_info[r] \in Seq(Range(chunk_info[r]))
    BY <1>2, <1>3, HereIs
  <2>2. \A i \in DOMAIN Tail(chunk_info[r]) :
           i + 1 \in DOMAIN chunk_info[r] /\ Tail(chunk_info[r])[i] = chunk_info[r][i + 1]
    BY <1>2, <2>1, TailIs
  <2>3. \A i \in DOMAIN chunk_info'[r] : ChunkIs(Call(r), chunk_info'[r][i])
    BY <1>3, <1>4, <2>2 DEF PairedInv
  <2> QED
    BY <1>2, <1>3, <1>4, <2>3, PairedKept
<1>7. ApartInv'
  <2>1. MayBegin(r)
    BY <1>2, <1>3 DEF ApartInv
  <2> QED
    BY <1>2, <1>3, <1>4, <2>1, ApartKept
<1>8. ASSUME NEW s \in Ranks \ {r}, pc[s] = "convert", NEW x \in UnitsOf(Here(s).fspace),
             NEW at, at = Here(s).chunk_coords
      PROVE  /\ x \in DOMAIN ObjectAt(at)' <=> x \in DOMAIN ObjectAt(at)
             /\ x \in DOMAIN ObjectAt(at) => ObjectAt(at)'[x] = ObjectAt(at)[x]
  <2>1. CASE at # Here(r).chunk_coords
    BY <1>1, <2>1, ObjectIs
  <2>2. CASE at = Here(r).chunk_coords
    <3>1. Running(s) /\ chunk_info[s] # << >> /\ fill_bkg(Call(s)) /\ MayBegin(r)
      BY <1>2, <1>3, <1>8, RankIs DEF Running, ControlAt, BackgroundInv, BackgroundAt, ApartInv
    <3>2. AtChunk(s, Here(s))
      BY <1>3, <3>1, HereIs
    <3>3. Call(s).fsel \intersect Call(r).fsel = {}
      BY <3>1 DEF MayBegin
    <3>4. x \notin UnitsOf(Here(r).fspace)
      BY <1>2, <1>8, <2>2, <3>2, <3>3, UnitsApart
    <3>5. /\ at \in DOMAIN object'
          /\ DOMAIN object'[at] = DOMAIN ObjectAt(at) \union UnitsOf(Here(r).fspace)
          /\ \A to \in DOMAIN ObjectAt(at) \ UnitsOf(Here(r).fspace) : object'[at][to] = ObjectAt(at)[to]
      <4>1. PICK here : here = Here(r)
        OBVIOUS
      <4>2. WritesChunk(r, ops, source) /\ at = here.chunk_coords
        BY <1>1, <2>2, <4>1
      <4>3. /\ at \in DOMAIN object'
            /\ DOMAIN object'[at] = DOMAIN ObjectAt(at) \union UnitsOf(here.fspace)
            /\ \A to \in DOMAIN ObjectAt(at) \ UnitsOf(here.fspace) : object'[at][to] = ObjectAt(at)[to]
        BY <4>1, <4>2, ObjectIs
      <4> QED
        BY <4>1, <4>3
    <3>6. ObjectAt(at)' = object'[at]
      BY <1>8, <3>5 DEF ObjectAt
    <3> QED
      BY <3>4, <3>5, <3>6
  <2> QED
    BY <2>1, <2>2
<1>9. BackgroundInv'
  <2> SUFFICES ASSUME NEW s \in Ranks PROVE BackgroundAt(s)'
    BY DEF BackgroundInv
  <2>1. CASE s = r
    BY <1>4, <2>1 DEF BackgroundAt
  <2>2. CASE s # r
    <3>1. BackgroundAt(s) /\ Here(s)' = Here(s)
      BY <1>3, <1>4, <2>2 DEF BackgroundInv, Here
    <3>2. PICK at : at = Here(s).chunk_coords /\ at = Here(s)'.chunk_coords
      BY <3>1
    <3>3. ObjectAt(Here(s).chunk_coords)' = ObjectAt(at)'
      BY <3>2 DEF ObjectAt
    <3>4. pc[s] = "convert" => \A x \in UnitsOf(Here(s).fspace) :
              LET old == ObjectAt(Here(s).chunk_coords)
                  new == ObjectAt(Here(s).chunk_coords)'
              IN  x \in DOMAIN new => x \in DOMAIN old /\ new[x] = old[x]
      BY <1>8, <2>2, <3>2, <3>3
    <3> QED
      BY <1>2, <1>3, <1>4, <2>2, <3>1, <3>4, BackgroundKept
  <2> QED
    BY <2>1, <2>2
<1>10. BufferInv'
  <2>1. Bound' = Bound
    BY <1>2 DEF Bound, StoreDims
  <2>2. DOMAIN bkg_buf'[r] \subseteq 0 .. Bound - 1
    <3>1. CASE WriteEqual(r)
      BY <1>3, <3>1 DEF WriteEqual, BufferInv
    <3>2. CASE WriteConverted(r)
      <4>1. PICK to : to = From(build_io_op_contig(Here(r).fspace, Len(dset.type)))
        OBVIOUS
      <4>2. DOMAIN bkg_buf'[r] = DOMAIN bkg_buf[r] \union to
        BY <1>3, <3>2, <4>1 DEF WriteConverted
      <4>3. to \subseteq 0 .. Bound - 1
        BY <1>2, <4>1, ContigIs
      <4> QED
        BY <1>3, <4>2, <4>3 DEF BufferInv
    <3> QED
      BY <3>1, <3>2
  <2> QED
    BY <1>3, <1>4, <2>1, <2>2 DEF BufferInv
<1> QED
  BY <1>5, <1>6, <1>7, <1>9, <1>10 DEF ObjectInv

\* At first there are no objects.
LEMMA ObjectInit == Init => ObjectInv
<1> SUFFICES ASSUME Init PROVE ObjectInv
  OBVIOUS
<1>1. WriteInv
  BY WriteInit
<1>2. PairedInv /\ ApartInv /\ BackgroundInv /\ BoundInv
  BY DEF Init, PairedInv, ApartInv, BackgroundInv, BackgroundAt, BoundInv, Running
<1>3. BufferInv
  BY DEF Init, BufferInv
<1> QED
  BY <1>1, <1>2, <1>3 DEF ObjectInv

\* No step breaks the invariant of the objects.
LEMMA ObjectStep ==
    ASSUME ObjectInv, [Next]_vars
    PROVE  ObjectInv'
<1>1. WriteInv'
  BY WriteStep DEF ObjectInv
<1>2. CASE UNCHANGED vars
  <2>1. UNCHANGED <<dset, todo, pc, chunk_info, bkg_buf, object>>
    BY <1>2 DEF vars
  <2>2. CASE Ranks = {}
    BY <1>1, <2>1, <2>2 DEF ObjectInv, PairedInv, ApartInv, BackgroundInv, BoundInv, BufferInv, Bound, StoreDims
  <2>3. ASSUME NEW r \in Ranks PROVE ObjectInv'
    <3>1. Running(r)' = Running(r) /\ Call(r)' = Call(r) /\ Here(r)' = Here(r)
      BY <2>1 DEF Running, Call, Here
    <3>2. \A i \in DOMAIN chunk_info'[r] : ChunkIs(Call(r), chunk_info'[r][i])
      BY <2>1 DEF ObjectInv, PairedInv
    <3>3. Running(r)' => MayBegin(r)
      BY <3>1 DEF ObjectInv, ApartInv
    <3>4. BackgroundAt(r)'
      <4>1. BackgroundAt(r) /\ WriteInv /\ PairedInv
        BY DEF ObjectInv, BackgroundInv
      <4>2. ObjectAt(Here(r).chunk_coords)' = ObjectAt(Here(r).chunk_coords)
        BY <2>1, <3>1 DEF ObjectAt
      <4> QED
        BY <2>1, <4>1, <4>2, BackgroundKept
    <3>5. DOMAIN bkg_buf'[r] \subseteq 0 .. Bound - 1
      BY <2>1 DEF ObjectInv, BufferInv
    <3> QED
      BY <1>1, <2>1, <3>1, <3>2, <3>3, <3>4, <3>5, QuietStep
  <2> QED
    BY <2>2, <2>3
<1>3. ASSUME NEW r \in Ranks, WriteNothing(r) \/ Begin(r) \/ Step(r) \/ Die(r) PROVE ObjectInv'
  BY <1>1, <1>3, NothingSteps, BeginSteps, BackgroundSteps, WriteSteps, ReturnSteps, DieSteps DEF Step
<1> QED
  BY <1>2, <1>3 DEF Next

\* For any datasets, types, selections and programs, and wherever ranks die: the control
\* state has its types, a rank has chunks and a background only in a call, and no object
\* gets a unit that is not one of its chunk's.
THEOREM DatasetTyped == Spec => []TypeOK
<1>1. ASSUME ObjectInv PROVE TypeOK
  <2>1. pc \in [Ranks -> {"idle", "chunk", "convert", "dead"}] /\ \A r \in Ranks : ControlAt(r)
    BY <1>1 DEF ObjectInv, WriteInv, ControlInv
  <2>2. \A at \in DOMAIN object : DOMAIN object[at] \subseteq 0 .. Bound - 1
    BY <1>1 DEF ObjectInv, BoundInv
  <2>3. Bound = Len(dset.type) * Cardinality(Extent(StoreDims))
    BY DEF Bound
  <2> QED
    BY <2>1, <2>2, <2>3 DEF TypeOK, ControlAt
<1> QED
  BY ObjectInit, ObjectStep, <1>1, PTL DEF Spec

\* For any programs in which calls do not overlap in time and in the file when one of
\* them has a background, whatever the selections in memory, and if the memory type is no
\* smaller than the dataset's: of all that an object holds in the selected elements, what
\* is written back with the converted chunk is what it holds then, never what an earlier
\* chunk left in the buffer.
THEOREM BackgroundStays == Spec => []BackgroundCurrent
<1>1. ASSUME ObjectInv PROVE BackgroundCurrent
  <2> SUFFICES ASSUME NEW r \in Ranks, pc[r] = "convert", HasRoom(Call(r)), NEW m,
                      m \in Moves(build_io_op_contig(Here(r).fspace, Len(dset.type))),
                      m[2] \in DOMAIN Object(r)
               PROVE  Kept(r, m[1]) = Object(r)[m[2]]
    BY DEF BackgroundCurrent
  <2>1. PICK here, obj : here = Here(r) /\ obj = ObjectAt(here.chunk_coords)
    OBVIOUS
  <2>2. Object(r) = obj
    BY <2>1 DEF Object, ObjectAt
  <2>3. Running(r) /\ chunk_info[r] # << >> /\ WriteInv /\ PairedInv /\ Background(r, here)
    BY <1>1, <2>1, RankIs DEF ObjectInv, Running, ControlAt, BackgroundInv, BackgroundAt
  <2>4. AtChunk(r, here)
    BY <2>1, <2>3, HereIs
  <2>5. m[1] \in DOMAIN bkg_buf[r] /\ bkg_buf[r][m[1]] = obj[m[2]]
    BY <2>1, <2>2, <2>3 DEF Background, Holds
  <2>6. m[1] \in 0 .. Bound - 1
    BY <2>1, <2>4, ContigIs
  <2>7. m[1] \in 0 .. BufferUnits(Call(r)) - 1 /\ BufferUnits(Call(r)) \in Int
    BY <2>4, <2>6, RoomIs, RoomUnits DEF AtChunk
  <2>8. m[1] < BufferUnits(Call(r))
    BY <2>7
  <2> QED
    BY <2>2, <2>5, <2>8 DEF Kept
<1> QED
  BY ObjectInit, ObjectStep, <1>1, PTL DEF Spec

\* For any selections, extents and programs, and if the memory type is no smaller than the
\* dataset's: the background buffer, which is allocated once for all chunks of a call, is
\* never filled beyond its end.
THEOREM BufferFits == Spec => []BackgroundFits
<1>1. ASSUME ObjectInv PROVE BackgroundFits
  <2> SUFFICES ASSUME NEW r \in Ranks, Running(r), HasRoom(Call(r)), NEW o \in DOMAIN bkg_buf[r]
               PROVE  o \in 0 .. BufferUnits(Call(r)) - 1
    BY DEF BackgroundFits
  <2>1. o \in 0 .. Bound - 1
    BY <1>1 DEF ObjectInv, BufferInv
  <2>2. IsDataset(dset) /\ IsCall(dset, Call(r))
    BY <1>1, RankIs DEF ObjectInv, Running, ControlAt
  <2> QED
    BY <2>1, <2>2, RoomIs
<1> QED
  BY ObjectInit, ObjectStep, <1>1, PTL DEF Spec

(***************************************************************************)
(* What is written is what was meant, when a conversion has room for its   *)
(* background, and leaves no member without having read it.                *)
(***************************************************************************)
\* No conversion, or one that has room, and sets every member or has its background read.
Filled(ds, call) ==
    \/ call.type = ds.type
    \/ /\ Len(call.type) >= Len(ds.type)
       /\ \/ MembersOf(ds.type) \subseteq MembersOf(call.type)
          \/ \E m \in MembersOf(call.type) : m \notin MembersOf(ds.type)
          \/ Gap \in Range(call.type)

FilledInv == \A r \in Ranks : \A i \in DOMAIN todo[r] : Filled(dset, todo[r][i])

\* The calls that are left are some of those there were.
LEMMA FilledKept ==
    ASSUME WriteInv, FilledInv, dset' = dset, NEW r \in Ranks,
           todo' = todo \/ (todo[r] # << >> /\ todo' = [todo EXCEPT ![r] = Tail(@)])
    PROVE  FilledInv'
<1>1. CASE todo' = todo
  BY <1>1 DEF FilledInv, Filled
<1>2. CASE todo[r] # << >> /\ todo' = [todo EXCEPT ![r] = Tail(@)]
  <2>1. todo[r] \in Seq(AllCalls) /\ DOMAIN todo = Ranks
    BY DEF WriteInv, ProgramInv
  <2>2. \A i \in DOMAIN Tail(todo[r]) : i + 1 \in DOMAIN todo[r] /\ Tail(todo[r])[i] = todo[r][i + 1]
    BY <2>1
  <2>3. \A s \in Ranks : \A i \in DOMAIN todo'[s] : \E j \in DOMAIN todo[s] : todo'[s][i] = todo[s][j]
    BY <1>2, <2>1, <2>2
  <2> QED
    BY <2>3 DEF FilledInv, Filled
<1> QED
  BY <1>1, <1>2

\* A step that writes brings each element of its chunk what is meant for it.
Delivered(r, ops, source) ==
    WritesChunk(r, ops, source) /\ Delivers(r, Here(r), ops, source)

\* So the list that a rank writes brings what is meant to all of its chunk.
LEMMA WriteDelivers ==
    ASSUME ObjectInv, FilledInv, NEW r \in Ranks, WriteEqual(r) \/ WriteConverted(r)
    PROVE  \E ops, source : Delivered(r, ops, source)
<1>1. Running(r) /\ chunk_info[r] # << >>
  BY RankIs DEF WriteEqual, WriteConverted, ControlAt, Running, ObjectInv
<1>2. AtChunk(r, Here(r)) /\ todo[r] # << >>
  BY <1>1, HereIs, RankIs DEF ObjectInv, ControlAt
<1>3. CASE WriteEqual(r)
  <2>1. types_equal(Call(r))
    BY <1>3 DEF WriteEqual
  <2>2. CASE MatchSelect(r)
    <3>1. PICK ops, source : /\ ops = build_io_op_match(Here(r).fspace, Len(dset.type))
                             /\ source = [o \in From(ops) |-> Buffer(r, o)]
      OBVIOUS
    <3>2. WriteObject(r, ops, source)
      BY <1>3, <2>2, <3>1 DEF WriteEqual
    <3>3. Call(r).mem = All /\ dset.dims = Here(r).fspace.dims
      BY <2>2 DEF MatchSelect
    <3>4. Delivers(r, Here(r), ops, source)
      BY <1>2, <2>1, <3>1, <3>3, MatchDelivers
    <3> QED
      BY <1>1, <1>2, <3>1, <3>2, <3>4, ListsTo DEF Delivered, WritesChunk
  <2>3. CASE ~MatchSelect(r)
    <3>1. PICK ops, source : /\ ops = build_io_op_merge(Here(r).mspace, Here(r).fspace, Len(dset.type))
                             /\ source = [o \in From(ops) |-> Buffer(r, o)]
      OBVIOUS
    <3>2. WriteObject(r, ops, source)
      BY <1>3, <2>3, <3>1 DEF WriteEqual
    <3>3. Delivers(r, Here(r), ops, source)
      BY <1>2, <2>1, <3>1, MergeDelivers
    <3> QED
      BY <1>1, <1>2, <3>1, <3>2, <3>3, ListsTo DEF Delivered, WritesChunk
  <2> QED
    BY <2>2, <2>3
<1>4. CASE WriteConverted(r)
  <2>1. PICK ops, source : /\ ops = build_io_op_contig(Here(r).fspace, Len(dset.type))
                           /\ source = [o \in From(ops) |-> Converted(r, Here(r).mspace, o)]
    OBVIOUS
  <2>2. WriteObject(r, ops, source)
    BY <1>4, <2>1 DEF WriteConverted
  <2>3. Filled(dset, Call(r))
    <3>1. todo[r] \in Seq(AllCalls)
      BY DEF ObjectInv, WriteInv, ProgramInv
    <3>2. 1 \in DOMAIN todo[r] /\ Call(r) = todo[r][1]
      BY <1>2, <3>1 DEF Call
    <3> QED
      BY <3>2 DEF FilledInv
  <2>4. \/ Background(r, Here(r)) /\ HasRoom(Call(r))
        \/ MembersOf(dset.type) \subseteq MembersOf(Call(r).type)
    <3>1. CASE pc[r] = "convert"
      <4>1. fill_bkg(Call(r)) /\ Background(r, Here(r))
        BY <3>1 DEF ObjectInv, BackgroundInv, BackgroundAt
      <4>2. Call(r).type # dset.type
        BY <4>1 DEF fill_bkg, types_equal
      <4> QED
        BY <2>3, <4>1, <4>2 DEF Filled, HasRoom
    <3>2. CASE pc[r] # "convert"
      <4>1. ~types_equal(Call(r)) /\ ~fill_bkg(Call(r))
        BY <1>4, <3>2 DEF WriteConverted
      <4> QED
        BY <2>3, <4>1 DEF Filled, fill_bkg, types_equal
    <3> QED
      BY <3>1, <3>2
  <2>5. Delivers(r, Here(r), ops, source)
    BY <1>2, <2>1, <2>4, ConvertDelivers
  <2> QED
    BY <1>1, <1>2, <2>1, <2>2, <2>5, ListsTo DEF Delivered, WritesChunk
<1> QED
  BY <1>3, <1>4

(***************************************************************************)
(* A chunk that is written is its elements written.                        *)
(***************************************************************************)
\* The elements of a call that a chunk has.
Elements(r, at) == {c \in Call(r).fsel : Coords(c) = at}

\* After it the units of the elements it wrote hold what they are to, and others what they
\* held.
LEMMA UnitsWritten ==
    ASSUME NEW r \in Ranks, NEW ops, NEW source, Delivered(r, ops, source),
           NEW c \in Extent(dset.dims), NEW j \in 1 .. Len(dset.type),
           dset.type[j] \in MembersOf(dset.type)
    PROVE  IF c \in Elements(r, Here(r).chunk_coords) THEN Meant(r, c, j, Unit(c, j)')
           ELSE Unit(c, j)' = Unit(c, j)
<1> DEFINE at == Coords(c)
           off == Offset(c, j)
<1>1. PICK here : here = Here(r)
  OBVIOUS
<1>2. /\ AtChunk(r, here) /\ WriteObject(r, ops, source) /\ Delivers(r, here, ops, source) /\ dset' = dset
      /\ WritesChunk(r, ops, source)
  BY <1>1 DEF Delivered, WritesChunk, WriteObject
<1>3. IsDataset(dset) /\ Taken(Call(r), here)
  BY <1>2 DEF AtChunk
<1>4. Unit(c, j)' = IF at \in DOMAIN object' /\ off \in DOMAIN object'[at]
                    THEN object'[at][off] ELSE Junk
  <2>1. Coords(c)' = Coords(c) /\ Offset(c, j)' = Offset(c, j)
    BY <1>2 DEF Coords, Offset, StoreDims
  <2>2. Unit(c, j)' = IF Coords(c)' \in DOMAIN object' /\ Offset(c, j)' \in DOMAIN object'[Coords(c)']
                      THEN object'[Coords(c)'][Offset(c, j)'] ELSE Junk
    BY DEF Unit, Offset, StoreDims
  <2> QED
    BY <2>1, <2>2
<1>5. Unit(c, j) = IF at \in DOMAIN object /\ off \in DOMAIN object[at] THEN object[at][off] ELSE Junk
  BY UnitFrom
<1>6. CASE at # here.chunk_coords
  <2>1. at \in DOMAIN object' <=> at \in DOMAIN object
    BY <1>1, <1>2, <1>6, ObjectIs
  <2>2. at \in DOMAIN object => object'[at] = object[at]
    <3>1. object' = [a \in DOMAIN object \union {here.chunk_coords} |->
                        IF a = here.chunk_coords THEN Written(Object(r), ops, source) ELSE object[a]]
      BY <1>1, <1>2 DEF WriteObject
    <3> QED
      BY <1>6, <3>1
  <2>3. c \notin Elements(r, here.chunk_coords)
    BY <1>6 DEF Elements
  <2> QED
    BY <1>1, <1>4, <1>5, <2>1, <2>2, <2>3
<1>7. CASE at = here.chunk_coords
  <2>1. off \in UnitsOf(here.fspace) <=> c \in Call(r).fsel
    BY <1>3, <1>7, UnitsSelected
  <2>2. PICK obj : obj = ObjectAt(at)
    OBVIOUS
  <2>3. PICK new : new = object'[at]
    OBVIOUS
  <2>4. /\ at \in DOMAIN object' /\ DOMAIN new = DOMAIN obj \union UnitsOf(here.fspace)
        /\ \A to \in UnitsOf(here.fspace) : new[to] = source[Source(ops, to)]
        /\ \A to \in DOMAIN obj \ UnitsOf(here.fspace) : new[to] = obj[to]
    BY <1>1, <1>2, <1>7, <2>2, <2>3, ObjectIs
  <2>5. Unit(c, j) = IF off \in DOMAIN obj THEN obj[off] ELSE Junk
    BY <1>5, <2>2 DEF ObjectAt
  <2>6. Unit(c, j)' = IF off \in DOMAIN new THEN new[off] ELSE Junk
    BY <1>4, <2>3, <2>4
  <2> HIDE DEF off
  <2>7. CASE c \in Call(r).fsel
    <3>1. Unit(c, j)' = source[Source(ops, off)]
      BY <2>1, <2>4, <2>6, <2>7
    <3>2. Meant(r, c, j, source[Source(ops, off)])
      BY <1>2, <1>7, <2>7 DEF Delivers, off
    <3> QED
      BY <1>1, <1>7, <2>7, <3>1, <3>2 DEF Elements
  <2>8. CASE c \notin Call(r).fsel
    <3>1. Unit(c, j)' = Unit(c, j)
      BY <2>1, <2>4, <2>5, <2>6, <2>8
    <3> QED
      BY <2>8, <3>1 DEF Elements
  <2> QED
    BY <2>7, <2>8
<1> QED
  BY <1>6, <1>7

\* So what is written of the elements is what the array is to have.
LEMMA ElementsWritten ==
    ASSUME NEW r \in Ranks, NEW ops, NEW source, Delivered(r, ops, source),
           NEW c \in Extent(dset.dims)
    PROVE  IF c \in Elements(r, Here(r).chunk_coords)
           THEN Array!Put(r, AbstractCall(Call(r)), c, Element(c)')
           ELSE Element(c)' = Element(c)
<1>1. dset' = dset /\ IsDataset(dset)
  BY DEF Delivered, WritesChunk, WriteObject, AtChunk
<1>2. DOMAIN dset.type = 1 .. Len(dset.type)
  BY <1>1, DatasetIs
<1>3. PICK y : y = Array!Place(AbstractCall(Call(r)), c)
  OBVIOUS
<1>4. ASSUME NEW m \in MembersOf(dset.type)
      PROVE  IF c \in Elements(r, Here(r).chunk_coords)
             THEN IF m \in MembersOf(Call(r).type)
                  THEN Element(c)'[m] = <<r, Call(r).buf, y, m>>
                  ELSE Element(c)[m] # Junk => Element(c)'[m] = Element(c)[m]
             ELSE Element(c)'[m] = Element(c)[m]
  <2>1. PICK j : j = CHOOSE i \in DOMAIN dset.type : dset.type[i] = m
    OBVIOUS
  <2>2. j \in 1 .. Len(dset.type) /\ dset.type[j] = m
    BY <1>2, <2>1 DEF MembersOf, Range
  <2>3. Element(c)[m] = Unit(c, j)
    BY <2>1 DEF Element
  <2>4. Element(c)'[m] = Unit(c, j)'
    BY <1>1, <2>1 DEF Element
  <2>5. IF c \in Elements(r, Here(r).chunk_coords) THEN Meant(r, c, j, Unit(c, j)')
        ELSE Unit(c, j)' = Unit(c, j)
    BY <2>2, UnitsWritten
  <2>6. PICK v : v = Unit(c, j)'
    OBVIOUS
  <2>7. Meant(r, c, j, v) <=> IF m \in MembersOf(Call(r).type) THEN v = <<r, Call(r).buf, y, m>>
                              ELSE Unit(c, j) # Junk => v = Unit(c, j)
    BY <1>3, <2>2 DEF Meant
  <2> QED
    BY <2>3, <2>4, <2>5, <2>6, <2>7
<1>5. /\ DOMAIN Element(c) = MembersOf(dset.type) /\ DOMAIN Element(c)' = MembersOf(dset.type)
      /\ Element(c) = [m \in MembersOf(dset.type) |-> Element(c)[m]]
      /\ Element(c)' = [m \in MembersOf(dset.type) |-> Element(c)'[m]]
  BY <1>1 DEF Element
<1>6. CASE c \in Elements(r, Here(r).chunk_coords)
  <2>1. PICK call : call = AbstractCall(Call(r))
    OBVIOUS
  <2>2. call.members = MembersOf(Call(r).type) /\ call.buf = Call(r).buf
    BY <2>1 DEF AbstractCall
  <2>3. Data[c] = Element(c)
    BY DEF Data
  <2>4. Array!Put(r, call, c, Element(c)')
    BY <1>3, <1>4, <1>5, <1>6, <2>1, <2>2, <2>3 DEF Array!Put
  <2> QED
    BY <1>6, <2>1, <2>4
<1>7. CASE c \notin Elements(r, Here(r).chunk_coords)
  BY <1>4, <1>5, <1>7
<1> QED
  BY <1>6, <1>7

\* The elements that a step which writes a chunk takes off those to be written.
LEMMA UnwrittenIs ==
    ASSUME ObjectInv, NEW r \in Ranks, NEW ops, NEW source, Delivered(r, ops, source),
           NEW done, done = Elements(r, Here(r).chunk_coords)
    PROVE  /\ Unwritten' = [Unwritten EXCEPT ![r] = @ \ done]
           /\ done \subseteq Unwritten[r] /\ done # {} /\ Unwritten[r] \ Unwritten'[r] = done
           /\ Calling' = Calling /\ Calling[r] = AbstractCall(Call(r)) /\ done \subseteq Extent(dset.dims)
<1> DEFINE q == chunk_info[r]
           at == Here(r).chunk_coords
<1>1. /\ UNCHANGED <<dset, todo>> /\ pc' = [pc EXCEPT ![r] = "chunk"]
      /\ chunk_info' = [chunk_info EXCEPT ![r] = Tail(@)] /\ q # << >> /\ Running(r)
      /\ AtChunk(r, Here(r))
  BY DEF Delivered, WritesChunk, WriteObject, Goto
<1>2. WriteInv /\ PairedInv /\ DOMAIN pc = Ranks /\ DOMAIN chunk_info = Ranks
  BY DEF ObjectInv, WriteInv, ControlInv
<1>3. /\ q \in Seq(Range(q)) /\ 1 \in DOMAIN q /\ Here(r) = q[1] /\ TakenFrom(Call(r), q)
  BY <1>1, <1>2, HereIs, RankIs
<1>4. /\ chunk_info'[r] = Tail(q) /\ Running(r)'
      /\ \A s \in Ranks \ {r} : chunk_info'[s] = chunk_info[s] /\ (Running(s)' <=> Running(s))
  BY <1>1, <1>2 DEF Running
<1>5. \A s \in Ranks : Call(s)' = Call(s)
  BY <1>1 DEF Call
<1>6. \A c : Coords(c)' = Coords(c)
  BY <1>1 DEF Coords
<1>7. \A call : AbstractCall(call)' = AbstractCall(call)
  BY DEF AbstractCall, MembersOf
<1> HIDE DEF q, at
<1>8. /\ \A i \in DOMAIN Tail(q) : i + 1 \in DOMAIN q /\ Tail(q)[i] = q[i + 1]
      /\ \A i \in DOMAIN q \ {1} : i - 1 \in DOMAIN Tail(q) /\ Tail(q)[i - 1] = q[i]
      /\ \A i \in DOMAIN Tail(q) : i + 1 # 1
  <2>1. PICK p, S : p = q /\ S = Range(q)
    OBVIOUS
  <2>2. p \in Seq(S) /\ p # << >>
    BY <1>1, <1>3, <2>1
  <2>3. /\ Len(p) \in Nat \ {0} /\ DOMAIN p = 1 .. Len(p) /\ DOMAIN Tail(p) = 1 .. Len(p) - 1
        /\ \A i \in 1 .. Len(p) - 1 : Tail(p)[i] = p[i + 1]
    BY <2>2
  <2> QED
    BY <2>1, <2>3
<1>9. \A i \in DOMAIN q \ {1} : q[i].chunk_coords # at
  BY <1>3 DEF TakenFrom, at
<1>10. \A x : (\E i \in DOMAIN Tail(q) : Tail(q)[i].chunk_coords = x)
              <=> (\E i \in DOMAIN q : q[i].chunk_coords = x) /\ x # at
  <2> SUFFICES ASSUME NEW x
               PROVE  (\E i \in DOMAIN Tail(q) : Tail(q)[i].chunk_coords = x)
                      <=> (\E i \in DOMAIN q : q[i].chunk_coords = x) /\ x # at
    OBVIOUS
  <2>1. ASSUME NEW i \in DOMAIN Tail(q), Tail(q)[i].chunk_coords = x
        PROVE  (\E e \in DOMAIN q : q[e].chunk_coords = x) /\ x # at
    <3>1. i + 1 \in DOMAIN q \ {1} /\ q[i + 1].chunk_coords = x
      BY <1>8, <2>1
    <3> QED
      BY <1>9, <3>1
  <2>2. ASSUME NEW i \in DOMAIN q, q[i].chunk_coords = x, x # at
        PROVE  \E e \in DOMAIN Tail(q) : Tail(q)[e].chunk_coords = x
    <3>1. i # 1
      BY <1>3, <2>2 DEF at
    <3>2. i - 1 \in DOMAIN Tail(q) /\ Tail(q)[i - 1].chunk_coords = x
      BY <1>8, <2>2, <3>1
    <3> QED
      BY <3>2
  <2> QED
    BY <2>1, <2>2
<1>11. Unwritten[r] = {c \in Call(r).fsel : \E i \in DOMAIN q : q[i].chunk_coords = Coords(c)}
  BY <1>1 DEF Unwritten, q
<1>12. Unwritten'[r] = {c \in Call(r).fsel : \E i \in DOMAIN Tail(q) : Tail(q)[i].chunk_coords = Coords(c)}
  BY <1>4, <1>5, <1>6 DEF Unwritten
<1>13. Unwritten'[r] = Unwritten[r] \ done
  BY <1>10, <1>11, <1>12 DEF Elements, at
<1>14. \A s \in Ranks \ {r} : Unwritten'[s] = Unwritten[s]
  BY <1>4, <1>5, <1>6 DEF Unwritten
<1>15. Unwritten = [s \in Ranks |-> Unwritten[s]] /\ Unwritten' = [s \in Ranks |-> Unwritten'[s]]
  BY DEF Unwritten
<1>16. Unwritten' = [Unwritten EXCEPT ![r] = @ \ done]
  BY <1>13, <1>14, <1>15
<1>17. done \subseteq Unwritten[r]
  BY <1>3, <1>11 DEF Elements
<1>18. done # {}
  <2>1. \E c \in Call(r).fsel : Coords(c) = Here(r).chunk_coords
    BY <1>1 DEF AtChunk, Taken, ChunkIs
  <2> QED
    BY <2>1 DEF Elements
<1>19. Calling' = Calling /\ Calling[r] = AbstractCall(Call(r))
  BY <1>1, <1>4, <1>5, <1>7 DEF Calling
<1>20. done \subseteq Extent(dset.dims)
  BY <1>1, AtChunkIs DEF Elements
<1> QED
  BY <1>13, <1>16, <1>17, <1>18, <1>19, <1>20

(***************************************************************************)
(* Every step is a step of the array, or none.                             *)
(***************************************************************************)
LEMMA DataSame ==
    ASSUME dset' = dset, object' = object
    PROVE  Data' = Data
  BY DEF Data, Element, Unit, Coords, StoreDims, MembersOf

\* A rank that is in no call, before and after.
LEMMA OutsideCalls ==
    ASSUME WriteInv, NEW r \in Ranks, dset' = dset, object' = object,
           \A s \in Ranks \ {r} : pc'[s] = pc[s] /\ todo'[s] = todo[s] /\ chunk_info'[s] = chunk_info[s],
           \/ ~Running(r) /\ ~Running(r)'
           \/ Running(r) /\ Running(r)' /\ todo'[r] = todo[r] /\ chunk_info'[r] = chunk_info[r]
    PROVE  UNCHANGED <<Data, Calling, Unwritten>>
<1>1. \A s \in Ranks : \/ ~Running(s) /\ ~Running(s)'
                       \/ Running(s) /\ Running(s)' /\ todo'[s] = todo[s] /\ chunk_info'[s] = chunk_info[s]
  BY DEF Running
<1>2. /\ \A call : AbstractCall(call)' = AbstractCall(call)
      /\ \A c : Coords(c)' = Coords(c)
  BY DEF AbstractCall, MembersOf, Coords
<1>3. ASSUME NEW s \in Ranks PROVE Calling'[s] = Calling[s] /\ Unwritten'[s] = Unwritten[s]
  <2>1. CASE ~Running(s) /\ ~Running(s)'
    BY <2>1 DEF Calling, Unwritten
  <2>2. CASE Running(s) /\ Running(s)' /\ todo'[s] = todo[s] /\ chunk_info'[s] = chunk_info[s]
    BY <1>2, <2>2 DEF Calling, Unwritten, Call
  <2> QED
    BY <1>1, <2>1, <2>2
<1>4. /\ Calling = [s \in Ranks |-> Calling[s]] /\ Calling' = [s \in Ranks |-> Calling'[s]]
      /\ Unwritten = [s \in Ranks |-> Unwritten[s]] /\ Unwritten' = [s \in Ranks |-> Unwritten'[s]]
  BY DEF Calling, Unwritten
<1>5. Calling' = Calling /\ Unwritten' = Unwritten
  BY <1>3, <1>4
<1> QED
  BY <1>5, DataSame

\* A step of one rank that does not write, as the array has it.
LEMMA OneRank ==
    ASSUME WriteInv, NEW r \in Ranks, dset' = dset, object' = object,
           \A s \in Ranks \ {r} : pc'[s] = pc[s] /\ todo'[s] = todo[s] /\ chunk_info'[s] = chunk_info[s]
    PROVE  /\ Data' = Data
           /\ Calling' = [Calling EXCEPT ![r] = Calling'[r]]
           /\ Unwritten' = [Unwritten EXCEPT ![r] = Unwritten'[r]]
<1>1. /\ \A call : AbstractCall(call)' = AbstractCall(call)
      /\ \A c : Coords(c)' = Coords(c)
      /\ \A s \in Ranks \ {r} : Running(s)' <=> Running(s)
  BY DEF AbstractCall, MembersOf, Coords, Running
<1>2. ASSUME NEW s \in Ranks \ {r} PROVE Calling'[s] = Calling[s] /\ Unwritten'[s] = Unwritten[s]
  BY <1>1 DEF Calling, Unwritten, Call
<1>3. /\ Calling = [s \in Ranks |-> Calling[s]] /\ Calling' = [s \in Ranks |-> Calling'[s]]
      /\ Unwritten = [s \in Ranks |-> Unwritten[s]] /\ Unwritten' = [s \in Ranks |-> Unwritten'[s]]
  BY DEF Calling, Unwritten
<1>4. Calling' = [Calling EXCEPT ![r] = Calling'[r]]
  BY <1>2, <1>3
<1>5. Unwritten' = [Unwritten EXCEPT ![r] = Unwritten'[r]]
  BY <1>2, <1>3
<1> QED
  BY <1>4, <1>5, DataSame

\* A call that writes nothing is none of the array.
LEMMA NothingMaps ==
    ASSUME WriteInv, NEW r \in Ranks, WriteNothing(r)
    PROVE  UNCHANGED <<Data, Calling, Unwritten>>
<1>1. /\ ~Running(r) /\ ~Running(r)' /\ dset' = dset /\ object' = object /\ DOMAIN todo = Ranks
      /\ todo' = [todo EXCEPT ![r] = Tail(@)] /\ UNCHANGED <<pc, chunk_info>>
  BY DEF WriteNothing, Running, WriteInv, ProgramInv
<1>2. \A s \in Ranks \ {r} : pc'[s] = pc[s] /\ todo'[s] = todo[s] /\ chunk_info'[s] = chunk_info[s]
  BY <1>1
<1> QED
  BY <1>1, <1>2, OutsideCalls

\* A call that begins is one of the array that begins, or none.
LEMMA BeginMaps ==
    ASSUME WriteInv, NEW r \in Ranks, Begin(r)
    PROVE  Array!Begin(r) \/ UNCHANGED <<Data, Calling, Unwritten>>
<1>1. /\ pc[r] = "idle" /\ todo[r] # << >> /\ UNCHANGED <<dset, todo, object>>
      /\ DOMAIN pc = Ranks /\ DOMAIN chunk_info = Ranks
  BY DEF Begin, WriteInv, ControlInv
<1>2. CASE Mismatch(Call(r))
  <2>1. pc' = [pc EXCEPT ![r] = "dead"] /\ chunk_info' = chunk_info
    BY <1>2 DEF Begin, Goto
  <2>2. ~Running(r) /\ ~Running(r)'
    BY <1>1, <2>1 DEF Running
  <2>3. \A s \in Ranks \ {r} : pc'[s] = pc[s] /\ todo'[s] = todo[s] /\ chunk_info'[s] = chunk_info[s]
    BY <1>1, <2>1
  <2> QED
    BY <1>1, <2>2, <2>3, OutsideCalls
<1>3. CASE ~Mismatch(Call(r))
  <2>1. PICK infos : infos = Chunks(Call(r))
    OBVIOUS
  <2>2. /\ pc' = [pc EXCEPT ![r] = "chunk"] /\ chunk_info' = [chunk_info EXCEPT ![r] = infos]
        /\ \A c \in Call(r).fsel : Coords(c) \in CoordsOf(infos)
    BY <1>3, <2>1, BeginChunks
  <2>3. pc'[r] = "chunk" /\ chunk_info'[r] = infos /\ ~Running(r) /\ Running(r)' /\ Call(r)' = Call(r)
        /\ \A s \in Ranks \ {r} : pc'[s] = pc[s] /\ todo'[s] = todo[s] /\ chunk_info'[s] = chunk_info[s]
    BY <1>1, <2>2 DEF Running, Call
  <2>4. /\ Data' = Data /\ Calling' = [Calling EXCEPT ![r] = Calling'[r]]
        /\ Unwritten' = [Unwritten EXCEPT ![r] = Unwritten'[r]]
    BY <1>1, <2>3, OneRank
  <2>5. Calling[r] = None
    BY <2>3 DEF Calling
  <2>6. Calling'[r] = AbstractCall(Call(r))
    <3>1. AbstractCall(Call(r))' = AbstractCall(Call(r))
      BY <2>3 DEF AbstractCall, MembersOf
    <3> QED
      BY <2>3, <3>1 DEF Calling
  <2>7. Unwritten'[r] = Call(r).fsel
    <3>1. \A c : Coords(c)' = Coords(c)
      BY <1>1 DEF Coords
    <3>2. Unwritten'[r] = {c \in Call(r).fsel : \E i \in DOMAIN infos : infos[i].chunk_coords = Coords(c)}
      BY <2>3, <3>1 DEF Unwritten
    <3> QED
      BY <2>2, <3>2 DEF CoordsOf
  <2>8. AbstractCall(Call(r)) \in AbstractCalls /\ AbstractCall(Call(r)).fsel = Call(r).fsel
    <3>1. todo[r] \in Seq(AllCalls)
      BY DEF WriteInv, ProgramInv
    <3>2. Call(r) \in AllCalls
      BY <1>1, <3>1 DEF Call
    <3> QED
      BY <3>2 DEF AbstractCalls, AllCalls, AbstractCall
  <2>9. AbstractCalls' = AbstractCalls
    BY <1>1 DEF AbstractCalls, AbstractCall, MembersOf
  <2> QED
    BY <2>4, <2>5, <2>6, <2>7, <2>8 DEF Array!Begin
<1> QED
  BY <1>2, <1>3

\* Reading the background changes nothing of the array.
LEMMA BackgroundMaps ==
    ASSUME WriteInv, NEW r \in Ranks, ReadBackground(r)
    PROVE  UNCHANGED <<Data, Calling, Unwritten>>
<1>1. /\ pc[r] = "chunk" /\ pc' = [pc EXCEPT ![r] = "convert"] /\ UNCHANGED <<dset, todo, chunk_info, object>>
      /\ DOMAIN pc = Ranks
  BY DEF ReadBackground, Goto, WriteInv, ControlInv
<1>2. Running(r) /\ Running(r)'
      /\ \A s \in Ranks \ {r} : pc'[s] = pc[s] /\ todo'[s] = todo[s] /\ chunk_info'[s] = chunk_info[s]
  BY <1>1 DEF Running
<1> QED
  BY <1>1, <1>2, OutsideCalls

\* A call that returns is one that returns with all written.
LEMMA ReturnMaps ==
    ASSUME WriteInv, NEW r \in Ranks, Return(r)
    PROVE  Array!Return(r)
<1>1. /\ pc[r] = "chunk" /\ chunk_info[r] = << >> /\ UNCHANGED <<dset, chunk_info, object>>
      /\ pc' = [pc EXCEPT ![r] = "idle"] /\ todo' = [todo EXCEPT ![r] = Tail(@)]
      /\ DOMAIN pc = Ranks /\ DOMAIN todo = Ranks
  BY DEF Return, Goto, WriteInv, ControlInv, ProgramInv
<1>2. ~Running(r)'
      /\ \A s \in Ranks \ {r} : pc'[s] = pc[s] /\ todo'[s] = todo[s] /\ chunk_info'[s] = chunk_info[s]
  BY <1>1 DEF Running
<1>3. /\ Data' = Data /\ Calling' = [Calling EXCEPT ![r] = Calling'[r]]
      /\ Unwritten' = [Unwritten EXCEPT ![r] = Unwritten'[r]]
  BY <1>1, <1>2, OneRank
<1>4. Calling'[r] = None /\ Unwritten[r] = {} /\ Unwritten'[r] = {}
  BY <1>1, <1>2 DEF Calling, Unwritten
<1>5. Unwritten' = Unwritten
  BY <1>3, <1>4 DEF Unwritten
<1> QED
  BY <1>3, <1>4, <1>5 DEF Array!Return

\* A death is a death: what is written stays, and the rest is never written.
LEMMA DieMaps ==
    ASSUME WriteInv, NEW r \in Ranks, Die(r)
    PROVE  Array!Die(r)
<1>1. /\ UNCHANGED <<dset, todo, object>> /\ pc' = [pc EXCEPT ![r] = "dead"]
      /\ chunk_info' = [chunk_info EXCEPT ![r] = << >>] /\ DOMAIN pc = Ranks /\ DOMAIN chunk_info = Ranks
  BY DEF Die, Goto, WriteInv, ControlInv
<1>2. ~Running(r)'
      /\ \A s \in Ranks \ {r} : pc'[s] = pc[s] /\ todo'[s] = todo[s] /\ chunk_info'[s] = chunk_info[s]
  BY <1>1 DEF Running
<1>3. /\ Data' = Data /\ Calling' = [Calling EXCEPT ![r] = Calling'[r]]
      /\ Unwritten' = [Unwritten EXCEPT ![r] = Unwritten'[r]]
  BY <1>1, <1>2, OneRank
<1>4. Calling'[r] = None /\ Unwritten'[r] = {}
  BY <1>2 DEF Calling, Unwritten
<1> QED
  BY <1>3, <1>4 DEF Array!Die

\* Writing a chunk is writing the elements of it that the call selects.
LEMMA WriteMaps ==
    ASSUME ObjectInv, FilledInv, NEW r \in Ranks, WriteEqual(r) \/ WriteConverted(r)
    PROVE  Array!Write(r)
<1>1. PICK ops, source : Delivered(r, ops, source)
  BY WriteDelivers
<1>2. PICK done : done = Elements(r, Here(r).chunk_coords)
  OBVIOUS
<1>3. /\ Unwritten' = [Unwritten EXCEPT ![r] = @ \ done]
      /\ done # {} /\ Unwritten[r] \ Unwritten'[r] = done
      /\ Calling' = Calling /\ Calling[r] = AbstractCall(Call(r))
  BY <1>1, <1>2, UnwrittenIs
<1>4. dset' = dset
  BY <1>1 DEF Delivered, WritesChunk, WriteObject
<1>5. PICK call : call = AbstractCall(Call(r))
  OBVIOUS
<1>6. /\ DOMAIN Data = Extent(dset.dims) /\ \A c \in Extent(dset.dims) : Data[c] = Element(c)
      /\ Data' = [c \in Extent(dset.dims) |-> Element(c)'] /\ done \subseteq Extent(dset.dims)
      /\ \A c \in Extent(dset.dims) : Data'[c] = Element(c)'
  BY <1>1, <1>2, <1>4, UnwrittenIs DEF Data
<1>7. \A c \in Extent(dset.dims) : IF c \in done THEN Array!Put(r, call, c, Data'[c])
                                   ELSE Data'[c] = Data[c]
  BY <1>1, <1>2, <1>5, <1>6, ElementsWritten
<1>8. Data' = [c \in DOMAIN Data |-> IF c \in done THEN Data'[c] ELSE Data[c]]
  BY <1>6, <1>7
<1>9. \A c \in done : Array!Put(r, Calling[r], c, Data'[c])
  BY <1>3, <1>5, <1>6, <1>7
<1> QED
  BY <1>3, <1>8, <1>9 DEF Array!Write

\* Every step is one of the array, or none.
LEMMA StepMaps ==
    ASSUME ObjectInv, FilledInv, [Next]_vars
    PROVE  [Array!Next]_<<Data, Calling, Unwritten>>
<1>1. CASE UNCHANGED vars
  <2>1. UNCHANGED <<dset, todo, pc, chunk_info, object>>
    BY <1>1 DEF vars
  <2>2. Data' = Data
    BY <2>1, DataSame
  <2>3. Calling' = Calling /\ Unwritten' = Unwritten
    BY <2>1 DEF Calling, Unwritten, Running, Call, AbstractCall, MembersOf, Coords
  <2> QED
    BY <2>2, <2>3
<1>2. ASSUME NEW r \in Ranks, WriteNothing(r) \/ Begin(r) \/ Step(r) \/ Die(r)
      PROVE  [Array!Next]_<<Data, Calling, Unwritten>>
  <2>1. WriteInv
    BY DEF ObjectInv
  <2>2. \/ UNCHANGED <<Data, Calling, Unwritten>>
        \/ Array!Begin(r) \/ Array!Write(r) \/ Array!Return(r) \/ Array!Die(r)
    BY <1>2, <2>1, NothingMaps, BeginMaps, BackgroundMaps, WriteMaps, ReturnMaps, DieMaps DEF Step
  <2> QED
    BY <1>2, <2>2 DEF Array!Next
<1> QED
  BY <1>1, <1>2 DEF Next

\* The array begins with nothing written and no call running.
LEMMA ArrayInit ==
    ASSUME Init
    PROVE  Array!Init
<1>1. PICK p \in Programs :
        /\ dset = p.dset /\ todo = p.calls
        /\ pc = [r \in Ranks |-> "idle"]
        /\ chunk_info = [r \in Ranks |-> << >>]
        /\ bkg_buf = [r \in Ranks |-> << >>]
        /\ object = << >>
  BY DEF Init
<1>2. \A c \in Extent(dset.dims) : \A m \in MembersOf(dset.type) : Element(c)[m] = Junk
  BY <1>1 DEF Element, Unit
<1>3. \A c \in DOMAIN Data : \A m \in DOMAIN Data[c] : Data[c][m] = Junk
  BY <1>2 DEF Data, Element
<1>4. Calling = [r \in Ranks |-> None] /\ Unwritten = [r \in Ranks |-> {}]
  BY <1>1 DEF Calling, Unwritten, Running
<1> QED
  BY <1>3, <1>4 DEF Array!Init

\* No step adds a call that leaves a member unread.
LEMMA FilledStep ==
    ASSUME WriteInv, FilledInv, [Next]_vars
    PROVE  FilledInv'
<1>1. CASE UNCHANGED vars
  BY <1>1 DEF vars, FilledInv, Filled
<1>2. ASSUME NEW r \in Ranks, WriteNothing(r) \/ Begin(r) \/ Step(r) \/ Die(r) PROVE FilledInv'
  <2>1. dset' = dset
    BY <1>2 DEF WriteNothing, Begin, Step, WriteEqual, ReadBackground, WriteConverted, WriteObject,
                Return, Die
  <2>2. CASE WriteNothing(r)
    BY <2>1, <2>2, FilledKept DEF WriteNothing
  <2>3. CASE Return(r)
    <3>1. todo[r] # << >>
      BY <2>3, RankIs DEF Return, ControlAt, Running
    <3> QED
      BY <2>1, <2>3, <3>1, FilledKept DEF Return
  <2>4. CASE ~WriteNothing(r) /\ ~Return(r)
    <3>1. todo' = todo
      BY <1>2, <2>4 DEF Begin, Step, WriteEqual, ReadBackground, WriteConverted, WriteObject, Die
    <3> QED
      BY <2>1, <3>1, FilledKept
  <2> QED
    BY <2>2, <2>3, <2>4
<1> QED
  BY <1>1, <1>2 DEF Next

\* Writing a dataset is writing an array, for any datasets, ranks, programs, selections
\* and sizes of a batch of sequences, and wherever ranks die: each element gets, with its
\* chunk, the members of the element that has its place in memory, and every other
\* element, and every member that has a value, stays as it is.  Of the types it asks that
\* a conversion has room, which is that the memory type is no smaller than the dataset's,
\* and a background to leave a member from if it leaves one.  The connector asks for a
\* background only where the memory type has a member or a gap that the dataset's type has
\* not; the calls in which neither holds and a member is left are those that lose it.
THEOREM WritesAnArray ==
    ASSUME \A p \in Programs : \A r \in Ranks : \A i \in DOMAIN p.calls[r] :
               Filled(p.dset, p.calls[r][i])
    PROVE  Spec => Implements
<1>1. Init => ObjectInv /\ FilledInv /\ Array!Init
  <2> SUFFICES ASSUME Init PROVE ObjectInv /\ FilledInv /\ Array!Init
    OBVIOUS
  <2>1. FilledInv
    BY DEF Init, FilledInv
  <2> QED
    BY <2>1, ObjectInit, ArrayInit
<1>2. ObjectInv /\ FilledInv /\ [Next]_vars => (ObjectInv /\ FilledInv)'
  BY ObjectStep, FilledStep DEF ObjectInv
<1>3. ObjectInv /\ FilledInv /\ [Next]_vars => [Array!Next]_<<Data, Calling, Unwritten>>
  BY StepMaps
<1> QED
  BY <1>1, <1>2, <1>3, PTL DEF Spec, Implements, Array!Spec, Array!vars
==============================================================================
