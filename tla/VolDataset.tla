----------------------------- MODULE VolDataset -----------------------------
(***************************************************************************)
(* The HDF5 VOL connector: how the ranks of a program write one dataset.   *)
(* A call takes its selection apart into chunks and writes each chunk's    *)
(* object with one operation.  If the types differ the elements go through *)
(* a conversion; what it does not set is taken from a background buffer,   *)
(* which serves all chunks of the call, and into which, if need_bkg says   *)
(* so, the chunk's elements are read first.                                *)
(*                                                                         *)
(* External, modelled from how the connector uses it: the object store,    *)
(* whose operations on one object are atomic; HDF5's dataspaces (VolSelect *)
(* has them), H5Dgather and H5Tconvert; and the application, whose memory  *)
(* selections have as many points as those in the file, and whose calls do *)
(* not overlap in time and in the file when one of them writes back what   *)
(* it has read.                                                            *)
(***************************************************************************)
EXTENDS VolSelect

CONSTANTS
    Ranks,
    Programs,           \* [dset, calls]: a dataset, and the calls of each rank
    Contiguous, Chunked, \* layouts
    All,                \* H5S_ALL, as the memory space
    Gap,                \* a unit of a type that no member has
    Junk,               \* what nobody wrote
    None,
    MaxCrashes          \* bound: ranks that die

ASSUME CrashAssumption == MaxCrashes \in Nat
\* External: HDF5 has checked the selections against the extents and their numbers of
\* points against each other.  A memory space for chunks has the rank of the dataset,
\* and a type has a size.
IsType(type) == type \in Seq(Range(type)) \ {<< >>}

IsCall(ds, call) ==
    /\ IsType(call.type)
    /\ call.fsel \subseteq Extent(ds.dims)
    /\ call.mem # All =>
          /\ call.mem.dims \in Seq(Nat) /\ call.mem.sel \subseteq Extent(call.mem.dims)
          /\ Cardinality(call.mem.sel) = Cardinality(call.fsel)
          /\ ds.layout = Chunked => Len(call.mem.dims) = Len(ds.dims)

ASSUME LayoutAssumption == Contiguous # Chunked
ASSUME ProgramAssumption ==
    \A p \in Programs :
        /\ p.dset.layout \in {Contiguous, Chunked} /\ IsType(p.dset.type)
        /\ p.dset.dims \in Seq(Nat) /\ p.dset.chunk \in Seq(Nat \ {0})
        /\ Len(p.dset.chunk) = Len(p.dset.dims)
        /\ p.calls \in [Ranks -> Seq(UNION {Range(p.calls[r]) : r \in Ranks})]
        /\ \A r \in Ranks : \A i \in DOMAIN p.calls[r] : IsCall(p.dset, p.calls[r][i])

VARIABLES
    dset,               \* the dataset: dims, layout, chunk dims, type
    todo,               \* rank -> the calls it has yet to make, or is in
    pc,                 \* rank -> its place in a call
    chunk_info,         \* rank -> the chunks its call has yet to write
    bkg_buf,            \* rank -> what is written of its background buffer
    object              \* chunk coordinates -> offset -> unit       (storage)

vars == <<dset, todo, pc, chunk_info, bkg_buf, object>>

Init ==
    \E p \in Programs :
        /\ dset = p.dset /\ todo = p.calls
        /\ pc = [r \in Ranks |-> "idle"]
        /\ chunk_info = [r \in Ranks |-> << >>]
        /\ bkg_buf = [r \in Ranks |-> << >>]
        /\ object = << >>

-----------------------------------------------------------------------------
\* A call: the selection in the file, the memory space, the memory type, the buffer.

Call(r) == Head(todo[r])
real_file_space(call) == Space(dset.dims, call.fsel)
real_mem_space(call) == IF call.mem = All THEN real_file_space(call) ELSE call.mem

\* Types are sequences of members, of one unit each, and gaps.
types_equal(call) == call.type = dset.type
MembersOf(type) == Range(type) \ {Gap}

\* need_bkg as tconv_init asks it: the dataset's type is the source.
fill_bkg(call) ==
    /\ ~types_equal(call)
    /\ \/ \E m \in MembersOf(call.type) : m \notin MembersOf(dset.type)
       \/ Gap \in Range(call.type)

\* The chunks of a call; a contiguous dataset is a single one at coordinate 0.
Chunks(call) ==
    IF dset.layout = Contiguous
    THEN <<[chunk_coords |-> Origin(dset.dims), fspace |-> real_file_space(call),
            mspace |-> real_mem_space(call)]>>
    ELSE get_selected_chunk_info(real_file_space(call), real_mem_space(call), dset.chunk)

\* The extent of a chunk's object.
StoreDims == IF dset.layout = Contiguous THEN dset.dims ELSE dset.chunk

\* A mistaken BufferUnits: room for the elements that the first chunk selects.
BufferUnitsSelected(call) == Cardinality(Chunks(call)[1].fspace.sel) * Len(call.type)

\* The background buffer has room for a chunk of elements, of the memory type's size; it
\* is filled with elements of the size of the dataset's type, which a smaller memory type
\* has no room for.
BufferUnits(call) == Cardinality(Extent(StoreDims)) * Len(call.type)
HasRoom(call) == Len(call.type) >= Len(dset.type)

\* What the caller's buffer holds at an offset: this member of that element.
Buffer(r, o) ==
    LET call == Call(r)
        dims == real_mem_space(call).dims
        size == Len(call.type)
    IN  <<r, call.buf, CHOOSE c \in Extent(dims) : Linear(dims, c) = o \div size,
          call.type[(o % size) + 1]>>

-----------------------------------------------------------------------------
\* H5Dgather and H5Tconvert.

\* The elements of a memory space, in order.
Gathered(space) ==
    LET places == {Linear(space.dims, c) : c \in space.sel}
    IN  [i \in 1 .. Cardinality(space.sel) |->
            CHOOSE c \in space.sel : Below(places, Linear(space.dims, c)) = i - 1]

\* What the background buffer holds at an offset, as far as it is known: not before it is
\* written, nor beyond the end.
Kept(r, o) ==
    IF o \in DOMAIN bkg_buf[r] /\ o < BufferUnits(Call(r)) THEN bkg_buf[r][o] ELSE Junk

\* A converted element has the members that the memory type has too; the rest is the
\* background's.
Converted(r, mspace, o) ==
    LET call == Call(r)
        size == Len(dset.type)
        m == dset.type[(o % size) + 1]
        elem == Gathered(mspace)[(o \div size) + 1]
    IN  IF m \in MembersOf(call.type) THEN <<r, call.buf, elem, m>> ELSE Kept(r, o)

-----------------------------------------------------------------------------
\* dataset_write

Goto(r, to) == pc' = [pc EXCEPT ![r] = to]
Running(r) == pc[r] \in {"chunk", "convert"}

\* The application's rule.
MayBegin(r) ==
    \A s \in Ranks \ {r} : Running(s) /\ (fill_bkg(Call(s)) \/ fill_bkg(Call(r))) =>
        Call(s).fsel \intersect Call(r).fsel = {}

\* An empty selection succeeds at once.
WriteNothing(r) ==
    /\ pc[r] = "idle" /\ todo[r] # << >>
    /\ Call(r).fsel = {}
    /\ todo' = [todo EXCEPT ![r] = Tail(@)]
    /\ UNCHANGED <<dset, pc, chunk_info, bkg_buf, object>>

\* The chunks of selections of different shapes cannot be got: the failure is
\* logged, and the array that was never made is used.
Mismatch(call) ==
    /\ dset.layout = Chunked
    /\ ~SameShape(real_file_space(call), real_mem_space(call))

Begin(r) ==
    /\ pc[r] = "idle" /\ todo[r] # << >> /\ MayBegin(r)
    /\ Call(r).fsel # {}
    /\ IF Mismatch(Call(r))
       THEN Goto(r, "dead") /\ UNCHANGED chunk_info
       ELSE /\ Goto(r, "chunk")
            /\ chunk_info' = [chunk_info EXCEPT ![r] = Chunks(Call(r))]
    /\ UNCHANGED <<dset, todo, bkg_buf, object>>

Here(r) == Head(chunk_info[r])
Object(r) ==
    IF Here(r).chunk_coords \in DOMAIN object THEN object[Here(r).chunk_coords] ELSE << >>

WriteObject(r, ops, source) ==
    /\ object' = [at \in DOMAIN object \union {Here(r).chunk_coords} |->
                     IF at = Here(r).chunk_coords THEN Written(Object(r), ops, source)
                     ELSE object[at]]
    /\ chunk_info' = [chunk_info EXCEPT ![r] = Tail(@)]
    /\ Goto(r, "chunk")
    /\ UNCHANGED <<dset, todo>>

\* With equal types the units go straight from the caller's buffer; the file's
\* offsets are the buffer's if it has the extent of the one chunk.
MatchSelect(r) ==
    /\ Call(r).mem = All /\ Len(Chunks(Call(r))) = 1
    /\ dset.dims = Here(r).fspace.dims

WriteEqual(r) ==
    /\ pc[r] = "chunk" /\ chunk_info[r] # << >> /\ types_equal(Call(r))
    /\ LET size == Len(dset.type)
           ops == IF MatchSelect(r) THEN build_io_op_match(Here(r).fspace, size)
                  ELSE build_io_op_merge(Here(r).mspace, Here(r).fspace, size)
       IN  WriteObject(r, ops, [o \in From(ops) |-> Buffer(r, o)])
    /\ UNCHANGED bkg_buf

\* A mistaken ReadBackground: the places in the object are those of the memory space.
ReadBackgroundInMemory(r) ==
    /\ pc[r] = "chunk" /\ chunk_info[r] # << >> /\ fill_bkg(Call(r))
    /\ LET ops == build_io_op_contig(Here(r).mspace, Len(dset.type))
       IN  bkg_buf' = [bkg_buf EXCEPT ![r] = ReadInto(ops, Object(r), @)]
    /\ Goto(r, "convert")
    /\ UNCHANGED <<dset, todo, chunk_info, object>>

\* The background, which what the conversion leaves must come from; nothing is read
\* from an object, or a place in it, that was never written, and the buffer holds there
\* what an earlier chunk left.
ReadBackground(r) ==
    /\ pc[r] = "chunk" /\ chunk_info[r] # << >> /\ fill_bkg(Call(r))
    /\ LET ops == build_io_op_contig(Here(r).fspace, Len(dset.type))
       IN  bkg_buf' = [bkg_buf EXCEPT ![r] = ReadInto(ops, Object(r), @)]
    /\ Goto(r, "convert")
    /\ UNCHANGED <<dset, todo, chunk_info, object>>

\* The conversion makes its elements in the background buffer, where they stay.
WriteConverted(r) ==
    /\ \/ pc[r] = "convert"
       \/ pc[r] = "chunk" /\ chunk_info[r] # << >>
          /\ ~types_equal(Call(r)) /\ ~fill_bkg(Call(r))
    /\ LET ops == build_io_op_contig(Here(r).fspace, Len(dset.type))
           elems == [o \in From(ops) |-> Converted(r, Here(r).mspace, o)]
       IN  /\ WriteObject(r, ops, elems)
           /\ bkg_buf' = [bkg_buf EXCEPT ![r] =
                            [o \in DOMAIN @ \union From(ops) |->
                                IF o \in From(ops) THEN elems[o] ELSE @[o]]]

\* The buffer is freed with the last chunk.
Return(r) ==
    /\ pc[r] = "chunk" /\ chunk_info[r] = << >>
    /\ todo' = [todo EXCEPT ![r] = Tail(@)]
    /\ bkg_buf' = [bkg_buf EXCEPT ![r] = << >>]
    /\ Goto(r, "idle")
    /\ UNCHANGED <<dset, chunk_info, object>>

\* A rank may die in a call; what it wrote stays.
Die(r) ==
    /\ Running(r)
    /\ Cardinality({s \in Ranks : pc[s] = "dead"}) < MaxCrashes
    /\ Goto(r, "dead")
    /\ chunk_info' = [chunk_info EXCEPT ![r] = << >>]
    /\ bkg_buf' = [bkg_buf EXCEPT ![r] = << >>]
    /\ UNCHANGED <<dset, todo, object>>

Step(r) == WriteEqual(r) \/ ReadBackground(r) \/ WriteConverted(r) \/ Return(r)

Next == \E r \in Ranks : WriteNothing(r) \/ Begin(r) \/ Step(r) \/ Die(r)

Spec == Init /\ [][Next]_vars

-----------------------------------------------------------------------------
\* The dataset as its readers see it.
Coords(c) ==
    IF dset.layout = Contiguous THEN Origin(dset.dims)
    ELSE [d \in Dims(c) |-> (c[d] \div dset.chunk[d]) * dset.chunk[d]]

Unit(c, j) ==
    LET at == Coords(c)
        off == Linear(StoreDims, Minus(c, at)) * Len(dset.type) + j - 1
    IN  IF at \in DOMAIN object /\ off \in DOMAIN object[at] THEN object[at][off] ELSE Junk

Element(c) ==
    [m \in MembersOf(dset.type) |-> Unit(c, CHOOSE j \in DOMAIN dset.type : dset.type[j] = m)]

AbstractCall(call) ==
    [fsel |-> call.fsel, msel |-> IF call.mem = All THEN call.fsel ELSE call.mem.sel,
     members |-> MembersOf(call.type), buf |-> call.buf]

AbstractCalls ==
    {AbstractCall(call) : call \in
        UNION {UNION {Range(p.calls[r]) : r \in Ranks} : p \in Programs}}

Data == [c \in Extent(dset.dims) |-> Element(c)]
Calling == [r \in Ranks |-> IF Running(r) THEN AbstractCall(Call(r)) ELSE None]
Unwritten ==
    [r \in Ranks |->
        IF Running(r)
        THEN {c \in Call(r).fsel :
                 \E i \in DOMAIN chunk_info[r] : chunk_info[r][i].chunk_coords = Coords(c)}
        ELSE {}]

Array == INSTANCE DatasetArray WITH
    Calls <- AbstractCalls, data <- Data, running <- Calling, pending <- Unwritten

-----------------------------------------------------------------------------
\* Types, and with them that a rank has chunks and a background only in a call, and
\* that an object is never longer than its chunk.
TypeOK ==
    /\ pc \in [Ranks -> {"idle", "chunk", "convert", "dead"}]
    /\ \A r \in Ranks :
          /\ chunk_info[r] # << >> => Running(r) /\ todo[r] # << >>
          /\ bkg_buf[r] # << >> => Running(r)
    /\ \A at \in DOMAIN object :
          DOMAIN object[at] \subseteq 0 .. Len(dset.type) * Cardinality(Extent(StoreDims)) - 1

\* The chunks that a call has yet to write are places of their own in the dataset, each
\* with the selected elements that lie there and no others, and with as many elements in
\* memory, which are selected there and which no other chunk takes.
ChunksOfCall ==
    \A r \in Ranks : \A i \in DOMAIN chunk_info[r] :
        LET here == chunk_info[r][i]
        IN  /\ Moved(here.fspace.sel, here.chunk_coords)
                 = {c \in Call(r).fsel : Coords(c) = here.chunk_coords}
            /\ here.mspace.sel \subseteq real_mem_space(Call(r)).sel
            /\ Cardinality(here.mspace.sel) = Cardinality(here.fspace.sel)
            /\ \A other \in {chunk_info[r][j] : j \in DOMAIN chunk_info[r] \ {i}} :
                  /\ other.chunk_coords # here.chunk_coords
                  /\ other.mspace.sel \intersect here.mspace.sel = {}

\* The walk over the chunks, which ends when it has counted as many points as are
\* selected, leaves out none: a call begins with a chunk for each element.
WholeSelection ==
    [][\A r \in Ranks : pc[r] = "idle" /\ pc'[r] = "chunk" =>
          \A c \in Call(r).fsel : \E i \in DOMAIN chunk_info'[r] :
              chunk_info'[r][i].chunk_coords = Coords(c)]_vars

\* When a rank is about to convert a chunk, whatever the chunk's object holds in the selected
\* elements is in the background buffer, at the place it is taken from: no value that
\* another rank has written since it was read is written over with an older one, and none
\* with what is left of an earlier chunk.  Of a place that the object lacks it says nothing.
BackgroundCurrent ==
    \A r \in Ranks : pc[r] = "convert" /\ HasRoom(Call(r)) =>
        \A m \in Moves(build_io_op_contig(Here(r).fspace, Len(dset.type))) :
            m[2] \in DOMAIN Object(r) => Kept(r, m[1]) = Object(r)[m[2]]

\* The background buffer, which is sized by the extent of the first chunk and the memory
\* type and used for all chunks with elements of the dataset's type, is not overrun,
\* unless the memory type is the smaller of the two.
BackgroundFits ==
    \A r \in Ranks : Running(r) /\ HasRoom(Call(r)) =>
        DOMAIN bkg_buf[r] \subseteq 0 .. BufferUnits(Call(r)) - 1

\* Writing a dataset, chunk by chunk and through conversion and background buffers,
\* is writing an array: whatever the selections, the layout and the extents, each
\* element gets the value that was meant for it, and no other value changes.  A member
\* that was never written has none: a write of the others may leave anything there, and
\* the code does leave what an earlier chunk of the call had there.
Implements == Array!Spec

\* "If no match was found, this type is not being filled in, so we must fill the
\* background buffer": no write unsets a member that has a value.
MembersKept ==
    [][\A x \in Extent(dset.dims) : \A m \in MembersOf(dset.type) :
          Element(x)[m] # Junk => Element(x)[m]' # Junk]_object
=============================================================================
