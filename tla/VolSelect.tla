----------------------------- MODULE VolSelect -----------------------------
(***************************************************************************)
(* How the HDF5 VOL connector takes a selection apart: into the chunks it  *)
(* touches, with a file and a memory space for each, and into the list of  *)
(* transfers between a buffer and one chunk.                               *)
(*                                                                         *)
(* A dataspace has an extent and a set of selected coordinates.  External: *)
(* what HDF5 makes of one, its bounds, its number of points and its        *)
(* sequences, which are the runs of selected elements in row-major order.  *)
(* Offsets and lengths are in units, the smallest size of a member.        *)
(***************************************************************************)
EXTENDS Integers, SequencesExt

CONSTANT SeqListLen         \* H5VL_DTIO_SEQ_LIST_LEN: sequences got at a time

ASSUME SeqListAssumption == SeqListLen \in Nat \ {0}

-----------------------------------------------------------------------------
\* Dataspaces, as HDF5 has them.

Dims(coord) == DOMAIN coord
Plus(a, b) == [d \in Dims(a) |-> a[d] + b[d]]
Minus(a, b) == [d \in Dims(a) |-> a[d] - b[d]]

Space(dims, sel) == [dims |-> dims, sel |-> sel]

\* The block of the given size at a coordinate.
Block(start, size) ==
    {c \in [Dims(start) -> 0 .. Max(Range(Plus(start, size)))] :
        \A d \in Dims(start) : start[d] <= c[d] /\ c[d] < start[d] + size[d]}

Origin(dims) == [d \in Dims(dims) |-> 0]
Extent(dims) == Block(Origin(dims), dims)

\* H5Sget_select_bounds
SelStart(space) == [d \in Dims(space.dims) |-> Min({c[d] : c \in space.sel})]
SelEnd(space) == [d \in Dims(space.dims) |-> Max({c[d] : c \in space.sel})]

Moved(sel, by) == {Plus(c, by) : c \in sel}

\* H5Sselect_shape_same
SameShape(file, mem) ==
    Moved(file.sel, Minus(SelStart(mem), SelStart(file))) = mem.sel

\* The place of an element in the row-major order of an extent.
Linear(dims, c) ==
    LET place[d \in 0 .. Len(dims)] == IF d = 0 THEN 0 ELSE place[d - 1] * dims[d] + c[d]
    IN  place[Len(dims)]

\* How many numbers of a set are below one; the numbers in order.
Below(S, n) == Cardinality({m \in S : m < n})
Ascending(S) == [i \in 1 .. Cardinality(S) |-> CHOOSE n \in S : Below(S, n) = i - 1]

\* H5Ssel_iter_get_seq_list, over all its calls.
Sequences(space, size) ==
    LET offs == {Linear(space.dims, c) : c \in space.sel}
        firsts == Ascending({o \in offs : o - 1 \notin offs})
        end(o) == Min({e \in offs : e >= o /\ e + 1 \notin offs})
    IN  [i \in DOMAIN firsts |->
            [off |-> firsts[i] * size, len |-> (end(firsts[i]) - firsts[i] + 1) * size]]

-----------------------------------------------------------------------------
\* get_selected_chunk_info

\* The chunk that holds the first corner of the selection's bounding box.
FirstChunk(file, chunk) ==
    [d \in Dims(chunk) |-> (SelStart(file)[d] \div chunk[d]) * chunk[d]]

\* One further in the fastest dimension that stays in the box; the faster ones
\* start again.
NextChunk(at, first, end, chunk) ==
    LET inc == Max({d \in Dims(at) : at[d] + chunk[d] <= end[d]})
    IN  [d \in Dims(at) |-> IF d < inc THEN at[d]
                            ELSE IF d = inc THEN at[d] + chunk[d] ELSE first[d]]

\* The selection in a chunk, moved to where its elements are in memory.
MemSelection(inchunk, at, file, mem) ==
    Moved(inchunk, Plus(at, Minus(SelStart(mem), SelStart(file))))

\* A mistaken ChunkInfo: the selection is not moved back to the chunk's own extent.
ChunkInfoUnmoved(at, chunk, file, mem) ==
    LET infile == file.sel \intersect Block(at, chunk)
    IN  [chunk_coords |-> at, fspace |-> Space(chunk, infile),
         mspace |-> Space(mem.dims, MemSelection(infile, Origin(chunk), file, mem))]

ChunkInfo(at, chunk, file, mem) ==
    LET inchunk == {Minus(c, at) : c \in file.sel \intersect Block(at, chunk)}
    IN  [chunk_coords |-> at, fspace |-> Space(chunk, inchunk),
         mspace |-> Space(mem.dims, MemSelection(inchunk, at, file, mem))]

\* A mistaken ChunkStep: it counts the points of a chunk, not those selected in it.
ChunkStepWhole(s, chunk, file, mem) ==
    LET here == ChunkInfo(s.at, chunk, file, mem)
        left == s.left - Cardinality(Extent(chunk))
    IN  IF s.left <= 0 THEN s
        ELSE [at |-> IF left <= 0 THEN s.at
                     ELSE NextChunk(s.at, FirstChunk(file, chunk), SelEnd(file), chunk),
              left |-> left,
              infos |-> IF here.fspace.sel = {} THEN s.infos ELSE Append(s.infos, here)]

\* One round of the loop over the box: the chunk is kept if it meets the selection,
\* and the loop ends, without a further chunk, when all points are accounted for.
ChunkStep(s, chunk, file, mem) ==
    LET here == ChunkInfo(s.at, chunk, file, mem)
        left == s.left - Cardinality(here.fspace.sel)
    IN  IF s.left = 0 THEN s
        ELSE [at |-> IF left = 0 THEN s.at
                     ELSE NextChunk(s.at, FirstChunk(file, chunk), SelEnd(file), chunk),
              left |-> left,
              infos |-> IF here.fspace.sel = {} THEN s.infos ELSE Append(s.infos, here)]

\* For spaces of the same shape; the loop has a round for every chunk of the extent
\* at most.
get_selected_chunk_info(file, mem, chunk) ==
    LET round[n \in Nat] ==
            IF n = 0 THEN [at |-> FirstChunk(file, chunk),
                           left |-> Cardinality(file.sel), infos |-> << >>]
            ELSE ChunkStep(round[n - 1], chunk, file, mem)
    IN  round[Cardinality(Extent(file.dims))].infos

-----------------------------------------------------------------------------
\* The lists of transfers: from a place in the buffer to one in the object.

Transfer(from, to, len) == [from |-> from, to |-> to, len |-> len]

\* A list of sequences that is got in batches: the batch at hand, the index in it,
\* how much of that sequence is used up, and what is still to get.
Cursor(batch, i, ei, rest) == [batch |-> batch, i |-> i, ei |-> ei, rest |-> rest]

Refill(c) ==
    LET n == IF Len(c.rest) < SeqListLen THEN Len(c.rest) ELSE SeqListLen
    IN  IF c.i # Len(c.batch) THEN c
        ELSE Cursor(SubSeq(c.rest, 1, n), 0, c.ei, SubSeq(c.rest, n + 1, Len(c.rest)))

Off(c) == c.batch[c.i + 1].off + c.ei
Left(c) == c.batch[c.i + 1].len

\* A mistaken Advance: the offset in a sequence that is half done stays.
AdvanceLate(c, n) ==
    IF n = Left(c) THEN Cursor(c.batch, c.i + 1, 0, c.rest)
    ELSE Cursor([c.batch EXCEPT ![c.i + 1].len = @ - n], c.i, n, c.rest)

Advance(c, n) ==
    IF n = Left(c) THEN Cursor(c.batch, c.i + 1, 0, c.rest)
    ELSE Cursor([c.batch EXCEPT ![c.i + 1].len = @ - n], c.i, c.ei + n, c.rest)

MergeStep(s) ==
    LET m == Refill(s.mem)
        f == Refill(s.file)
        io_len == IF Left(m) <= Left(f) THEN Left(m) ELSE Left(f)
    IN  IF s.tot_len = 0 THEN s
        ELSE [mem |-> Advance(m, io_len), file |-> Advance(f, io_len),
              tot_len |-> s.tot_len - io_len,
              ops |-> Append(s.ops, Transfer(Off(m), Off(f), io_len))]

build_io_op_merge(mspace, fspace, size) ==
    LET tot_len == Cardinality(mspace.sel) * size
        round[n \in Nat] ==
            IF n = 0 THEN [mem |-> Cursor(<< >>, 0, 0, Sequences(mspace, size)),
                           file |-> Cursor(<< >>, 0, 0, Sequences(fspace, size)),
                           tot_len |-> tot_len, ops |-> << >>]
            ELSE MergeStep(round[n - 1])
    IN  round[tot_len].ops

\* The buffer has the extent of the file.
build_io_op_match(fspace, size) ==
    LET seqs == Sequences(fspace, size)
    IN  [i \in DOMAIN seqs |-> Transfer(seqs[i].off, seqs[i].off, seqs[i].len)]

\* The buffer has the elements one after the other.
build_io_op_contig(fspace, size) ==
    LET seqs == Sequences(fspace, size)
        mem_off[i \in 1 .. Len(seqs)] == IF i = 1 THEN 0 ELSE mem_off[i - 1] + seqs[i - 1].len
    IN  [i \in DOMAIN seqs |-> Transfer(mem_off[i], seqs[i].off, seqs[i].len)]

-----------------------------------------------------------------------------
\* What the object store makes of a list of transfers.

\* The units that move: where from and where to.
Moves(ops) ==
    UNION {{<<ops[i].from + k, ops[i].to + k>> : k \in 0 .. ops[i].len - 1} : i \in DOMAIN ops}

\* The places in the buffer.
From(ops) == {m[1] : m \in Moves(ops)}

\* The places in the object.
To(ops) == {m[2] : m \in Moves(ops)}

\* The object with the units of the transfers over what it had.
Written(object, ops, buffer) ==
    [to \in DOMAIN object \union To(ops) |->
        IF to \in To(ops) THEN buffer[(CHOOSE m \in Moves(ops) : m[2] = to)[1]]
        ELSE object[to]]

\* A buffer with what the transfers bring from the object over what it held; what the
\* object lacks they leave as it was.
ReadInto(ops, object, buffer) ==
    LET got == {m \in Moves(ops) : m[2] \in DOMAIN object}
        from == {m[1] : m \in got}
    IN  [o \in DOMAIN buffer \union from |->
            IF o \in from THEN object[(CHOOSE m \in got : m[1] = o)[2]] ELSE buffer[o]]
=============================================================================
