---------------------------- MODULE MCVolDataset ----------------------------
(***************************************************************************)
(* Programs on small datasets.  Alone, one rank makes one call with every  *)
(* selection of a 3 by 3 dataset, in 2 by 2 chunks, in one, or contiguous, *)
(* and with some of one and three dimensions, from memory of the same and  *)
(* of other extents.  Together, two ranks make up to three calls on        *)
(* selections that overlap.                                                *)
(***************************************************************************)
EXTENDS VolDataset

CONSTANTS r1, r2, a, b, c

TwoRanks == {r1, r2}
Dset(dims, layout, chunk) == [dims |-> dims, layout |-> layout, chunk |-> chunk, type |-> <<a, b>>]

Square(layout, chunk) == Dset(<<3, 3>>, layout, chunk)
InChunks == Square(Chunked, <<2, 2>>)

NewCall(fsel, mem, type, n) == [fsel |-> fsel, mem |-> mem, type |-> type, buf |-> n]
Alone(ds, call) ==
    [dset |-> ds, calls |-> [r \in TwoRanks |-> IF r = r1 THEN <<call>> ELSE << >>]]

\* Memory of a larger extent with the selection moved, and with the first elements of a
\* row, or of every second row.
Apart(dims, fsel) ==
    Space([d \in DOMAIN dims |-> dims[d] + 1], {[d \in DOMAIN x |-> x[d] + (d % 2)] : x \in fsel})
Row(fsel) == Space(<<1, 9>>, {<<0, k>> : k \in 0 .. Cardinality(fsel) - 1})
Column(fsel) == Space(<<9, 2>>, {<<k, 1>> : k \in 0 .. Cardinality(fsel) - 1})

FullTypes == {<<a, b>>, <<b, a>>, <<a, c, b>>}

OneCall(ds, fsels, Mems(_)) ==
    UNION {{Alone(ds, NewCall(fsel, mem, type, 1)) : mem \in Mems(fsel), type \in FullTypes}
           : fsel \in fsels}


Cells(ds) == SUBSET Extent(ds.dims) \ {{}}
SomeCells(ds) == {S \in Cells(ds) : Cardinality(S) \in {1, 2, 5}}

SinglePrograms ==
    LET whole == Square(Chunked, <<3, 3>>)
        flat == Square(Contiguous, <<3, 3>>)
        line == Dset(<<5>>, Chunked, <<2>>)
        cube == Dset(<<2, 2, 2>>, Chunked, <<1, 1, 2>>)
    IN  OneCall(InChunks, Cells(InChunks), LAMBDA f : {All, Apart(<<3, 3>>, f)})
        \union OneCall(whole, SomeCells(whole), LAMBDA f : {All, Apart(<<3, 3>>, f)})
        \union OneCall(flat, SomeCells(flat),
                       LAMBDA f : {All, Apart(<<3, 3>>, f), Row(f), Column(f)})
        \union OneCall(line, Cells(line), LAMBDA f : {All, Apart(<<5>>, f)})
        \union OneCall(cube, SomeCells(cube), LAMBDA f : {All, Apart(<<2, 2, 2>>, f)})

\* An empty selection, and one that chunks cannot be found for.
OddPrograms ==
    {Alone(InChunks, NewCall({}, All, <<a, b>>, 1)),
     Alone(InChunks, NewCall({<<0, 0>>, <<1, 1>>}, Row({1, 2}), <<a, b>>, 1))}

Selections == {Extent(<<3, 3>>), {<<0, 1>>, <<1, 1>>, <<2, 0>>}, {<<2, 0>>, <<2, 2>>}}
CallsOf(types, n) == {NewCall(fsel, All, type, n) : fsel \in Selections, type \in types}

\* A memory type that lacks b, with a member or a gap more than the file: need_bkg
\* has the background filled.
PartialTypes == {<<a, c>>, <<Gap, a>>}

Together(types1, types2, types3) ==
    {[dset |-> InChunks, calls |-> [r \in TwoRanks |-> IF r = r1 THEN <<x, y>> ELSE <<z>>]]
        : x \in CallsOf(types1, 1), y \in CallsOf(types2, 2), z \in CallsOf(types3, 1)}

WritePrograms ==
    SinglePrograms \union OddPrograms
    \union Together({<<a, b>>}, PartialTypes, {<<a, b>>, <<b, a>>, <<b, c>>})

\* One rank writes all members, then some of them with a type that has no other.
MemberPrograms == Together({<<a, b>>}, {<<a>>}, {<<a, b>>})
=============================================================================
