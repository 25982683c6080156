--------------------------- MODULE VolSelectProofs ---------------------------
(***************************************************************************)
(* What TLAPS proves of VolSelect, for any number of dimensions, chunk     *)
(* sizes and selections: the walk over the chunks of a selection takes     *)
(* every selected element once, in the chunk it lies in, and from the      *)
(* place in memory that corresponds to it; and the lists of transfers move *)
(* the units of a selection, each from the one with its place, and no      *)
(* others.                                                                 *)
(***************************************************************************)
EXTENDS VolSelect, FiniteSetTheorems, WellFoundedInduction, TLAPS

(***************************************************************************)
(* Numbers.                                                                *)
(***************************************************************************)

\* A set of numbers that is not empty has a least one.
LEMMA Smallest ==
    ASSUME NEW T, T \subseteq Nat, T # {}
    PROVE  \E m \in T : \A n \in T : m <= n
<1> DEFINE R == OpToRel(<, Nat)
<1>1. IsWellFoundedOn(R, Nat)
  BY NatLessThanWellFounded
<1>2. \A m, n \in Nat : <<m, n>> \in R <=> m < n
  BY DEF OpToRel
<1> HIDE DEF R
<1>3. PICK m \in T : \A n \in T : ~(<<n, m>> \in R)
  BY <1>1, WFMin
<1>4. ASSUME NEW n \in T PROVE m <= n
  <2>1. m \in Nat /\ n \in Nat /\ ~(n < m)
    BY <1>2, <1>3
  <2> QED
    BY <2>1
<1> QED
  BY <1>4

\* Induction on a set of numbers.
LEMMA Induction ==
    ASSUME NEW T, T \subseteq Nat, 0 \in T, \A n \in T : n + 1 \in T
    PROVE  T = Nat
<1> SUFFICES ASSUME Nat \ T # {} PROVE FALSE
  OBVIOUS
<1>1. PICK m \in Nat \ T : \A n \in Nat \ T : m <= n
  BY Smallest
<1>2. m # 0 /\ m - 1 \in Nat /\ ~(m <= m - 1) /\ (m - 1) + 1 = m
  BY <1>1
<1> QED
  BY <1>1, <1>2

\* Min and Max of numbers with a bound.
LEMMA MinIs ==
    ASSUME NEW T, T \subseteq Nat, T # {}
    PROVE  Min(T) \in T /\ \A n \in T : Min(T) <= n
<1>1. \E m \in T : \A n \in T : m =< n
  BY Smallest
<1> QED
  BY <1>1 DEF Min

\* A set of numbers with a bound has a greatest one, which is Max.
LEMMA MaxIs ==
    ASSUME NEW T, T \subseteq Nat, T # {}, NEW b \in Nat, \A n \in T : n <= b
    PROVE  Max(T) \in T /\ \A n \in T : n <= Max(T)
<1> DEFINE U == {b - n : n \in T}
<1>1. U \subseteq Nat /\ U # {}
  <2>1. \A n \in T : b - n \in Nat
    OBVIOUS
  <2>2. PICK n \in T : TRUE
    OBVIOUS
  <2> QED
    BY <2>1, <2>2
<1>2. PICK u \in U : \A v \in U : u <= v
  BY <1>1, Smallest
<1>3. PICK m \in T : u = b - m
  OBVIOUS
<1>4. \A n \in T : m >= n
  <2> SUFFICES ASSUME NEW n \in T PROVE m >= n
    OBVIOUS
  <2>1. b - m <= b - n
    BY <1>2, <1>3
  <2>2. m \in Nat /\ n \in Nat
    OBVIOUS
  <2> QED
    BY <2>1, <2>2
<1> HIDE DEF U
<1>5. Max(T) \in T /\ \A n \in T : Max(T) >= n
  BY <1>3, <1>4 DEF Max
<1> QED
  BY <1>5

\* The multiple of m below n; multiples lie at least m apart.
Floor(n, m) == (n \div m) * m

\* A number is within one m of the multiple of m that it is rounded down to.
LEMMA FloorIs ==
    ASSUME NEW n \in Nat, NEW m \in Nat \ {0}
    PROVE  /\ n \div m \in Nat /\ Floor(n, m) \in Nat
           /\ Floor(n, m) <= n /\ n < Floor(n, m) + m
  BY DEF Floor

\* A larger factor gives a product that is no smaller.
LEMMA ProductOrder ==
    ASSUME NEW i \in Nat, NEW j \in Nat, NEW m \in Nat
    PROVE  i <= j => i * m <= j * m
  OBVIOUS

\* Different multiples of m are at least m apart.
LEMMA MultiplesApart ==
    ASSUME NEW i \in Nat, NEW j \in Nat, NEW m \in Nat, i * m < j * m
    PROVE  i * m + m <= j * m
<1>1. i * m \in Nat /\ j * m \in Nat
  OBVIOUS
<1>2. ~(j <= i)
  BY <1>1, ProductOrder
<1>3. (i + 1) * m <= j * m
  BY <1>2, ProductOrder
<1>4. (i + 1) * m = i * m + m
  OBVIOUS
<1> QED
  BY <1>3, <1>4

Multiple(a, m) == \E k \in Nat : a = k * m

\* What a number is rounded down to is a multiple.
LEMMA FloorMultiple ==
    ASSUME NEW n \in Nat, NEW m \in Nat \ {0}
    PROVE  Multiple(Floor(n, m), m)
  BY FloorIs DEF Floor, Multiple

\* The same, of two numbers that are multiples.
LEMMA MultipleGap ==
    ASSUME NEW a \in Nat, NEW b \in Nat, NEW m \in Nat \ {0},
           Multiple(a, m), Multiple(b, m), a < b
    PROVE  a + m <= b
  BY MultiplesApart DEF Multiple

\* A number lies in the interval of m from a exactly when a is its Floor.
LEMMA FloorOf ==
    ASSUME NEW n \in Nat, NEW m \in Nat \ {0}, NEW a \in Nat, Multiple(a, m)
    PROVE  (a <= n /\ n < a + m) <=> a = Floor(n, m)
<1> DEFINE f == Floor(n, m)
<1>1. f \in Nat /\ f <= n /\ n < f + m /\ Multiple(f, m)
  BY FloorIs, FloorMultiple
<1> HIDE DEF f
<1>2. a < f => a + m <= f
  BY <1>1, MultipleGap
<1>3. f < a => f + m <= a
  BY <1>1, MultipleGap
<1> QED
  BY <1>1, <1>2, <1>3 DEF f

\* Floor keeps the order.
LEMMA FloorOrder ==
    ASSUME NEW n \in Nat, NEW k \in Nat, NEW m \in Nat \ {0}, n <= k
    PROVE  Floor(n, m) <= Floor(k, m)
<1> DEFINE a == Floor(n, m)
           b == Floor(k, m)
<1>1. a \in Nat /\ b \in Nat /\ a <= n /\ n < a + m /\ b <= k /\ k < b + m
      /\ Multiple(a, m) /\ Multiple(b, m)
  BY FloorIs, FloorMultiple
<1> HIDE DEF a, b
<1>2. b < a => b + m <= a
  BY <1>1, MultipleGap
<1>3. a <= b
  BY <1>1, <1>2
<1> QED
  BY <1>3 DEF a, b

\* Zero is a multiple of everything.
LEMMA FloorZero == ASSUME NEW m \in Nat \ {0} PROVE Multiple(0, m)
  BY DEF Multiple

\* Sequences.
LEMMA SeqIs ==
    ASSUME NEW S, NEW q \in Seq(S)
    PROVE  Len(q) \in Nat /\ q \in [1 .. Len(q) -> S]
  OBVIOUS

\* A sequence is one over any set its elements are in.
LEMMA SequenceInto ==
    \A S, T, q : q \in Seq(S) /\ (\A i \in 1 .. Len(q) : q[i] \in T) => q \in Seq(T)
<1> SUFFICES ASSUME NEW S, NEW T, NEW q, q \in Seq(S), \A i \in 1 .. Len(q) : q[i] \in T
             PROVE  q \in Seq(T)
  OBVIOUS
<1>1. Len(q) \in Nat /\ q \in [1 .. Len(q) -> S]
  BY SeqIs
<1>2. q \in [1 .. Len(q) -> T]
  BY <1>1
<1> QED
  BY <1>1, <1>2

-----------------------------------------------------------------------------
(***************************************************************************)
(* Blocks of coordinates.                                                  *)
(***************************************************************************)
Coordinates(k) == [1 .. k -> Nat]

\* The numbers of a coordinate have a bound.
LEMMA Bounded ==
    ASSUME NEW k \in Nat, NEW c \in Coordinates(k)
    PROVE  \E b \in Nat : \A d \in 1 .. k : c[d] <= b
<1> DEFINE T == {n \in Nat : n <= k => \E b \in Nat : \A d \in 1 .. n : c[d] <= b}
<1>1. 0 \in T
  OBVIOUS
<1>2. ASSUME NEW n \in T PROVE n + 1 \in T
  <2> SUFFICES ASSUME n + 1 <= k PROVE \E b \in Nat : \A d \in 1 .. n + 1 : c[d] <= b
    OBVIOUS
  <2>1. PICK b \in Nat : \A d \in 1 .. n : c[d] <= b
    OBVIOUS
  <2>2. c[n + 1] \in Nat
    BY DEF Coordinates
  <2>3. \A d \in 1 .. n + 1 : c[d] <= b + c[n + 1]
    <3> SUFFICES ASSUME NEW d \in 1 .. n + 1 PROVE c[d] <= b + c[n + 1]
      OBVIOUS
    <3>1. c[d] \in Nat /\ (d = n + 1 \/ d \in 1 .. n)
      BY DEF Coordinates
    <3> QED
      BY <2>1, <2>2, <3>1
  <2> QED
    BY <2>2, <2>3
<1> HIDE DEF T
<1>3. T = Nat
  BY <1>1, <1>2, Induction DEF T
<1> QED
  BY <1>3 DEF T

\* A block has the coordinates from its start up to its size.
LEMMA BlockIs ==
    ASSUME NEW k \in Nat, NEW start \in Coordinates(k), NEW size \in Coordinates(k)
    PROVE  Block(start, size) = {c \in Coordinates(k) :
               \A d \in 1 .. k : start[d] <= c[d] /\ c[d] < start[d] + size[d]}
<1> DEFINE ends == Plus(start, size)
           top == Max(Range(ends))
<1>1. Dims(start) = 1 .. k
  BY DEF Dims, Coordinates
<1>2. ends \in Coordinates(k) /\ \A d \in 1 .. k : ends[d] = start[d] + size[d]
  BY DEF Plus, Dims, Coordinates
<1> HIDE DEF ends
<1>3. k # 0 => top \in Nat /\ \A d \in 1 .. k : ends[d] <= top
  <2> HAVE k # 0
  <2>1. Range(ends) \subseteq Nat /\ ends[1] \in Range(ends)
        /\ \A d \in 1 .. k : ends[d] \in Range(ends)
    BY <1>2 DEF Range, Coordinates
  <2>2. PICK b \in Nat : \A d \in 1 .. k : ends[d] <= b
    BY <1>2, Bounded
  <2>3. \A n \in Range(ends) : n <= b
    BY <1>2, <2>2 DEF Range, Coordinates
  <2> QED
    BY <2>1, <2>3, MaxIs
<1> HIDE DEF top
<1>4. ASSUME NEW c \in Coordinates(k),
             \A d \in 1 .. k : start[d] <= c[d] /\ c[d] < start[d] + size[d]
      PROVE  c \in [1 .. k -> 0 .. top]
  <2>1. \A d \in 1 .. k : c[d] \in 0 .. top
    <3> SUFFICES ASSUME NEW d \in 1 .. k PROVE c[d] \in 0 .. top
      OBVIOUS
    <3>1. c[d] \in Nat /\ start[d] \in Nat /\ size[d] \in Nat /\ top \in Nat /\ c[d] < ends[d]
          /\ ends[d] <= top
      BY <1>2, <1>3, <1>4 DEF Coordinates
    <3> QED
      BY <3>1, <1>2 DEF Coordinates
  <2> QED
    BY <2>1 DEF Coordinates
<1>5. ASSUME NEW c \in [1 .. k -> 0 .. top] PROVE c \in Coordinates(k)
  <2>1. \A d \in 1 .. k : c[d] \in Nat
    BY <1>3
  <2> QED
    BY <2>1 DEF Coordinates
<1>6. Block(start, size) = {c \in [1 .. k -> 0 .. top] :
               \A d \in 1 .. k : start[d] <= c[d] /\ c[d] < start[d] + size[d]}
  BY <1>1 DEF Block, top, ends
<1> QED
  BY <1>4, <1>5, <1>6

\* An extent has the coordinates that are below it in each dimension.
LEMMA ExtentIs ==
    ASSUME NEW k \in Nat, NEW dims \in Coordinates(k)
    PROVE  Extent(dims) = {c \in Coordinates(k) : \A d \in 1 .. k : c[d] < dims[d]}
<1>1. Origin(dims) \in Coordinates(k) /\ \A d \in 1 .. k : Origin(dims)[d] = 0
  BY DEF Origin, Dims, Coordinates
<1>2. Extent(dims) = {c \in Coordinates(k) :
               \A d \in 1 .. k : Origin(dims)[d] <= c[d] /\ c[d] < Origin(dims)[d] + dims[d]}
  BY <1>1, BlockIs DEF Extent
<1>3. ASSUME NEW c \in Coordinates(k)
      PROVE  (\A d \in 1 .. k : Origin(dims)[d] <= c[d] /\ c[d] < Origin(dims)[d] + dims[d])
               <=> \A d \in 1 .. k : c[d] < dims[d]
  BY <1>1 DEF Coordinates
<1> QED
  BY <1>2, <1>3

\* A box has finitely many coordinates.
LEMMA ExtentFinite ==
    ASSUME NEW k \in Nat, NEW dims \in Coordinates(k)
    PROVE  IsFiniteSet(Extent(dims))
<1>1. PICK b \in Nat : \A d \in 1 .. k : dims[d] <= b
  BY Bounded
<1> DEFINE B == 0 .. b
           T == {n \in Nat : IsFiniteSet([1 .. n -> B])}
<1>2. IsFiniteSet(B)
  BY FS_Interval
<1> HIDE DEF B
<1>3. 0 \in T
  <2> DEFINE empty == [d \in 1 .. 0 |-> 0]
  <2>1. \A d \in 1 .. 0 : FALSE
    OBVIOUS
  <2>2. \A f \in [1 .. 0 -> B] : f = empty
    <3> SUFFICES ASSUME NEW f \in [1 .. 0 -> B] PROVE f = empty
      OBVIOUS
    <3>1. f = [d \in 1 .. 0 |-> f[d]]
      OBVIOUS
    <3> QED
      BY <2>1, <3>1
  <2>3. empty \in [1 .. 0 -> B]
    BY <2>1
  <2>4. [1 .. 0 -> B] = {empty}
    BY <2>2, <2>3
  <2>5. IsFiniteSet({empty})
    BY FS_Singleton
  <2> QED
    BY <2>4, <2>5
<1>4. ASSUME NEW n \in T PROVE n + 1 \in T
  <2> DEFINE P == [1 .. n -> B] \X B
             F == [1 .. n + 1 -> B]
             g == [p \in P |-> [d \in 1 .. n + 1 |-> IF d <= n THEN p[1][d] ELSE p[2]]]
  <2>1. IsFiniteSet(P)
    BY <1>2, FS_Product
  <2>2. ASSUME NEW f \in F PROVE \E p \in P : g[p] = f
    <3> DEFINE p == <<[d \in 1 .. n |-> f[d]], f[n + 1]>>
    <3>1. p \in P
      OBVIOUS
    <3>2. p[1] = [d \in 1 .. n |-> f[d]] /\ p[2] = f[n + 1]
      OBVIOUS
    <3>3. \A d \in 1 .. n + 1 : d <= n => d \in 1 .. n
      OBVIOUS
    <3>4. \A d \in 1 .. n + 1 : (IF d <= n THEN p[1][d] ELSE p[2]) = f[d]
      BY <3>2, <3>3
    <3>5. g[p] = [d \in 1 .. n + 1 |-> IF d <= n THEN p[1][d] ELSE p[2]]
      BY <3>1
    <3> HIDE DEF p, g
    <3>6. g[p] = [d \in 1 .. n + 1 |-> f[d]]
      BY <3>4, <3>5
    <3>7. f = [d \in 1 .. n + 1 |-> f[d]]
      OBVIOUS
    <3> QED
      BY <3>1, <3>6, <3>7
  <2>3. \A p \in P : g[p] \in F
    OBVIOUS
  <2>4. g \in Surjection(P, F)
    BY <2>2, <2>3 DEF Surjection
  <2>5. IsFiniteSet(F)
    BY <2>1, <2>4, FS_Surjection
  <2> QED
    BY <2>5
<1> HIDE DEF T
<1>5. T = Nat
  BY <1>3, <1>4, Induction DEF T
<1>6. IsFiniteSet([1 .. k -> B])
  BY <1>5 DEF T
<1>7. Extent(dims) \subseteq [1 .. k -> B]
  <2>1. ASSUME NEW c \in Coordinates(k), \A d \in 1 .. k : c[d] < dims[d]
        PROVE  c \in [1 .. k -> B]
    <3>1. \A d \in 1 .. k : c[d] \in B
      BY <1>1, <2>1 DEF Coordinates, B
    <3> QED
      BY <3>1 DEF Coordinates
  <2> QED
    BY <2>1, ExtentIs
<1> QED
  BY <1>6, <1>7, FS_Subset

-----------------------------------------------------------------------------
(***************************************************************************)
(* The chunks that the walk may come to, and their order.                  *)
(***************************************************************************)
IsSpace(k, space) == /\ space.dims \in Coordinates(k)
                     /\ space.sel \subseteq Extent(space.dims)
                     /\ space.sel # {}
IsChunk(k, chunk) == chunk \in [1 .. k -> Nat \ {0}]

\* What a space selects lies in its extent.
LEMMA SelectedIs ==
    ASSUME NEW k \in Nat, NEW space, IsSpace(k, space), NEW c \in space.sel
    PROVE  c \in Coordinates(k) /\ \A d \in 1 .. k : c[d] \in Nat /\ c[d] < space.dims[d]
  BY ExtentIs DEF IsSpace, Coordinates

\* The bounds of a selection, as the connector asks HDF5 for them, enclose it.
LEMMA BoundsAre ==
    ASSUME NEW k \in Nat, NEW space, IsSpace(k, space)
    PROVE  /\ SelStart(space) \in Coordinates(k) /\ SelEnd(space) \in Coordinates(k)
           /\ \A c \in space.sel : \A d \in 1 .. k :
                 SelStart(space)[d] <= c[d] /\ c[d] <= SelEnd(space)[d]
           /\ \A d \in 1 .. k : /\ SelStart(space)[d] <= SelEnd(space)[d]
                                 /\ SelEnd(space)[d] < space.dims[d]
<1> DEFINE At(d) == {c[d] : c \in space.sel}
<1>1. Dims(space.dims) = 1 .. k
  BY DEF IsSpace, Coordinates, Dims
<1>2. /\ SelStart(space) = [d \in 1 .. k |-> Min(At(d))]
      /\ SelEnd(space) = [d \in 1 .. k |-> Max(At(d))]
  BY <1>1 DEF SelStart, SelEnd
<1>3. ASSUME NEW d \in 1 .. k
      PROVE  /\ Min(At(d)) \in Nat /\ Max(At(d)) \in Nat
             /\ \A c \in space.sel : Min(At(d)) <= c[d] /\ c[d] <= Max(At(d))
             /\ Min(At(d)) <= Max(At(d)) /\ Max(At(d)) < space.dims[d]
  <2>1. /\ At(d) \subseteq Nat /\ \A n \in At(d) : n < space.dims[d]
        /\ \A c \in space.sel : c[d] \in At(d)
    BY SelectedIs
  <2>2. At(d) # {}
    BY DEF IsSpace
  <2>3. space.dims[d] \in Nat
    BY DEF IsSpace, Coordinates
  <2> HIDE DEF At
  <2>4. \A n \in At(d) : n <= space.dims[d]
    BY <2>1, <2>3
  <2>5. Min(At(d)) \in At(d) /\ \A n \in At(d) : Min(At(d)) <= n
    BY <2>1, <2>2, MinIs
  <2>6. Max(At(d)) \in At(d) /\ \A n \in At(d) : n <= Max(At(d))
    BY <2>1, <2>2, <2>3, <2>4, MaxIs
  <2> QED
    BY <2>1, <2>5, <2>6
<1> HIDE DEF At
<1> QED
  BY <1>2, <1>3 DEF Coordinates

Corner(c, chunk) == [d \in Dims(c) |-> Floor(c[d], chunk[d])]

Box(k, file, chunk) ==
    {a \in Coordinates(k) : \A d \in 1 .. k :
        /\ Multiple(a[d], chunk[d])
        /\ FirstChunk(file, chunk)[d] <= a[d] /\ a[d] <= SelEnd(file)[d]}

\* The corner of the chunk of an element is aligned, and not beyond the element.
LEMMA CornerIs ==
    ASSUME NEW k \in Nat, NEW chunk, IsChunk(k, chunk), NEW c \in Coordinates(k)
    PROVE  /\ Corner(c, chunk) \in Coordinates(k)
           /\ \A d \in 1 .. k : /\ Corner(c, chunk)[d] = Floor(c[d], chunk[d])
                                 /\ Multiple(Corner(c, chunk)[d], chunk[d])
                                 /\ Corner(c, chunk)[d] <= c[d]
<1>1. Dims(c) = 1 .. k
  BY DEF Dims, Coordinates
<1>2. Corner(c, chunk) = [d \in 1 .. k |-> Floor(c[d], chunk[d])]
  BY <1>1 DEF Corner
<1>3. ASSUME NEW d \in 1 .. k
      PROVE  /\ Floor(c[d], chunk[d]) \in Nat /\ Multiple(Floor(c[d], chunk[d]), chunk[d])
             /\ Floor(c[d], chunk[d]) <= c[d]
  <2>1. c[d] \in Nat /\ chunk[d] \in Nat \ {0}
    BY DEF IsChunk, Coordinates
  <2> QED
    BY <2>1, FloorIs, FloorMultiple
<1> QED
  BY <1>2, <1>3 DEF Coordinates

\* The walk's first chunk is that of the start of the bounds.
LEMMA FirstIs ==
    ASSUME NEW k \in Nat, NEW chunk, IsChunk(k, chunk), NEW file, IsSpace(k, file)
    PROVE  FirstChunk(file, chunk) = Corner(SelStart(file), chunk)
<1>1. Dims(chunk) = 1 .. k /\ Dims(SelStart(file)) = 1 .. k
  BY BoundsAre DEF Dims, Coordinates, IsChunk
<1> QED
  BY <1>1 DEF FirstChunk, Corner, Floor

\* The first chunk is one of those the walk may come to.
LEMMA FirstInBox ==
    ASSUME NEW k \in Nat, NEW chunk, IsChunk(k, chunk), NEW file, IsSpace(k, file)
    PROVE  FirstChunk(file, chunk) \in Box(k, file, chunk)
<1> DEFINE S == SelStart(file)
           E == SelEnd(file)
           F == FirstChunk(file, chunk)
<1>1. S \in Coordinates(k) /\ E \in Coordinates(k) /\ \A d \in 1 .. k : S[d] <= E[d]
  BY BoundsAre
<1>2. /\ F \in Coordinates(k)
      /\ \A d \in 1 .. k : Multiple(F[d], chunk[d]) /\ F[d] <= S[d]
  BY <1>1, FirstIs, CornerIs
<1> HIDE DEF S, E, F
<1>3. \A d \in 1 .. k : F[d] <= F[d] /\ F[d] <= E[d]
  BY <1>1, <1>2 DEF Coordinates
<1> QED
  BY <1>2, <1>3 DEF Box, E, F

\* So is the chunk of every selected element.
LEMMA CornerInBox ==
    ASSUME NEW k \in Nat, NEW chunk, IsChunk(k, chunk), NEW file, IsSpace(k, file),
           NEW c \in file.sel
    PROVE  Corner(c, chunk) \in Box(k, file, chunk)
<1> DEFINE S == SelStart(file)
           E == SelEnd(file)
           F == FirstChunk(file, chunk)
           C == Corner(c, chunk)
<1>1. /\ S \in Coordinates(k) /\ E \in Coordinates(k) /\ c \in Coordinates(k)
      /\ \A d \in 1 .. k : S[d] <= c[d] /\ c[d] <= E[d]
  BY BoundsAre, SelectedIs
<1>2. /\ C \in Coordinates(k) /\ F \in Coordinates(k)
      /\ \A d \in 1 .. k : /\ Multiple(C[d], chunk[d]) /\ C[d] <= c[d]
                            /\ C[d] = Floor(c[d], chunk[d]) /\ F[d] = Floor(S[d], chunk[d])
  BY <1>1, FirstIs, CornerIs
<1> HIDE DEF S, E, F, C
<1>3. ASSUME NEW d \in 1 .. k PROVE F[d] <= C[d] /\ C[d] <= E[d]
  <2>1. S[d] \in Nat /\ E[d] \in Nat /\ c[d] \in Nat /\ C[d] \in Nat /\ chunk[d] \in Nat \ {0}
    BY <1>1, <1>2 DEF Coordinates, IsChunk
  <2>2. F[d] <= C[d]
    BY <1>1, <1>2, <2>1, FloorOrder
  <2> QED
    BY <1>1, <1>2, <2>1, <2>2
<1> QED
  BY <1>2, <1>3 DEF Box, E, F, C

\* The block at a chunk's corner is the elements with that corner.
LEMMA BlockCorner ==
    ASSUME NEW k \in Nat, NEW chunk, IsChunk(k, chunk), NEW at \in Coordinates(k),
           \A d \in 1 .. k : Multiple(at[d], chunk[d]), NEW c \in Coordinates(k)
    PROVE  c \in Block(at, chunk) <=> Corner(c, chunk) = at
<1>1. chunk \in Coordinates(k)
  BY DEF IsChunk, Coordinates
<1>2. c \in Block(at, chunk) <=> \A d \in 1 .. k : at[d] <= c[d] /\ c[d] < at[d] + chunk[d]
  BY <1>1, BlockIs
<1>3. ASSUME NEW d \in 1 .. k
      PROVE  (at[d] <= c[d] /\ c[d] < at[d] + chunk[d]) <=> at[d] = Corner(c, chunk)[d]
  <2>1. c[d] \in Nat /\ at[d] \in Nat /\ chunk[d] \in Nat \ {0}
    BY DEF Coordinates, IsChunk
  <2>2. Corner(c, chunk)[d] = Floor(c[d], chunk[d])
    BY CornerIs
  <2> QED
    BY <2>1, <2>2, FloorOf
<1>4. at = Corner(c, chunk) <=> \A d \in 1 .. k : at[d] = Corner(c, chunk)[d]
  <2>1. Corner(c, chunk) \in Coordinates(k)
    BY CornerIs
  <2> QED
    BY <2>1 DEF Coordinates
<1> QED
  BY <1>2, <1>3, <1>4

\* The order of the walk: the last dimension is the fastest.
Before(k, a, b) == \E d \in 1 .. k : a[d] < b[d] /\ \A e \in 1 .. d - 1 : a[e] = b[e]

\* No coordinate is before one that is before it.
LEMMA NotBoth ==
    ASSUME NEW k \in Nat, NEW a \in Coordinates(k), NEW b \in Coordinates(k), Before(k, a, b)
    PROVE  ~Before(k, b, a) /\ a # b
<1>1. PICK d \in 1 .. k : a[d] < b[d] /\ \A e \in 1 .. d - 1 : a[e] = b[e]
  BY DEF Before
<1>2. \A e \in 1 .. k : a[e] \in Nat /\ b[e] \in Nat
  BY DEF Coordinates
<1>3. ASSUME NEW e \in 1 .. k, b[e] < a[e], \A f \in 1 .. e - 1 : b[f] = a[f] PROVE FALSE
  <2>1. e \in 1 .. d - 1 \/ e = d \/ d \in 1 .. e - 1
    OBVIOUS
  <2> QED
    BY <1>1, <1>2, <1>3, <2>1
<1> QED
  BY <1>1, <1>2, <1>3 DEF Before

\* The row-major order is transitive.
LEMMA BeforeThrough ==
    ASSUME NEW k \in Nat, NEW a \in Coordinates(k), NEW b \in Coordinates(k),
           NEW c \in Coordinates(k), Before(k, a, b), Before(k, b, c)
    PROVE  Before(k, a, c)
<1>1. PICK d \in 1 .. k : a[d] < b[d] /\ \A e \in 1 .. d - 1 : a[e] = b[e]
  BY DEF Before
<1>2. PICK f \in 1 .. k : b[f] < c[f] /\ \A e \in 1 .. f - 1 : b[e] = c[e]
  BY DEF Before
<1>3. \A e \in 1 .. k : a[e] \in Nat /\ b[e] \in Nat /\ c[e] \in Nat
  BY DEF Coordinates
<1>4. PICK g \in 1 .. k : g <= d /\ g <= f /\ (g = d \/ g = f)
  OBVIOUS
<1>5. a[g] < c[g]
  <2>1. (g = d \/ g \in 1 .. d - 1) /\ (g = f \/ g \in 1 .. f - 1)
    BY <1>4
  <2> QED
    BY <1>1, <1>2, <1>3, <1>4, <2>1
<1>6. \A e \in 1 .. g - 1 : a[e] = c[e]
  <2>1. \A e \in 1 .. g - 1 : e \in 1 .. d - 1 /\ e \in 1 .. f - 1
    BY <1>4
  <2> QED
    BY <1>1, <1>2, <2>1
<1> QED
  BY <1>5, <1>6 DEF Before

\* The row-major order is total.
LEMMA OneBefore ==
    ASSUME NEW k \in Nat, NEW a \in Coordinates(k), NEW b \in Coordinates(k), a # b
    PROVE  Before(k, a, b) \/ Before(k, b, a)
<1> DEFINE T == {d \in 1 .. k : a[d] # b[d]}
<1>1. T \subseteq Nat /\ T # {}
  BY DEF Coordinates
<1>2. PICK d \in T : \A e \in T : d <= e
  BY <1>1, Smallest
<1>3. \A e \in 1 .. d - 1 : a[e] = b[e]
  BY <1>2
<1>4. a[d] \in Nat /\ b[d] \in Nat /\ a[d] # b[d]
  BY DEF Coordinates
<1>5. a[d] < b[d] \/ b[d] < a[d]
  BY <1>4
<1> QED
  BY <1>3, <1>5 DEF Before

\* A multiple and m more is a multiple.
LEMMA MultipleNext ==
    ASSUME NEW a \in Nat, NEW m \in Nat \ {0}, Multiple(a, m)
    PROVE  Multiple(a + m, m)
<1>1. PICK i \in Nat : a = i * m
  BY DEF Multiple
<1>2. a + m = (i + 1) * m
  BY <1>1
<1> QED
  BY <1>2 DEF Multiple

\* The walk keeps to corners.
Aligned(k, chunk) == {a \in Coordinates(k) : \A d \in 1 .. k : Multiple(a[d], chunk[d])}

\* The chunk after an aligned one is aligned.
LEMMA NextType ==
    ASSUME NEW k \in Nat, NEW chunk, IsChunk(k, chunk), NEW at \in Aligned(k, chunk),
           NEW first \in Aligned(k, chunk), NEW end
    PROVE  NextChunk(at, first, end, chunk) \in Aligned(k, chunk)
<1> DEFINE inc == Max({d \in Dims(at) : at[d] + chunk[d] <= end[d]})
           n == NextChunk(at, first, end, chunk)
<1>1. Dims(at) = 1 .. k
  BY DEF Dims, Coordinates, Aligned
<1>2. n = [d \in 1 .. k |-> IF d < inc THEN at[d] ELSE IF d = inc THEN at[d] + chunk[d] ELSE first[d]]
  BY <1>1 DEF NextChunk
<1> HIDE DEF inc, n
<1>3. ASSUME NEW d \in 1 .. k PROVE n[d] \in Nat /\ Multiple(n[d], chunk[d])
  <2>1. /\ at[d] \in Nat /\ first[d] \in Nat /\ chunk[d] \in Nat \ {0}
        /\ Multiple(at[d], chunk[d]) /\ Multiple(first[d], chunk[d])
    BY DEF Aligned, Coordinates, IsChunk
  <2>2. at[d] + chunk[d] \in Nat /\ Multiple(at[d] + chunk[d], chunk[d])
    BY <2>1, MultipleNext
  <2>3. n[d] = IF d < inc THEN at[d] ELSE IF d = inc THEN at[d] + chunk[d] ELSE first[d]
    BY <1>2
  <2> QED
    BY <2>1, <2>2, <2>3
<1>4. n \in Coordinates(k)
  BY <1>2, <1>3 DEF Coordinates
<1> QED
  BY <1>3, <1>4 DEF Aligned, n

\* If the walk has a chunk g yet to come to, the next chunk is in the box, further on,
\* and not beyond g: the carry leaves none out.
LEMMA NextIs ==
    ASSUME NEW k \in Nat, NEW chunk, IsChunk(k, chunk), NEW file, IsSpace(k, file),
           NEW at \in Box(k, file, chunk), NEW g \in Box(k, file, chunk), Before(k, at, g),
           NEW n, n = NextChunk(at, FirstChunk(file, chunk), SelEnd(file), chunk)
    PROVE  n \in Box(k, file, chunk) /\ Before(k, at, n) /\ (n = g \/ Before(k, n, g))
<1> DEFINE E == SelEnd(file)
           F == FirstChunk(file, chunk)
           inc == Max({d \in Dims(at) : at[d] + chunk[d] <= E[d]})
<1>1. F \in Box(k, file, chunk) /\ E \in Coordinates(k)
  BY FirstInBox, BoundsAre
<1>2. Dims(at) = 1 .. k
  BY DEF Dims, Box, Coordinates
<1>3. n = [d \in 1 .. k |-> IF d < inc THEN at[d]
                            ELSE IF d = inc THEN at[d] + chunk[d] ELSE F[d]]
  BY <1>2 DEF NextChunk
<1>4. ASSUME NEW d \in 1 .. k
      PROVE  /\ at[d] \in Nat /\ g[d] \in Nat /\ E[d] \in Nat /\ F[d] \in Nat /\ chunk[d] \in Nat \ {0}
             /\ Multiple(at[d], chunk[d]) /\ Multiple(g[d], chunk[d]) /\ Multiple(F[d], chunk[d])
             /\ F[d] <= at[d] /\ at[d] <= E[d] /\ F[d] <= g[d] /\ g[d] <= E[d] /\ F[d] <= E[d]
  BY <1>1 DEF Box, Coordinates, IsChunk
<1>5. PICK b \in 1 .. k : at[b] < g[b] /\ \A e \in 1 .. b - 1 : at[e] = g[e]
  BY DEF Before
<1>6. at[b] + chunk[b] <= g[b]
  BY <1>4, <1>5, MultipleGap
<1>7. inc \in 1 .. k /\ at[inc] + chunk[inc] <= E[inc] /\ b <= inc
  <2> DEFINE T == {d \in 1 .. k : at[d] + chunk[d] <= E[d]}
  <2>1. b \in T
    BY <1>4, <1>6
  <2>2. T \subseteq Nat /\ \A d \in T : d <= k
    OBVIOUS
  <2>3. Max(T) \in T /\ \A d \in T : d <= Max(T)
    BY <2>1, <2>2, MaxIs
  <2> QED
    BY <1>2, <2>1, <2>3
<1> HIDE DEF inc, E, F
<1>8. ASSUME NEW d \in 1 .. k
      PROVE  /\ n[d] = IF d < inc THEN at[d] ELSE IF d = inc THEN at[d] + chunk[d] ELSE F[d]
             /\ n[d] \in Nat /\ Multiple(n[d], chunk[d]) /\ F[d] <= n[d] /\ n[d] <= E[d]
  <2>1. n[d] = IF d < inc THEN at[d] ELSE IF d = inc THEN at[d] + chunk[d] ELSE F[d]
    BY <1>3
  <2>2. Multiple(at[d] + chunk[d], chunk[d])
    BY <1>4, MultipleNext
  <2> QED
    BY <1>4, <1>7, <2>1, <2>2
<1>9. n \in Box(k, file, chunk)
  <2>1. n \in Coordinates(k)
    BY <1>3, <1>8 DEF Coordinates
  <2> QED
    BY <1>8, <2>1 DEF Box, E, F
<1>10. Before(k, at, n)
  <2>1. at[inc] < n[inc]
    BY <1>4, <1>7, <1>8
  <2>2. \A e \in 1 .. inc - 1 : at[e] = n[e]
    <3>1. \A e \in 1 .. inc - 1 : e \in 1 .. k /\ e < inc
      BY <1>7
    <3> QED
      BY <1>8, <3>1
  <2> QED
    BY <1>7, <2>1, <2>2 DEF Before
<1>11. CASE b < inc
  <2>1. n[b] < g[b]
    BY <1>5, <1>8, <1>11
  <2>2. \A e \in 1 .. b - 1 : n[e] = g[e]
    <3>1. \A e \in 1 .. b - 1 : e \in 1 .. k /\ e < inc
      BY <1>7, <1>11
    <3> QED
      BY <1>5, <1>8, <3>1
  <2> QED
    BY <1>9, <1>10, <2>1, <2>2 DEF Before
<1>12. CASE b = inc
  <2>1. \A d \in 1 .. k : n[d] <= g[d] \/ d < inc
    BY <1>4, <1>6, <1>8, <1>12
  <2>2. \A e \in 1 .. inc - 1 : n[e] = g[e]
    <3>1. \A e \in 1 .. inc - 1 : e \in 1 .. k /\ e < inc
      BY <1>7
    <3> QED
      BY <1>5, <1>8, <1>12, <3>1
  <2>3. \A d \in 1 .. k : n[d] <= g[d]
    <3>1. \A d \in 1 .. k : d < inc => d \in 1 .. inc - 1
      BY <1>7
    <3> QED
      BY <1>4, <2>1, <2>2, <3>1
  <2>4. ~Before(k, g, n)
    <3> SUFFICES ASSUME NEW d \in 1 .. k, g[d] < n[d] PROVE FALSE
      BY DEF Before
    <3> QED
      BY <1>4, <1>8, <2>3
  <2>5. n \in Coordinates(k) /\ g \in Coordinates(k)
    BY <1>9 DEF Box
  <2> QED
    BY <1>9, <1>10, <2>4, <2>5, OneBefore
<1> QED
  BY <1>7, <1>11, <1>12

-----------------------------------------------------------------------------
(***************************************************************************)
(* What ChunkInfo makes of one chunk.                                      *)
(***************************************************************************)
LEMMA ImageSize ==
    ASSUME NEW S, IsFiniteSet(S), NEW T, NEW f \in [S -> T],
           \A x, y \in S : f[x] = f[y] => x = y, \A t \in T : \E x \in S : f[x] = t
    PROVE  IsFiniteSet(T) /\ Cardinality(T) = Cardinality(S)
<1>1. f \in Injection(S, T)
  BY DEF Injection, IsInjective
<1>2. f \in Surjection(S, T)
  BY DEF Surjection
<1> QED
  BY <1>1, <1>2, FS_Surjection

\* The elements of a selection in the chunk at a corner; the way from the selection
\* to its counterpart in memory.
InChunk(at, file, chunk) == {c \in file.sel : Corner(c, chunk) = at}
ToMemory(file, mem) == Minus(SelStart(mem), SelStart(file))

\* An element and its counterpart in memory are as far from the starts of the selections.
LEMMA MemorySelection ==
    ASSUME NEW k \in Nat, NEW file, IsSpace(k, file), NEW mem, IsSpace(k, mem),
           SameShape(file, mem)
    PROVE  \A c \in file.sel :
              /\ Plus(c, ToMemory(file, mem)) \in mem.sel
              /\ Plus(c, ToMemory(file, mem)) \in Coordinates(k)
              /\ \A d \in 1 .. k : Plus(c, ToMemory(file, mem))[d]
                                    = c[d] + SelStart(mem)[d] - SelStart(file)[d]
<1> DEFINE S == SelStart(file)
           M == SelStart(mem)
<1>1. S \in Coordinates(k) /\ M \in Coordinates(k)
  BY BoundsAre
<1>2. Dims(M) = 1 .. k
  BY <1>1 DEF Dims, Coordinates
<1>3. ToMemory(file, mem) = [d \in 1 .. k |-> M[d] - S[d]]
  BY <1>2 DEF ToMemory, Minus
<1>4. mem.sel = {Plus(c, ToMemory(file, mem)) : c \in file.sel}
  BY DEF SameShape, Moved, ToMemory
<1> SUFFICES ASSUME NEW c \in file.sel
             PROVE  /\ Plus(c, ToMemory(file, mem)) \in mem.sel
                    /\ Plus(c, ToMemory(file, mem)) \in Coordinates(k)
                    /\ \A d \in 1 .. k : Plus(c, ToMemory(file, mem))[d] = c[d] + M[d] - S[d]
  OBVIOUS
<1>5. Plus(c, ToMemory(file, mem)) \in mem.sel
  BY <1>4
<1>6. Plus(c, ToMemory(file, mem)) \in Coordinates(k)
  BY <1>5, SelectedIs
<1>7. c \in Coordinates(k)
  BY SelectedIs
<1> HIDE DEF S, M
<1>8. \A d \in 1 .. k : Plus(c, ToMemory(file, mem))[d] = c[d] + M[d] - S[d]
  <2>1. Dims(c) = 1 .. k
    BY <1>7 DEF Dims, Coordinates
  <2>2. Plus(c, ToMemory(file, mem)) = [d \in 1 .. k |-> c[d] + ToMemory(file, mem)[d]]
    BY <2>1 DEF Plus
  <2>3. \A d \in 1 .. k : c[d] \in Nat /\ M[d] \in Nat /\ S[d] \in Nat
    BY <1>1, <1>7 DEF Coordinates
  <2> QED
    BY <1>3, <2>2, <2>3
<1> QED
  BY <1>5, <1>6, <1>8

\* What chunk_info holds of a chunk: the elements selected in it, and as many in memory.
LEMMA ChunkInfoIs ==
    ASSUME NEW k \in Nat, NEW chunk, IsChunk(k, chunk), NEW file, IsSpace(k, file),
           NEW mem, IsSpace(k, mem), SameShape(file, mem),
           NEW at \in Aligned(k, chunk),
           NEW here, here = ChunkInfo(at, chunk, file, mem),
           NEW H, H = InChunk(at, file, chunk)
    PROVE  /\ here.chunk_coords = at
           /\ here.fspace.sel = {Minus(c, at) : c \in H}
           /\ Moved(here.fspace.sel, at) = H
           /\ here.mspace.sel = {Plus(c, ToMemory(file, mem)) : c \in H}
           /\ here.mspace.sel \subseteq mem.sel
           /\ IsFiniteSet(H) /\ IsFiniteSet(here.fspace.sel)
           /\ Cardinality(here.fspace.sel) = Cardinality(H)
           /\ Cardinality(here.mspace.sel) = Cardinality(H)
<1> DEFINE G == ToMemory(file, mem)
           S == SelStart(file)
           M == SelStart(mem)
           inchunk == {Minus(c, at) : c \in H}
<1>1. H \subseteq file.sel /\ \A c \in H : c \in Coordinates(k)
  BY SelectedIs DEF InChunk
<1>2. file.sel \intersect Block(at, chunk) = H
  <2>1. at \in Coordinates(k) /\ \A d \in 1 .. k : Multiple(at[d], chunk[d])
    BY DEF Aligned
  <2> QED
    BY <2>1, SelectedIs, BlockCorner DEF InChunk
<1>3. /\ here.chunk_coords = at /\ here.fspace.sel = inchunk
      /\ here.mspace.sel = MemSelection(inchunk, at, file, mem)
  BY <1>2 DEF ChunkInfo, Space
<1>4. S \in Coordinates(k) /\ M \in Coordinates(k)
  BY BoundsAre
<1>5. Dims(M) = 1 .. k /\ Dims(at) = 1 .. k
  BY <1>4 DEF Dims, Coordinates, Aligned
<1>6. G = [d \in 1 .. k |-> M[d] - S[d]]
  BY <1>5 DEF ToMemory, Minus
<1> HIDE DEF S, M
<1>7. Plus(at, G) = [d \in 1 .. k |-> at[d] + (M[d] - S[d])]
  BY <1>5, <1>6 DEF Plus
<1>8. ASSUME NEW c \in H
      PROVE  /\ Minus(c, at) = [d \in 1 .. k |-> c[d] - at[d]]
             /\ Plus(Minus(c, at), at) = c
             /\ Plus(Minus(c, at), Plus(at, G)) = Plus(c, G)
  <2>1. c = [d \in 1 .. k |-> c[d]] /\ \A d \in 1 .. k : c[d] \in Nat
    BY <1>1 DEF Coordinates
  <2>2. Dims(c) = 1 .. k
    BY <1>1 DEF Dims, Coordinates
  <2>3. Minus(c, at) = [d \in 1 .. k |-> c[d] - at[d]]
    BY <2>2 DEF Minus
  <2>4. \A d \in 1 .. k : at[d] \in Nat /\ M[d] \in Nat /\ S[d] \in Nat
    BY <1>4 DEF Coordinates, Aligned
  <2>5. Dims(Minus(c, at)) = 1 .. k
    BY <2>3 DEF Dims
  <2>6. Plus(Minus(c, at), at) = [d \in 1 .. k |-> c[d] - at[d] + at[d]]
    BY <2>3, <2>5 DEF Plus
  <2>7. Plus(Minus(c, at), at) = [d \in 1 .. k |-> c[d]]
    <3>1. \A d \in 1 .. k : c[d] - at[d] + at[d] = c[d]
      BY <2>1, <2>4
    <3> QED
      BY <2>6, <3>1
  <2>8. Plus(Minus(c, at), Plus(at, G)) = [d \in 1 .. k |-> c[d] - at[d] + (at[d] + (M[d] - S[d]))]
    BY <1>7, <2>3, <2>5 DEF Plus
  <2>9. Plus(c, G) = [d \in 1 .. k |-> c[d] + (M[d] - S[d])]
    BY <1>6, <2>2 DEF Plus
  <2>10. \A d \in 1 .. k : c[d] - at[d] + (at[d] + (M[d] - S[d])) = c[d] + (M[d] - S[d])
    BY <2>1, <2>4
  <2>11. Plus(Minus(c, at), Plus(at, G)) = Plus(c, G)
    BY <2>8, <2>9, <2>10
  <2> QED
    BY <2>1, <2>3, <2>7, <2>11
<1>9. here.mspace.sel = {Plus(c, G) : c \in H}
  <2>1. here.mspace.sel = {Plus(i, Plus(at, G)) : i \in inchunk}
    BY <1>3 DEF MemSelection, Moved, ToMemory
  <2> QED
    BY <1>8, <2>1
<1>10. Moved(inchunk, at) = H
  BY <1>8 DEF Moved
<1>11. here.mspace.sel \subseteq mem.sel
  BY <1>1, <1>9, MemorySelection
<1>12. IsFiniteSet(H)
  <2>1. IsFiniteSet(Extent(file.dims)) /\ file.sel \subseteq Extent(file.dims)
    BY ExtentFinite DEF IsSpace
  <2> QED
    BY <1>1, <2>1, FS_Subset
<1>13. IsFiniteSet(inchunk) /\ Cardinality(inchunk) = Cardinality(H)
  <2> DEFINE f == [c \in H |-> Minus(c, at)]
  <2>1. \A c, e \in H : Minus(c, at) = Minus(e, at) => c = e
    BY <1>8
  <2>2. f \in [H -> inchunk] /\ \A i \in inchunk : \E c \in H : f[c] = i
    OBVIOUS
  <2>3. \A c, e \in H : f[c] = f[e] => c = e
    BY <2>1
  <2> HIDE DEF f, inchunk
  <2> QED
    BY <1>12, <2>2, <2>3, ImageSize
<1>14. Cardinality({Plus(c, G) : c \in H}) = Cardinality(H)
  <2> DEFINE f == [c \in H |-> Plus(c, G)]
             N == {Plus(c, G) : c \in H}
  <2>1. ASSUME NEW c \in H, NEW e \in H, Plus(c, G) = Plus(e, G) PROVE c = e
    <3>1. \A d \in 1 .. k : c[d] + M[d] - S[d] = e[d] + M[d] - S[d]
      BY <1>1, <2>1, MemorySelection DEF M, S
    <3>2. \A d \in 1 .. k : c[d] \in Nat /\ e[d] \in Nat /\ M[d] \in Nat /\ S[d] \in Nat
      BY <1>1, <1>4 DEF Coordinates
    <3>3. \A d \in 1 .. k : c[d] = e[d]
      BY <3>1, <3>2
    <3> QED
      BY <1>1, <3>3 DEF Coordinates
  <2>2. f \in [H -> N] /\ \A i \in N : \E c \in H : f[c] = i
    OBVIOUS
  <2>3. \A c, e \in H : f[c] = f[e] => c = e
    BY <2>1
  <2> HIDE DEF f, N
  <2>4. Cardinality(N) = Cardinality(H)
    BY <1>12, <2>2, <2>3, ImageSize
  <2> QED
    BY <2>4 DEF N
<1> QED
  BY <1>3, <1>9, <1>10, <1>11, <1>12, <1>13, <1>14

-----------------------------------------------------------------------------
(***************************************************************************)
(* The rounds of a loop, a function of the number of the round.            *)
(***************************************************************************)
IsRun(S, a, G, n, f) == /\ f \in [0 .. n -> S] /\ f[0] = a
                        /\ \A m \in 0 .. n - 1 : f[m + 1] = G[f[m]]

\* A function can be applied any number of times.
LEMMA RunExists ==
    ASSUME NEW S, NEW a \in S, NEW G \in [S -> S], NEW n \in Nat
    PROVE  \E f : IsRun(S, a, G, n, f)
<1> DEFINE T == {m \in Nat : \E f : IsRun(S, a, G, m, f)}
<1>1. 0 \in T
  <2> DEFINE f == [m \in 0 .. 0 |-> a]
  <2>1. IsRun(S, a, G, 0, f)
    BY DEF IsRun
  <2> QED
    BY <2>1
<1>2. ASSUME NEW m \in T PROVE m + 1 \in T
  <2>1. PICK f : IsRun(S, a, G, m, f)
    OBVIOUS
  <2> DEFINE g == [i \in 0 .. m + 1 |-> IF i <= m THEN f[i] ELSE G[f[m]]]
  <2>2. f[m] \in S /\ G[f[m]] \in S /\ \A i \in 0 .. m : f[i] \in S
    BY <2>1 DEF IsRun
  <2>3. g \in [0 .. m + 1 -> S]
    BY <2>2
  <2>4. g[0] = a /\ g[m + 1] = G[f[m]] /\ \A i \in 0 .. m : g[i] = f[i]
    BY <2>1 DEF IsRun
  <2> HIDE DEF g
  <2>5. ASSUME NEW i \in 0 .. m PROVE g[i + 1] = G[g[i]]
    <3>1. CASE i = m
      BY <2>4, <3>1
    <3>2. CASE i # m
      <4>1. i \in 0 .. m - 1 /\ i + 1 \in 0 .. m
        BY <3>2
      <4> QED
        BY <2>1, <2>4, <4>1 DEF IsRun
    <3> QED
      BY <3>1, <3>2
  <2>6. IsRun(S, a, G, m + 1, g)
    <3>1. \A i \in 0 .. (m + 1) - 1 : i \in 0 .. m
      OBVIOUS
    <3> QED
      BY <2>3, <2>4, <2>5, <3>1 DEF IsRun
  <2> QED
    BY <2>6
<1> HIDE DEF T
<1>3. T = Nat
  BY <1>1, <1>2, Induction DEF T
<1> QED
  BY <1>3 DEF T

\* Two runs of a function from one start agree where both have come.
LEMMA RunsAgree ==
    ASSUME NEW S, NEW a, NEW G, NEW n \in Nat, NEW m \in Nat, n <= m,
           NEW f, IsRun(S, a, G, n, f), NEW g, IsRun(S, a, G, m, g)
    PROVE  f[n] = g[n]
<1> DEFINE T == {i \in Nat : i <= n => f[i] = g[i]}
<1>1. 0 \in T
  BY DEF IsRun
<1>2. ASSUME NEW i \in T PROVE i + 1 \in T
  <2> SUFFICES ASSUME i + 1 <= n PROVE f[i + 1] = g[i + 1]
    OBVIOUS
  <2>1. i \in 0 .. n - 1 /\ i \in 0 .. m - 1 /\ f[i] = g[i]
    OBVIOUS
  <2> QED
    BY <2>1 DEF IsRun
<1> HIDE DEF T
<1>3. T = Nat
  BY <1>1, <1>2, Induction DEF T
<1> QED
  BY <1>3 DEF T

\* The recursive function that applies another n times exists.
LEMMA Iterate ==
    ASSUME NEW S, NEW a \in S, NEW G \in [S -> S]
    PROVE  \E f \in [Nat -> S] : f = [n \in Nat |-> IF n = 0 THEN a ELSE G[f[n - 1]]]
<1> DEFINE run(n) == CHOOSE f : IsRun(S, a, G, n, f)
           F == [n \in Nat |-> run(n)[n]]
<1>1. \A n \in Nat : IsRun(S, a, G, n, run(n))
  BY RunExists
<1> HIDE DEF run
<1>2. F \in [Nat -> S]
  <2>1. \A n \in Nat : run(n)[n] \in S
    BY <1>1 DEF IsRun
  <2> QED
    BY <2>1
<1>3. F[0] = a
  BY <1>1 DEF IsRun
<1>4. ASSUME NEW n \in Nat, n # 0 PROVE F[n] = G[F[n - 1]]
  <2>1. n - 1 \in Nat /\ n - 1 <= n /\ n - 1 \in 0 .. n - 1 /\ (n - 1) + 1 = n
    BY <1>4
  <2>2. run(n - 1)[n - 1] = run(n)[n - 1]
    <3>1. PICK m \in Nat : m = n - 1
      BY <2>1
    <3>2. IsRun(S, a, G, m, run(m)) /\ IsRun(S, a, G, n, run(n)) /\ m <= n
      BY <1>1, <2>1, <3>1
    <3>3. run(m)[m] = run(n)[m]
      BY <3>2, RunsAgree
    <3> QED
      BY <3>1, <3>3
  <2>3. run(n)[n] = G[run(n)[n - 1]]
    BY <1>1, <2>1 DEF IsRun
  <2> QED
    BY <2>1, <2>2, <2>3
<1> HIDE DEF F
<1>5. \A n \in Nat : F[n] = IF n = 0 THEN a ELSE G[F[n - 1]]
  BY <1>3, <1>4
<1>6. F = [n \in Nat |-> F[n]]
  BY <1>2
<1> QED
  BY <1>2, <1>5, <1>6

-----------------------------------------------------------------------------
(***************************************************************************)
(* The walk.                                                               *)
(***************************************************************************)
ChunkInfos(k, file, mem, chunk) == {ChunkInfo(at, chunk, file, mem) : at \in Aligned(k, chunk)}
WalkStates(k, file, mem, chunk) ==
    [at : Aligned(k, chunk), left : Int, infos : Seq(ChunkInfos(k, file, mem, chunk))]
WalkStart(file, chunk) ==
    [at |-> FirstChunk(file, chunk), left |-> Cardinality(file.sel), infos |-> << >>]

\* What the walk is given: a chunk size and two selections of one shape.
MayWalk(k, file, mem, chunk) ==
    IsChunk(k, chunk) /\ IsSpace(k, file) /\ IsSpace(k, mem) /\ SameShape(file, mem)

\* A selection is finite and not empty.
LEMMA FiniteSelection ==
    ASSUME NEW k \in Nat, NEW space, IsSpace(k, space)
    PROVE  IsFiniteSet(space.sel) /\ Cardinality(space.sel) \in Nat /\ Cardinality(space.sel) # 0
<1>1. IsFiniteSet(space.sel)
  BY ExtentFinite, FS_Subset DEF IsSpace
<1> QED
  BY <1>1, FS_CardinalityType, FS_EmptySet DEF IsSpace

\* The chunks the walk may come to are aligned.
LEMMA BoxAligned ==
    ASSUME NEW k \in Nat, NEW file, NEW chunk
    PROVE  Box(k, file, chunk) \subseteq Aligned(k, chunk)
  BY DEF Box, Aligned

\* A round of the walk gives a state of the walk.
LEMMA StepType ==
    ASSUME NEW k \in Nat, NEW file, NEW mem, NEW chunk, MayWalk(k, file, mem, chunk),
           NEW s \in WalkStates(k, file, mem, chunk)
    PROVE  ChunkStep(s, chunk, file, mem) \in WalkStates(k, file, mem, chunk)
<1> DEFINE here == ChunkInfo(s.at, chunk, file, mem)
           left == s.left - Cardinality(here.fspace.sel)
           next == NextChunk(s.at, FirstChunk(file, chunk), SelEnd(file), chunk)
           infos == IF here.fspace.sel = {} THEN s.infos ELSE Append(s.infos, here)
<1>1. s.at \in Aligned(k, chunk) /\ s.left \in Int
      /\ s.infos \in Seq(ChunkInfos(k, file, mem, chunk))
  BY DEF WalkStates
<1>2. here \in ChunkInfos(k, file, mem, chunk)
  BY <1>1 DEF ChunkInfos
<1>3. left \in Int
  <2>1. IsFiniteSet(here.fspace.sel)
    BY <1>1, ChunkInfoIs DEF MayWalk
  <2> QED
    BY <1>1, <2>1, FS_CardinalityType
<1>4. next \in Aligned(k, chunk)
  BY <1>1, NextType, FirstInBox, BoxAligned DEF MayWalk
<1>5. infos \in Seq(ChunkInfos(k, file, mem, chunk))
  <2> HIDE DEF here
  <2> QED
    BY <1>1, <1>2
<1>6. ChunkStep(s, chunk, file, mem) =
        IF s.left = 0 THEN s
        ELSE [at |-> IF left = 0 THEN s.at ELSE next, left |-> left, infos |-> infos]
  BY DEF ChunkStep
<1> HIDE DEF left, next, infos
<1> QED
  BY <1>1, <1>3, <1>4, <1>5, <1>6 DEF WalkStates

\* So does its start.
LEMMA StartType ==
    ASSUME NEW k \in Nat, NEW file, NEW mem, NEW chunk, MayWalk(k, file, mem, chunk)
    PROVE  WalkStart(file, chunk) \in WalkStates(k, file, mem, chunk)
<1>1. FirstChunk(file, chunk) \in Aligned(k, chunk)
  BY FirstInBox, BoxAligned DEF MayWalk
<1>2. Cardinality(file.sel) \in Int
  BY FiniteSelection DEF MayWalk
<1> QED
  BY <1>1, <1>2 DEF WalkStart, WalkStates

\* The walk is its start and then rounds, one for each element of the extent at most.
LEMMA WalkIs ==
    ASSUME NEW k \in Nat, NEW file, NEW mem, NEW chunk, MayWalk(k, file, mem, chunk)
    PROVE  \E f \in [Nat -> WalkStates(k, file, mem, chunk)] :
              /\ f[0] = WalkStart(file, chunk)
              /\ \A n \in Nat : f[n + 1] = ChunkStep(f[n], chunk, file, mem)
              /\ get_selected_chunk_info(file, mem, chunk) = f[Cardinality(Extent(file.dims))].infos
<1> DEFINE S == WalkStates(k, file, mem, chunk)
           Def(f) == f = [n \in Nat |-> IF n = 0 THEN WalkStart(file, chunk)
                                        ELSE ChunkStep(f[n - 1], chunk, file, mem)]
           G == [s \in S |-> ChunkStep(s, chunk, file, mem)]
           round == CHOOSE f : Def(f)
<1>1. G \in [S -> S]
  BY StepType
<1>2. WalkStart(file, chunk) \in S
  BY StartType
<1>3. PICK g \in [Nat -> S] : g = [n \in Nat |-> IF n = 0 THEN WalkStart(file, chunk) ELSE G[g[n - 1]]]
  <2> HIDE DEF G, S
  <2> QED
    BY <1>1, <1>2, Iterate
<1>4. Def(g)
  <2>1. \A n \in Nat : n # 0 => g[n - 1] \in S
    <3> HIDE DEF S, G
    <3>1. g \in [Nat -> S] /\ \A n \in Nat : n # 0 => n - 1 \in Nat
      OBVIOUS
    <3> QED
      BY <3>1
  <2>2. \A n \in Nat : (IF n = 0 THEN WalkStart(file, chunk) ELSE G[g[n - 1]])
             = IF n = 0 THEN WalkStart(file, chunk) ELSE ChunkStep(g[n - 1], chunk, file, mem)
    BY <2>1
  <2> HIDE DEF G
  <2> QED
    BY <1>3, <2>2
<1>5. Def(round)
  BY <1>4
<1>6. get_selected_chunk_info(file, mem, chunk) = round[Cardinality(Extent(file.dims))].infos
  BY DEF get_selected_chunk_info, WalkStart
<1> HIDE DEF round
<1>7. round[0] = WalkStart(file, chunk)
  BY <1>5
<1>8. \A n \in Nat : round[n + 1] = ChunkStep(round[n], chunk, file, mem)
  <2> SUFFICES ASSUME NEW n \in Nat PROVE round[n + 1] = ChunkStep(round[n], chunk, file, mem)
    OBVIOUS
  <2>1. n + 1 \in Nat /\ n + 1 # 0 /\ (n + 1) - 1 = n
    OBVIOUS
  <2> QED
    BY <1>5, <2>1
<1>9. round \in [Nat -> S]
  <2> DEFINE T == {n \in Nat : round[n] \in S}
  <2>1. 0 \in T
    BY <1>2, <1>7
  <2>2. \A n \in T : n + 1 \in T
    BY <1>8, StepType
  <2> HIDE DEF T
  <2>3. T = Nat
    BY <2>1, <2>2, Induction DEF T
  <2>4. \A n \in Nat : round[n] \in S
    BY <2>3 DEF T
  <2>5. round = [n \in Nat |-> round[n]]
    BY <1>5
  <2> QED
    BY <2>4, <2>5
<1> QED
  BY <1>6, <1>7, <1>8, <1>9

\* The elements that a walk has yet to take; the chunks it has passed.
Rest(k, s, file, chunk) ==
    IF s.left = 0 THEN {} ELSE {c \in file.sel : ~Before(k, Corner(c, chunk), s.at)}
Passed(k, at, file, chunk) == {a \in Box(k, file, chunk) : Before(k, a, at)}
CoordsOf(infos) == {infos[i].chunk_coords : i \in DOMAIN infos}
Distinct(infos) ==
    \A i, j \in DOMAIN infos : i # j => infos[i].chunk_coords # infos[j].chunk_coords

\* After n rounds: the points left are counted, the chunks kept are those of the
\* elements taken, and each round but the last has passed a chunk of the box.
WalkInv(k, n, s, file, mem, chunk) ==
    /\ s \in WalkStates(k, file, mem, chunk)
    /\ s.at \in Box(k, file, chunk)
    /\ s.left = Cardinality(Rest(k, s, file, chunk))
    /\ CoordsOf(s.infos) = {Corner(c, chunk) : c \in file.sel \ Rest(k, s, file, chunk)}
    /\ Distinct(s.infos)
    /\ s.left # 0 => n <= Cardinality(Passed(k, s.at, file, chunk))

\* There are no more chunks to come to than elements in the extent.
LEMMA BoxFinite ==
    ASSUME NEW k \in Nat, NEW file, IsSpace(k, file), NEW chunk
    PROVE  /\ IsFiniteSet(Box(k, file, chunk)) /\ Cardinality(Box(k, file, chunk)) \in Nat
           /\ Cardinality(Box(k, file, chunk)) <= Cardinality(Extent(file.dims))
           /\ Cardinality(Extent(file.dims)) \in Nat
<1>1. IsFiniteSet(Extent(file.dims))
  BY ExtentFinite DEF IsSpace
<1>2. Box(k, file, chunk) \subseteq Extent(file.dims)
  <2>1. ASSUME NEW a \in Box(k, file, chunk), NEW d \in 1 .. k PROVE a[d] < file.dims[d]
    <3>1. /\ a[d] \in Nat /\ a[d] <= SelEnd(file)[d] /\ SelEnd(file)[d] < file.dims[d]
          /\ SelEnd(file)[d] \in Nat /\ file.dims[d] \in Nat
      BY BoundsAre DEF Box, Coordinates, IsSpace
    <3> QED
      BY <3>1
  <2>2. \A a \in Box(k, file, chunk) : a \in Coordinates(k)
    BY DEF Box
  <2> QED
    BY <2>1, <2>2, ExtentIs DEF IsSpace
<1> QED
  BY <1>1, <1>2, FS_Subset, FS_CardinalityType

\* The corners of selected elements are coordinates.
LEMMA CornersOf ==
    ASSUME NEW k \in Nat, NEW file, IsSpace(k, file), NEW chunk, IsChunk(k, chunk)
    PROVE  \A c \in file.sel : Corner(c, chunk) \in Coordinates(k)
  BY CornerInBox DEF Box

\* The start of the walk satisfies its invariant.
LEMMA WalkBegins ==
    ASSUME NEW k \in Nat, NEW file, NEW mem, NEW chunk, MayWalk(k, file, mem, chunk)
    PROVE  WalkInv(k, 0, WalkStart(file, chunk), file, mem, chunk)
<1> DEFINE s == WalkStart(file, chunk)
           F == FirstChunk(file, chunk)
<1>1. s.at = F /\ s.left = Cardinality(file.sel) /\ s.infos = << >>
  BY DEF WalkStart
<1>2. F \in Box(k, file, chunk)
  BY FirstInBox DEF MayWalk
<1>3. ASSUME NEW c \in file.sel PROVE ~Before(k, Corner(c, chunk), F)
  <2>1. Corner(c, chunk) \in Box(k, file, chunk)
    BY CornerInBox DEF MayWalk
  <2>2. \A d \in 1 .. k : /\ F[d] <= Corner(c, chunk)[d]
                          /\ F[d] \in Nat /\ Corner(c, chunk)[d] \in Nat
    BY <1>2, <2>1 DEF Box, Coordinates
  <2>3. \A d \in 1 .. k : ~(Corner(c, chunk)[d] < F[d])
    BY <2>2
  <2> QED
    BY <2>3 DEF Before
<1>4. Rest(k, s, file, chunk) = file.sel
  BY <1>1, <1>3, FiniteSelection DEF Rest, MayWalk
<1>5. Cardinality(Passed(k, F, file, chunk)) \in Nat
  BY BoxFinite, FS_Subset, FS_CardinalityType DEF Passed, MayWalk
<1>6. CoordsOf(s.infos) = {} /\ Distinct(s.infos)
  BY <1>1 DEF CoordsOf, Distinct
<1>7. s \in WalkStates(k, file, mem, chunk)
  BY StartType
<1> HIDE DEF s, F
<1> QED
  BY <1>1, <1>2, <1>4, <1>5, <1>6, <1>7 DEF WalkInv, s

\* A round keeps the walk's invariant.
LEMMA WalkGoesOn ==
    ASSUME NEW k \in Nat, NEW file, NEW mem, NEW chunk, MayWalk(k, file, mem, chunk),
           NEW n \in Nat, NEW s, WalkInv(k, n, s, file, mem, chunk),
           NEW t, t = ChunkStep(s, chunk, file, mem)
    PROVE  WalkInv(k, n + 1, t, file, mem, chunk)
<1> DEFINE here == ChunkInfo(s.at, chunk, file, mem)
           H == InChunk(s.at, file, chunk)
           next == NextChunk(s.at, FirstChunk(file, chunk), SelEnd(file), chunk)
           R == Rest(k, s, file, chunk)
           Q == Rest(k, t, file, chunk)
<1>1. CASE s.left = 0
  <2>1. t = s
    BY <1>1 DEF ChunkStep
  <2> QED
    BY <1>1, <2>1 DEF WalkInv
<1>2. CASE s.left # 0
  <2>1. /\ s.at \in Box(k, file, chunk) /\ s.at \in Aligned(k, chunk) /\ s.at \in Coordinates(k)
        /\ s.left \in Int /\ s.infos \in Seq(ChunkInfos(k, file, mem, chunk))
    BY BoxAligned DEF WalkInv, WalkStates, Box
  <2>2. /\ here.chunk_coords = s.at /\ here.fspace.sel = {Minus(c, s.at) : c \in H}
        /\ IsFiniteSet(H) /\ Cardinality(here.fspace.sel) = Cardinality(H)
    BY <2>1, ChunkInfoIs DEF MayWalk
  <2>3. t = [at |-> IF s.left - Cardinality(H) = 0 THEN s.at ELSE next,
             left |-> s.left - Cardinality(H),
             infos |-> IF H = {} THEN s.infos ELSE Append(s.infos, here)]
    <3>1. here.fspace.sel = {} <=> H = {}
      BY <2>2
    <3> QED
      BY <1>2, <2>2, <3>1 DEF ChunkStep
  <2>4. t \in WalkStates(k, file, mem, chunk)
    BY StepType DEF WalkInv
  <2>5. R = {c \in file.sel : ~Before(k, Corner(c, chunk), s.at)}
    BY <1>2 DEF Rest
  <2> DEFINE L == {c \in file.sel : Before(k, s.at, Corner(c, chunk))}
  <2>6. H \subseteq R /\ L = R \ H
    <3>1. ASSUME NEW c \in file.sel
          PROVE  /\ Corner(c, chunk) = s.at => ~Before(k, Corner(c, chunk), s.at)
                 /\ Before(k, s.at, Corner(c, chunk))
                       <=> ~Before(k, Corner(c, chunk), s.at) /\ Corner(c, chunk) # s.at
      <4>1. Corner(c, chunk) \in Coordinates(k)
        BY CornersOf DEF MayWalk
      <4> QED
        BY <2>1, <4>1, NotBoth, OneBefore
    <3> QED
      BY <2>5, <3>1 DEF InChunk
  <2>7. IsFiniteSet(R) /\ IsFiniteSet(L) /\ s.left - Cardinality(H) = Cardinality(L)
        /\ Cardinality(L) \in Nat
    <3>1. IsFiniteSet(R)
      BY <2>5, FiniteSelection, FS_Subset DEF MayWalk
    <3>2. Cardinality(R) = s.left
      BY DEF WalkInv
    <3>3. IsFiniteSet(L) /\ Cardinality(L) = Cardinality(R) - Cardinality(R \intersect H)
      BY <2>6, <3>1, FS_Difference
    <3>4. R \intersect H = H
      BY <2>6
    <3> QED
      BY <3>1, <3>2, <3>3, <3>4, FS_CardinalityType
  <2> HIDE DEF here, H, next
  <2>8. t.left = Cardinality(L) /\ t.at = (IF L = {} THEN s.at ELSE next)
        /\ t.infos = IF H = {} THEN s.infos ELSE Append(s.infos, here)
    <3>1. L = {} <=> Cardinality(L) = 0
      BY <2>7, FS_EmptySet
    <3> QED
      BY <2>3, <2>7, <3>1
  <2>9. L # {} => /\ next \in Box(k, file, chunk) /\ Before(k, s.at, next)
                  /\ \A c \in L : ~Before(k, Corner(c, chunk), next)
    <3> SUFFICES ASSUME NEW c \in L
                 PROVE  /\ next \in Box(k, file, chunk) /\ Before(k, s.at, next)
                        /\ ~Before(k, Corner(c, chunk), next)
      OBVIOUS
    <3>1. Corner(c, chunk) \in Box(k, file, chunk)
      BY CornerInBox DEF MayWalk
    <3>2. /\ next \in Box(k, file, chunk) /\ Before(k, s.at, next)
          /\ next = Corner(c, chunk) \/ Before(k, next, Corner(c, chunk))
      BY <2>1, <3>1, NextIs DEF MayWalk, next
    <3>3. next \in Coordinates(k) /\ Corner(c, chunk) \in Coordinates(k)
      BY <3>1, <3>2 DEF Box
    <3> QED
      BY <3>2, <3>3, NotBoth
  <2>10. Q = L
    <3>1. CASE L = {}
      <4>1. t.left = 0
        BY <2>8, <3>1, FS_EmptySet
      <4> QED
        BY <3>1, <4>1 DEF Rest
    <3>2. CASE L # {}
      <4>1. t.left # 0 /\ t.at = next
        BY <2>7, <2>8, <3>2, FS_EmptySet
      <4>2. ASSUME NEW c \in file.sel, ~Before(k, Corner(c, chunk), next)
            PROVE  Before(k, s.at, Corner(c, chunk))
        <5>1. next \in Coordinates(k) /\ Corner(c, chunk) \in Coordinates(k)
          BY <2>9, <3>2, CornersOf DEF Box, MayWalk
        <5>2. Corner(c, chunk) # s.at
          BY <2>9, <3>2, <4>2
        <5>3. ~Before(k, Corner(c, chunk), s.at)
          BY <2>1, <2>9, <3>2, <4>2, <5>1, BeforeThrough
        <5> QED
          BY <2>1, <5>1, <5>2, <5>3, OneBefore
      <4> QED
        BY <2>9, <3>2, <4>1, <4>2 DEF Rest
    <3> QED
      BY <3>1, <3>2
  <2>11. t.at \in Box(k, file, chunk)
    BY <2>1, <2>8, <2>9
  <2>12. CoordsOf(t.infos) = CoordsOf(s.infos) \union (IF H = {} THEN {} ELSE {s.at})
    <3>1. CASE H = {}
      BY <2>8, <3>1
    <3>2. CASE H # {}
      <4>1. t.infos = Append(s.infos, here) /\ here.chunk_coords = s.at
        BY <2>2, <2>8, <3>2 DEF here
      <4>2. /\ DOMAIN t.infos = 1 .. Len(s.infos) + 1 /\ DOMAIN s.infos = 1 .. Len(s.infos)
            /\ Len(s.infos) \in Nat /\ t.infos[Len(s.infos) + 1] = here
            /\ \A i \in DOMAIN s.infos : t.infos[i] = s.infos[i]
        BY <2>1, <4>1
      <4>3. DOMAIN t.infos = DOMAIN s.infos \union {Len(s.infos) + 1}
        BY <4>2
      <4> QED
        BY <3>2, <4>1, <4>2, <4>3 DEF CoordsOf
    <3> QED
      BY <3>1, <3>2
  <2>13. CoordsOf(s.infos) = {Corner(c, chunk) : c \in file.sel \ R}
    BY DEF WalkInv
  <2>14. CoordsOf(t.infos) = {Corner(c, chunk) : c \in file.sel \ Q}
    <3>1. file.sel \ Q = (file.sel \ R) \union H
      BY <2>5, <2>6, <2>10 DEF H, InChunk
    <3>2. \A c \in H : Corner(c, chunk) = s.at
      BY DEF H, InChunk
    <3> QED
      BY <2>12, <2>13, <3>1, <3>2
  <2>15. s.at \notin CoordsOf(s.infos)
    <3>1. \A c \in file.sel \ R : Before(k, Corner(c, chunk), s.at) /\ Corner(c, chunk) \in Coordinates(k)
      BY <2>5, CornersOf DEF MayWalk
    <3> QED
      BY <2>1, <2>13, <3>1, NotBoth
  <2>16. Distinct(t.infos)
    <3>1. Distinct(s.infos)
      BY DEF WalkInv
    <3>2. CASE H = {}
      BY <2>8, <3>1, <3>2
    <3>3. CASE H # {}
      <4>1. t.infos = Append(s.infos, here) /\ here.chunk_coords = s.at
        BY <2>2, <2>8, <3>3 DEF here
      <4>2. /\ DOMAIN t.infos = 1 .. Len(s.infos) + 1 /\ DOMAIN s.infos = 1 .. Len(s.infos)
            /\ Len(s.infos) \in Nat /\ t.infos[Len(s.infos) + 1] = here
            /\ \A i \in DOMAIN s.infos : t.infos[i] = s.infos[i]
        BY <2>1, <4>1
      <4>3. \A i \in DOMAIN s.infos : s.infos[i].chunk_coords # s.at
        BY <2>15 DEF CoordsOf
      <4>4. \A i \in DOMAIN t.infos : i \in DOMAIN s.infos \/ i = Len(s.infos) + 1
        BY <4>2
      <4> QED
        BY <3>1, <4>1, <4>2, <4>3, <4>4 DEF Distinct
    <3> QED
      BY <3>2, <3>3
  <2>17. t.left # 0 => n + 1 <= Cardinality(Passed(k, t.at, file, chunk))
    <3> HAVE t.left # 0
    <3>1. L # {} /\ t.at = next
      BY <2>8, FS_EmptySet
    <3> DEFINE A == Passed(k, s.at, file, chunk)
               B == Passed(k, t.at, file, chunk)
    <3>2. A \subseteq B /\ s.at \in B /\ s.at \notin A
      <4>1. next \in Coordinates(k) /\ \A a \in Box(k, file, chunk) : a \in Coordinates(k)
        BY <2>9, <3>1 DEF Box
      <4>2. \A a \in Box(k, file, chunk) : Before(k, a, s.at) => Before(k, a, next)
        BY <2>1, <2>9, <3>1, <4>1, BeforeThrough
      <4> QED
        BY <2>1, <2>9, <3>1, <4>2, NotBoth DEF Passed
    <3>3. IsFiniteSet(B)
      BY BoxFinite, FS_Subset DEF Passed, MayWalk
    <3>4. IsFiniteSet(A) /\ Cardinality(A) + 1 = Cardinality(A \union {s.at})
      <4>1. IsFiniteSet(A)
        BY <3>2, <3>3, FS_Subset
      <4> QED
        BY <3>2, <4>1, FS_AddElement
    <3>5. A \union {s.at} \subseteq B
      BY <3>2
    <3>6. Cardinality(A \union {s.at}) <= Cardinality(B) /\ Cardinality(B) \in Nat
          /\ Cardinality(A) \in Nat /\ Cardinality(A \union {s.at}) \in Nat
      BY <3>3, <3>4, <3>5, FS_Subset, FS_CardinalityType
    <3>7. n <= Cardinality(A)
      BY <1>2 DEF WalkInv
    <3> QED
      BY <3>4, <3>6, <3>7
  <2> QED
    BY <2>4, <2>8, <2>10, <2>11, <2>14, <2>16, <2>17 DEF WalkInv
<1> QED
  BY <1>1, <1>2

\* A walk over a selection keeps a chunk for each corner of a selected element, and no
\* two for one, before it runs out of rounds.
LEMMA WalkTakesAll ==
    ASSUME NEW k \in Nat, NEW file, NEW mem, NEW chunk, MayWalk(k, file, mem, chunk),
           NEW infos, infos = get_selected_chunk_info(file, mem, chunk)
    PROVE  /\ infos \in Seq(ChunkInfos(k, file, mem, chunk))
           /\ CoordsOf(infos) = {Corner(c, chunk) : c \in file.sel}
           /\ Distinct(infos)
<1> DEFINE N == Cardinality(Extent(file.dims))
<1>1. PICK f \in [Nat -> WalkStates(k, file, mem, chunk)] :
              /\ f[0] = WalkStart(file, chunk)
              /\ \A n \in Nat : f[n + 1] = ChunkStep(f[n], chunk, file, mem)
              /\ infos = f[N].infos
  BY WalkIs
<1> DEFINE T == {n \in Nat : WalkInv(k, n, f[n], file, mem, chunk)}
<1>2. 0 \in T
  BY <1>1, WalkBegins
<1>3. \A n \in T : n + 1 \in T
  BY <1>1, WalkGoesOn
<1> HIDE DEF T
<1>4. T = Nat
  BY <1>2, <1>3, Induction DEF T
<1>5. N \in Nat /\ Cardinality(Box(k, file, chunk)) \in Nat
      /\ Cardinality(Box(k, file, chunk)) <= N /\ IsFiniteSet(Box(k, file, chunk))
  BY BoxFinite DEF MayWalk
<1>6. WalkInv(k, N, f[N], file, mem, chunk)
  BY <1>4, <1>5 DEF T
<1>7. f[N].left = 0
  <2> DEFINE P == Passed(k, f[N].at, file, chunk)
             at == f[N].at
  <2>1. at \in Box(k, file, chunk) /\ at \in Coordinates(k)
    BY <1>6 DEF WalkInv, Box
  <2>2. P \subseteq Box(k, file, chunk) /\ at \notin P
    BY <2>1, NotBoth DEF Passed
  <2>3. IsFiniteSet(P) /\ Cardinality(P) \in Nat
        /\ Cardinality(P \union {at}) = Cardinality(P) + 1
        /\ Cardinality(P \union {at}) <= Cardinality(Box(k, file, chunk))
    <3>1. IsFiniteSet(P)
      BY <1>5, <2>2, FS_Subset
    <3>2. P \union {at} \subseteq Box(k, file, chunk)
      BY <2>1, <2>2
    <3> QED
      BY <1>5, <2>2, <3>1, <3>2, FS_AddElement, FS_Subset, FS_CardinalityType
  <2> HIDE DEF P, at
  <2>4. ~(N <= Cardinality(P))
    BY <1>5, <2>3
  <2> QED
    BY <1>6, <2>4 DEF WalkInv, P
<1>8. Rest(k, f[N], file, chunk) = {}
  BY <1>7 DEF Rest
<1>9. f[N].infos \in Seq(ChunkInfos(k, file, mem, chunk))
  BY <1>6 DEF WalkInv, WalkStates
<1> QED
  BY <1>1, <1>6, <1>8, <1>9 DEF WalkInv

(***************************************************************************)
(* The numbers of a finite set in their order.                             *)
(***************************************************************************)
Numbers(S) == S \subseteq Nat /\ IsFiniteSet(S)

\* Below counts: it is a number, and no more than there are in the set.
LEMMA BelowIs ==
    ASSUME NEW S, Numbers(S), NEW n \in Int
    PROVE  /\ IsFiniteSet({m \in S : m < n}) /\ Cardinality(S) \in Nat
           /\ Below(S, n) \in Nat /\ Below(S, n) <= Cardinality(S)
<1>1. {m \in S : m < n} \in SUBSET S
  OBVIOUS
<1> QED
  BY <1>1, FS_Subset, FS_CardinalityType DEF Below, Numbers

\* The count grows by one at the numbers of the set.
LEMMA BelowNext ==
    ASSUME NEW S, Numbers(S), NEW n \in Int
    PROVE  Below(S, n + 1) = IF n \in S THEN Below(S, n) + 1 ELSE Below(S, n)
<1> DEFINE L == {m \in S : m < n}
<1>1. IsFiniteSet(L)
  BY BelowIs
<1>2. CASE n \in S
  <2>1. \A m \in S : m < n + 1 <=> m < n \/ m = n
    BY DEF Numbers
  <2>2. {m \in S : m < n + 1} = L \union {n}
    BY <1>2, <2>1
  <2>3. n \notin L
    OBVIOUS
  <2> QED
    BY <1>1, <1>2, <2>2, <2>3, FS_AddElement DEF Below
<1>3. CASE n \notin S
  <2>1. \A m \in S : m < n + 1 <=> m < n \/ m = n
    BY DEF Numbers
  <2>2. {m \in S : m < n + 1} = L
    BY <1>3, <2>1
  <2> QED
    BY <1>3, <2>2 DEF Below
<1> QED
  BY <1>2, <1>3

\* The count does not fall, and grows past a number of the set.
LEMMA BelowOrder ==
    ASSUME NEW S, Numbers(S), NEW a \in Int, NEW b \in Int, a <= b
    PROVE  /\ Below(S, a) <= Below(S, b)
           /\ a \in S /\ a < b => Below(S, a) < Below(S, b)
<1>1. {m \in S : m < a} \in SUBSET {m \in S : m < b}
  <2>1. \A m \in S : m < a => m < b
    BY DEF Numbers
  <2> QED
    BY <2>1
<1>2. IsFiniteSet({m \in S : m < b})
  BY BelowIs
<1>3. Below(S, a) <= Below(S, b)
  BY <1>1, <1>2, FS_Subset DEF Below
<1>4. ASSUME a \in S, a < b PROVE Below(S, a) < Below(S, b)
  <2>1. a \in {m \in S : m < b} /\ a \notin {m \in S : m < a}
    BY <1>4
  <2>2. Below(S, a) # Below(S, b)
    BY <1>1, <1>2, <2>1, FS_Subset DEF Below
  <2> QED
    <3>1. Below(S, a) \in Nat /\ Below(S, b) \in Nat
      BY BelowIs
    <3> QED
      BY <1>3, <2>2, <3>1
<1> QED
  BY <1>3, <1>4

\* All of a set is below a number beyond it.
LEMMA BelowAll ==
    ASSUME NEW S, Numbers(S), NEW n \in Int, \A m \in S : m < n
    PROVE  Below(S, n) = Cardinality(S)
<1>1. {m \in S : m < n} = S
  OBVIOUS
<1> QED
  BY <1>1 DEF Below

\* Nothing is counted below the first.
LEMMA BelowNone ==
    ASSUME NEW S, Numbers(S), NEW n \in Int, \A m \in S : ~(m < n)
    PROVE  Below(S, n) = 0
<1>1. {m \in S : m < n} = {}
  OBVIOUS
<1> QED
  BY <1>1, FS_EmptySet DEF Below

\* Each number of a set has a place of its own in it.
LEMMA BelowOnto ==
    ASSUME NEW S, Numbers(S)
    PROVE  /\ \A n \in S : Below(S, n) \in 0 .. Cardinality(S) - 1
           /\ \A m, n \in S : (m < n <=> Below(S, m) < Below(S, n))
                              /\ (Below(S, m) = Below(S, n) => m = n)
           /\ \A i \in 0 .. Cardinality(S) - 1 : \E n \in S : Below(S, n) = i
<1> DEFINE c == Cardinality(S)
           I == 0 .. c - 1
           f == [n \in S |-> Below(S, n)]
<1>1. c \in Nat
  BY FS_CardinalityType DEF Numbers
<1>2. ASSUME NEW n \in S PROVE Below(S, n) \in I
  <2>1. n \in Int /\ n + 1 \in Int
    BY DEF Numbers
  <2>2. Below(S, n) \in Nat /\ Below(S, n + 1) <= c /\ Below(S, n + 1) = Below(S, n) + 1
    BY <2>1, BelowIs, BelowNext
  <2> QED
    BY <1>1, <2>2
<1>3. ASSUME NEW m \in S, NEW n \in S, m < n PROVE Below(S, m) < Below(S, n)
  <2>1. m \in Int /\ n \in Int /\ m <= n
    BY <1>3 DEF Numbers
  <2> QED
    BY <1>3, <2>1, BelowOrder
<1>4. ASSUME NEW m \in S, NEW n \in S
      PROVE  (m < n <=> Below(S, m) < Below(S, n)) /\ (Below(S, m) = Below(S, n) => m = n)
  <2>1. m \in Nat /\ n \in Nat /\ Below(S, m) \in Nat /\ Below(S, n) \in Nat
    BY <1>1, <1>2 DEF Numbers
  <2>2. (m < n => Below(S, m) < Below(S, n)) /\ (n < m => Below(S, n) < Below(S, m))
    BY <1>3
  <2> QED
    BY <2>1, <2>2
<1>5. IsFiniteSet(I) /\ Cardinality(I) = c
  <2>1. c - 1 \in Int /\ 0 \in Int
    BY <1>1
  <2>2. IsFiniteSet(I) /\ Cardinality(I) = IF 0 > c - 1 THEN 0 ELSE c - 1 - 0 + 1
    BY <2>1, FS_Interval
  <2> QED
    BY <1>1, <2>2
<1> HIDE DEF I, c
<1>6. f \in [S -> I]
  BY <1>2
<1>7. f \in Injection(S, I)
  BY <1>4, <1>6 DEF Injection, IsInjective
<1>8. f \in Surjection(S, I)
  BY <1>5, <1>7, FS_Injection DEF c
<1>9. \A i \in I : \E n \in S : Below(S, n) = i
  <2> SUFFICES ASSUME NEW i \in I PROVE \E n \in S : Below(S, n) = i
    OBVIOUS
  <2>1. PICK n \in S : f[n] = i
    BY <1>8 DEF Surjection
  <2> QED
    BY <2>1
<1> QED
  BY <1>2, <1>4, <1>9 DEF I, c

\* Ascending lists the numbers of a set, each at the place that Below says.
LEMMA AscendingIs ==
    ASSUME NEW S, Numbers(S)
    PROVE  LET q == Ascending(S) IN
           /\ q \in Seq(S) /\ Len(q) = Cardinality(S) /\ Cardinality(S) \in Nat
           /\ \A i \in 1 .. Len(q) : q[i] \in S /\ Below(S, q[i]) = i - 1
           /\ \A n \in S : Below(S, n) + 1 \in 1 .. Len(q) /\ q[Below(S, n) + 1] = n
<1> DEFINE q == Ascending(S)
           c == Cardinality(S)
<1>1. c \in Nat
  BY FS_CardinalityType DEF Numbers
<1>2. ASSUME NEW i \in 1 .. c
      PROVE  q[i] \in S /\ Below(S, q[i]) = i - 1
  <2>1. i - 1 \in 0 .. c - 1
    BY <1>1
  <2>2. \E n \in S : Below(S, n) = i - 1
    BY <2>1, BelowOnto
  <2>3. q[i] = CHOOSE n \in S : Below(S, n) = i - 1
    BY DEF Ascending
  <2> QED
    BY <2>2, <2>3
<1>3. q = [i \in 1 .. c |-> q[i]]
  BY DEF Ascending
<1> HIDE DEF q
<1>4. q \in [1 .. c -> S]
  BY <1>2, <1>3
<1>5. q \in Seq(S) /\ Len(q) = c
  BY <1>1, <1>4
<1>6. ASSUME NEW n \in S PROVE Below(S, n) + 1 \in 1 .. c /\ q[Below(S, n) + 1] = n
  <2>1. Below(S, n) \in 0 .. c - 1
    BY BelowOnto
  <2>2. Below(S, n) + 1 \in 1 .. c /\ (Below(S, n) + 1) - 1 = Below(S, n)
    BY <1>1, <2>1
  <2>3. q[Below(S, n) + 1] \in S /\ Below(S, q[Below(S, n) + 1]) = Below(S, n)
    BY <1>2, <2>2
  <2> QED
    BY <2>2, <2>3, BelowOnto
<1> QED
  BY <1>1, <1>2, <1>5, <1>6 DEF q

\* An increasing function from one set onto another keeps the places.
Increasing(f, S, T) == /\ f \in [S -> T] /\ T \subseteq Nat
                       /\ \A x, y \in S : x < y => f[x] < f[y]
                       /\ \A t \in T : \E x \in S : f[x] = t

\* An increasing function leaves the places of numbers as they are.
LEMMA SamePlaces ==
    ASSUME NEW S, Numbers(S), NEW T, NEW f, Increasing(f, S, T)
    PROVE  /\ Numbers(T) /\ Cardinality(T) = Cardinality(S)
           /\ \A x \in S : Below(T, f[x]) = Below(S, x)
<1>1. /\ f \in [S -> T] /\ T \subseteq Nat /\ \A x, y \in S : x < y => f[x] < f[y]
      /\ \A t \in T : \E x \in S : f[x] = t
  BY DEF Increasing
<1>2. ASSUME NEW x \in S, NEW y \in S PROVE f[x] < f[y] <=> x < y
  <2>1. x \in Nat /\ y \in Nat /\ f[x] \in Nat /\ f[y] \in Nat
    BY <1>1 DEF Numbers
  <2>2. (x < y => f[x] < f[y]) /\ (y < x => f[y] < f[x])
    BY <1>1
  <2>3. x = y => f[x] = f[y]
    OBVIOUS
  <2> QED
    BY <2>1, <2>2, <2>3
<1>3. ASSUME NEW x \in S, NEW y \in S, f[x] = f[y] PROVE x = y
  <2>1. x \in Nat /\ y \in Nat /\ f[x] \in Nat
    BY <1>1 DEF Numbers
  <2> QED
    BY <1>2, <1>3, <2>1
<1>4. IsFiniteSet(T) /\ Cardinality(T) = Cardinality(S)
  BY <1>1, <1>3, ImageSize DEF Numbers
<1>5. ASSUME NEW x \in S PROVE Below(T, f[x]) = Below(S, x)
  <2> DEFINE A == {m \in S : m < x}
             B == {t \in T : t < f[x]}
             g == [m \in A |-> f[m]]
  <2>1. IsFiniteSet(A)
    BY FS_Subset DEF Numbers
  <2>2. g \in [A -> B]
    BY <1>1, <1>2
  <2>3. \A t \in B : \E m \in A : g[m] = t
    <3> SUFFICES ASSUME NEW t \in B PROVE \E m \in A : g[m] = t
      OBVIOUS
    <3>1. PICK m \in S : f[m] = t
      BY <1>1
    <3>2. m \in A
      BY <1>2, <3>1
    <3> QED
      BY <3>1, <3>2
  <2>4. \A m, n \in A : g[m] = g[n] => m = n
    BY <1>3
  <2> HIDE DEF A, B, g
  <2>5. Cardinality(B) = Cardinality(A)
    BY <2>1, <2>2, <2>3, <2>4, ImageSize
  <2> QED
    BY <2>5 DEF A, B, Below
<1> QED
  BY <1>1, <1>4, <1>5 DEF Numbers

(***************************************************************************)
(* The place of an element in the row-major order of an extent.            *)
(***************************************************************************)
\* A function of a number, up to a last one, that is given by its value before.
LEMMA Recursion ==
    ASSUME NEW S, NEW a \in S, NEW k \in Nat, NEW G \in [1 .. k -> [S -> S]]
    PROVE  \E f \in [0 .. k -> S] : f[0] = a /\ \A d \in 1 .. k : f[d] = G[d][f[d - 1]]
<1> DEFINE Up(j, f) == f \in [0 .. j -> S] /\ f[0] = a /\ \A d \in 1 .. j : f[d] = G[d][f[d - 1]]
           T == {j \in Nat : j <= k => \E f : Up(j, f)}
<1>1. 0 \in T
  <2> DEFINE f == [d \in 0 .. 0 |-> a]
  <2>1. Up(0, f)
    OBVIOUS
  <2> QED
    BY <2>1
<1>2. ASSUME NEW j \in T PROVE j + 1 \in T
  <2>1. j \in Nat /\ j + 1 \in Nat /\ (j + 1 <= k => j <= k)
    OBVIOUS
  <2> SUFFICES ASSUME j + 1 <= k PROVE \E f : Up(j + 1, f)
    <3> HIDE DEF Up
    <3> QED
      BY <2>1
  <2>2. PICK f : Up(j, f)
    <3> HIDE DEF Up
    <3> QED
      BY <2>1
  <2> DEFINE g == [d \in 0 .. j + 1 |-> IF d <= j THEN f[d] ELSE G[d][f[j]]]
  <2>3. j + 1 \in 1 .. k /\ \A d \in 0 .. j + 1 : d \in 0 .. j \/ d = j + 1
    OBVIOUS
  <2>4. f[j] \in S /\ G[j + 1] \in [S -> S] /\ G[j + 1][f[j]] \in S
    BY <2>2, <2>3
  <2>5. g \in [0 .. j + 1 -> S]
    BY <2>2, <2>3, <2>4
  <2>6. g[j + 1] = G[j + 1][f[j]] /\ \A d \in 0 .. j : g[d] = f[d]
    BY <2>3
  <2> HIDE DEF g
  <2>7. g[0] = a
    BY <2>2, <2>6
  <2>8. ASSUME NEW d \in 1 .. j + 1 PROVE g[d] = G[d][g[d - 1]]
    <3>1. CASE d = j + 1
      <4>1. d - 1 = j /\ j \in 0 .. j
        BY <3>1
      <4> QED
        BY <2>6, <3>1, <4>1
    <3>2. CASE d # j + 1
      <4>1. d \in 1 .. j /\ d \in 0 .. j /\ d - 1 \in 0 .. j
        BY <3>2
      <4> QED
        BY <2>2, <2>6, <4>1
    <3> QED
      BY <3>1, <3>2
  <2>9. Up(j + 1, g)
    BY <2>5, <2>7, <2>8
  <2> QED
    BY <2>9
<1> HIDE DEF T
<1>3. T = Nat
  BY <1>1, <1>2, Induction DEF T
<1>4. PICK f : Up(k, f)
  BY <1>3 DEF T
<1> QED
  BY <1>4

\* The place, one dimension at a time.
IsPlace(k, dims, c, place) ==
    /\ place \in [0 .. k -> Nat] /\ place[0] = 0
    /\ \A d \in 1 .. k : place[d] = place[d - 1] * dims[d] + c[d]

\* The place of an element is the last of the partial places in its dimensions.
LEMMA LinearIs ==
    ASSUME NEW k \in Nat, NEW dims \in Coordinates(k), NEW c \in Coordinates(k)
    PROVE  \E place : IsPlace(k, dims, c, place) /\ Linear(dims, c) = place[k]
<1> DEFINE G == [d \in 1 .. k |-> [v \in Nat |-> v * dims[d] + c[d]]]
           eq(p) == p = [d \in 0 .. k |-> IF d = 0 THEN 0 ELSE p[d - 1] * dims[d] + c[d]]
           place == CHOOSE p : eq(p)
<1>1. \A d \in 1 .. k : dims[d] \in Nat /\ c[d] \in Nat
  BY DEF Coordinates
<1>2. G \in [1 .. k -> [Nat -> Nat]]
  <2>1. ASSUME NEW d \in 1 .. k, NEW v \in Nat PROVE v * dims[d] + c[d] \in Nat
    BY <1>1
  <2> QED
    BY <2>1
<1> HIDE DEF G
<1>3. PICK f \in [0 .. k -> Nat] : f[0] = 0 /\ \A d \in 1 .. k : f[d] = G[d][f[d - 1]]
  <2>1. PICK S : S = Nat
    OBVIOUS
  <2>2. 0 \in S /\ G \in [1 .. k -> [S -> S]]
    BY <1>2, <2>1
  <2>3. \E f \in [0 .. k -> S] : f[0] = 0 /\ \A d \in 1 .. k : f[d] = G[d][f[d - 1]]
    BY <2>2, Recursion
  <2> QED
    BY <2>1, <2>3
<1>4. \A d \in 0 .. k : d # 0 => d \in 1 .. k /\ d - 1 \in 0 .. k
  OBVIOUS
<1>5. \A d \in 0 .. k : d # 0 => G[d][f[d - 1]] = f[d - 1] * dims[d] + c[d]
  BY <1>3, <1>4 DEF G
<1>6. eq(f)
  <2>1. \A d \in 0 .. k : f[d] = IF d = 0 THEN 0 ELSE f[d - 1] * dims[d] + c[d]
    BY <1>3, <1>4, <1>5
  <2>2. f = [d \in 0 .. k |-> f[d]]
    OBVIOUS
  <2> QED
    BY <2>1, <2>2
<1>7. eq(place)
  BY <1>6
<1> HIDE DEF place
<1>8. place[0] = 0 /\ \A d \in 1 .. k : place[d] = place[d - 1] * dims[d] + c[d]
  <2>1. 0 \in 0 .. k /\ \A d \in 1 .. k : d \in 0 .. k /\ d # 0
    OBVIOUS
  <2> QED
    BY <1>7, <2>1
<1>9. \A d \in 0 .. k : place[d] \in Nat
  <2> DEFINE T == {d \in Nat : d <= k => place[d] \in Nat}
  <2>1. 0 \in T
    BY <1>8
  <2>2. ASSUME NEW d \in T PROVE d + 1 \in T
    <3> SUFFICES ASSUME d + 1 <= k PROVE place[d + 1] \in Nat
      OBVIOUS
    <3>1. d + 1 \in 1 .. k /\ (d + 1) - 1 = d /\ place[d] \in Nat
      OBVIOUS
    <3>2. place[d + 1] = place[d] * dims[d + 1] + c[d + 1]
      BY <1>8, <3>1
    <3>3. dims[d + 1] \in Nat /\ c[d + 1] \in Nat
      BY <1>1, <3>1
    <3>4. place[d] * dims[d + 1] \in Nat
      BY <3>1, <3>3
    <3> QED
      BY <3>2, <3>3, <3>4
  <2> HIDE DEF T
  <2>3. T = Nat
    BY <2>1, <2>2, Induction DEF T
  <2> QED
    BY <2>3 DEF T
<1>10. place \in [0 .. k -> Nat]
  BY <1>7, <1>9
<1>11. Len(dims) = k
  BY DEF Coordinates
<1>12. Linear(dims, c) = place[k]
  BY <1>11 DEF Linear, place
<1> QED
  BY <1>8, <1>10, <1>12 DEF IsPlace

\* An element that comes before another one has a smaller place.
LEMMA LinearOrder ==
    ASSUME NEW k \in Nat, NEW dims \in Coordinates(k),
           NEW a \in Extent(dims), NEW b \in Extent(dims), Before(k, a, b)
    PROVE  Linear(dims, a) < Linear(dims, b)
<1>1. /\ a \in Coordinates(k) /\ b \in Coordinates(k)
      /\ \A d \in 1 .. k : dims[d] \in Nat /\ a[d] \in Nat /\ b[d] \in Nat
                           /\ a[d] < dims[d] /\ b[d] < dims[d]
  BY ExtentIs DEF Coordinates
<1>2. PICK p : IsPlace(k, dims, a, p) /\ Linear(dims, a) = p[k]
  BY <1>1, LinearIs
<1>3. PICK q : IsPlace(k, dims, b, q) /\ Linear(dims, b) = q[k]
  BY <1>1, LinearIs
<1>4. PICK d \in 1 .. k : a[d] < b[d] /\ \A e \in 1 .. d - 1 : a[e] = b[e]
  BY DEF Before
<1> DEFINE T == {n \in Nat : (n < d => p[n] = q[n]) /\ (d <= n /\ n <= k => p[n] < q[n])}
<1>5. 0 \in T
  BY <1>2, <1>3 DEF IsPlace
<1>6. ASSUME NEW n \in T, n + 1 <= k PROVE n + 1 \in T
  <2>1. /\ n + 1 \in 1 .. k /\ (n + 1) - 1 = n /\ n \in 0 .. k /\ n + 1 \in 0 .. k
        /\ n + 1 < d => n + 1 \in 1 .. d - 1
    BY <1>6
  <2>2. /\ p[n + 1] = p[n] * dims[n + 1] + a[n + 1] /\ q[n + 1] = q[n] * dims[n + 1] + b[n + 1]
        /\ p[n] \in Nat /\ q[n] \in Nat /\ p[n + 1] \in Nat /\ q[n + 1] \in Nat
    BY <1>2, <1>3, <2>1 DEF IsPlace
  <2>3. CASE n + 1 < d
    <3>1. p[n] = q[n] /\ a[n + 1] = b[n + 1]
      BY <1>4, <2>1, <2>3
    <3> QED
      BY <2>2, <2>3, <3>1
  <2>4. CASE n + 1 = d
    <3>1. p[n] = q[n] /\ a[n + 1] < b[n + 1]
      BY <1>4, <2>4
    <3>2. PICK v \in Nat : v = p[n] * dims[n + 1]
      BY <1>1, <2>1, <2>2
    <3>3. p[n + 1] = v + a[n + 1] /\ q[n + 1] = v + b[n + 1]
      BY <2>2, <3>1, <3>2
    <3> QED
      BY <1>1, <2>1, <2>4, <3>1, <3>3
  <2>5. CASE d < n + 1
    <3>1. p[n] < q[n]
      BY <2>1, <2>5
    <3>2. PICK u, v, w : /\ u = p[n] * dims[n + 1] /\ v = q[n] * dims[n + 1]
                         /\ w = (p[n] + 1) * dims[n + 1]
      OBVIOUS
    <3>3. u \in Nat /\ v \in Nat /\ w \in Nat /\ w = u + dims[n + 1]
      BY <1>1, <2>1, <2>2, <3>2
    <3>4. w <= v
      <4>1. p[n] + 1 \in Nat /\ q[n] \in Nat /\ p[n] + 1 <= q[n] /\ dims[n + 1] \in Nat
        BY <1>1, <2>1, <2>2, <3>1
      <4>2. (p[n] + 1) * dims[n + 1] <= q[n] * dims[n + 1]
        BY <4>1, ProductOrder
      <4> QED
        BY <3>2, <4>2
    <3>5. a[n + 1] < dims[n + 1] /\ a[n + 1] \in Nat /\ b[n + 1] \in Nat /\ dims[n + 1] \in Nat
      BY <1>1, <2>1
    <3>6. p[n + 1] = u + a[n + 1] /\ q[n + 1] = v + b[n + 1]
      BY <2>2, <3>2
    <3>7. p[n + 1] < q[n + 1]
      BY <3>3, <3>4, <3>5, <3>6
    <3> QED
      BY <2>5, <3>7
  <2> QED
    BY <2>3, <2>4, <2>5
<1>7. ASSUME NEW n \in T, ~(n + 1 <= k) PROVE n + 1 \in T
  BY <1>7
<1> HIDE DEF T
<1>8. T = Nat
  BY <1>5, <1>6, <1>7, Induction DEF T
<1>9. k \in Nat /\ d <= k
  OBVIOUS
<1>10. p[k] < q[k]
  BY <1>8, <1>9 DEF T
<1> QED
  BY <1>2, <1>3, <1>10

\* The place of an element is a number.
LEMMA LinearIn ==
    ASSUME NEW k \in Nat, NEW dims \in Coordinates(k), NEW c \in Coordinates(k)
    PROVE  Linear(dims, c) \in Nat
<1>1. PICK place : IsPlace(k, dims, c, place) /\ Linear(dims, c) = place[k]
  BY LinearIs
<1>2. k \in 0 .. k
  OBVIOUS
<1> QED
  BY <1>1, <1>2 DEF IsPlace

\* The order of the places is the order of the elements.
LEMMA LinearBefore ==
    ASSUME NEW k \in Nat, NEW dims \in Coordinates(k), NEW a \in Extent(dims), NEW b \in Extent(dims)
    PROVE  /\ Linear(dims, a) < Linear(dims, b) <=> Before(k, a, b)
           /\ Linear(dims, a) = Linear(dims, b) => a = b
<1>1. a \in Coordinates(k) /\ b \in Coordinates(k)
  BY ExtentIs
<1>2. Linear(dims, a) \in Nat /\ Linear(dims, b) \in Nat
  BY <1>1, LinearIn
<1>3. Before(k, a, b) => Linear(dims, a) < Linear(dims, b)
  BY LinearOrder
<1>4. Before(k, b, a) => Linear(dims, b) < Linear(dims, a)
  BY LinearOrder
<1>5. a = b \/ Before(k, a, b) \/ Before(k, b, a)
  BY <1>1, OneBefore
<1> QED
  BY <1>2, <1>3, <1>4, <1>5

\* Every place but the first has an element just before it.
LEMMA LinearBorrow ==
    ASSUME NEW k \in Nat, NEW dims \in Coordinates(k), NEW c \in Extent(dims),
           Linear(dims, c) # 0
    PROVE  \E b \in Extent(dims) : Linear(dims, b) = Linear(dims, c) - 1
<1>1. /\ c \in Coordinates(k)
      /\ \A d \in 1 .. k : dims[d] \in Nat /\ c[d] \in Nat /\ c[d] < dims[d]
  BY ExtentIs DEF Coordinates
<1>2. PICK p : IsPlace(k, dims, c, p) /\ Linear(dims, c) = p[k]
  BY <1>1, LinearIs
<1> DEFINE D == {d \in 1 .. k : c[d] > 0}
<1>3. D # {}
  <2> SUFFICES ASSUME D = {} PROVE FALSE
    OBVIOUS
  <2>1. \A d \in 1 .. k : c[d] = 0
    BY <1>1
  <2> DEFINE T == {n \in Nat : n <= k => p[n] = 0}
  <2>2. 0 \in T
    BY <1>2 DEF IsPlace
  <2>3. ASSUME NEW n \in T PROVE n + 1 \in T
    <3> SUFFICES ASSUME n + 1 <= k PROVE p[n + 1] = 0
      OBVIOUS
    <3>1. n + 1 \in 1 .. k /\ (n + 1) - 1 = n /\ p[n] = 0
      OBVIOUS
    <3>2. p[n + 1] = p[n] * dims[n + 1] + c[n + 1]
      BY <1>2, <3>1 DEF IsPlace
    <3>3. dims[n + 1] \in Nat /\ c[n + 1] = 0 /\ 0 * dims[n + 1] = 0
      BY <1>1, <2>1, <3>1
    <3> QED
      BY <3>1, <3>2, <3>3
  <2> HIDE DEF T
  <2>4. T = Nat
    BY <2>2, <2>3, Induction DEF T
  <2> QED
    BY <1>2, <2>4 DEF T
<1>4. PICK d \in D : \A e \in D : e <= d
  <2>1. D \subseteq Nat /\ \A e \in D : e <= k
    OBVIOUS
  <2> QED
    BY <1>3, <2>1, MaxIs
<1>5. d \in 1 .. k /\ c[d] > 0 /\ \A e \in 1 .. k : d < e => c[e] = 0
  BY <1>1, <1>4
<1> HIDE DEF D
<1> DEFINE b == [e \in 1 .. k |-> IF e < d THEN c[e] ELSE IF e = d THEN c[d] - 1 ELSE dims[e] - 1]
<1>6. \A e \in 1 .. k : b[e] \in Nat /\ b[e] < dims[e]
  BY <1>1, <1>5
<1>7. b \in Coordinates(k) /\ b \in Extent(dims)
  <2>1. b \in [1 .. k -> Nat]
    BY <1>6
  <2> HIDE DEF b
  <2> QED
    BY <1>6, <2>1, ExtentIs DEF Coordinates
<1>8. /\ \A e \in 1 .. k : e < d => b[e] = c[e]
      /\ b[d] = c[d] - 1
      /\ \A e \in 1 .. k : d < e => b[e] = dims[e] - 1
  BY <1>5
<1> HIDE DEF b
<1>9. PICK q : IsPlace(k, dims, b, q) /\ Linear(dims, b) = q[k]
  BY <1>7, LinearIs
<1> DEFINE T == {n \in Nat : (n < d => q[n] = p[n]) /\ (d <= n /\ n <= k => q[n] = p[n] - 1)}
<1>10. 0 \in T
  BY <1>2, <1>5, <1>9 DEF IsPlace
<1>11. ASSUME NEW n \in T, n + 1 <= k PROVE n + 1 \in T
  <2>1. /\ n \in Nat /\ n + 1 \in Nat /\ d \in Nat
        /\ n < d => q[n] = p[n]
        /\ d <= n => q[n] = p[n] - 1
    BY <1>5, <1>11
  <2> HIDE DEF T
  <2>2. n + 1 \in 1 .. k /\ (n + 1) - 1 = n /\ n \in 0 .. k /\ n + 1 \in 0 .. k
    BY <1>11, <2>1
  <2>3. /\ p[n + 1] = p[n] * dims[n + 1] + c[n + 1] /\ q[n + 1] = q[n] * dims[n + 1] + b[n + 1]
        /\ p[n] \in Nat /\ q[n] \in Nat /\ p[n + 1] \in Nat /\ q[n + 1] \in Nat
    BY <1>2, <1>9, <2>2 DEF IsPlace
  <2>4. dims[n + 1] \in Nat /\ c[n + 1] \in Nat /\ b[n + 1] \in Nat
    BY <1>1, <1>6, <2>2
  <2>5. PICK u, v : u = p[n] * dims[n + 1] /\ v = q[n] * dims[n + 1]
    OBVIOUS
  <2>6. u \in Nat /\ v \in Nat /\ p[n + 1] = u + c[n + 1] /\ q[n + 1] = v + b[n + 1]
    BY <2>3, <2>4, <2>5
  <2>7. CASE n + 1 < d
    <3>1. p[n] = q[n] /\ b[n + 1] = c[n + 1]
      BY <1>8, <2>1, <2>2, <2>7
    <3>2. q[n + 1] = p[n + 1]
      BY <2>5, <2>6, <3>1
    <3> QED
      BY <2>1, <2>7, <3>2 DEF T
  <2>8. CASE n + 1 = d
    <3>1. p[n] = q[n] /\ b[n + 1] = c[n + 1] - 1
      BY <1>8, <2>1, <2>8
    <3>2. q[n + 1] = p[n + 1] - 1
      BY <2>4, <2>5, <2>6, <3>1
    <3> QED
      BY <2>1, <2>8, <3>2 DEF T
  <2>9. CASE d < n + 1
    <3>1. q[n] = p[n] - 1 /\ b[n + 1] = dims[n + 1] - 1 /\ c[n + 1] = 0
      BY <1>5, <1>8, <2>1, <2>2, <2>9
    <3>2. v = u - dims[n + 1]
      <4>1. (p[n] - 1) * dims[n + 1] = p[n] * dims[n + 1] - dims[n + 1]
        BY <2>3, <2>4
      <4> QED
        BY <2>5, <3>1, <4>1
    <3>3. q[n + 1] = p[n + 1] - 1
      BY <2>4, <2>6, <3>1, <3>2
    <3> QED
      BY <2>1, <2>9, <3>3 DEF T
  <2> QED
    BY <2>1, <2>7, <2>8, <2>9
<1>12. ASSUME NEW n \in T, ~(n + 1 <= k) PROVE n + 1 \in T
  BY <1>12, <1>5
<1> HIDE DEF T
<1>13. T = Nat
  BY <1>10, <1>11, <1>12, Induction DEF T
<1>14. q[k] = p[k] - 1
  BY <1>5, <1>13 DEF T
<1> QED
  BY <1>2, <1>7, <1>9, <1>14

\* The places of an extent are no more than its elements.
LEMMA LinearBound ==
    ASSUME NEW k \in Nat, NEW dims \in Coordinates(k), NEW c \in Extent(dims)
    PROVE  Linear(dims, c) \in Nat /\ Linear(dims, c) < Cardinality(Extent(dims))
           /\ Cardinality(Extent(dims)) \in Nat
<1> DEFINE E == Extent(dims)
           L == Linear(dims, c)
           at(n) == \E b \in E : Linear(dims, b) = L - n
           T == {n \in Nat : n <= L => at(n)}
<1>1. \A b \in E : Linear(dims, b) \in Nat
  BY ExtentIs, LinearIn
<1>2. L \in Nat /\ at(0)
  BY <1>1
<1>3. 0 \in T
  BY <1>2
<1>4. ASSUME NEW n \in T PROVE n + 1 \in T
  <2>1. n \in Nat /\ n + 1 \in Nat
    OBVIOUS
  <2>2. ASSUME n + 1 <= L PROVE at(n + 1)
    <3>1. PICK b \in E : Linear(dims, b) = L - n
      BY <1>2, <2>1, <2>2
    <3>2. Linear(dims, b) # 0
      BY <1>2, <2>1, <2>2, <3>1
    <3>3. PICK a \in E : Linear(dims, a) = Linear(dims, b) - 1
      BY <3>2, LinearBorrow
    <3>4. Linear(dims, a) = L - (n + 1)
      BY <1>2, <2>1, <3>1, <3>3
    <3> QED
      BY <3>4
  <2> HIDE DEF at
  <2> QED
    BY <2>1, <2>2
<1> HIDE DEF T
<1>5. T = Nat
  BY <1>3, <1>4, Induction DEF T
<1> DEFINE B == {b \in E : Linear(dims, b) <= L}
           I == 0 .. L
           f == [b \in B |-> Linear(dims, b)]
<1>6. IsFiniteSet(E) /\ IsFiniteSet(B) /\ Cardinality(B) <= Cardinality(E)
  <2>1. B \in SUBSET E
    OBVIOUS
  <2> QED
    BY <2>1, ExtentFinite, FS_Subset
<1>7. f \in Surjection(B, I)
  <2>1. \A b \in B : Linear(dims, b) \in I
    BY <1>1, <1>2
  <2>2. ASSUME NEW v \in I PROVE \E b \in B : f[b] = v
    <3>1. L - v \in Nat /\ L - v <= L /\ L - (L - v) = v /\ v <= L
      BY <1>2
    <3>2. at(L - v)
      BY <1>5, <3>1 DEF T
    <3>3. PICK b \in E : Linear(dims, b) = v
      BY <3>1, <3>2
    <3> QED
      BY <3>1, <3>3
  <2>3. f \in [B -> I]
    BY <2>1
  <2> QED
    BY <2>2, <2>3 DEF Surjection
<1>8. Cardinality(I) = L + 1
  <2>1. Cardinality(I) = IF 0 > L THEN 0 ELSE L - 0 + 1
    BY <1>2, FS_Interval
  <2> QED
    BY <1>2, <2>1
<1> HIDE DEF B, I, f
<1>9. Cardinality(I) <= Cardinality(B)
  BY <1>6, <1>7, FS_Surjection
<1>10. Cardinality(B) \in Nat /\ Cardinality(E) \in Nat
  BY <1>6, FS_CardinalityType
<1> HIDE DEF E, L
<1>11. L < Cardinality(E)
  BY <1>2, <1>6, <1>8, <1>9, <1>10
<1> QED
  BY <1>2, <1>10, <1>11 DEF E, L

(***************************************************************************)
(* The units of elements, of which each has as many as a type has members. *)
(***************************************************************************)
Size == Nat \ {0}
UnitAt(o, size, j) == o * size + j
Units(P, size) == {UnitAt(o, size, j) : o \in P, j \in 0 .. size - 1}

\* Units are ordered as their elements are, and then in the element.
LEMMA UnitOrder ==
    ASSUME NEW size \in Size, NEW o \in Nat, NEW p \in Nat,
           NEW i \in 0 .. size - 1, NEW j \in 0 .. size - 1
    PROVE  /\ UnitAt(o, size, i) \in Nat
           /\ UnitAt(o, size, i) < UnitAt(p, size, j) <=> o < p \/ (o = p /\ i < j)
           /\ UnitAt(o, size, i) = UnitAt(p, size, j) <=> o = p /\ i = j
<1>1. PICK u, v : u = o * size /\ v = p * size
  OBVIOUS
<1>2. size \in Nat \ {0} /\ u \in Nat /\ v \in Nat
  BY <1>1 DEF Size
<1>3. o < p => u + size <= v
  <2>1. o + 1 \in Nat /\ (o + 1) * size = o * size + size
    BY <1>2
  <2>2. o < p => o + 1 <= p
    OBVIOUS
  <2>3. o < p => (o + 1) * size <= p * size
    BY <1>2, <2>1, <2>2, ProductOrder
  <2> QED
    BY <1>1, <2>1, <2>3
<1>4. p < o => v + size <= u
  <2>1. p + 1 \in Nat /\ (p + 1) * size = p * size + size
    BY <1>2
  <2>2. p < o => p + 1 <= o
    OBVIOUS
  <2>3. p < o => (p + 1) * size <= o * size
    BY <1>2, <2>1, <2>2, ProductOrder
  <2> QED
    BY <1>1, <2>1, <2>3
<1>5. o = p => u = v
  BY <1>1
<1>6. /\ u + i \in Nat
      /\ u + i < v + j <=> o < p \/ (o = p /\ i < j)
      /\ u + i = v + j <=> o = p /\ i = j
  BY <1>2, <1>3, <1>4, <1>5
<1> QED
  BY <1>1, <1>6 DEF UnitAt

\* Every number is a unit of an element.
LEMMA UnitOf ==
    ASSUME NEW size \in Size, NEW n \in Nat
    PROVE  /\ n \div size \in Nat /\ n % size \in 0 .. size - 1
           /\ n = UnitAt(n \div size, size, n % size)
<1>1. n = (n \div size) * size + (n % size)
  BY DEF Size
<1> QED
  BY <1>1 DEF Size, UnitAt

\* The element and the unit in it are found again by dividing.
LEMMA UnitIs ==
    ASSUME NEW size \in Size, NEW o \in Nat, NEW j \in 0 .. size - 1
    PROVE  UnitAt(o, size, j) \div size = o /\ UnitAt(o, size, j) % size = j
<1> DEFINE n == UnitAt(o, size, j)
<1>1. n \in Nat
  BY UnitOrder
<1> HIDE DEF n
<1>2. n \div size \in Nat /\ n % size \in 0 .. size - 1 /\ n = UnitAt(n \div size, size, n % size)
  BY <1>1, UnitOf
<1>3. UnitAt(n \div size, size, n % size) = UnitAt(o, size, j)
  BY <1>2 DEF n
<1>4. n \div size = o /\ n % size = j
  BY <1>2, <1>3, UnitOrder
<1> QED
  BY <1>4 DEF n

\* In an interval from 0 each number is its own place.
LEMMA BelowInterval ==
    ASSUME NEW c \in Nat
    PROVE  /\ Numbers(0 .. c - 1) /\ Cardinality(0 .. c - 1) = c
           /\ \A n \in 0 .. c - 1 : Below(0 .. c - 1, n) = n
<1>1. \A a \in Nat : IsFiniteSet(0 .. a - 1) /\ Cardinality(0 .. a - 1) = a
  <2> SUFFICES ASSUME NEW a \in Nat
               PROVE  IsFiniteSet(0 .. a - 1) /\ Cardinality(0 .. a - 1) = a
    OBVIOUS
  <2>1. a - 1 \in Int /\ 0 \in Int
    OBVIOUS
  <2>2. IsFiniteSet(0 .. a - 1) /\ Cardinality(0 .. a - 1) = IF 0 > a - 1 THEN 0 ELSE a - 1 - 0 + 1
    BY <2>1, FS_Interval
  <2> QED
    BY <2>2
<1>2. ASSUME NEW n \in 0 .. c - 1 PROVE Below(0 .. c - 1, n) = n
  <2>1. {m \in 0 .. c - 1 : m < n} = 0 .. n - 1
    OBVIOUS
  <2>2. n \in Nat
    OBVIOUS
  <2> QED
    BY <1>1, <2>1, <2>2 DEF Below
<1>3. 0 .. c - 1 \subseteq Nat
  OBVIOUS
<1> QED
  BY <1>1, <1>2, <1>3 DEF Numbers

\* How many units are below one of the units of a set of elements.
LEMMA UnitsBelow ==
    ASSUME NEW P, Numbers(P), NEW size \in Size
    PROVE  /\ Numbers(Units(P, size)) /\ Cardinality(Units(P, size)) = Cardinality(P) * size
           /\ Cardinality(P) \in Nat /\ Cardinality(P) * size \in Nat
           /\ \A o \in P : \A j \in 0 .. size - 1 :
                 /\ UnitAt(o, size, j) \in Units(P, size) /\ Below(P, o) \in Nat
                 /\ Below(Units(P, size), UnitAt(o, size, j)) = UnitAt(Below(P, o), size, j)
<1> DEFINE c == Cardinality(P)
           q == Ascending(P)
           U == Units(P, size)
           N == c * size
           S == 0 .. N - 1
           f == [n \in S |-> UnitAt(q[(n \div size) + 1], size, n % size)]
<1>1. /\ q \in Seq(P) /\ Len(q) = c /\ c \in Nat
      /\ \A i \in 1 .. Len(q) : q[i] \in P /\ Below(P, q[i]) = i - 1
      /\ \A n \in P : Below(P, n) + 1 \in 1 .. Len(q) /\ q[Below(P, n) + 1] = n
  BY AscendingIs
<1>2. size \in Nat \ {0} /\ N \in Nat
  <2>1. size \in Nat \ {0}
    BY DEF Size
  <2> QED
    BY <1>1, <2>1
<1>3. Numbers(S) /\ Cardinality(S) = N /\ \A n \in S : Below(S, n) = n
  BY <1>2, BelowInterval
<1> HIDE DEF c, q
<1>4. ASSUME NEW n \in S
      PROVE  /\ n \in Nat /\ (n \div size) + 1 \in 1 .. c /\ n \div size \in Nat
             /\ n % size \in 0 .. size - 1 /\ n = UnitAt(n \div size, size, n % size)
  <2>1. n \in Nat /\ n < N
    BY <1>2
  <2>2. n \div size \in Nat /\ n % size \in 0 .. size - 1 /\ n = UnitAt(n \div size, size, n % size)
    BY <2>1, UnitOf
  <2>3. n \div size < c
    <3> SUFFICES ASSUME c <= n \div size PROVE FALSE
      BY <1>1, <2>2
    <3>1. c * size <= (n \div size) * size
      BY <1>1, <1>2, <2>2, ProductOrder
    <3>2. PICK w, j : w = (n \div size) * size /\ j = n % size
      OBVIOUS
    <3>3. w \in Nat /\ N <= w /\ n = w + j /\ j \in 0 .. size - 1
      BY <1>2, <2>2, <3>1, <3>2 DEF UnitAt
    <3> QED
      BY <1>2, <2>1, <3>3
  <2> QED
    BY <1>1, <2>1, <2>2, <2>3
<1> HIDE DEF N
<1>5. ASSUME NEW n \in S
      PROVE  /\ q[(n \div size) + 1] \in P /\ q[(n \div size) + 1] \in Nat
             /\ Below(P, q[(n \div size) + 1]) = n \div size
  <2>1. (n \div size) + 1 \in 1 .. Len(q) /\ ((n \div size) + 1) - 1 = n \div size
    BY <1>1, <1>4
  <2> QED
    BY <1>1, <2>1 DEF Numbers
<1>6. f \in [S -> U]
  BY <1>4, <1>5 DEF Units
<1>7. ASSUME NEW m \in S, NEW n \in S, m < n PROVE f[m] < f[n]
  <2>1. (m \div size) < (n \div size) \/ (m \div size = n \div size /\ m % size < n % size)
    <3>1. UnitAt(m \div size, size, m % size) < UnitAt(n \div size, size, n % size)
      BY <1>4, <1>7
    <3> QED
      BY <1>4, <3>1, UnitOrder
  <2>2. q[(m \div size) + 1] < q[(n \div size) + 1]
        \/ (q[(m \div size) + 1] = q[(n \div size) + 1] /\ m % size < n % size)
    <3>1. CASE (m \div size) < (n \div size)
      BY <1>5, <3>1, BelowOnto
    <3>2. CASE m \div size = n \div size /\ m % size < n % size
      BY <3>2
    <3> QED
      BY <2>1, <3>1, <3>2
  <2> QED
    BY <1>4, <1>5, <2>2, UnitOrder
<1>8. ASSUME NEW o \in P, NEW j \in 0 .. size - 1
      PROVE  /\ Below(P, o) \in Nat /\ o \in Nat /\ UnitAt(Below(P, o), size, j) \in S
             /\ f[UnitAt(Below(P, o), size, j)] = UnitAt(o, size, j)
  <2>1. o \in Nat /\ Below(P, o) \in Nat /\ Below(P, o) + 1 <= c /\ q[Below(P, o) + 1] = o
    <3>1. o \in Nat /\ o \in Int
      BY DEF Numbers
    <3>2. Below(P, o) \in Nat
      BY <3>1, BelowIs
    <3> QED
      BY <1>1, <3>1, <3>2
  <2>2. UnitAt(Below(P, o), size, j) \in S
    <3>1. PICK v, w : v = Below(P, o) * size /\ w = (Below(P, o) + 1) * size
      OBVIOUS
    <3>2. v \in Nat /\ w = v + size
      BY <1>2, <2>1, <3>1
    <3>3. (Below(P, o) + 1) * size <= c * size
      BY <1>1, <1>2, <2>1, ProductOrder
    <3>4. w <= N
      BY <3>1, <3>3 DEF N
    <3>5. v + j \in S
      BY <1>2, <3>2, <3>4
    <3> QED
      BY <3>1, <3>5 DEF UnitAt
  <2>3. UnitAt(Below(P, o), size, j) \div size = Below(P, o) /\ UnitAt(Below(P, o), size, j) % size = j
    BY <2>1, UnitIs
  <2> QED
    BY <2>1, <2>2, <2>3
<1>9. \A u \in U : \E n \in S : f[n] = u
  <2> SUFFICES ASSUME NEW u \in U PROVE \E n \in S : f[n] = u
    OBVIOUS
  <2>1. PICK o \in P, j \in 0 .. size - 1 : u = UnitAt(o, size, j)
    BY DEF Units
  <2> HIDE DEF f, S
  <2> QED
    BY <1>8, <2>1
<1>10. U \subseteq Nat
  <2>1. \A o \in P, j \in 0 .. size - 1 : UnitAt(o, size, j) \in Nat
    BY UnitOrder DEF Numbers
  <2> QED
    BY <2>1 DEF Units
<1> HIDE DEF S, U, f
<1>11. Numbers(U) /\ Cardinality(U) = Cardinality(S) /\ \A n \in S : Below(U, f[n]) = Below(S, n)
  <2>1. \A m, n \in S : m < n => f[m] < f[n]
    BY <1>7
  <2>2. Numbers(S)
    BY <1>3
  <2>3. Increasing(f, S, U)
    BY <1>6, <1>9, <1>10, <2>1 DEF Increasing
  <2> QED
    BY <2>2, <2>3, SamePlaces
<1>12. ASSUME NEW o \in P, NEW j \in 0 .. size - 1
       PROVE  /\ UnitAt(o, size, j) \in U /\ Below(P, o) \in Nat
              /\ Below(U, UnitAt(o, size, j)) = UnitAt(Below(P, o), size, j)
  <2>1. UnitAt(o, size, j) \in U
    BY DEF U, Units
  <2> QED
    BY <1>3, <1>8, <1>11, <2>1
<1> QED
  BY <1>1, <1>2, <1>3, <1>11, <1>12 DEF U, N, c

(***************************************************************************)
(* The runs of a set of numbers.                                           *)
(***************************************************************************)
RunStarts(P) == {o \in P : o - 1 \notin P}
RunEnd(P, o) == Min({e \in P : e >= o /\ e + 1 \notin P})

\* A run of numbers counts one by one.
LEMMA BelowRun ==
    ASSUME NEW P, Numbers(P), NEW o \in Nat, NEW n \in Nat, \A k \in 0 .. n - 1 : o + k \in P
    PROVE  Below(P, o + n) = Below(P, o) + n
<1> DEFINE T == {j \in Nat : j <= n => Below(P, o + j) = Below(P, o) + j}
<1>1. 0 \in T
  <2>1. o \in Int /\ o + 0 = o
    OBVIOUS
  <2>2. Below(P, o) \in Nat
    BY <2>1, BelowIs
  <2> QED
    BY <2>1, <2>2
<1>2. ASSUME NEW j \in T PROVE j + 1 \in T
  <2> SUFFICES ASSUME j + 1 <= n PROVE Below(P, o + (j + 1)) = Below(P, o) + (j + 1)
    OBVIOUS
  <2>1. j \in 0 .. n - 1 /\ o + j \in Int /\ o + (j + 1) = (o + j) + 1
    OBVIOUS
  <2>2. o + j \in P /\ Below(P, o + j) = Below(P, o) + j
    BY <2>1
  <2>3. Below(P, (o + j) + 1) = Below(P, o + j) + 1
    BY <2>1, <2>2, BelowNext
  <2>4. Below(P, o) \in Nat
    <3>1. o \in Int
      OBVIOUS
    <3> QED
      BY <3>1, BelowIs
  <2> QED
    BY <2>1, <2>2, <2>3, <2>4
<1> HIDE DEF T
<1>3. T = Nat
  BY <1>1, <1>2, Induction DEF T
<1> QED
  BY <1>3 DEF T

\* A run ends at a number of the set, and the set has all before it in the run.
LEMMA RunEndIs ==
    ASSUME NEW P, Numbers(P), NEW o \in P
    PROVE  LET e == RunEnd(P, o)
           IN  e \in P /\ e \in Nat /\ e >= o /\ e + 1 \notin P /\ \A x \in o .. e : x \in P
<1> DEFINE E == {e \in P : e >= o /\ e + 1 \notin P}
           e == RunEnd(P, o)
<1>1. o \in Nat /\ P \subseteq Nat /\ Cardinality(P) \in Nat
  BY FS_CardinalityType DEF Numbers
<1>2. E # {}
  <2> SUFFICES ASSUME E = {} PROVE FALSE
    OBVIOUS
  <2>1. \A x \in P : x >= o => x + 1 \in P
    OBVIOUS
  <2> DEFINE T == {n \in Nat : o + n \in P}
  <2>2. 0 \in T
    BY <1>1
  <2>3. ASSUME NEW n \in T PROVE n + 1 \in T
    <3>1. o + n \in P /\ o + n >= o /\ o + (n + 1) = (o + n) + 1
      BY <1>1
    <3> QED
      BY <2>1, <3>1
  <2> HIDE DEF T
  <2>4. T = Nat
    BY <2>2, <2>3, Induction DEF T
  <2>5. PICK n \in Nat : n = Cardinality(P) + 1
    BY <1>1
  <2>6. \A k \in 0 .. n - 1 : o + k \in P
    BY <2>4 DEF T
  <2>7. Below(P, o + n) = Below(P, o) + n
    BY <1>1, <2>6, BelowRun
  <2>8. o \in Int /\ o + n \in Int
    BY <1>1
  <2>9. Below(P, o) \in Nat /\ Below(P, o + n) <= Cardinality(P) /\ Below(P, o + n) \in Nat
    BY <2>8, BelowIs
  <2> QED
    BY <1>1, <2>5, <2>7, <2>9
<1>3. e \in E /\ \A x \in E : e <= x
  <2>1. E \subseteq Nat
    BY <1>1
  <2>2. Min(E) \in E /\ \A x \in E : Min(E) <= x
    BY <1>2, <2>1, MinIs
  <2> QED
    BY <2>2 DEF RunEnd
<1>4. e \in P /\ e \in Nat /\ e >= o /\ e + 1 \notin P
  BY <1>1, <1>3
<1> HIDE DEF e
<1>5. ASSUME NEW x \in o .. e, x \notin P PROVE FALSE
  <2> DEFINE X == {y \in Nat : y \in o .. e /\ y \notin P}
  <2>1. X \subseteq Nat /\ x \in X
    BY <1>1, <1>5
  <2>2. PICK y \in X : \A z \in X : y <= z
    BY <2>1, Smallest
  <2>3. y \in Nat /\ y >= o /\ y <= e /\ y # o /\ y \notin P
    BY <1>1, <1>4, <2>2
  <2>4. y - 1 \in Nat /\ y - 1 \in o .. e /\ ~(y <= y - 1) /\ (y - 1) + 1 = y
    BY <1>1, <1>4, <2>3
  <2>5. y - 1 \in P
    BY <2>2, <2>4
  <2>6. y - 1 \in E
    BY <1>1, <2>3, <2>4, <2>5
  <2>7. e <= y - 1
    BY <1>3, <2>6
  <2> QED
    BY <1>4, <2>3, <2>7
<1> QED
  BY <1>4, <1>5 DEF e

\* Every number lies in a run, which has a start.
LEMMA InRun ==
    ASSUME NEW P, Numbers(P), NEW x \in P
    PROVE  \E o \in RunStarts(P) : o <= x /\ x <= RunEnd(P, o)
<1>1. x \in Nat /\ P \subseteq Nat
  BY DEF Numbers
<1> DEFINE Y == {y \in Nat : y <= x /\ \A z \in y .. x : z \in P}
<1>2. x \in Y
  BY <1>1
<1>3. PICK o \in Y : \A y \in Y : o <= y
  BY <1>2, Smallest
<1>4. o \in Nat /\ o <= x /\ o \in P /\ \A z \in o .. x : z \in P
  BY <1>1, <1>3
<1>5. o - 1 \notin P
  <2> SUFFICES ASSUME o - 1 \in P PROVE FALSE
    OBVIOUS
  <2>1. o - 1 \in Nat /\ o - 1 <= x /\ ~(o <= o - 1)
    BY <1>1, <1>4
  <2>2. \A z \in (o - 1) .. x : z = o - 1 \/ z \in o .. x
    BY <1>1, <1>4
  <2>3. o - 1 \in Y
    BY <1>4, <2>1, <2>2
  <2> QED
    BY <1>3, <2>1, <2>3
<1>6. o \in RunStarts(P)
  BY <1>4, <1>5 DEF RunStarts
<1>7. x <= RunEnd(P, o)
  <2>1. PICK e : e = RunEnd(P, o)
    OBVIOUS
  <2>2. e \in Nat /\ e >= o /\ e + 1 \notin P
    BY <1>4, <2>1, RunEndIs
  <2>3. e < x => e + 1 \in o .. x
    BY <1>1, <1>4, <2>2
  <2>4. ~(e < x)
    BY <1>4, <2>2, <2>3
  <2> QED
    BY <1>1, <2>1, <2>2, <2>4
<1> QED
  BY <1>4, <1>6, <1>7

\* A run ends before the next one starts.
LEMMA RunsApart ==
    ASSUME NEW P, Numbers(P), NEW o \in RunStarts(P), NEW p \in RunStarts(P), o < p
    PROVE  RunEnd(P, o) + 1 < p
<1>1. o \in P /\ p \in P /\ p - 1 \notin P /\ o \in Nat /\ p \in Nat
  BY DEF RunStarts, Numbers
<1>2. PICK e : e = RunEnd(P, o)
  OBVIOUS
<1>3. e \in Nat /\ e >= o /\ e + 1 \notin P /\ \A x \in o .. e : x \in P
  BY <1>1, <1>2, RunEndIs
<1>4. ~(p <= e)
  <2>1. p <= e => p - 1 \in o .. e
    BY <1>1, <1>3
  <2> QED
    BY <1>1, <1>3, <2>1
<1>5. p # e + 1
  BY <1>1, <1>3
<1> QED
  BY <1>1, <1>2, <1>3, <1>4, <1>5

(***************************************************************************)
(* The sequences of a selection: its runs, in order, without gaps in what  *)
(* they count.                                                             *)
(***************************************************************************)
Run == [off : Nat, len : Nat \ {0}]

\* How many numbers come before the i-th run.
Start(U, q, i) == IF i <= Len(q) THEN Below(U, q[i].off) ELSE Cardinality(U)

RunList(U, q) ==
    /\ Numbers(U) /\ q \in Seq(Run)
    /\ \A i \in 1 .. Len(q) : \A k \in 0 .. q[i].len - 1 : q[i].off + k \in U
    /\ \A x \in U : \E i \in 1 .. Len(q) : q[i].off <= x /\ x < q[i].off + q[i].len
    /\ Start(U, q, 1) = 0
    /\ \A i \in 1 .. Len(q) : Start(U, q, i + 1) = Start(U, q, i) + q[i].len

RunsOf(P) ==
    LET firsts == Ascending(RunStarts(P))
    IN  [i \in DOMAIN firsts |-> [off |-> firsts[i], len |-> RunEnd(P, firsts[i]) - firsts[i] + 1]]

\* The starts of the runs are listed once each, in order.
LEMMA StartsAre ==
    ASSUME NEW P, Numbers(P)
    PROVE  LET s == Ascending(RunStarts(P))
           IN  /\ Numbers(RunStarts(P)) /\ s \in Seq(Nat)
               /\ \A i \in 1 .. Len(s) : s[i] \in RunStarts(P)
               /\ \A i, j \in 1 .. Len(s) : i < j => s[i] < s[j]
               /\ \A o \in RunStarts(P) : \E i \in 1 .. Len(s) : s[i] = o
<1> DEFINE S == RunStarts(P)
           s == Ascending(S)
<1>1. Numbers(S)
  BY FS_Subset DEF Numbers, RunStarts
<1> HIDE DEF S
<1>2. /\ s \in Seq(S) /\ \A i \in 1 .. Len(s) : s[i] \in S /\ Below(S, s[i]) = i - 1
      /\ \A n \in S : Below(S, n) + 1 \in 1 .. Len(s) /\ s[Below(S, n) + 1] = n
  BY <1>1, AscendingIs
<1> HIDE DEF s
<1>3. s \in Seq(Nat)
  <2>1. \A i \in 1 .. Len(s) : s[i] \in Nat
    BY <1>1, <1>2 DEF Numbers
  <2> QED
    BY <1>2, <2>1, SequenceInto
<1>4. ASSUME NEW i \in 1 .. Len(s), NEW j \in 1 .. Len(s), i < j PROVE s[i] < s[j]
  <2>1. Below(S, s[i]) < Below(S, s[j]) /\ s[i] \in S /\ s[j] \in S
    BY <1>2, <1>4
  <2> QED
    BY <1>1, <2>1, BelowOnto
<1> QED
  BY <1>1, <1>2, <1>3, <1>4 DEF S, s

\* The numbers between the end of a run and the next one are not in the set.
LEMMA BetweenRuns ==
    ASSUME NEW P, Numbers(P), NEW s, s = Ascending(RunStarts(P)),
           NEW i \in 1 .. Len(s) + 1, NEW x \in P,
           i # 1 => RunEnd(P, s[i - 1]) + 1 <= x, i <= Len(s) => x < s[i]
    PROVE  FALSE
<1>1. /\ Numbers(RunStarts(P)) /\ s \in Seq(Nat) /\ \A a \in 1 .. Len(s) : s[a] \in RunStarts(P)
      /\ \A a, b \in 1 .. Len(s) : a < b => s[a] < s[b]
      /\ \A o \in RunStarts(P) : \E a \in 1 .. Len(s) : s[a] = o
  BY StartsAre
<1>2. PICK o \in RunStarts(P) : o <= x /\ x <= RunEnd(P, o)
  BY InRun
<1>3. PICK j \in 1 .. Len(s) : s[j] = o
  BY <1>1
<1>4. /\ x \in Nat /\ Len(s) \in Nat /\ o \in Nat
      /\ \A a \in 1 .. Len(s) : s[a] \in P /\ s[a] \in Nat
      /\ \A a \in 1 .. Len(s) : RunEnd(P, s[a]) \in Nat /\ s[a] <= RunEnd(P, s[a])
  <2>1. \A a \in 1 .. Len(s) : s[a] \in P
    BY <1>1 DEF RunStarts
  <2>2. \A a \in 1 .. Len(s) : RunEnd(P, s[a]) \in Nat /\ s[a] <= RunEnd(P, s[a])
    BY <2>1, RunEndIs DEF Numbers
  <2>3. x \in Nat /\ o \in Nat
    BY <1>1, <1>3 DEF Numbers
  <2>4. Len(s) \in Nat /\ \A a \in 1 .. Len(s) : s[a] \in Nat
    <3>1. s \in Seq(Nat)
      BY <1>1
    <3> QED
      BY <3>1
  <2> QED
    BY <2>1, <2>2, <2>3, <2>4
<1>5. CASE i <= j
  <2>1. i \in 1 .. Len(s) /\ s[i] \in Nat /\ s[j] \in Nat
    BY <1>4, <1>5
  <2>2. CASE i = j
    BY <1>2, <1>3, <1>4, <2>1, <2>2
  <2>3. CASE i < j
    <3>1. s[i] < s[j]
      BY <1>1, <2>1, <2>3
    <3> QED
      BY <1>2, <1>3, <1>4, <2>1, <3>1
  <2> QED
    BY <1>4, <1>5, <2>2, <2>3
<1>6. CASE i = j + 1
  BY <1>2, <1>3, <1>4, <1>6
<1>7. CASE j + 1 < i
  <2>1. i - 1 \in 1 .. Len(s) /\ j < i - 1
    BY <1>4, <1>7
  <2>2. s[j] < s[i - 1] /\ s[i - 1] \in RunStarts(P)
    BY <1>1, <2>1
  <2>3. RunEnd(P, o) + 1 < s[i - 1]
    BY <1>3, <2>2, RunsApart
  <2>4. s[i - 1] \in Nat /\ RunEnd(P, s[i - 1]) \in Nat /\ s[i - 1] <= RunEnd(P, s[i - 1])
        /\ RunEnd(P, o) \in Nat
    BY <1>3, <1>4, <2>1
  <2> QED
    BY <1>2, <1>4, <2>1, <2>3, <2>4
<1> QED
  BY <1>4, <1>5, <1>6, <1>7

\* The runs of a set are a list of runs of it.
LEMMA RunsAre ==
    ASSUME NEW P, Numbers(P)
    PROVE  RunList(P, RunsOf(P))
<1> DEFINE s == Ascending(RunStarts(P))
           q == RunsOf(P)
           end(i) == RunEnd(P, s[i])
<1>1. /\ s \in Seq(Nat) /\ \A i \in 1 .. Len(s) : s[i] \in RunStarts(P)
      /\ \A o \in RunStarts(P) : \E i \in 1 .. Len(s) : s[i] = o
  BY StartsAre
<1>2. q = [i \in DOMAIN s |-> [off |-> s[i], len |-> end(i) - s[i] + 1]]
  BY DEF RunsOf
<1>3. ASSUME NEW i \in 1 .. Len(s)
      PROVE  /\ s[i] \in P /\ s[i] \in Nat /\ end(i) \in Nat /\ s[i] <= end(i)
             /\ \A x \in s[i] .. end(i) : x \in P
  <2>1. s[i] \in P /\ s[i] \in Nat
    BY <1>1 DEF RunStarts, Numbers
  <2> QED
    BY <2>1, RunEndIs
<1> HIDE DEF s, q
<1>4. /\ Len(s) \in Nat /\ DOMAIN s = 1 .. Len(s)
  BY <1>1
<1> HIDE DEF end
<1>5. ASSUME NEW i \in 1 .. Len(s)
      PROVE  q[i] \in Run /\ q[i].off = s[i] /\ q[i].len = end(i) - s[i] + 1
  BY <1>2, <1>3, <1>4 DEF Run
<1>6. q \in Seq(Run) /\ Len(q) = Len(s)
  <2>1. q \in [1 .. Len(s) -> Run]
    BY <1>2, <1>4, <1>5
  <2> QED
    BY <1>4, <2>1
<1>7. \A i \in 1 .. Len(q) : \A k \in 0 .. q[i].len - 1 : q[i].off + k \in P
  <2> SUFFICES ASSUME NEW i \in 1 .. Len(s), NEW k \in 0 .. q[i].len - 1 PROVE q[i].off + k \in P
    BY <1>6
  <2>1. s[i] \in Nat /\ end(i) \in Nat /\ k \in 0 .. (end(i) - s[i] + 1) - 1
    BY <1>3, <1>5
  <2>2. s[i] + k \in s[i] .. end(i)
    BY <2>1
  <2> QED
    BY <1>3, <1>5, <2>2
<1>8. ASSUME NEW x \in P
      PROVE  \E i \in 1 .. Len(q) : q[i].off <= x /\ x < q[i].off + q[i].len
  <2>1. PICK o \in RunStarts(P) : o <= x /\ x <= RunEnd(P, o)
    BY InRun
  <2>2. PICK i \in 1 .. Len(s) : s[i] = o
    BY <1>1
  <2>3. x <= end(i)
    BY <2>1, <2>2 DEF end
  <2>4. s[i] \in Nat /\ end(i) \in Nat /\ q[i].off = s[i] /\ q[i].len = end(i) - s[i] + 1 /\ x \in Nat
    BY <1>3, <1>5 DEF Numbers
  <2>5. q[i].off <= x /\ x < q[i].off + q[i].len
    BY <2>1, <2>2, <2>3, <2>4
  <2> QED
    BY <1>6, <2>5
<1> DEFINE lo(i) == IF i = 1 THEN 0 ELSE end(i - 1) + 1
<1>9. ASSUME NEW i \in 1 .. Len(s) + 1 PROVE lo(i) \in Nat /\ Start(P, q, i) = Below(P, lo(i))
  <2>1. lo(i) \in Nat
    BY <1>3, <1>4
  <2> HIDE DEF lo
  <2>2. \A x \in P : ~(lo(i) <= x /\ (i <= Len(s) => x < s[i]))
    <3> SUFFICES ASSUME NEW x \in P, lo(i) <= x, i <= Len(s) => x < s[i] PROVE FALSE
      OBVIOUS
    <3>1. i # 1 => RunEnd(P, s[i - 1]) + 1 <= x
      BY DEF lo, end
    <3> QED
      BY <3>1, BetweenRuns DEF s
  <2>3. CASE i <= Len(s)
    <3>1. i \in 1 .. Len(s)
      BY <1>4, <2>3
    <3>2. lo(i) <= s[i]
      <4>1. CASE i = 1
        BY <1>3, <3>1, <4>1 DEF lo
      <4>2. CASE i # 1
        <5>1. i - 1 \in 1 .. Len(s)
          BY <1>4, <3>1, <4>2
        <5>2. s[i - 1] \in RunStarts(P) /\ s[i] \in RunStarts(P) /\ s[i - 1] < s[i]
          <6>1. \A a, b \in 1 .. Len(s) : a < b => s[a] < s[b]
            BY StartsAre DEF s
          <6> QED
            BY <1>1, <3>1, <5>1, <6>1
        <5>3. RunEnd(P, s[i - 1]) + 1 < s[i]
          BY <5>2, RunsApart
        <5> QED
          BY <1>3, <3>1, <4>2, <5>1, <5>3 DEF lo, end
      <4> QED
        BY <4>1, <4>2
    <3>3. \A x \in P : x < lo(i) <=> x < s[i]
      BY <1>3, <2>1, <2>2, <2>3, <3>1, <3>2 DEF Numbers
    <3>4. Below(P, lo(i)) = Below(P, s[i])
      BY <3>3 DEF Below
    <3> QED
      BY <1>5, <1>6, <2>1, <2>3, <3>1, <3>4 DEF Start
  <2>4. CASE ~(i <= Len(s))
    <3>1. \A x \in P : x < lo(i)
      BY <2>1, <2>2, <2>4 DEF Numbers
    <3>2. lo(i) \in Int
      BY <2>1
    <3>3. Below(P, lo(i)) = Cardinality(P)
      BY <3>1, <3>2, BelowAll
    <3> QED
      BY <1>6, <2>1, <2>4, <3>3 DEF Start
  <2> QED
    BY <2>3, <2>4
<1>10. Start(P, q, 1) = 0
  <2>1. 1 \in 1 .. Len(s) + 1 /\ lo(1) = 0
    BY <1>4
  <2>2. \A m \in P : ~(m < 0)
    BY DEF Numbers
  <2>3. Below(P, 0) = 0
    BY <2>2, BelowNone
  <2> QED
    BY <1>9, <2>1, <2>3
<1>11. ASSUME NEW i \in 1 .. Len(q) PROVE Start(P, q, i + 1) = Start(P, q, i) + q[i].len
  <2>1. i \in 1 .. Len(s) /\ i + 1 \in 1 .. Len(s) + 1 /\ i + 1 # 1 /\ (i + 1) - 1 = i
    BY <1>4, <1>6
  <2>2. Start(P, q, i + 1) = Below(P, lo(i + 1))
    BY <1>9, <2>1
  <2>3. lo(i + 1) = end(i) + 1
    BY <2>1
  <2>4. Start(P, q, i) = Below(P, s[i])
    BY <1>5, <1>6, <2>1 DEF Start
  <2>5. PICK n \in Nat : n = q[i].len
    <3>1. q[i] \in Run
      BY <1>5, <2>1
    <3> QED
      BY <3>1 DEF Run
  <2>6. s[i] \in Nat /\ s[i] + n = end(i) + 1 /\ \A k \in 0 .. n - 1 : s[i] + k \in P
    <3>1. s[i] \in Nat /\ end(i) \in Nat /\ n = end(i) - s[i] + 1 /\ q[i].off = s[i]
      BY <1>3, <1>5, <2>1, <2>5
    <3>2. \A k \in 0 .. n - 1 : q[i].off + k \in P
      BY <1>7, <2>5
    <3> QED
      BY <3>1, <3>2
  <2>7. Below(P, s[i] + n) = Below(P, s[i]) + n
    BY <2>6, BelowRun
  <2> QED
    BY <2>2, <2>3, <2>4, <2>5, <2>6, <2>7
<1> QED
  BY <1>6, <1>7, <1>8, <1>10, <1>11 DEF RunList, q

\* A unit below the units of c elements is one of these.
LEMMA UnitLess ==
    ASSUME NEW size \in Size, NEW c \in Nat, NEW n \in Nat, n < c * size
    PROVE  n \div size \in 0 .. c - 1
<1>1. n \div size \in Nat /\ n % size \in 0 .. size - 1 /\ n = UnitAt(n \div size, size, n % size)
  BY UnitOf
<1>2. size \in Nat /\ c * size \in Nat
  BY DEF Size
<1>3. ~(c <= n \div size)
  <2> SUFFICES ASSUME c <= n \div size PROVE FALSE
    OBVIOUS
  <2>1. c * size <= (n \div size) * size
    BY <1>1, <1>2, ProductOrder
  <2>2. PICK w, j, t : w = (n \div size) * size /\ j = n % size /\ t = c * size
    OBVIOUS
  <2>3. w \in Nat /\ t <= w /\ n = w + j /\ j \in 0 .. size - 1
    BY <1>1, <1>2, <2>1, <2>2 DEF UnitAt
  <2> QED
    BY <1>2, <2>2, <2>3
<1> QED
  BY <1>1, <1>3

\* Units of an element a places further on.
LEMMA UnitSum ==
    ASSUME NEW size \in Size, NEW o \in Nat, NEW a \in Nat, NEW j \in 0 .. size - 1
    PROVE  /\ UnitAt(o + a, size, j) = o * size + UnitAt(a, size, j)
           /\ o * size \in Nat /\ a * size \in Nat /\ (o + a) * size = o * size + a * size
           /\ UnitAt(o, size, 0) = o * size
           /\ UnitAt(a, size, j) < (a + 1) * size /\ a * size <= UnitAt(a, size, j)
<1>1. size \in Nat
  BY DEF Size
<1>2. (o + a) * size = o * size + a * size /\ (a + 1) * size = a * size + size
  BY <1>1
<1>3. o * size \in Nat /\ a * size \in Nat
  BY <1>1
<1>4. PICK u, v, w, t : u = o * size /\ v = a * size /\ w = (o + a) * size /\ t = (a + 1) * size
  OBVIOUS
<1> QED
  BY <1>1, <1>2, <1>3, <1>4 DEF UnitAt

Scaled(q, size) == [i \in DOMAIN q |-> [off |-> q[i].off * size, len |-> q[i].len * size]]

\* What a list of runs says of one of them.
LEMMA RunIs ==
    ASSUME NEW U, NEW q, RunList(U, q), NEW i \in 1 .. Len(q)
    PROVE  /\ q[i] \in Run /\ q[i].off \in Nat /\ q[i].len \in Nat \ {0} /\ q[i].off \in U
           /\ \A k \in 0 .. q[i].len - 1 : q[i].off + k \in U
           /\ Len(q) \in Nat /\ DOMAIN q = 1 .. Len(q)
<1>1. q \in Seq(Run) /\ \A k \in 0 .. q[i].len - 1 : q[i].off + k \in U
  BY DEF RunList
<1>2. q[i] \in Run
  BY <1>1
<1>3. q[i].off \in Nat /\ q[i].len \in Nat \ {0}
  BY <1>2 DEF Run
<1>4. 0 \in 0 .. q[i].len - 1 /\ q[i].off + 0 = q[i].off
  BY <1>3
<1>5. q[i].off + 0 \in U
  BY <1>1, <1>4
<1> QED
  BY <1>1, <1>2, <1>3, <1>4, <1>5

\* The runs of elements, times the size of one, are runs of units.
LEMMA UnitRuns ==
    ASSUME NEW P, NEW size \in Size, NEW q, RunList(P, q)
    PROVE  RunList(Units(P, size), Scaled(q, size))
<1> DEFINE U == Units(P, size)
           z == Scaled(q, size)
<1>1. /\ Numbers(P) /\ q \in Seq(Run) /\ Len(q) \in Nat /\ DOMAIN q = 1 .. Len(q)
      /\ \A x \in P : \E i \in 1 .. Len(q) : q[i].off <= x /\ x < q[i].off + q[i].len
      /\ Start(P, q, 1) = 0
      /\ \A i \in 1 .. Len(q) : Start(P, q, i + 1) = Start(P, q, i) + q[i].len
  BY DEF RunList
<1>2. size \in Nat \ {0}
  BY DEF Size
<1>3. /\ Numbers(U) /\ Cardinality(U) = Cardinality(P) * size /\ Cardinality(P) \in Nat
      /\ \A o \in P : \A j \in 0 .. size - 1 :
            /\ UnitAt(o, size, j) \in U /\ Below(P, o) \in Nat
            /\ Below(U, UnitAt(o, size, j)) = UnitAt(Below(P, o), size, j)
  BY <1>1, UnitsBelow
<1> HIDE DEF z
<1>4. ASSUME NEW i \in 1 .. Len(q)
      PROVE  /\ z[i].off = q[i].off * size /\ z[i].len = q[i].len * size /\ z[i] \in Run
  <2>1. q[i].off \in Nat /\ q[i].len \in Nat \ {0}
    BY RunIs
  <2>2. z[i] = [off |-> q[i].off * size, len |-> q[i].len * size]
    BY <1>1 DEF z, Scaled
  <2>3. q[i].off * size \in Nat /\ q[i].len * size \in Nat \ {0}
    BY <1>2, <2>1
  <2> QED
    BY <2>2, <2>3 DEF Run
<1>5. z \in Seq(Run) /\ Len(z) = Len(q)
  <2>1. z = [i \in 1 .. Len(q) |-> z[i]]
    BY <1>1 DEF z, Scaled
  <2> QED
    BY <1>1, <1>4, <2>1
<1>6. ASSUME NEW i \in 1 .. Len(q), NEW k \in 0 .. z[i].len - 1 PROVE z[i].off + k \in U
  <2>1. /\ q[i].off \in Nat /\ q[i].len \in Nat \ {0}
        /\ \A d \in 0 .. q[i].len - 1 : q[i].off + d \in P
    BY RunIs
  <2>2. k \in Nat /\ k < q[i].len * size
    BY <1>2, <1>4, <2>1
  <2>3. k \div size \in 0 .. q[i].len - 1
    BY <2>1, <2>2, UnitLess
  <2>4. k \div size \in Nat /\ k % size \in 0 .. size - 1 /\ k = UnitAt(k \div size, size, k % size)
    BY <2>2, UnitOf
  <2>5. UnitAt(q[i].off + (k \div size), size, k % size) \in U
    BY <1>3, <2>1, <2>3, <2>4
  <2>6. UnitAt(q[i].off + (k \div size), size, k % size)
           = q[i].off * size + UnitAt(k \div size, size, k % size)
    BY <2>1, <2>4, UnitSum
  <2> QED
    BY <1>4, <2>4, <2>5, <2>6
<1>7. ASSUME NEW x \in U
      PROVE  \E i \in 1 .. Len(z) : z[i].off <= x /\ x < z[i].off + z[i].len
  <2>1. PICK o \in P, j \in 0 .. size - 1 : x = UnitAt(o, size, j)
    BY DEF Units
  <2>2. PICK i \in 1 .. Len(q) : q[i].off <= o /\ o < q[i].off + q[i].len
    BY <1>1
  <2>3. o \in Nat /\ q[i].off \in Nat /\ q[i].len \in Nat
    BY <1>1, RunIs DEF Numbers
  <2>4. /\ q[i].off * size \in Nat /\ q[i].len * size \in Nat
        /\ (q[i].off + q[i].len) * size = q[i].off * size + q[i].len * size
        /\ x < (o + 1) * size /\ o * size <= x /\ o * size \in Nat /\ x \in Nat
        /\ (o + 1) * size \in Nat
    <3>1. 0 \in 0 .. size - 1 /\ o + 1 \in Nat
      BY <1>2, <2>3
    <3>2. /\ q[i].off * size \in Nat /\ q[i].len * size \in Nat
          /\ (q[i].off + q[i].len) * size = q[i].off * size + q[i].len * size
      BY <2>3, <3>1, UnitSum
    <3>3. /\ UnitAt(o, size, j) < (o + 1) * size /\ o * size <= UnitAt(o, size, j)
          /\ o * size \in Nat
      BY <2>3, UnitSum
    <3>4. x \in Nat
      BY <2>1, <2>3, UnitOrder
    <3>5. (o + 1) * size \in Nat
      BY <1>2, <3>1
    <3> QED
      BY <2>1, <3>2, <3>3, <3>4, <3>5
  <2>5. q[i].off * size <= o * size /\ (o + 1) * size <= (q[i].off + q[i].len) * size
    <3>1. o + 1 \in Nat /\ q[i].off + q[i].len \in Nat /\ o + 1 <= q[i].off + q[i].len
      BY <2>2, <2>3
    <3> QED
      BY <1>2, <2>2, <2>3, <3>1, ProductOrder
  <2>6. PICK a, b, c, d, e : /\ a = q[i].off * size /\ b = q[i].len * size /\ c = o * size
                             /\ d = (o + 1) * size /\ e = (q[i].off + q[i].len) * size
    OBVIOUS
  <2>7. a <= x /\ x < a + b
    BY <2>4, <2>5, <2>6
  <2> QED
    BY <1>4, <1>5, <2>6, <2>7
<1>8. ASSUME NEW i \in 1 .. Len(q) + 1
      PROVE  Start(U, z, i) = Start(P, q, i) * size /\ Start(P, q, i) \in Nat
  <2>1. CASE i <= Len(q)
    <3>1. i \in 1 .. Len(q)
      BY <1>1, <2>1
    <3>2. q[i].off \in P /\ q[i].off \in Nat /\ 0 \in 0 .. size - 1
      BY <1>2, <3>1, RunIs
    <3>3. /\ Below(P, q[i].off) \in Nat
          /\ Below(U, UnitAt(q[i].off, size, 0)) = UnitAt(Below(P, q[i].off), size, 0)
      BY <1>3, <3>2
    <3>4. /\ UnitAt(q[i].off, size, 0) = z[i].off
          /\ UnitAt(Below(P, q[i].off), size, 0) = Below(P, q[i].off) * size
      BY <1>4, <3>1, <3>2, <3>3, UnitSum
    <3> QED
      BY <1>5, <2>1, <3>3, <3>4 DEF Start
  <2>2. CASE ~(i <= Len(q))
    BY <1>3, <1>5, <2>2 DEF Start
  <2> QED
    BY <2>1, <2>2
<1>9. Start(U, z, 1) = 0
  <2>1. 1 \in 1 .. Len(q) + 1 /\ 0 * size = 0
    BY <1>1, <1>2
  <2> QED
    BY <1>1, <1>8, <2>1
<1>10. ASSUME NEW i \in 1 .. Len(q) PROVE Start(U, z, i + 1) = Start(U, z, i) + z[i].len
  <2>1. i \in 1 .. Len(q) + 1 /\ i + 1 \in 1 .. Len(q) + 1
    BY <1>1
  <2>2. /\ Start(U, z, i) = Start(P, q, i) * size /\ Start(P, q, i) \in Nat
        /\ Start(U, z, i + 1) = (Start(P, q, i) + q[i].len) * size
        /\ q[i].len \in Nat
    BY <1>1, <1>8, <2>1, RunIs
  <2>3. 0 \in 0 .. size - 1
    BY <1>2
  <2>4. (Start(P, q, i) + q[i].len) * size = Start(P, q, i) * size + q[i].len * size
    BY <2>2, <2>3, UnitSum
  <2> QED
    BY <1>4, <2>2, <2>4
<1> QED
  BY <1>3, <1>5, <1>6, <1>7, <1>9, <1>10 DEF RunList, z

(***************************************************************************)
(* The places of a selection, and its sequences.                           *)
(***************************************************************************)
Places(space) == {Linear(space.dims, c) : c \in space.sel}

\* A selection in an extent, which may be empty.
InExtent(k, space) == space.dims \in Coordinates(k) /\ space.sel \subseteq Extent(space.dims)

\* The places of selected elements are as many as these.
LEMMA PlacesAre ==
    ASSUME NEW k \in Nat, NEW space, InExtent(k, space)
    PROVE  /\ Numbers(Places(space)) /\ IsFiniteSet(space.sel)
           /\ Cardinality(Places(space)) = Cardinality(space.sel)
           /\ Cardinality(space.sel) \in Nat
           /\ \A c \in space.sel : /\ Linear(space.dims, c) \in Places(space)
                                   /\ Linear(space.dims, c) \in Nat
<1>1. space.dims \in Coordinates(k) /\ space.sel \subseteq Extent(space.dims)
  BY DEF InExtent
<1>2. IsFiniteSet(space.sel)
  BY <1>1, ExtentFinite, FS_Subset
<1> DEFINE f == [c \in space.sel |-> Linear(space.dims, c)]
           P == Places(space)
<1>3. \A c \in space.sel : Linear(space.dims, c) \in Nat /\ Linear(space.dims, c) \in P
  <2>1. \A c \in space.sel : c \in Coordinates(k)
    BY <1>1, ExtentIs
  <2> QED
    BY <1>1, <2>1, LinearIn DEF Places
<1>4. f \in [space.sel -> P]
  BY DEF Places
<1>5. \A x, y \in space.sel : f[x] = f[y] => x = y
  BY <1>1, LinearBefore
<1>6. \A p \in P : \E c \in space.sel : f[c] = p
  BY DEF Places
<1> HIDE DEF f
<1>7. IsFiniteSet(P) /\ Cardinality(P) = Cardinality(space.sel)
  BY <1>2, <1>4, <1>5, <1>6, ImageSize
<1>8. P \subseteq Nat
  BY <1>3 DEF Places
<1> QED
  BY <1>2, <1>3, <1>7, <1>8, FS_CardinalityType DEF Numbers

\* The sequences HDF5 gives of a selection are the runs of its units.
LEMMA SequencesAre ==
    ASSUME NEW k \in Nat, NEW space, InExtent(k, space), NEW size \in Size
    PROVE  RunList(Units(Places(space), size), Sequences(space, size))
<1> DEFINE P == Places(space)
           s == Ascending(RunStarts(P))
           q == RunsOf(P)
<1>1. Numbers(P)
  BY PlacesAre
<1>2. RunList(P, q)
  BY <1>1, RunsAre
<1>3. /\ Sequences(space, size)
         = [i \in DOMAIN s |-> [off |-> s[i] * size,
                                len |-> (RunEnd(P, s[i]) - s[i] + 1) * size]]
  BY DEF Sequences, RunStarts, RunEnd, Places
<1>4. q = [i \in DOMAIN s |-> [off |-> s[i], len |-> RunEnd(P, s[i]) - s[i] + 1]]
  BY DEF RunsOf
<1> HIDE DEF q, s, P
<1>5. Sequences(space, size) = Scaled(q, size)
  BY <1>3, <1>4 DEF Scaled
<1> QED
  BY <1>2, <1>5, UnitRuns DEF P

(***************************************************************************)
(* What the lists of transfers move.                                       *)
(***************************************************************************)
LEMMA MoveIs ==
    ASSUME NEW ops, NEW m
    PROVE  m \in Moves(ops) <=> \E i \in DOMAIN ops : \E k \in 0 .. ops[i].len - 1 :
                                    m = <<ops[i].from + k, ops[i].to + k>>
  BY DEF Moves

\* The count at a number in a run.
LEMMA RunPlaces ==
    ASSUME NEW U, NEW q, RunList(U, q), NEW i \in 1 .. Len(q), NEW k \in 0 .. q[i].len - 1
    PROVE  /\ q[i].off + k \in U /\ q[i].off + k \in Nat
           /\ Below(U, q[i].off + k) = Start(U, q, i) + k /\ Start(U, q, i) \in Nat
<1>1. /\ q[i].off \in Nat /\ q[i].len \in Nat \ {0} /\ Len(q) \in Nat
      /\ \A d \in 0 .. q[i].len - 1 : q[i].off + d \in U
  BY RunIs
<1>2. Numbers(U)
  BY DEF RunList
<1>3. k \in Nat /\ \A d \in 0 .. k - 1 : q[i].off + d \in U
  BY <1>1
<1>4. Below(U, q[i].off + k) = Below(U, q[i].off) + k
  BY <1>1, <1>2, <1>3, BelowRun
<1>5. q[i].off \in Int
  BY <1>1
<1>6. Below(U, q[i].off) \in Nat
  BY <1>2, <1>5, BelowIs
<1> QED
  BY <1>1, <1>3, <1>4, <1>6 DEF Start

\* Every number of the set is in some run.
LEMMA InSomeRun ==
    ASSUME NEW U, NEW q, RunList(U, q), NEW x \in U
    PROVE  \E i \in 1 .. Len(q) : \E k \in 0 .. q[i].len - 1 : x = q[i].off + k
<1>1. PICK i \in 1 .. Len(q) : q[i].off <= x /\ x < q[i].off + q[i].len
  BY DEF RunList
<1>2. x \in Nat /\ q[i].off \in Nat /\ q[i].len \in Nat
  BY RunIs DEF RunList, Numbers
<1>3. x - q[i].off \in 0 .. q[i].len - 1 /\ x = q[i].off + (x - q[i].off)
  BY <1>1, <1>2
<1> QED
  BY <1>3

\* The buffer and the object have the same places.
LEMMA MatchMoves ==
    ASSUME NEW k \in Nat, NEW space, InExtent(k, space), NEW size \in Size,
           NEW U, U = Units(Places(space), size)
    PROVE  Moves(build_io_op_match(space, size)) = {<<x, x>> : x \in U}
<1> DEFINE q == Sequences(space, size)
           ops == build_io_op_match(space, size)
<1>1. RunList(U, q)
  BY SequencesAre
<1>2. ops = [i \in DOMAIN q |-> Transfer(q[i].off, q[i].off, q[i].len)]
  BY DEF build_io_op_match
<1> HIDE DEF q, ops
<1>3. /\ DOMAIN ops = 1 .. Len(q)
      /\ \A i \in 1 .. Len(q) :
            ops[i].from = q[i].off /\ ops[i].to = q[i].off /\ ops[i].len = q[i].len
  <2>1. q \in Seq(Run)
    BY <1>1 DEF RunList
  <2>2. DOMAIN q = 1 .. Len(q)
    BY <2>1
  <2> QED
    BY <1>2, <2>2 DEF Transfer
<1>4. ASSUME NEW m \in Moves(ops) PROVE m \in {<<x, x>> : x \in U}
  <2>1. PICK i \in 1 .. Len(q), d \in Int : d \in 0 .. q[i].len - 1 /\ m = <<q[i].off + d, q[i].off + d>>
    BY <1>3, MoveIs
  <2>2. q[i].off + d \in U
    BY <1>1, <2>1, RunPlaces
  <2> QED
    BY <2>1, <2>2
<1>5. ASSUME NEW x \in U PROVE <<x, x>> \in Moves(ops)
  <2>1. PICK i \in 1 .. Len(q), d \in Int : d \in 0 .. q[i].len - 1 /\ x = q[i].off + d
    BY <1>1, InSomeRun
  <2> QED
    BY <1>3, <2>1, MoveIs
<1> QED
  BY <1>4, <1>5 DEF ops

\* The buffer has the elements one after the other.
LEMMA ContigMoves ==
    ASSUME NEW k \in Nat, NEW space, InExtent(k, space), NEW size \in Size,
           NEW U, U = Units(Places(space), size)
    PROVE  Moves(build_io_op_contig(space, size)) = {<<Below(U, x), x>> : x \in U}
<1> DEFINE q == Sequences(space, size)
           ops == build_io_op_contig(space, size)
           eq(p) == p = [i \in 1 .. Len(q) |-> IF i = 1 THEN 0 ELSE p[i - 1] + q[i - 1].len]
           mem_off == CHOOSE p : eq(p)
           g == [i \in 1 .. Len(q) |-> Start(U, q, i)]
<1>1. RunList(U, q)
  BY SequencesAre
<1>2. ops = [i \in DOMAIN q |-> Transfer(mem_off[i], q[i].off, q[i].len)]
  BY DEF build_io_op_contig
<1> HIDE DEF q, ops
<1>3. Len(q) \in Nat /\ DOMAIN q = 1 .. Len(q) /\ Start(U, q, 1) = 0
      /\ \A i \in 1 .. Len(q) : Start(U, q, i + 1) = Start(U, q, i) + q[i].len
  <2>1. q \in Seq(Run)
    BY <1>1 DEF RunList
  <2> QED
    BY <1>1, <2>1 DEF RunList
<1>4. \A i \in 1 .. Len(q) : i # 1 => i - 1 \in 1 .. Len(q) /\ (i - 1) + 1 = i
  BY <1>3
<1>5. \A i \in 1 .. Len(q) : i # 1 => g[i] = g[i - 1] + q[i - 1].len
  BY <1>3, <1>4
<1>6. eq(g)
  <2>1. \A i \in 1 .. Len(q) : g[i] = IF i = 1 THEN 0 ELSE g[i - 1] + q[i - 1].len
    BY <1>3, <1>5
  <2>2. g = [i \in 1 .. Len(q) |-> g[i]]
    OBVIOUS
  <2> HIDE DEF g
  <2> QED
    BY <2>1, <2>2
<1>7. eq(mem_off)
  BY <1>6
<1> HIDE DEF mem_off, g
<1>8. \A i \in 1 .. Len(q) : mem_off[i] = Start(U, q, i)
  <2> DEFINE T == {n \in Nat : n + 1 \in 1 .. Len(q) => mem_off[n + 1] = Start(U, q, n + 1)}
  <2>1. 0 \in T
    BY <1>3, <1>7
  <2>2. ASSUME NEW n \in T PROVE n + 1 \in T
    <3> SUFFICES ASSUME (n + 1) + 1 \in 1 .. Len(q)
                 PROVE  mem_off[(n + 1) + 1] = Start(U, q, (n + 1) + 1)
      OBVIOUS
    <3>1. n + 1 \in 1 .. Len(q) /\ ((n + 1) + 1) - 1 = n + 1 /\ (n + 1) + 1 # 1
      BY <1>3
    <3>2. mem_off[n + 1] = Start(U, q, n + 1)
      BY <3>1
    <3>3. mem_off[(n + 1) + 1] = mem_off[n + 1] + q[n + 1].len
      BY <1>7, <3>1
    <3> QED
      BY <1>3, <3>1, <3>2, <3>3
  <2> HIDE DEF T
  <2>3. T = Nat
    BY <2>1, <2>2, Induction DEF T
  <2>4. ASSUME NEW i \in 1 .. Len(q) PROVE mem_off[i] = Start(U, q, i)
    <3>1. i - 1 \in Nat /\ (i - 1) + 1 = i
      BY <1>3
    <3> QED
      BY <2>3, <3>1 DEF T
  <2> QED
    BY <2>4
<1>9. /\ DOMAIN ops = 1 .. Len(q)
      /\ \A i \in 1 .. Len(q) :
            ops[i].from = Start(U, q, i) /\ ops[i].to = q[i].off /\ ops[i].len = q[i].len
  BY <1>2, <1>3, <1>8 DEF Transfer
<1>10. ASSUME NEW m \in Moves(ops) PROVE m \in {<<Below(U, x), x>> : x \in U}
  <2>1. PICK i \in 1 .. Len(q), d \in Int : d \in 0 .. q[i].len - 1 /\ m = <<Start(U, q, i) + d, q[i].off + d>>
    BY <1>9, MoveIs
  <2>2. q[i].off + d \in U /\ Below(U, q[i].off + d) = Start(U, q, i) + d
    BY <1>1, <2>1, RunPlaces
  <2> QED
    BY <2>1, <2>2
<1>11. ASSUME NEW x \in U PROVE <<Below(U, x), x>> \in Moves(ops)
  <2>1. PICK i \in 1 .. Len(q), d \in Int : d \in 0 .. q[i].len - 1 /\ x = q[i].off + d
    BY <1>1, InSomeRun
  <2>2. Below(U, x) = Start(U, q, i) + d
    BY <1>1, <2>1, RunPlaces
  <2>3. <<Below(U, x), x>> = <<ops[i].from + d, ops[i].to + d>>
    BY <1>9, <2>1, <2>2
  <2> QED
    BY <1>9, <2>1, <2>3, MoveIs
<1> QED
  BY <1>10, <1>11 DEF ops

(***************************************************************************)
(* build_io_op_merge: two lists of sequences, taken in step.               *)
(***************************************************************************)
Cursors == [batch : Seq(Run), i : Nat, ei : Nat, rest : Seq(Run)]

\* A cursor has come past t of the numbers of a set: n runs and ei of the next one.
PastRuns(U, q, c, t, n) ==
    /\ Len(q) - n = (Len(c.batch) - c.i) + Len(c.rest)
    /\ \A j \in 2 .. Len(c.batch) - c.i : c.batch[c.i + j] = q[n + j]
    /\ \A j \in 1 .. Len(c.rest) : c.rest[j] = q[n + (Len(c.batch) - c.i) + j]
    /\ t = Start(U, q, n + 1) + c.ei
    /\ c.i = Len(c.batch) => c.ei = 0
    /\ c.i < Len(c.batch) => /\ c.batch[c.i + 1].off = q[n + 1].off
                             /\ c.batch[c.i + 1].len = q[n + 1].len - c.ei

AtPlace(U, q, c, t) ==
    c \in Cursors /\ c.i <= Len(c.batch) /\ \E n \in 0 .. Len(q) : PastRuns(U, q, c, t, n)

\* What is counted before a run is no more than there is.
LEMMA StartIs ==
    ASSUME NEW U, NEW q, RunList(U, q), NEW i \in 1 .. Len(q) + 1
    PROVE  /\ Start(U, q, i) \in Nat /\ Cardinality(U) \in Nat /\ Len(q) \in Nat
           /\ Start(U, q, i) <= Cardinality(U)
           /\ i = Len(q) + 1 => Start(U, q, i) = Cardinality(U)
<1>1. q \in Seq(Run) /\ Numbers(U)
  BY DEF RunList
<1>2. Len(q) \in Nat /\ Cardinality(U) \in Nat
  BY <1>1, FS_CardinalityType DEF Numbers
<1>3. CASE i <= Len(q)
  <2>1. i \in 1 .. Len(q)
    BY <1>2, <1>3
  <2>2. q[i].off \in Int
    BY <2>1, RunIs
  <2>3. Below(U, q[i].off) \in Nat /\ Below(U, q[i].off) <= Cardinality(U)
    BY <1>1, <2>2, BelowIs
  <2> QED
    BY <1>2, <2>1, <2>3 DEF Start
<1>4. CASE ~(i <= Len(q))
  BY <1>2, <1>4 DEF Start
<1> QED
  BY <1>3, <1>4

\* A new cursor has come past nothing.
LEMMA CursorIs ==
    ASSUME NEW U, NEW q, RunList(U, q)
    PROVE  AtPlace(U, q, Cursor(<< >>, 0, 0, q), 0)
<1> DEFINE c == Cursor(<< >>, 0, 0, q)
<1>1. q \in Seq(Run) /\ Start(U, q, 1) = 0
  BY DEF RunList
<1>2. c \in Cursors /\ c.batch = << >> /\ c.i = 0 /\ c.ei = 0 /\ c.rest = q
  BY <1>1 DEF Cursors, Cursor
<1>3. Len(q) \in Nat /\ Len(c.batch) = 0 /\ 0 \in 0 .. Len(q)
  BY <1>1, <1>2
<1> HIDE DEF c
<1>4. PastRuns(U, q, c, 0, 0)
  BY <1>1, <1>2, <1>3 DEF PastRuns
<1> QED
  BY <1>2, <1>3, <1>4 DEF AtPlace, c

\* Taking the next batch of sequences leaves a cursor where it is, with one to go on with.
LEMMA RefillAt ==
    ASSUME NEW U, NEW q, RunList(U, q), NEW c, NEW t, AtPlace(U, q, c, t)
    PROVE  /\ AtPlace(U, q, Refill(c), t)
           /\ t # Cardinality(U) => Refill(c).i < Len(Refill(c).batch)
<1>1. PICK n \in 0 .. Len(q) : PastRuns(U, q, c, t, n)
  BY DEF AtPlace
<1>2. /\ c \in Cursors /\ c.batch \in Seq(Run) /\ c.i \in Nat /\ c.ei \in Nat /\ c.rest \in Seq(Run)
      /\ Len(c.batch) \in Nat /\ Len(c.rest) \in Nat /\ c.i <= Len(c.batch) /\ q \in Seq(Run)
      /\ Len(q) \in Nat
  BY DEF AtPlace, Cursors, RunList
<1>3. CASE c.i # Len(c.batch)
  <2>1. Refill(c) = c
    BY <1>3 DEF Refill
  <2> QED
    BY <1>2, <1>3, <2>1
<1>4. CASE c.i = Len(c.batch)
  <2> DEFINE m == IF Len(c.rest) < SeqListLen THEN Len(c.rest) ELSE SeqListLen
             e == Cursor(SubSeq(c.rest, 1, m), 0, c.ei, SubSeq(c.rest, m + 1, Len(c.rest)))
  <2>1. Refill(c) = e
    BY <1>4 DEF Refill
  <2>2. m \in 0 .. Len(c.rest) /\ (Len(c.rest) # 0 => m # 0)
    BY <1>2, SeqListAssumption
  <2> HIDE DEF m
  <2>3. /\ e.batch = SubSeq(c.rest, 1, m) /\ e.i = 0 /\ e.ei = c.ei
        /\ e.rest = SubSeq(c.rest, m + 1, Len(c.rest)) /\ e = Cursor(e.batch, e.i, e.ei, e.rest)
    BY DEF Cursor
  <2> HIDE DEF e
  <2>4. /\ e.batch \in Seq(Run) /\ Len(e.batch) = m /\ \A j \in 1 .. m : e.batch[j] = c.rest[j]
        /\ e.rest \in Seq(Run) /\ Len(e.rest) = Len(c.rest) - m
        /\ \A j \in 1 .. Len(c.rest) - m : e.rest[j] = c.rest[m + j]
    <3>1. \A j \in 1 .. Len(c.rest) : c.rest[j] \in Run
      BY <1>2
    <3>2. /\ Len(SubSeq(c.rest, 1, m)) = m /\ SubSeq(c.rest, 1, m) \in Seq(Run)
          /\ \A j \in 1 .. m : SubSeq(c.rest, 1, m)[j] = c.rest[j]
      BY <1>2, <2>2, <3>1
    <3>3. /\ Len(SubSeq(c.rest, m + 1, Len(c.rest))) = Len(c.rest) - m
          /\ SubSeq(c.rest, m + 1, Len(c.rest)) \in Seq(Run)
          /\ \A j \in 1 .. Len(c.rest) - m : SubSeq(c.rest, m + 1, Len(c.rest))[j] = c.rest[m + j]
      BY <1>2, <2>2, <3>1
    <3> QED
      BY <2>3, <3>2, <3>3
  <2>5. e \in Cursors
    <3>1. e.i \in Nat /\ e.ei \in Nat
      BY <1>2, <2>3
    <3> QED
      BY <2>3, <2>4, <3>1 DEF Cursors, Cursor
  <2>6. /\ Len(q) - n = Len(c.rest) /\ \A j \in 1 .. Len(c.rest) : c.rest[j] = q[n + j]
        /\ t = Start(U, q, n + 1) + c.ei /\ c.ei = 0
    <3>1. Len(c.batch) - c.i = 0 /\ n + 0 = n
      BY <1>2, <1>4
    <3> QED
      BY <1>1, <1>2, <1>4, <3>1 DEF PastRuns
  <2>7. PastRuns(U, q, e, t, n)
    <3>1. Len(q) - n = (Len(e.batch) - e.i) + Len(e.rest)
      <4>1. m \in Int /\ Len(c.rest) \in Int /\ Len(e.batch) - e.i = m
        BY <1>2, <2>2, <2>3, <2>4
      <4>2. m + (Len(c.rest) - m) = Len(c.rest)
        BY <4>1
      <4> QED
        BY <2>4, <2>6, <4>1, <4>2
    <3>2. \A j \in 2 .. Len(e.batch) - e.i : e.batch[e.i + j] = q[n + j]
      <4> SUFFICES ASSUME NEW j \in 2 .. Len(e.batch) - e.i PROVE e.batch[e.i + j] = q[n + j]
        OBVIOUS
      <4>1. j \in 1 .. m /\ j \in 1 .. Len(c.rest) /\ e.i + j = j
        BY <1>2, <2>2, <2>3, <2>4
      <4> QED
        BY <2>4, <2>6, <4>1
    <3>3. \A j \in 1 .. Len(e.rest) : e.rest[j] = q[n + (Len(e.batch) - e.i) + j]
      <4> SUFFICES ASSUME NEW j \in 1 .. Len(e.rest)
                   PROVE  e.rest[j] = q[n + (Len(e.batch) - e.i) + j]
        OBVIOUS
      <4>1. e.rest[j] = c.rest[m + j] /\ m + j \in 1 .. Len(c.rest)
        BY <1>2, <2>2, <2>4
      <4>2. c.rest[m + j] = q[n + (m + j)]
        BY <2>6, <4>1
      <4>3. n + (m + j) = n + (Len(e.batch) - e.i) + j
        BY <2>2, <2>3, <2>4
      <4> QED
        BY <4>1, <4>2, <4>3
    <3>4. t = Start(U, q, n + 1) + e.ei /\ e.ei = 0
      BY <2>3, <2>6
    <3>5. ASSUME e.i < Len(e.batch)
          PROVE  e.batch[e.i + 1].off = q[n + 1].off /\ e.batch[e.i + 1].len = q[n + 1].len - e.ei
      <4>1. 1 \in 1 .. m /\ 1 \in 1 .. Len(c.rest) /\ e.i + 1 = 1
        BY <1>2, <2>2, <2>3, <2>4, <3>5
      <4>2. e.batch[1] = q[n + 1] /\ n + 1 \in 1 .. Len(q)
        BY <1>2, <2>4, <2>6, <4>1
      <4>3. q[n + 1].len \in Nat
        BY <4>2, RunIs
      <4> QED
        BY <3>4, <4>1, <4>2, <4>3
    <3> QED
      BY <3>1, <3>2, <3>3, <3>4, <3>5 DEF PastRuns
  <2>8. AtPlace(U, q, e, t) /\ e.i <= Len(e.batch)
    BY <2>2, <2>3, <2>4, <2>5, <2>7 DEF AtPlace
  <2>9. t # Cardinality(U) => e.i < Len(e.batch)
    <3>1. n # Len(q) => e.i < Len(e.batch)
      BY <1>2, <2>2, <2>3, <2>4, <2>6
    <3>2. n = Len(q) => t = Cardinality(U)
      <4>1. n + 1 \in 1 .. Len(q) + 1
        BY <1>2
      <4>2. /\ Start(U, q, n + 1) \in Nat
            /\ n + 1 = Len(q) + 1 => Start(U, q, n + 1) = Cardinality(U)
        BY <4>1, StartIs
      <4> QED
        BY <2>6, <4>2
    <3> QED
      BY <3>1, <3>2
  <2> QED
    BY <2>1, <2>8, <2>9
<1> QED
  BY <1>3, <1>4

\* What a cursor is at.
LEMMA OffAt ==
    ASSUME NEW U, NEW q, RunList(U, q), NEW c, NEW t, AtPlace(U, q, c, t), c.i < Len(c.batch)
    PROVE  /\ Off(c) \in Nat /\ Left(c) \in Nat \ {0} /\ t \in Nat
           /\ t + Left(c) <= Cardinality(U) /\ Cardinality(U) \in Nat
           /\ \A k \in 0 .. Left(c) - 1 :
                 Off(c) + k \in U /\ Below(U, Off(c) + k) = t + k
<1>1. PICK n \in 0 .. Len(q) : PastRuns(U, q, c, t, n)
  BY DEF AtPlace
<1>2. /\ c.batch \in Seq(Run) /\ c.i \in Nat /\ c.ei \in Nat /\ c.rest \in Seq(Run)
      /\ Len(c.batch) \in Nat /\ Len(c.rest) \in Nat /\ Len(q) \in Nat
  BY DEF AtPlace, Cursors, RunList
<1>3. /\ Len(q) - n = (Len(c.batch) - c.i) + Len(c.rest)
      /\ t = Start(U, q, n + 1) + c.ei
      /\ c.batch[c.i + 1].off = q[n + 1].off /\ c.batch[c.i + 1].len = q[n + 1].len - c.ei
  BY <1>1 DEF PastRuns
<1>4. c.i \in Nat /\ c.ei \in Nat /\ Len(c.batch) \in Nat /\ Len(c.rest) \in Nat /\ Len(q) \in Nat
  BY <1>2
<1>5. n + 1 \in 1 .. Len(q) /\ n + 1 \in 1 .. Len(q) + 1 /\ (n + 1) + 1 \in 1 .. Len(q) + 1
      /\ c.i + 1 \in 1 .. Len(c.batch)
  <2>1. PICK k, b, m, i : k = Len(q) /\ b = Len(c.batch) /\ m = Len(c.rest) /\ i = c.i
    OBVIOUS
  <2>2. k - n = (b - i) + m /\ i < b /\ k \in Nat /\ b \in Nat /\ m \in Nat /\ i \in Nat /\ n \in 0 .. k
    BY <1>3, <1>4, <2>1
  <2>3. n + 1 \in 1 .. k /\ n + 1 \in 1 .. k + 1 /\ (n + 1) + 1 \in 1 .. k + 1 /\ i + 1 \in 1 .. b
    BY <2>2
  <2> QED
    BY <2>1, <2>3
<1>6. c.batch[c.i + 1] \in Run
  BY <1>2, <1>5
<1>7. PICK o, l, b : o = q[n + 1].off /\ l = q[n + 1].len /\ b = Start(U, q, n + 1)
  OBVIOUS
<1>8. o \in Nat /\ l \in Nat \ {0} /\ b \in Nat
  BY <1>5, <1>7, RunIs, StartIs
<1>9. Off(c) = o + c.ei /\ Left(c) = l - c.ei /\ Left(c) \in Nat \ {0} /\ t = b + c.ei
  BY <1>3, <1>6, <1>7 DEF Off, Left, Run
<1>10. PICK g, f, e : g = Left(c) /\ f = Off(c) /\ e = c.ei
  OBVIOUS
<1>11. /\ e \in Nat /\ f = o + e /\ g = l - e /\ g \in Nat \ {0} /\ t = b + e
       /\ f \in Nat /\ t \in Nat
  BY <1>4, <1>8, <1>9, <1>10
<1>12. Start(U, q, (n + 1) + 1) = b + l
  BY <1>5, <1>7 DEF RunList
<1>13. b + l <= Cardinality(U) /\ Cardinality(U) \in Nat
  BY <1>5, <1>12, StartIs
<1>14. ASSUME NEW k \in 0 .. Left(c) - 1
       PROVE  Off(c) + k \in U /\ Below(U, Off(c) + k) = t + k
  <2>1. c.ei + k \in 0 .. q[n + 1].len - 1
    <3>1. k \in 0 .. g - 1
      BY <1>10
    <3>2. e + k \in 0 .. l - 1
      BY <1>8, <1>11, <3>1
    <3> QED
      BY <1>7, <1>10, <3>2
  <2>2. /\ q[n + 1].off + (c.ei + k) \in U
        /\ Below(U, q[n + 1].off + (c.ei + k)) = Start(U, q, n + 1) + (c.ei + k)
    BY <1>5, <2>1, RunPlaces
  <2>3. o + (e + k) = f + k /\ b + (e + k) = t + k
    BY <1>8, <1>11
  <2> QED
    BY <1>7, <1>10, <2>2, <2>3
<1>15. t + g <= Cardinality(U)
  BY <1>8, <1>13, <1>11
<1> QED
  BY <1>13, <1>14, <1>15, <1>11, <1>10

\* A cursor that advances by part of a sequence, or all of it, has come as much further.
LEMMA AdvanceAt ==
    ASSUME NEW U, NEW q, RunList(U, q), NEW c, NEW t, AtPlace(U, q, c, t), c.i < Len(c.batch),
           NEW d \in 1 .. Left(c)
    PROVE  AtPlace(U, q, Advance(c, d), t + d)
<1>1. PICK n \in 0 .. Len(q) : PastRuns(U, q, c, t, n)
  BY DEF AtPlace
<1>2. /\ c.batch \in Seq(Run) /\ c.i \in Nat /\ c.ei \in Nat /\ c.rest \in Seq(Run)
      /\ Len(c.batch) \in Nat /\ Len(c.rest) \in Nat /\ Len(q) \in Nat
  BY DEF AtPlace, Cursors, RunList
<1>3. /\ Len(q) - n = (Len(c.batch) - c.i) + Len(c.rest)
      /\ t = Start(U, q, n + 1) + c.ei
      /\ c.batch[c.i + 1].off = q[n + 1].off /\ c.batch[c.i + 1].len = q[n + 1].len - c.ei
      /\ \A j \in 2 .. Len(c.batch) - c.i : c.batch[c.i + j] = q[n + j]
      /\ \A j \in 1 .. Len(c.rest) : c.rest[j] = q[n + (Len(c.batch) - c.i) + j]
  BY <1>1 DEF PastRuns
<1>4. c.i \in Nat /\ c.ei \in Nat /\ Len(c.batch) \in Nat /\ Len(c.rest) \in Nat /\ Len(q) \in Nat
  BY <1>2
<1>5. Len(q) - n = (Len(c.batch) - c.i) + Len(c.rest)
  BY <1>3
<1>6. n + 1 \in 1 .. Len(q) /\ c.i + 1 \in 1 .. Len(c.batch) /\ n + 1 \in 1 .. Len(q) + 1
  <2>1. PICK k, b, m, i : k = Len(q) /\ b = Len(c.batch) /\ m = Len(c.rest) /\ i = c.i
    OBVIOUS
  <2>2. k - n = (b - i) + m /\ i < b /\ k \in Nat /\ b \in Nat /\ m \in Nat /\ i \in Nat /\ n \in 0 .. k
    BY <1>4, <1>5, <2>1
  <2>3. n + 1 \in 1 .. k /\ n + 1 \in 1 .. k + 1 /\ i + 1 \in 1 .. b
    BY <2>2
  <2> QED
    BY <2>1, <2>3
<1>7. /\ Left(c) \in Nat \ {0} /\ c.batch[c.i + 1].len = Left(c) /\ d \in Nat
      /\ q[n + 1].len \in Nat /\ Start(U, q, n + 1) \in Nat /\ c.batch[c.i + 1] \in Run
      /\ Start(U, q, (n + 1) + 1) = Start(U, q, n + 1) + q[n + 1].len
  <2>1. Left(c) \in Nat \ {0} /\ c.batch[c.i + 1].len = Left(c)
    BY OffAt DEF Left
  <2>2. q[n + 1].len \in Nat /\ Start(U, q, n + 1) \in Nat
    BY <1>6, RunIs, StartIs
  <2>3. Start(U, q, (n + 1) + 1) = Start(U, q, n + 1) + q[n + 1].len
    BY <1>6 DEF RunList
  <2>4. c.batch[c.i + 1] \in Run
    BY <1>2, <1>6
  <2> QED
    BY <2>1, <2>2, <2>3, <2>4
<1>8. CASE d = Left(c)
  <2> DEFINE e == Cursor(c.batch, c.i + 1, 0, c.rest)
  <2>1. Advance(c, d) = e
    BY <1>8 DEF Advance
  <2>2. e.batch = c.batch /\ e.i = c.i + 1 /\ e.ei = 0 /\ e.rest = c.rest /\ e \in Cursors
    BY <1>2 DEF Cursor, Cursors
  <2> HIDE DEF e
  <2>3. Len(q) - (n + 1) = (Len(e.batch) - e.i) + Len(e.rest)
    <3>1. Len(e.batch) = Len(c.batch) /\ Len(e.rest) = Len(c.rest) /\ e.i = c.i + 1
      BY <2>2
    <3>2. PICK lq, lb, lr, i : lq = Len(q) /\ lb = Len(c.batch) /\ lr = Len(c.rest) /\ i = c.i
      OBVIOUS
    <3>3. lq \in Nat /\ lb \in Nat /\ lr \in Nat /\ i \in Nat /\ n \in Int
      BY <1>4, <3>2
    <3>4. lq - n = (lb - i) + lr
      BY <1>5, <3>2
    <3>5. lq - (n + 1) = (lb - (i + 1)) + lr
      BY <3>3, <3>4
    <3> QED
      BY <3>1, <3>2, <3>5
  <2>4. ASSUME NEW j \in 1 .. Len(e.batch) - e.i PROVE e.batch[e.i + j] = q[(n + 1) + j]
    <3>1. j + 1 \in 2 .. Len(c.batch) - c.i /\ e.i + j = c.i + (j + 1) /\ n + (j + 1) = (n + 1) + j
      BY <1>4, <2>2
    <3> QED
      BY <1>3, <2>2, <3>1
  <2>5. ASSUME NEW j \in 1 .. Len(e.rest)
        PROVE  e.rest[j] = q[(n + 1) + (Len(e.batch) - e.i) + j]
    <3>1. (n + 1) + (Len(e.batch) - e.i) + j = n + (Len(c.batch) - c.i) + j
      <4>1. Len(e.batch) = Len(c.batch) /\ j \in Int /\ e.i = c.i + 1
        BY <2>2
      <4>2. PICK lb, i : lb = Len(c.batch) /\ i = c.i
        OBVIOUS
      <4>3. lb \in Nat /\ i \in Nat /\ n \in Int
        BY <1>4, <4>2
      <4>4. (n + 1) + (lb - (i + 1)) + j = n + (lb - i) + j
        BY <4>1, <4>3
      <4> QED
        BY <4>1, <4>2, <4>4
    <3> QED
      BY <1>3, <2>2, <3>1
  <2>6. t + d = Start(U, q, (n + 1) + 1) + e.ei
    <3>1. q[n + 1].len - c.ei = d /\ t = Start(U, q, n + 1) + c.ei
      BY <1>3, <1>7, <1>8
    <3>2. q[n + 1].len = c.ei + d
      <4>1. PICK l : l = q[n + 1].len
        OBVIOUS
      <4>2. l \in Nat /\ l - c.ei = d
        BY <1>7, <3>1, <4>1
      <4> QED
        BY <1>4, <4>1, <4>2
    <3> QED
      BY <1>4, <1>7, <2>2, <3>1, <3>2
  <2>7. ASSUME e.i < Len(e.batch)
        PROVE  /\ e.batch[e.i + 1].off = q[(n + 1) + 1].off
               /\ e.batch[e.i + 1].len = q[(n + 1) + 1].len - e.ei
    <3>1. 1 \in 1 .. Len(e.batch) - e.i
      BY <1>2, <2>2, <2>7
    <3>2. e.batch[e.i + 1] = q[(n + 1) + 1] /\ (n + 1) + 1 \in 1 .. Len(q)
      <4>1. (n + 1) + 1 \in 1 .. Len(q)
        BY <1>4, <1>5, <2>2, <2>7
      <4> QED
        BY <2>4, <3>1, <4>1
    <3>3. q[(n + 1) + 1].len \in Nat
      BY <3>2, RunIs
    <3> QED
      BY <2>2, <3>2, <3>3
  <2>8. PastRuns(U, q, e, t + d, n + 1)
    <3>1. \A j \in 2 .. Len(e.batch) - e.i : j \in 1 .. Len(e.batch) - e.i
      OBVIOUS
    <3> QED
      BY <2>2, <2>3, <2>4, <2>5, <2>6, <2>7, <3>1 DEF PastRuns
  <2> QED
    BY <1>2, <1>6, <2>1, <2>2, <2>8 DEF AtPlace
<1>9. CASE d # Left(c)
  <2> DEFINE b == [c.batch EXCEPT ![c.i + 1].len = @ - d]
             e == Cursor(b, c.i, c.ei + d, c.rest)
  <2>1. Advance(c, d) = e
    BY <1>9 DEF Advance
  <2>2. /\ b \in Seq(Run) /\ Len(b) = Len(c.batch)
        /\ \A j \in 1 .. Len(c.batch) : j # c.i + 1 => b[j] = c.batch[j]
        /\ b[c.i + 1].off = c.batch[c.i + 1].off /\ b[c.i + 1].len = Left(c) - d
    <3>1. PICK x : x = [c.batch[c.i + 1] EXCEPT !.len = @ - d]
      OBVIOUS
    <3>2. Left(c) - d \in Nat \ {0}
      BY <1>7, <1>9
    <3>3. x.off = c.batch[c.i + 1].off /\ x.len = Left(c) - d /\ x \in Run
      BY <1>7, <3>1, <3>2 DEF Run
    <3>4. b = [c.batch EXCEPT ![c.i + 1] = x]
      BY <3>1
    <3> HIDE DEF b
    <3>5. b \in Seq(Run) /\ Len(b) = Len(c.batch)
      BY <1>2, <1>6, <3>3, <3>4
    <3>6. b[c.i + 1] = x /\ \A j \in 1 .. Len(c.batch) : j # c.i + 1 => b[j] = c.batch[j]
      BY <1>2, <1>6, <3>4
    <3> QED
      BY <3>3, <3>5, <3>6
  <2> HIDE DEF b
  <2>3. e.batch = b /\ e.i = c.i /\ e.ei = c.ei + d /\ e.rest = c.rest /\ e \in Cursors
    BY <1>2, <1>7, <2>2 DEF Cursor, Cursors
  <2> HIDE DEF e
  <2>4. ASSUME NEW j \in 2 .. Len(e.batch) - e.i PROVE e.batch[e.i + j] = q[n + j]
    <3>1. c.i + j \in 1 .. Len(c.batch) /\ c.i + j # c.i + 1 /\ j \in 2 .. Len(c.batch) - c.i
      BY <1>2, <2>2, <2>3
    <3> QED
      BY <1>3, <2>2, <2>3, <3>1
  <2>5. t + d = Start(U, q, n + 1) + e.ei
    BY <1>4, <1>3, <1>7, <2>3
  <2>6. e.batch[e.i + 1].off = q[n + 1].off /\ e.batch[e.i + 1].len = q[n + 1].len - e.ei
    <3>1. Left(c) = q[n + 1].len - c.ei /\ c.batch[c.i + 1].off = q[n + 1].off
      BY <1>3, <1>7
    <3>2. Left(c) - d = q[n + 1].len - (c.ei + d)
      BY <1>4, <1>7, <3>1
    <3> QED
      BY <2>2, <2>3, <3>1, <3>2
  <2>7. PastRuns(U, q, e, t + d, n)
    BY <1>3, <2>2, <2>3, <2>4, <2>5, <2>6 DEF PastRuns
  <2> QED
    BY <2>1, <2>2, <2>3, <2>7 DEF AtPlace
<1> QED
  BY <1>8, <1>9

Transfers == [from : Nat, to : Nat, len : Nat \ {0}]
Merges == [mem : Cursors, file : Cursors, tot_len : Nat, ops : Seq(Transfers)]

\* The pairs of numbers of two sets that have the same place, up to a place.
Matched(Um, Uf, n) ==
    {p \in Um \X Uf : Below(Um, p[1]) = Below(Uf, p[2]) /\ Below(Um, p[1]) < n}

MayMerge(Um, qm, Uf, qf, N) ==
    RunList(Um, qm) /\ RunList(Uf, qf) /\ Cardinality(Um) = N /\ Cardinality(Uf) = N /\ N \in Nat

MergeAt(Um, qm, Uf, qf, N, s) ==
    /\ s \in Merges /\ s.tot_len <= N
    /\ AtPlace(Um, qm, s.mem, N - s.tot_len) /\ AtPlace(Uf, qf, s.file, N - s.tot_len)
    /\ Moves(s.ops) = Matched(Um, Uf, N - s.tot_len)

MovedBy(x) == {<<x.from + k, x.to + k>> : k \in 0 .. x.len - 1}

\* One more transfer moves what it moves.
LEMMA AppendMoves ==
    ASSUME NEW ops \in Seq(Transfers), NEW x \in Transfers
    PROVE  Moves(Append(ops, x)) = Moves(ops) \union MovedBy(x)
<1> DEFINE all == Append(ops, x)
<1>1. /\ Len(ops) \in Nat /\ DOMAIN ops = 1 .. Len(ops) /\ DOMAIN all = 1 .. Len(ops) + 1
      /\ all[Len(ops) + 1] = x /\ \A i \in 1 .. Len(ops) : all[i] = ops[i]
  OBVIOUS
<1> HIDE DEF all
<1>2. ASSUME NEW m \in Moves(all) PROVE m \in Moves(ops) \union MovedBy(x)
  <2>1. PICK i \in DOMAIN all : \E k \in 0 .. all[i].len - 1 : m = <<all[i].from + k, all[i].to + k>>
    BY MoveIs
  <2>2. CASE i = Len(ops) + 1
    BY <1>1, <2>1, <2>2 DEF MovedBy
  <2>3. CASE i # Len(ops) + 1
    <3>1. i \in DOMAIN ops /\ all[i] = ops[i]
      BY <1>1, <2>3
    <3> QED
      BY <2>1, <3>1, MoveIs
  <2> QED
    BY <2>2, <2>3
<1>3. ASSUME NEW m \in Moves(ops) PROVE m \in Moves(all)
  <2>1. PICK i \in DOMAIN ops : \E k \in 0 .. ops[i].len - 1 : m = <<ops[i].from + k, ops[i].to + k>>
    BY MoveIs
  <2>2. i \in DOMAIN all /\ all[i] = ops[i]
    BY <1>1
  <2> QED
    BY <2>1, <2>2, MoveIs
<1>4. ASSUME NEW m \in MovedBy(x) PROVE m \in Moves(all)
  <2>1. \E k \in 0 .. x.len - 1 : m = <<x.from + k, x.to + k>>
    BY DEF MovedBy
  <2>2. Len(ops) + 1 \in DOMAIN all /\ all[Len(ops) + 1] = x
    BY <1>1
  <2> QED
    BY <2>1, <2>2, MoveIs
<1> QED
  BY <1>2, <1>3, <1>4 DEF all

\* One transfer covers the pairs at n places from t on.
LEMMA TransferMatches ==
    ASSUME NEW Um, Numbers(Um), NEW Uf, Numbers(Uf), NEW x \in Transfers, NEW t \in Nat,
           \A k \in 0 .. x.len - 1 : /\ x.from + k \in Um /\ Below(Um, x.from + k) = t + k
                                     /\ x.to + k \in Uf /\ Below(Uf, x.to + k) = t + k
    PROVE  Matched(Um, Uf, t) \union MovedBy(x) = Matched(Um, Uf, t + x.len)
<1>1. x.from \in Nat /\ x.to \in Nat /\ x.len \in Nat
  BY DEF Transfers
<1>2. \A u \in Um : Below(Um, u) \in Nat
  <2>1. \A u \in Um : u \in Int
    BY DEF Numbers
  <2> QED
    BY <2>1, BelowIs
<1>3. ASSUME NEW m \in MovedBy(x) PROVE m \in Matched(Um, Uf, t + x.len)
  <2>1. PICK k \in 0 .. x.len - 1 : m = <<x.from + k, x.to + k>>
    BY DEF MovedBy
  <2>2. t + k < t + x.len
    BY <1>1
  <2>3. m \in Um \X Uf /\ m[1] = x.from + k /\ m[2] = x.to + k
    BY <2>1
  <2> QED
    BY <2>2, <2>3 DEF Matched
<1>4. ASSUME NEW m \in Matched(Um, Uf, t) PROVE m \in Matched(Um, Uf, t + x.len)
  <2>1. m \in Um \X Uf /\ Below(Um, m[1]) = Below(Uf, m[2]) /\ Below(Um, m[1]) < t
    BY DEF Matched
  <2>2. Below(Um, m[1]) \in Nat
    BY <1>2, <2>1
  <2>3. Below(Um, m[1]) < t + x.len
    BY <1>1, <2>1, <2>2
  <2> QED
    BY <2>1, <2>3 DEF Matched
<1>5. ASSUME NEW m \in Matched(Um, Uf, t + x.len), m \notin Matched(Um, Uf, t)
      PROVE  m \in MovedBy(x)
  <2>1. /\ m \in Um \X Uf /\ Below(Um, m[1]) = Below(Uf, m[2]) /\ Below(Um, m[1]) < t + x.len
        /\ ~(Below(Um, m[1]) < t)
    BY <1>5 DEF Matched
  <2>2. m[1] \in Um /\ m[2] \in Uf /\ m = <<m[1], m[2]>> /\ Below(Um, m[1]) \in Nat
    BY <1>2, <2>1
  <2>3. PICK k \in Nat : Below(Um, m[1]) = t + k /\ k \in 0 .. x.len - 1
    <3>1. PICK b : b = Below(Um, m[1])
      OBVIOUS
    <3>2. b \in Nat /\ b < t + x.len /\ ~(b < t)
      BY <2>1, <2>2, <3>1
    <3>3. b - t \in Nat /\ b = t + (b - t) /\ b - t \in 0 .. x.len - 1
      BY <1>1, <3>2
    <3> QED
      BY <3>1, <3>3
  <2>4. x.from + k \in Um /\ Below(Um, x.from + k) = Below(Um, m[1])
    BY <2>3
  <2>5. x.to + k \in Uf /\ Below(Uf, x.to + k) = Below(Uf, m[2])
    BY <2>1, <2>3
  <2>6. m[1] = x.from + k
    BY <2>2, <2>4, BelowOnto
  <2>7. m[2] = x.to + k
    BY <2>2, <2>5, BelowOnto
  <2> QED
    BY <2>2, <2>3, <2>6, <2>7 DEF MovedBy
<1> QED
  BY <1>3, <1>4, <1>5

\* A round of the merge keeps its invariant, and what is left gets less.
LEMMA MergeStepAt ==
    ASSUME NEW Um, NEW qm, NEW Uf, NEW qf, NEW N, MayMerge(Um, qm, Uf, qf, N),
           NEW s, MergeAt(Um, qm, Uf, qf, N, s)
    PROVE  /\ MergeAt(Um, qm, Uf, qf, N, MergeStep(s))
           /\ s.tot_len # 0 => MergeStep(s).tot_len < s.tot_len
<1>1. CASE s.tot_len = 0
  BY <1>1 DEF MergeStep
<1>2. CASE s.tot_len # 0
  <2> DEFINE t == N - s.tot_len
             m == Refill(s.mem)
             f == Refill(s.file)
             d == IF Left(m) <= Left(f) THEN Left(m) ELSE Left(f)
             x == Transfer(Off(m), Off(f), d)
             e == MergeStep(s)
  <2>1. /\ RunList(Um, qm) /\ RunList(Uf, qf) /\ Cardinality(Um) = N /\ Cardinality(Uf) = N
        /\ N \in Nat /\ Numbers(Um) /\ Numbers(Uf)
    BY DEF MayMerge, RunList
  <2>2. /\ s.tot_len \in Nat /\ s.tot_len <= N /\ s.ops \in Seq(Transfers)
        /\ AtPlace(Um, qm, s.mem, t) /\ AtPlace(Uf, qf, s.file, t)
        /\ Moves(s.ops) = Matched(Um, Uf, t)
    BY DEF MergeAt, Merges
  <2>3. t \in Nat /\ t # N /\ N - t = s.tot_len
    BY <1>2, <2>1, <2>2
  <2>4. e = [mem |-> Advance(m, d), file |-> Advance(f, d), tot_len |-> s.tot_len - d,
             ops |-> Append(s.ops, x)]
    BY <1>2 DEF MergeStep
  <2> HIDE DEF t, m, f, e
  <2>5. AtPlace(Um, qm, m, t) /\ m.i < Len(m.batch) /\ AtPlace(Uf, qf, f, t) /\ f.i < Len(f.batch)
    BY <2>1, <2>2, <2>3, RefillAt DEF m, f
  <2>6. /\ Off(m) \in Nat /\ Left(m) \in Nat \ {0} /\ t + Left(m) <= N
        /\ \A k \in 0 .. Left(m) - 1 : Off(m) + k \in Um /\ Below(Um, Off(m) + k) = t + k
    BY <2>1, <2>5, OffAt
  <2>7. /\ Off(f) \in Nat /\ Left(f) \in Nat \ {0} /\ t + Left(f) <= N
        /\ \A k \in 0 .. Left(f) - 1 : Off(f) + k \in Uf /\ Below(Uf, Off(f) + k) = t + k
    BY <2>1, <2>5, OffAt
  <2>8. /\ d \in 1 .. Left(m) /\ d \in 1 .. Left(f) /\ d \in Nat \ {0} /\ t + d <= N
        /\ \A k \in 0 .. d - 1 : k \in 0 .. Left(m) - 1 /\ k \in 0 .. Left(f) - 1
    <3>1. CASE Left(m) <= Left(f)
      BY <2>3, <2>6, <2>7, <3>1
    <3>2. CASE ~(Left(m) <= Left(f))
      BY <2>3, <2>6, <2>7, <3>2
    <3> QED
      BY <3>1, <3>2
  <2> HIDE DEF d
  <2>9. x \in Transfers /\ x.from = Off(m) /\ x.to = Off(f) /\ x.len = d
    BY <2>6, <2>7, <2>8 DEF Transfer, Transfers
  <2> HIDE DEF x
  <2>10. AtPlace(Um, qm, Advance(m, d), t + d)
    BY <2>1, <2>5, <2>8, AdvanceAt
  <2>11. AtPlace(Uf, qf, Advance(f, d), t + d)
    BY <2>1, <2>5, <2>8, AdvanceAt
  <2>12. Moves(Append(s.ops, x)) = Matched(Um, Uf, t + d)
    <3>1. Moves(Append(s.ops, x)) = Matched(Um, Uf, t) \union MovedBy(x)
      BY <2>2, <2>9, AppendMoves
    <3>2. \A k \in 0 .. x.len - 1 : /\ x.from + k \in Um /\ Below(Um, x.from + k) = t + k
                                    /\ x.to + k \in Uf /\ Below(Uf, x.to + k) = t + k
      BY <2>6, <2>7, <2>8, <2>9
    <3>3. Matched(Um, Uf, t) \union MovedBy(x) = Matched(Um, Uf, t + x.len)
      BY <2>1, <2>3, <2>9, <3>2, TransferMatches
    <3> QED
      BY <2>9, <3>1, <3>3
  <2>13. /\ e.mem = Advance(m, d) /\ e.file = Advance(f, d) /\ e.tot_len = s.tot_len - d
         /\ e.ops = Append(s.ops, x)
    BY <2>4
  <2>14. /\ s.tot_len - d \in Nat /\ s.tot_len - d <= N /\ N - (s.tot_len - d) = t + d
         /\ s.tot_len - d < s.tot_len
    BY <2>1, <2>2, <2>3, <2>8
  <2>15. e \in Merges
    <3>1. Advance(m, d) \in Cursors /\ Advance(f, d) \in Cursors
      BY <2>10, <2>11 DEF AtPlace
    <3>2. Append(s.ops, x) \in Seq(Transfers)
      BY <2>2, <2>9
    <3> QED
      BY <2>4, <2>14, <3>1, <3>2 DEF Merges
  <2>16. MergeAt(Um, qm, Uf, qf, N, e)
    BY <2>10, <2>11, <2>12, <2>13, <2>14, <2>15 DEF MergeAt
  <2> QED
    BY <2>13, <2>14, <2>16 DEF e
<1> QED
  BY <1>1, <1>2

\* build_io_op_merge moves each unit in memory to the one with its place in the file.
LEMMA MergeMoves ==
    ASSUME NEW k \in Nat, NEW fspace, InExtent(k, fspace), NEW l \in Nat, NEW mspace, InExtent(l, mspace),
           NEW size \in Size, Cardinality(mspace.sel) = Cardinality(fspace.sel),
           NEW Um, Um = Units(Places(mspace), size), NEW Uf, Uf = Units(Places(fspace), size)
    PROVE  Moves(build_io_op_merge(mspace, fspace, size))
             = {p \in Um \X Uf : Below(Um, p[1]) = Below(Uf, p[2])}
<1> DEFINE qm == Sequences(mspace, size)
           qf == Sequences(fspace, size)
           N == Cardinality(mspace.sel) * size
           a == [mem |-> Cursor(<< >>, 0, 0, qm), file |-> Cursor(<< >>, 0, 0, qf),
                 tot_len |-> N, ops |-> << >>]
           S == {s \in Merges : MergeAt(Um, qm, Uf, qf, N, s)}
           G == [s \in S |-> MergeStep(s)]
           Def(h) == h = [n \in Nat |-> IF n = 0 THEN a ELSE MergeStep(h[n - 1])]
           round == CHOOSE h : Def(h)
<1>1. build_io_op_merge(mspace, fspace, size) = round[N].ops
  BY DEF build_io_op_merge
<1>2. MayMerge(Um, qm, Uf, qf, N)
  <2>1. RunList(Um, qm) /\ RunList(Uf, qf)
    BY SequencesAre
  <2>2. Numbers(Places(mspace)) /\ Cardinality(Places(mspace)) = Cardinality(mspace.sel)
    BY PlacesAre
  <2>3. Numbers(Places(fspace)) /\ Cardinality(Places(fspace)) = Cardinality(fspace.sel)
    BY PlacesAre
  <2>4. Cardinality(Um) = N /\ N \in Nat
    BY <2>2, UnitsBelow
  <2>5. Cardinality(Uf) = N
    BY <2>3, UnitsBelow
  <2> QED
    BY <2>1, <2>4, <2>5 DEF MayMerge
<1> HIDE DEF qm, qf, N
<1>3. N \in Nat /\ Numbers(Um) /\ Numbers(Uf) /\ Cardinality(Um) = N
  BY <1>2 DEF MayMerge, RunList
<1>4. a \in S
  <2>1. AtPlace(Um, qm, Cursor(<< >>, 0, 0, qm), 0) /\ AtPlace(Uf, qf, Cursor(<< >>, 0, 0, qf), 0)
    BY <1>2, CursorIs DEF MayMerge
  <2>2. Matched(Um, Uf, 0) = {}
    <3>1. \A u \in Um : Below(Um, u) \in Nat
      <4>1. \A u \in Um : u \in Int
        BY <1>3 DEF Numbers
      <4> QED
        BY <1>3, <4>1, BelowIs
    <3> QED
      BY <3>1 DEF Matched
  <2>3. Moves(<< >>) = {}
    BY DEF Moves
  <2>4. a \in Merges
    <3>1. Cursor(<< >>, 0, 0, qm) \in Cursors /\ Cursor(<< >>, 0, 0, qf) \in Cursors
      BY <2>1 DEF AtPlace
    <3> QED
      BY <1>3, <3>1 DEF Merges
  <2>5. N - N = 0 /\ N <= N
    BY <1>3
  <2>6. MergeAt(Um, qm, Uf, qf, N, a)
    BY <2>1, <2>2, <2>3, <2>4, <2>5 DEF MergeAt
  <2> QED
    BY <2>4, <2>6
<1>5. ASSUME NEW s \in S
      PROVE  MergeStep(s) \in S /\ s.tot_len \in Nat
             /\ (s.tot_len # 0 => MergeStep(s).tot_len < s.tot_len)
  <2>1. /\ MergeAt(Um, qm, Uf, qf, N, MergeStep(s))
        /\ s.tot_len # 0 => MergeStep(s).tot_len < s.tot_len
    BY <1>2, MergeStepAt
  <2>2. MergeStep(s) \in Merges /\ s.tot_len \in Nat
    BY <2>1 DEF MergeAt, Merges
  <2> QED
    BY <2>1, <2>2
<1> HIDE DEF a, S
<1>6. PICK g \in [Nat -> S] : g = [n \in Nat |-> IF n = 0 THEN a ELSE G[g[n - 1]]]
  <2>1. G \in [S -> S]
    BY <1>5
  <2> HIDE DEF G
  <2> QED
    BY <1>4, <2>1, Iterate
<1>7. Def(g)
  <2>1. \A n \in Nat : n # 0 => n - 1 \in Nat
    OBVIOUS
  <2>2. \A n \in Nat : n # 0 => g[n - 1] \in S
    BY <1>6, <2>1
  <2>3. \A n \in Nat : (IF n = 0 THEN a ELSE G[g[n - 1]]) = IF n = 0 THEN a ELSE MergeStep(g[n - 1])
    BY <2>2
  <2> HIDE DEF G
  <2> QED
    BY <1>6, <2>3
<1>8. Def(round)
  BY <1>7
<1> HIDE DEF round, G
<1>9. round[0] = a /\ \A n \in Nat : round[n + 1] = MergeStep(round[n])
  <2>1. \A n \in Nat : n + 1 # 0 /\ (n + 1) - 1 = n /\ n + 1 \in Nat
    OBVIOUS
  <2> QED
    BY <1>8, <2>1
<1> DEFINE T == {n \in Nat : /\ round[n] \in S
                             /\ round[n].tot_len = 0 \/ round[n].tot_len + n <= N}
<1>10. 0 \in T
  <2>1. a.tot_len = N /\ N + 0 <= N
    BY <1>3 DEF a
  <2> QED
    BY <1>4, <1>9, <2>1
<1>11. ASSUME NEW n \in T PROVE n + 1 \in T
  <2>1. /\ n \in Nat /\ round[n] \in S /\ round[n + 1] = MergeStep(round[n])
        /\ round[n].tot_len = 0 \/ round[n].tot_len + n <= N
    BY <1>9
  <2>2. PICK u, v : u = round[n].tot_len /\ v = round[n + 1].tot_len
    OBVIOUS
  <2>3. round[n + 1] \in S /\ u \in Nat /\ v \in Nat /\ (u # 0 => v < u)
    BY <1>5, <2>1, <2>2
  <2>4. u = 0 => v = 0
    <3>1. round[n].tot_len = 0 => round[n + 1] = round[n]
      BY <2>1 DEF MergeStep
    <3> QED
      BY <2>2, <3>1
  <2>5. v = 0 \/ v + (n + 1) <= N
    BY <1>3, <2>1, <2>2, <2>3, <2>4
  <2> QED
    BY <2>1, <2>2, <2>3, <2>5
<1> HIDE DEF T
<1>12. T = Nat
  BY <1>10, <1>11, Induction DEF T
<1>13. round[N] \in S /\ round[N].tot_len = 0
  <2>1. round[N] \in S /\ (round[N].tot_len = 0 \/ round[N].tot_len + N <= N)
    BY <1>3, <1>12 DEF T
  <2>2. round[N].tot_len \in Nat
    BY <1>5, <2>1
  <2> QED
    BY <1>3, <2>1, <2>2
<1>14. Moves(round[N].ops) = Matched(Um, Uf, N)
  <2>1. N - 0 = N
    BY <1>3
  <2>2. MergeAt(Um, qm, Uf, qf, N, round[N])
    BY <1>13 DEF S
  <2> QED
    BY <1>13, <2>1, <2>2 DEF MergeAt
<1>15. \A u \in Um : Below(Um, u) < N
  <2>1. \A u \in Um : Below(Um, u) \in 0 .. N - 1
    BY <1>3, BelowOnto
  <2> QED
    BY <1>3, <2>1
<1>16. Matched(Um, Uf, N) = {p \in Um \X Uf : Below(Um, p[1]) = Below(Uf, p[2])}
  BY <1>15 DEF Matched
<1> QED
  BY <1>1, <1>14, <1>16

(***************************************************************************)
(* Which place in the buffer each place in the object gets.                *)
(***************************************************************************)
Source(ops, to) == (CHOOSE m \in Moves(ops) : m[2] = to)[1]

\* Transfers that write the places of one set, each from a place of its own.
Pairs(ops, f, U) == Moves(ops) = {<<f[x], x>> : x \in U} /\ f = [x \in U |-> f[x]]

\* Where transfers that pair places take each from.
LEMMA SourceIs ==
    ASSUME NEW ops, NEW U, NEW f, Pairs(ops, f, U)
    PROVE  /\ To(ops) = U
           /\ \A x \in U : Source(ops, x) = f[x] /\ f[x] \in From(ops)
<1>1. Moves(ops) = {<<f[x], x>> : x \in U}
  BY DEF Pairs
<1>2. To(ops) = U
  <2>1. ASSUME NEW x \in U PROVE x \in To(ops)
    <3>1. <<f[x], x>> \in Moves(ops) /\ <<f[x], x>>[2] = x
      BY <1>1
    <3> QED
      BY <3>1 DEF To
  <2>2. ASSUME NEW y \in To(ops) PROVE y \in U
    <3>1. PICK m \in Moves(ops) : m[2] = y
      BY DEF To
    <3> QED
      BY <1>1, <3>1
  <2> QED
    BY <2>1, <2>2
<1>3. ASSUME NEW x \in U PROVE Source(ops, x) = f[x] /\ f[x] \in From(ops)
  <2>1. <<f[x], x>> \in Moves(ops) /\ <<f[x], x>>[2] = x /\ <<f[x], x>>[1] = f[x]
    BY <1>1
  <2>2. PICK m : m = CHOOSE n \in Moves(ops) : n[2] = x
    OBVIOUS
  <2>3. m \in Moves(ops) /\ m[2] = x
    BY <2>1, <2>2
  <2>4. m[1] = f[x]
    BY <1>1, <2>3
  <2> QED
    BY <2>1, <2>2, <2>4 DEF Source, From
<1> QED
  BY <1>2, <1>3

\* What is written.
LEMMA MatchPairs ==
    ASSUME NEW k \in Nat, NEW space, InExtent(k, space), NEW size \in Size,
           NEW U, U = Units(Places(space), size)
    PROVE  Pairs(build_io_op_match(space, size), [x \in U |-> x], U)
<1>1. Moves(build_io_op_match(space, size)) = {<<x, x>> : x \in U}
  BY MatchMoves
<1> QED
  BY <1>1 DEF Pairs

\* build_io_op_contig takes the units of a selection from a buffer that has them in order.
LEMMA ContigPairs ==
    ASSUME NEW k \in Nat, NEW space, InExtent(k, space), NEW size \in Size,
           NEW U, U = Units(Places(space), size)
    PROVE  Pairs(build_io_op_contig(space, size), [x \in U |-> Below(U, x)], U)
<1>1. Moves(build_io_op_contig(space, size)) = {<<Below(U, x), x>> : x \in U}
  BY ContigMoves
<1> QED
  BY <1>1 DEF Pairs

\* The number of one set that has the place of a number of another.
Partner(Um, Uf, y) == CHOOSE x \in Um : Below(Um, x) = Below(Uf, y)

\* build_io_op_merge takes each unit from the one with its place.
LEMMA MergePairs ==
    ASSUME NEW k \in Nat, NEW fspace, InExtent(k, fspace), NEW l \in Nat, NEW mspace, InExtent(l, mspace),
           NEW size \in Size, Cardinality(mspace.sel) = Cardinality(fspace.sel),
           NEW Um, Um = Units(Places(mspace), size), NEW Uf, Uf = Units(Places(fspace), size)
    PROVE  /\ Pairs(build_io_op_merge(mspace, fspace, size), [y \in Uf |-> Partner(Um, Uf, y)], Uf)
           /\ \A y \in Uf : \A x \in Um : Below(Um, x) = Below(Uf, y) => Partner(Um, Uf, y) = x
<1>1. Moves(build_io_op_merge(mspace, fspace, size))
        = {p \in Um \X Uf : Below(Um, p[1]) = Below(Uf, p[2])}
  BY MergeMoves
<1>2. Numbers(Um) /\ Numbers(Uf) /\ Cardinality(Um) = Cardinality(Uf)
  <2>1. Numbers(Places(mspace)) /\ Cardinality(Places(mspace)) = Cardinality(mspace.sel)
    BY PlacesAre
  <2>2. Numbers(Places(fspace)) /\ Cardinality(Places(fspace)) = Cardinality(fspace.sel)
    BY PlacesAre
  <2>3. Numbers(Um) /\ Cardinality(Um) = Cardinality(mspace.sel) * size
    BY <2>1, UnitsBelow
  <2>4. Numbers(Uf) /\ Cardinality(Uf) = Cardinality(fspace.sel) * size
    BY <2>2, UnitsBelow
  <2> QED
    BY <2>3, <2>4
<1>3. ASSUME NEW y \in Uf
      PROVE  Partner(Um, Uf, y) \in Um /\ Below(Um, Partner(Um, Uf, y)) = Below(Uf, y)
  <2>1. Below(Uf, y) \in 0 .. Cardinality(Um) - 1
    BY <1>2, BelowOnto
  <2>2. \E x \in Um : Below(Um, x) = Below(Uf, y)
    BY <1>2, <2>1, BelowOnto
  <2> QED
    BY <2>2 DEF Partner
<1>4. ASSUME NEW y \in Uf, NEW x \in Um, Below(Um, x) = Below(Uf, y)
      PROVE  Partner(Um, Uf, y) = x
  <2>1. Partner(Um, Uf, y) \in Um /\ Below(Um, Partner(Um, Uf, y)) = Below(Um, x)
    BY <1>3, <1>4
  <2> QED
    BY <1>2, <2>1, BelowOnto
<1> DEFINE f == [y \in Uf |-> Partner(Um, Uf, y)]
<1>5. ASSUME NEW p, p \in Um \X Uf, Below(Um, p[1]) = Below(Uf, p[2])
      PROVE  p \in {<<f[y], y>> : y \in Uf}
  <2>1. p[1] \in Um /\ p[2] \in Uf /\ p = <<p[1], p[2]>>
    BY <1>5
  <2>2. f[p[2]] = p[1]
    BY <1>4, <1>5, <2>1
  <2> QED
    BY <2>1, <2>2
<1>6. ASSUME NEW y \in Uf
      PROVE  <<f[y], y>> \in {p \in Um \X Uf : Below(Um, p[1]) = Below(Uf, p[2])}
  BY <1>3
<1>7. Moves(build_io_op_merge(mspace, fspace, size)) = {<<f[y], y>> : y \in Uf}
  BY <1>1, <1>5, <1>6
<1> QED
  BY <1>4, <1>7 DEF Pairs

(***************************************************************************)
(* The place of an element in a selection.                                 *)
(***************************************************************************)
PlaceIn(k, sel, c) == Cardinality({b \in sel : Before(k, b, c)})

\* An element's place in the extent is as far in the order as the element among the selected.
LEMMA PlaceIs ==
    ASSUME NEW k \in Nat, NEW space, InExtent(k, space), NEW P, P = Places(space)
    PROVE  /\ \A c \in space.sel : /\ Below(P, Linear(space.dims, c)) = PlaceIn(k, space.sel, c)
                                   /\ PlaceIn(k, space.sel, c) \in 0 .. Cardinality(space.sel) - 1
           /\ \A b, c \in space.sel : PlaceIn(k, space.sel, b) = PlaceIn(k, space.sel, c) => b = c
           /\ \A i \in 0 .. Cardinality(space.sel) - 1 :
                 \E c \in space.sel : PlaceIn(k, space.sel, c) = i
<1> DEFINE L(c) == Linear(space.dims, c)
<1>1. /\ Numbers(P) /\ IsFiniteSet(space.sel) /\ Cardinality(P) = Cardinality(space.sel)
      /\ \A c \in space.sel : L(c) \in P /\ L(c) \in Nat
  BY PlacesAre
<1>2. space.dims \in Coordinates(k) /\ space.sel \subseteq Extent(space.dims)
  BY DEF InExtent
<1>3. \A a, b \in space.sel : (L(a) < L(b) <=> Before(k, a, b)) /\ (L(a) = L(b) => a = b)
  BY <1>2, LinearBefore
<1>4. P = {L(c) : c \in space.sel}
  BY DEF Places
<1> HIDE DEF L
<1>5. ASSUME NEW c \in space.sel PROVE Below(P, L(c)) = PlaceIn(k, space.sel, c)
  <2> DEFINE A == {b \in space.sel : Before(k, b, c)}
             B == {p \in P : p < L(c)}
             f == [b \in A |-> L(b)]
  <2>1. IsFiniteSet(A)
    BY <1>1, FS_Subset
  <2>2. f \in [A -> B]
    BY <1>1, <1>3
  <2>3. \A x, y \in A : f[x] = f[y] => x = y
    BY <1>3
  <2>4. \A p \in B : \E b \in A : f[b] = p
    <3> SUFFICES ASSUME NEW p \in B PROVE \E b \in A : f[b] = p
      OBVIOUS
    <3>1. PICK b \in space.sel : p = L(b)
      BY <1>4
    <3>2. b \in A
      BY <1>3, <3>1
    <3> QED
      BY <3>1, <3>2
  <2> HIDE DEF A, B, f
  <2>5. Cardinality(B) = Cardinality(A)
    BY <2>1, <2>2, <2>3, <2>4, ImageSize
  <2> QED
    BY <2>5 DEF A, B, Below, PlaceIn
<1>6. \A c \in space.sel : PlaceIn(k, space.sel, c) \in 0 .. Cardinality(space.sel) - 1
  BY <1>1, <1>5, BelowOnto
<1>7. ASSUME NEW b \in space.sel, NEW c \in space.sel,
             PlaceIn(k, space.sel, b) = PlaceIn(k, space.sel, c)
      PROVE  b = c
  <2>1. Below(P, L(b)) = Below(P, L(c)) /\ L(b) \in P /\ L(c) \in P
    BY <1>1, <1>5, <1>7
  <2>2. L(b) = L(c)
    BY <1>1, <2>1, BelowOnto
  <2> QED
    BY <1>3, <2>2
<1>8. ASSUME NEW i \in 0 .. Cardinality(space.sel) - 1
      PROVE  \E c \in space.sel : PlaceIn(k, space.sel, c) = i
  <2>1. PICK p \in P : Below(P, p) = i
    BY <1>1, BelowOnto
  <2>2. PICK c \in space.sel : p = L(c)
    BY <1>4
  <2> QED
    BY <1>5, <2>1, <2>2
<1> QED
  BY <1>5, <1>6, <1>7, <1>8 DEF L

\* Two selected elements with the same place have units with the same places.
LEMMA UnitPaired ==
    ASSUME NEW k \in Nat, NEW fspace, InExtent(k, fspace), NEW l \in Nat, NEW mspace, InExtent(l, mspace),
           NEW size \in Size,
           NEW Um, Um = Units(Places(mspace), size), NEW Uf, Uf = Units(Places(fspace), size),
           NEW x \in fspace.sel, NEW y \in mspace.sel,
           PlaceIn(l, mspace.sel, y) = PlaceIn(k, fspace.sel, x), NEW j \in 0 .. size - 1,
           NEW to, to = UnitAt(Linear(fspace.dims, x), size, j),
           NEW from, from = UnitAt(Linear(mspace.dims, y), size, j)
    PROVE  /\ to \in Uf /\ from \in Um /\ Below(Um, from) = Below(Uf, to)
           /\ Below(Uf, to) = UnitAt(PlaceIn(k, fspace.sel, x), size, j)
           /\ PlaceIn(k, fspace.sel, x) \in Nat
<1>1. Numbers(Places(fspace)) /\ Linear(fspace.dims, x) \in Places(fspace)
  BY PlacesAre
<1>2. Numbers(Places(mspace)) /\ Linear(mspace.dims, y) \in Places(mspace)
  BY PlacesAre
<1>3. Below(Places(fspace), Linear(fspace.dims, x)) = PlaceIn(k, fspace.sel, x)
      /\ PlaceIn(k, fspace.sel, x) \in 0 .. Cardinality(fspace.sel) - 1
  BY PlaceIs
<1>4. Below(Places(mspace), Linear(mspace.dims, y)) = PlaceIn(l, mspace.sel, y)
  BY PlaceIs
<1>5. to \in Uf /\ Below(Uf, to) = UnitAt(PlaceIn(k, fspace.sel, x), size, j)
  BY <1>1, <1>3, UnitsBelow
<1>6. from \in Um /\ Below(Um, from) = UnitAt(PlaceIn(l, mspace.sel, y), size, j)
  BY <1>2, <1>4, UnitsBelow
<1> QED
  BY <1>3, <1>5, <1>6

\* The units of an element are those of the places of a selection only if it is selected.
LEMMA NotSelected ==
    ASSUME NEW k \in Nat, NEW space, InExtent(k, space), NEW size \in Size,
           NEW x \in Extent(space.dims), NEW j \in 0 .. size - 1
    PROVE  UnitAt(Linear(space.dims, x), size, j) \in Units(Places(space), size) <=> x \in space.sel
<1>1. space.dims \in Coordinates(k) /\ space.sel \subseteq Extent(space.dims)
  BY DEF InExtent
<1>2. \A c \in Extent(space.dims) : Linear(space.dims, c) \in Nat
  <2>1. \A c \in Extent(space.dims) : c \in Coordinates(k)
    BY <1>1, ExtentIs
  <2> QED
    BY <1>1, <2>1, LinearIn
<1>3. ASSUME UnitAt(Linear(space.dims, x), size, j) \in Units(Places(space), size)
      PROVE  x \in space.sel
  <2>1. PICK o \in Places(space), i \in 0 .. size - 1 :
           UnitAt(Linear(space.dims, x), size, j) = UnitAt(o, size, i)
    BY <1>3 DEF Units
  <2>2. PICK c \in space.sel : o = Linear(space.dims, c)
    BY DEF Places
  <2>3. c \in Extent(space.dims) /\ o \in Nat /\ Linear(space.dims, x) \in Nat
    BY <1>1, <1>2, <2>2
  <2>4. Linear(space.dims, x) = o
    BY <2>1, <2>3, UnitOrder
  <2>5. x = c
    BY <1>1, <2>2, <2>3, <2>4, LinearBefore
  <2> QED
    BY <2>5
<1>4. ASSUME x \in space.sel
      PROVE  UnitAt(Linear(space.dims, x), size, j) \in Units(Places(space), size)
  BY <1>4 DEF Places, Units
<1> QED
  BY <1>3, <1>4

\* A selection that is moved as a whole keeps its places.
Shifted(k, S, T, f) ==
    /\ S \subseteq Coordinates(k) /\ T \subseteq Coordinates(k) /\ IsFiniteSet(S)
    /\ f \in [S -> T] /\ \A t \in T : \E x \in S : f[x] = t
    /\ \E by \in [1 .. k -> Int] : \A x \in S : \A d \in 1 .. k : f[x][d] = x[d] + by[d]

\* A selection that is moved as a whole keeps its order.
LEMMA ShiftedPlaces ==
    ASSUME NEW k \in Nat, NEW S, NEW T, NEW f, Shifted(k, S, T, f)
    PROVE  /\ \A x \in S : PlaceIn(k, T, f[x]) = PlaceIn(k, S, x)
           /\ \A x, y \in S : f[x] = f[y] => x = y
<1>1. /\ S \subseteq Coordinates(k) /\ T \subseteq Coordinates(k) /\ IsFiniteSet(S)
      /\ f \in [S -> T] /\ \A t \in T : \E x \in S : f[x] = t
  BY DEF Shifted
<1>2. PICK by \in [1 .. k -> Int] : \A x \in S : \A d \in 1 .. k : f[x][d] = x[d] + by[d]
  BY DEF Shifted
<1>3. \A x \in S : \A d \in 1 .. k : x[d] \in Nat /\ f[x][d] = x[d] + by[d] /\ by[d] \in Int
  BY <1>1, <1>2 DEF Coordinates
<1>4. ASSUME NEW x \in S, NEW y \in S PROVE Before(k, f[x], f[y]) <=> Before(k, x, y)
  <2>1. \A d \in 1 .. k : (f[x][d] < f[y][d] <=> x[d] < y[d]) /\ (f[x][d] = f[y][d] <=> x[d] = y[d])
    BY <1>3
  <2>2. \A d \in 1 .. k : \A e \in 1 .. d - 1 : e \in 1 .. k
    OBVIOUS
  <2> QED
    BY <2>1, <2>2 DEF Before
<1>5. ASSUME NEW x \in S, NEW y \in S, f[x] = f[y] PROVE x = y
  <2>1. \A d \in 1 .. k : x[d] = y[d]
    BY <1>3, <1>5
  <2>2. x = [d \in 1 .. k |-> x[d]] /\ y = [d \in 1 .. k |-> y[d]]
    BY <1>1 DEF Coordinates
  <2> QED
    BY <2>1, <2>2
<1>6. ASSUME NEW x \in S PROVE PlaceIn(k, T, f[x]) = PlaceIn(k, S, x)
  <2> DEFINE A == {b \in S : Before(k, b, x)}
             B == {t \in T : Before(k, t, f[x])}
             g == [b \in A |-> f[b]]
  <2>1. IsFiniteSet(A)
    BY <1>1, FS_Subset
  <2>2. g \in [A -> B]
    BY <1>1, <1>4
  <2>3. \A b, c \in A : g[b] = g[c] => b = c
    BY <1>5
  <2>4. \A t \in B : \E b \in A : g[b] = t
    <3> SUFFICES ASSUME NEW t \in B PROVE \E b \in A : g[b] = t
      OBVIOUS
    <3>1. PICK b \in S : f[b] = t
      BY <1>1
    <3>2. b \in A
      BY <1>4, <3>1
    <3> QED
      BY <3>1, <3>2
  <2> HIDE DEF A, B, g
  <2>5. Cardinality(B) = Cardinality(A)
    BY <2>1, <2>2, <2>3, <2>4, ImageSize
  <2> QED
    BY <2>5 DEF A, B, PlaceIn
<1> QED
  BY <1>5, <1>6

\* Where an element is in its chunk.
LEMMA CellInChunk ==
    ASSUME NEW k \in Nat, NEW chunk, IsChunk(k, chunk), NEW c \in Coordinates(k),
           NEW at, at = Corner(c, chunk)
    PROVE  /\ Minus(c, at) \in Extent(chunk) /\ Plus(Minus(c, at), at) = c /\ at \in Coordinates(k)
           /\ chunk \in Coordinates(k) /\ Minus(c, at) \in Coordinates(k)
           /\ \A d \in 1 .. k : Minus(c, at)[d] = c[d] - at[d] /\ c[d] \in Nat /\ at[d] \in Nat
<1>1. c \in [1 .. k -> Nat] /\ chunk \in [1 .. k -> Nat \ {0}]
  BY DEF IsChunk, Coordinates
<1>2. at = [d \in 1 .. k |-> Floor(c[d], chunk[d])]
  BY <1>1 DEF Corner, Dims
<1>3. \A d \in 1 .. k : /\ at[d] \in Nat /\ at[d] <= c[d] /\ c[d] < at[d] + chunk[d]
                         /\ c[d] \in Nat /\ chunk[d] \in Nat
  BY <1>1, <1>2, FloorIs
<1>4. at \in Coordinates(k)
  BY <1>2, <1>3 DEF Coordinates
<1>5. Minus(c, at) = [d \in 1 .. k |-> c[d] - at[d]]
  BY <1>1 DEF Minus, Dims
<1>6. \A d \in 1 .. k : c[d] - at[d] \in Nat /\ c[d] - at[d] < chunk[d] /\ (c[d] - at[d]) + at[d] = c[d]
  BY <1>3
<1>7. Minus(c, at) \in Coordinates(k) /\ chunk \in Coordinates(k)
  BY <1>1, <1>3, <1>5, <1>6 DEF Coordinates
<1>8. Minus(c, at) \in Extent(chunk)
  BY <1>5, <1>6, <1>7, ExtentIs
<1>9. Plus(Minus(c, at), at) = c
  <2>1. Plus(Minus(c, at), at) = [d \in 1 .. k |-> Minus(c, at)[d] + at[d]]
    BY <1>5 DEF Plus, Dims
  <2>2. \A d \in 1 .. k : Minus(c, at)[d] + at[d] = c[d]
    BY <1>5, <1>6
  <2>3. c = [d \in 1 .. k |-> c[d]]
    BY <1>1
  <2> QED
    BY <2>1, <2>2, <2>3
<1> QED
  BY <1>3, <1>4, <1>5, <1>7, <1>8, <1>9

\* The elements of a chunk and their counterparts in memory are in the same places, in
\* the chunk and in all of the selection.
LEMMA ChunkPaired ==
    ASSUME NEW k \in Nat, NEW chunk, IsChunk(k, chunk), NEW file, IsSpace(k, file),
           NEW mem, IsSpace(k, mem), SameShape(file, mem),
           NEW at \in Aligned(k, chunk),
           NEW here, here = ChunkInfo(at, chunk, file, mem),
           NEW H, H = InChunk(at, file, chunk), NEW G, G = ToMemory(file, mem)
    PROVE  /\ here.fspace.dims = chunk /\ here.mspace.dims = mem.dims
           /\ InExtent(k, here.fspace) /\ InExtent(k, here.mspace)
           /\ \A c \in H :
                 /\ Minus(c, at) \in here.fspace.sel /\ Plus(c, G) \in here.mspace.sel
                 /\ PlaceIn(k, here.mspace.sel, Plus(c, G)) = PlaceIn(k, here.fspace.sel, Minus(c, at))
                 /\ PlaceIn(k, mem.sel, Plus(c, G)) = PlaceIn(k, file.sel, c)
<1> DEFINE F == here.fspace.sel
           M == here.mspace.sel
           f == [c \in H |-> Minus(c, at)]
           g == [c \in H |-> Plus(c, G)]
           h == [c \in file.sel |-> Plus(c, G)]
<1>1. /\ F = {Minus(c, at) : c \in H} /\ M = {Plus(c, G) : c \in H} /\ M \subseteq mem.sel
      /\ IsFiniteSet(H)
  BY ChunkInfoIs
<1>2. here.fspace.dims = chunk /\ here.mspace.dims = mem.dims
  BY DEF ChunkInfo, Space
<1>3. H \subseteq file.sel /\ \A c \in file.sel : c \in Coordinates(k)
  BY SelectedIs DEF InChunk
<1>4. \A c \in H : Minus(c, at) \in Extent(chunk) /\ Minus(c, at) \in Coordinates(k)
                   /\ \A d \in 1 .. k : Minus(c, at)[d] = c[d] - at[d]
  <2> SUFFICES ASSUME NEW c \in H
               PROVE  /\ Minus(c, at) \in Extent(chunk) /\ Minus(c, at) \in Coordinates(k)
                      /\ \A d \in 1 .. k : Minus(c, at)[d] = c[d] - at[d]
    OBVIOUS
  <2>1. c \in Coordinates(k) /\ at = Corner(c, chunk)
    BY <1>3 DEF InChunk
  <2> QED
    BY <2>1, CellInChunk
<1>5. chunk \in Coordinates(k)
  BY DEF IsChunk, Coordinates
<1>6. InExtent(k, here.fspace)
  BY <1>1, <1>2, <1>4, <1>5 DEF InExtent
<1>7. mem.dims \in Coordinates(k) /\ mem.sel \subseteq Extent(mem.dims)
      /\ \A c \in mem.sel : c \in Coordinates(k)
  BY SelectedIs DEF IsSpace
<1>8. InExtent(k, here.mspace)
  BY <1>1, <1>2, <1>7 DEF InExtent
<1>9. /\ \A c \in file.sel :
            /\ Plus(c, G) \in mem.sel
            /\ \A d \in 1 .. k : Plus(c, G)[d] = c[d] + SelStart(mem)[d] - SelStart(file)[d]
      /\ SelStart(mem) \in Coordinates(k) /\ SelStart(file) \in Coordinates(k)
  BY MemorySelection, BoundsAre
<1>10. mem.sel = {Plus(c, G) : c \in file.sel}
  BY DEF SameShape, Moved, ToMemory
<1>11. IsFiniteSet(file.sel)
  BY FiniteSelection
<1> DEFINE by == [d \in 1 .. k |-> SelStart(mem)[d] - SelStart(file)[d]]
<1>12. by \in [1 .. k -> Int]
       /\ \A c \in file.sel : \A d \in 1 .. k : Plus(c, G)[d] = c[d] + by[d]
  <2>1. \A d \in 1 .. k : SelStart(mem)[d] \in Nat /\ SelStart(file)[d] \in Nat
    BY <1>9 DEF Coordinates
  <2>2. \A c \in file.sel : \A d \in 1 .. k : c[d] \in Nat
    BY <1>3 DEF Coordinates
  <2> QED
    BY <1>9, <2>1, <2>2
<1> HIDE DEF by
<1>13. Shifted(k, file.sel, mem.sel, h)
  <2>1. h \in [file.sel -> mem.sel] /\ \A t \in mem.sel : \E c \in file.sel : h[c] = t
    BY <1>9, <1>10
  <2>2. \A c \in file.sel : \A d \in 1 .. k : h[c][d] = c[d] + by[d]
    BY <1>12
  <2> HIDE DEF h
  <2> QED
    BY <1>3, <1>7, <1>11, <1>12, <2>1, <2>2 DEF Shifted
<1>14. Shifted(k, H, M, g)
  <2>1. g \in [H -> M] /\ \A t \in M : \E c \in H : g[c] = t
    BY <1>1
  <2>2. \A c \in H : \A d \in 1 .. k : g[c][d] = c[d] + by[d]
    BY <1>3, <1>12
  <2>3. H \subseteq Coordinates(k) /\ M \subseteq Coordinates(k)
    BY <1>1, <1>3, <1>7
  <2> HIDE DEF g
  <2> QED
    BY <1>1, <1>12, <2>1, <2>2, <2>3 DEF Shifted
<1>15. Shifted(k, H, F, f)
  <2> DEFINE back == [d \in 1 .. k |-> 0 - at[d]]
  <2>1. f \in [H -> F] /\ \A t \in F : \E c \in H : f[c] = t
    BY <1>1
  <2>2. \A d \in 1 .. k : at[d] \in Nat
    BY DEF Aligned, Coordinates
  <2>3. back \in [1 .. k -> Int]
    BY <2>2
  <2>4. \A c \in H : \A d \in 1 .. k : f[c][d] = c[d] + back[d]
    <3>1. \A c \in H : \A d \in 1 .. k : c[d] \in Nat
      BY <1>3 DEF Coordinates
    <3>2. \A c \in H : \A d \in 1 .. k : Minus(c, at)[d] = c[d] + back[d]
      BY <1>4, <2>2, <3>1
    <3> QED
      BY <3>2
  <2>5. H \subseteq Coordinates(k) /\ F \subseteq Coordinates(k)
    BY <1>1, <1>3, <1>4
  <2> HIDE DEF f, back
  <2> QED
    BY <1>1, <2>1, <2>3, <2>4, <2>5 DEF Shifted
<1> SUFFICES ASSUME NEW c \in H
             PROVE  /\ Minus(c, at) \in F /\ Plus(c, G) \in M
                    /\ PlaceIn(k, M, Plus(c, G)) = PlaceIn(k, F, Minus(c, at))
                    /\ PlaceIn(k, mem.sel, Plus(c, G)) = PlaceIn(k, file.sel, c)
  BY <1>2, <1>6, <1>8
<1>16. PlaceIn(k, M, g[c]) = PlaceIn(k, H, c)
  BY <1>14, ShiftedPlaces
<1>17. PlaceIn(k, F, f[c]) = PlaceIn(k, H, c)
  BY <1>15, ShiftedPlaces
<1>18. PlaceIn(k, mem.sel, h[c]) = PlaceIn(k, file.sel, c) /\ c \in file.sel
  BY <1>3, <1>13, ShiftedPlaces
<1>19. f[c] = Minus(c, at) /\ g[c] = Plus(c, G) /\ h[c] = Plus(c, G)
  BY <1>18
<1> QED
  BY <1>1, <1>16, <1>17, <1>18, <1>19
==============================================================================
