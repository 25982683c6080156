------------------------ MODULE InterceptPathsProofs ------------------------
(***************************************************************************)
(* What TLAPS proves of InterceptPaths, for any names, configurations and  *)
(* working directories: the longest entry that a path starts with decides. *)
(* The length of a path is defined by recursion; that it is a number, and  *)
(* that of a joined path the sum, is proved by induction, with a set of    *)
(* numbers in the place of a predicate.                                    *)
(***************************************************************************)
EXTENDS InterceptPaths, Integers, SequenceTheorems, WellFoundedInduction, TLAPS

\* A set of numbers that is not empty has a least one.
LEMMA Smallest ==
    ASSUME NEW T, T \subseteq Nat, T # {}
    PROVE  \E m \in T : \A n \in T : m <= n
<1> DEFINE R == OpToRel(<, Nat)
<1>1. IsWellFoundedOn(R, Nat)
  BY NatLessThanWellFounded
<1>2. \A m, n \in Nat : <<m, n>> \in R <=> m < n
  BY DEF OpToRel
<1> HIDE DEF R
<1>3. PICK m \in T : \A n \in T : ~(<<n, m>> \in R)
  BY <1>1, WFMin
<1>4. ASSUME NEW n \in T PROVE m <= n
  <2>1. m \in Nat /\ n \in Nat /\ ~(n < m)
    BY <1>2, <1>3
  <2> QED
    BY <2>1
<1> QED
  BY <1>4

LEMMA Induction ==
    ASSUME NEW T, T \subseteq Nat, 0 \in T, \A n \in T : n + 1 \in T
    PROVE  T = Nat
<1> SUFFICES ASSUME Nat \ T # {} PROVE FALSE
  OBVIOUS
<1>1. PICK m \in Nat \ T : \A n \in Nat \ T : m <= n
  BY Smallest
<1>2. m # 0 /\ m - 1 \in Nat /\ ~(m <= m - 1) /\ (m - 1) + 1 = m
  BY <1>1
<1> QED
  BY <1>1, <1>2

-----------------------------------------------------------------------------
(***************************************************************************)
(* The length of a path.                                                   *)
(***************************************************************************)

\* What the definition asks of f at the path p.
LengthAt(f, p) == f[p] = IF p = << >> THEN 0 ELSE 1 + NameLength[Head(p)] + f[Tail(p)]

Short(n) == {p \in Seq(Names) : Len(p) <= n}
LengthUpTo(n, f) == f \in [Short(n) -> Nat] /\ \A p \in Short(n) : LengthAt(f, p)

LEMMA TailShorter ==
    ASSUME NEW p \in Seq(Names), p # << >>
    PROVE  /\ Head(p) \in Names /\ NameLength[Head(p)] \in Nat
           /\ Tail(p) \in Seq(Names) /\ Len(p) \in Nat \ {0} /\ Len(Tail(p)) = Len(p) - 1
<1>1. Head(p) \in Names /\ Tail(p) \in Seq(Names) /\ Len(p) \in Nat \ {0}
      /\ Len(Tail(p)) = Len(p) - 1
  OBVIOUS
<1> QED
  BY <1>1, NameAssumption

LEMMA LengthsExist == ASSUME NEW n \in Nat PROVE \E f : LengthUpTo(n, f)
<1> DEFINE T == {m \in Nat : \E f : LengthUpTo(m, f)}
<1>1. 0 \in T
  <2> DEFINE f == [p \in Short(0) |-> 0]
  <2>1. \A p \in Short(0) : p = << >>
    BY DEF Short
  <2>2. LengthUpTo(0, f)
    BY <2>1 DEF LengthUpTo, LengthAt
  <2> QED
    BY <2>2
<1>2. ASSUME NEW m \in T PROVE m + 1 \in T
  <2>1. PICK f : LengthUpTo(m, f)
    OBVIOUS
  <2> DEFINE g == [p \in Short(m + 1) |->
                     IF p = << >> THEN 0 ELSE 1 + NameLength[Head(p)] + f[Tail(p)]]
  <2>2. ASSUME NEW p \in Short(m + 1), p # << >> PROVE Tail(p) \in Short(m) /\ f[Tail(p)] \in Nat
    <3>1. Tail(p) \in Short(m)
      BY <2>2, TailShorter DEF Short
    <3> QED
      BY <2>1, <3>1 DEF LengthUpTo
  <2>3. g \in [Short(m + 1) -> Nat]
    <3>1. \A p \in Short(m + 1) :
            (IF p = << >> THEN 0 ELSE 1 + NameLength[Head(p)] + f[Tail(p)]) \in Nat
      BY <2>2, TailShorter DEF Short
    <3> QED
      BY <3>1
  <2>4. \A p \in Short(m) : g[p] = f[p]
    BY <2>1 DEF Short, LengthUpTo, LengthAt
  <2>5. LengthUpTo(m + 1, g)
    BY <2>2, <2>3, <2>4 DEF LengthUpTo, LengthAt
  <2> QED
    BY <2>5
<1> HIDE DEF T
<1>3. T = Nat
  BY <1>1, <1>2, Induction DEF T
<1> QED
  BY <1>3 DEF T

LEMMA LengthsAgree ==
    ASSUME NEW p \in Seq(Names), NEW m \in Nat, NEW k \in Nat, Len(p) <= m, Len(p) <= k,
           NEW f, LengthUpTo(m, f), NEW g, LengthUpTo(k, g)
    PROVE  f[p] = g[p]
<1> DEFINE T == {n \in Nat : \A q \in Seq(Names) : Len(q) = n /\ n <= m /\ n <= k => f[q] = g[q]}
<1>1. 0 \in T
  BY DEF LengthUpTo, LengthAt, Short
<1>2. ASSUME NEW n \in T PROVE n + 1 \in T
  <2> SUFFICES ASSUME NEW q \in Seq(Names), Len(q) = n + 1, n + 1 <= m, n + 1 <= k
               PROVE  f[q] = g[q]
    OBVIOUS
  <2>1. q # << >> /\ q \in Short(m) /\ q \in Short(k)
    BY DEF Short
  <2>2. Tail(q) \in Seq(Names) /\ Len(Tail(q)) = n
    BY <2>1, TailShorter
  <2>3. f[Tail(q)] = g[Tail(q)]
    <3>1. n \in Nat /\ n <= m /\ n <= k
      OBVIOUS
    <3>2. \A u \in Seq(Names) : Len(u) = n /\ n <= m /\ n <= k => f[u] = g[u]
      OBVIOUS
    <3> QED
      BY <2>2, <3>1, <3>2
  <2> QED
    BY <2>1, <2>3 DEF LengthUpTo, LengthAt
<1> HIDE DEF T
<1>3. T = Nat
  BY <1>1, <1>2, Induction DEF T
<1> QED
  BY <1>3 DEF T

LEMMA LengthIs ==
    /\ length \in [Seq(Names) -> Nat]
    /\ length[<< >>] = 0
    /\ \A p \in Seq(Names) :
          p # << >> => length[p] = 1 + NameLength[Head(p)] + length[Tail(p)]
<1> DEFINE upTo(n) == CHOOSE f : LengthUpTo(n, f)
           F == [p \in Seq(Names) |-> upTo(Len(p))[p]]
           Def(f) == f = [p \in Seq(Names) |->
                            IF p = << >> THEN 0 ELSE 1 + NameLength[Head(p)] + f[Tail(p)]]
<1>1. \A n \in Nat : LengthUpTo(n, upTo(n))
  BY LengthsExist
<1> HIDE DEF upTo
<1>2. ASSUME NEW p \in Seq(Names) PROVE F[p] \in Nat /\ LengthAt(F, p)
  <2>1. Len(p) \in Nat /\ p \in Short(Len(p)) /\ LengthUpTo(Len(p), upTo(Len(p)))
    BY <1>1 DEF Short
  <2>2. F[p] = upTo(Len(p))[p] /\ F[p] \in Nat
    BY <2>1 DEF LengthUpTo
  <2>3. CASE p = << >>
    BY <2>1, <2>2, <2>3 DEF LengthUpTo, LengthAt
  <2>4. CASE p # << >>
    <3>1. /\ Tail(p) \in Seq(Names) /\ Len(Tail(p)) \in Nat /\ Len(Tail(p)) <= Len(p)
      BY <2>4, TailShorter
    <3>2. LengthUpTo(Len(Tail(p)), upTo(Len(Tail(p))))
      BY <1>1, <3>1
    <3>3. upTo(Len(p))[Tail(p)] = upTo(Len(Tail(p)))[Tail(p)]
      <4>1. PICK q \in Seq(Names), m \in Nat, k \in Nat :
              q = Tail(p) /\ m = Len(p) /\ k = Len(q)
        BY <2>1, <3>1
      <4>2. Len(q) <= m /\ Len(q) <= k /\ LengthUpTo(m, upTo(m)) /\ LengthUpTo(k, upTo(k))
        BY <1>1, <3>1, <4>1
      <4>3. upTo(m)[q] = upTo(k)[q]
        BY <4>2, LengthsAgree
      <4> QED
        BY <4>1, <4>3
    <3>4. F[Tail(p)] = upTo(Len(p))[Tail(p)]
      BY <3>1, <3>3
    <3>5. upTo(Len(p))[p] = 1 + NameLength[Head(p)] + upTo(Len(p))[Tail(p)]
      BY <2>1, <2>4 DEF LengthUpTo, LengthAt
    <3> QED
      BY <2>2, <2>4, <3>4, <3>5 DEF LengthAt
  <2> QED
    BY <2>2, <2>3, <2>4
<1>3. Def(F)
  BY <1>2 DEF LengthAt
<1>4. length = CHOOSE f : Def(f)
  BY DEF length
<1>5. Def(length)
  BY <1>3, <1>4
<1> HIDE DEF F
<1>6. \A p \in Seq(Names) : LengthAt(length, p)
  BY <1>5 DEF LengthAt
<1> DEFINE T == {n \in Nat : \A p \in Seq(Names) : Len(p) = n => length[p] \in Nat}
<1>7. 0 \in T
  BY <1>6 DEF LengthAt
<1>8. ASSUME NEW n \in T PROVE n + 1 \in T
  <2> SUFFICES ASSUME NEW p \in Seq(Names), Len(p) = n + 1 PROVE length[p] \in Nat
    OBVIOUS
  <2>1. p # << >>
    OBVIOUS
  <2>2. /\ Tail(p) \in Seq(Names) /\ Len(Tail(p)) = n
        /\ NameLength[Head(p)] \in Nat
    BY <2>1, TailShorter
  <2>3. length[Tail(p)] \in Nat
    BY <2>2
  <2> QED
    BY <1>6, <2>1, <2>2, <2>3 DEF LengthAt
<1> HIDE DEF T
<1>9. T = Nat
  BY <1>7, <1>8, Induction DEF T
<1>10. \A p \in Seq(Names) : length[p] \in Nat
  BY <1>9 DEF T
<1> QED
  BY <1>5, <1>6, <1>10 DEF LengthAt

LEMMA LengthOfOne ==
    ASSUME NEW n \in Names
    PROVE  <<n>> \in Seq(Names) /\ length[<<n>>] = 1 + NameLength[n]
<1>1. /\ <<n>> \in Seq(Names) /\ <<n>> # << >> /\ Head(<<n>>) = n
      /\ Tail(<<n>>) \in Seq(Names) /\ Len(Tail(<<n>>)) = 0
  OBVIOUS
<1> DEFINE p == <<n>>
<1>4. Tail(p) = << >>
  BY <1>1, EmptySeq
<1> HIDE DEF p
<1>2. NameLength[n] \in Nat
  BY NameAssumption
<1>3. length[p] = 1 + NameLength[n] + 0
  BY <1>1, <1>4, LengthIs DEF p
<1> QED
  BY <1>1, <1>2, <1>3 DEF p

LEMMA TailJoined ==
    ASSUME NEW S, NEW p \in Seq(S), p # << >>, NEW b \in Seq(S)
    PROVE  /\ p \o b \in Seq(S) /\ p \o b # << >> /\ Head(p \o b) = Head(p)
           /\ Tail(p) \in Seq(S) /\ Tail(p \o b) = Tail(p) \o b
<1>1. PICK r \in Seq(S) : r = p \o b
  BY ConcatProperties
<1>2. /\ Len(p) \in Nat \ {0} /\ Len(b) \in Nat /\ Len(r) = Len(p) + Len(b)
      /\ \A i \in 1 .. Len(p) + Len(b) : r[i] = IF i <= Len(p) THEN p[i] ELSE b[i - Len(p)]
  BY <1>1, ConcatProperties, EmptySeq
<1>3. r # << >> /\ Head(r) = Head(p)
  <2>1. r # << >>
    BY <1>2
  <2>2. Head(r) = r[1] /\ Head(p) = p[1]
    BY <2>1
  <2> QED
    BY <1>2, <2>1, <2>2
<1>4. PICK t \in Seq(S), q \in Seq(S) :
        /\ t = Tail(r) /\ Len(t) = Len(r) - 1 /\ \A i \in 1 .. Len(t) : t[i] = r[i + 1]
        /\ q = Tail(p) /\ Len(q) = Len(p) - 1 /\ \A i \in 1 .. Len(q) : q[i] = p[i + 1]
  <2>1. \A s \in Seq(S) : s # << >> => \E t \in Seq(S) :
          t = Tail(s) /\ Len(t) = Len(s) - 1 /\ \A i \in 1 .. Len(t) : t[i] = s[i + 1]
    BY HeadTailProperties, Zenon
  <2> QED
    BY <1>3, <2>1, Zenon
<1>5. PICK u \in Seq(S) :
        /\ u = q \o b /\ Len(u) = Len(q) + Len(b)
        /\ \A i \in 1 .. Len(q) + Len(b) : u[i] = IF i <= Len(q) THEN q[i] ELSE b[i - Len(q)]
  <2>1. /\ q \o b \in Seq(S) /\ Len(q \o b) = Len(q) + Len(b)
        /\ \A i \in 1 .. Len(q) + Len(b) : (q \o b)[i] = IF i <= Len(q) THEN q[i] ELSE b[i - Len(q)]
    BY ConcatProperties
  <2> QED
    BY <2>1
<1>6. Len(t) = Len(u)
  BY <1>2, <1>4, <1>5
<1>7. ASSUME NEW i \in 1 .. Len(t) PROVE t[i] = u[i]
  <2>1. /\ i \in Nat \ {0} /\ i + 1 \in 1 .. Len(p) + Len(b) /\ i \in 1 .. Len(q) + Len(b)
        /\ (i + 1) - Len(p) = i - Len(q) /\ (i + 1 <= Len(p) <=> i <= Len(q))
    BY <1>2, <1>4
  <2>2. t[i] = IF i + 1 <= Len(p) THEN p[i + 1] ELSE b[(i + 1) - Len(p)]
    BY <1>2, <1>4, <2>1
  <2>3. u[i] = IF i <= Len(q) THEN q[i] ELSE b[i - Len(q)]
    BY <1>5, <2>1
  <2>4. i <= Len(q) => q[i] = p[i + 1]
    BY <1>2, <1>4, <2>1
  <2> QED
    BY <2>1, <2>2, <2>3, <2>4
<1>8. t = u
  BY <1>6, <1>7, SeqEqual
<1> QED
  BY <1>1, <1>3, <1>4, <1>5, <1>8

LEMMA LengthJoined ==
    ASSUME NEW a \in Seq(Names), NEW b \in Seq(Names)
    PROVE  a \o b \in Seq(Names) /\ length[a \o b] = length[a] + length[b]
<1> DEFINE Sums(n) == \A p \in Seq(Names) : Len(p) = n => length[p \o b] = length[p] + length[b]
           T == {n \in Nat : Sums(n)}
<1>1. Sums(0)
  <2> SUFFICES ASSUME NEW p \in Seq(Names), Len(p) = 0 PROVE length[p \o b] = length[p] + length[b]
    OBVIOUS
  <2>1. p = << >> /\ p \o b = b
    BY EmptySeq, ConcatEmptySeq
  <2> QED
    BY <2>1, LengthIs
<1>2. ASSUME NEW n \in Nat, Sums(n) PROVE Sums(n + 1)
  <2> SUFFICES ASSUME NEW p \in Seq(Names), Len(p) = n + 1
               PROVE  length[p \o b] = length[p] + length[b]
    OBVIOUS
  <2>1. p # << >>
    BY EmptySeq
  <2>2. PICK q \in Seq(Names), h \in Names :
          q = Tail(p) /\ h = Head(p) /\ Len(q) = n /\ NameLength[h] \in Nat
    <3>1. /\ Head(p) \in Names /\ NameLength[Head(p)] \in Nat
          /\ Tail(p) \in Seq(Names) /\ Len(Tail(p)) = Len(p) - 1
      BY <2>1, TailShorter
    <3>2. Len(p) - 1 = n
      OBVIOUS
    <3> QED
      BY <3>1, <3>2, Zenon
  <2>3. PICK r \in Seq(Names) : r = p \o b /\ r # << >> /\ Head(r) = h /\ Tail(r) = q \o b
    BY <2>1, <2>2, TailJoined
  <2>4. length[q \o b] = length[q] + length[b]
    BY <1>2, <2>2
  <2> HIDE DEF Sums
  <2>5. /\ length[r] = 1 + NameLength[h] + length[q \o b]
        /\ length[p] = 1 + NameLength[h] + length[q]
    BY <2>1, <2>2, <2>3, LengthIs
  <2>6. length[q] \in Nat /\ length[b] \in Nat
    BY LengthIs
  <2> QED
    BY <2>2, <2>3, <2>4, <2>5, <2>6
<1> HIDE DEF Sums
<1>3. T \subseteq Nat /\ 0 \in T /\ \A n \in T : n + 1 \in T
  BY <1>1, <1>2
<1> HIDE DEF T
<1>4. T = Nat
  BY <1>3, Induction
<1>5. Len(a) \in T
  BY <1>4
<1> QED
  BY <1>5, ConcatProperties DEF T, Sums

\* The length of a path is that of its first n - 1 names, its n-th, and the rest.
LEMMA LengthSplit ==
    ASSUME NEW r \in Seq(Names), NEW n \in 1 .. Len(r)
    PROVE  /\ SubSeq(r, 1, n - 1) \in Seq(Names) /\ SubSeq(r, n + 1, Len(r)) \in Seq(Names)
           /\ Len(SubSeq(r, n + 1, Len(r))) = Len(r) - n /\ r[n] \in Names
           /\ length[r] = length[SubSeq(r, 1, n - 1)] + (1 + NameLength[r[n]])
                            + length[SubSeq(r, n + 1, Len(r))]
<1>1. PICK x \in Names : x = r[n]
  OBVIOUS
<1>2. PICK a \in Seq(Names), c \in Seq(Names) :
        /\ a = SubSeq(r, 1, n - 1) /\ c = SubSeq(r, n + 1, Len(r)) /\ Len(c) = Len(r) - n
  <2>1. SubSeq(r, 1, n - 1) \in Seq(Names) /\ SubSeq(r, n + 1, Len(r)) \in Seq(Names)
        /\ Len(SubSeq(r, n + 1, Len(r))) = Len(r) - n
    OBVIOUS
  <2> QED
    BY <2>1, Zenon
<1>3. SubSeq(r, 1, n) = a \o <<x>>
  BY <1>1, <1>2, SubSeqRecursiveSecond
<1>4. SubSeq(r, 1, n) \o c = SubSeq(r, 1, Len(r)) /\ SubSeq(r, 1, Len(r)) = r
  <2>1. 1 \in 1 .. Len(r) + 1 /\ n \in 1 - 1 .. Len(r) /\ Len(r) \in n .. Len(r)
    OBVIOUS
  <2> QED
    BY <1>2, <2>1, ConcatAdjacentSubSeq, SubSeqFull
<1>5. PICK b \in Seq(Names), s \in Seq(Names) :
        /\ s = <<x>> /\ length[s] = 1 + NameLength[x]
        /\ b = a \o s /\ length[b] = length[a] + length[s]
  <2>1. <<x>> \in Seq(Names) /\ length[<<x>>] = 1 + NameLength[x]
    BY LengthOfOne
  <2>2. a \o <<x>> \in Seq(Names) /\ length[a \o <<x>>] = length[a] + length[<<x>>]
    BY <2>1, LengthJoined, Zenon
  <2> QED
    BY <2>1, <2>2, Zenon
<1>6. length[r] = length[b] + length[c]
  <2>1. b \o c = r
    BY <1>3, <1>4, <1>5
  <2>2. length[b \o c] = length[b] + length[c]
    BY LengthJoined
  <2> QED
    BY <2>1, <2>2
<1> QED
  BY <1>1, <1>2, <1>5, <1>6

LEMMA SubSeqEqual ==
    ASSUME NEW S, NEW q \in Seq(S), NEW r \in Seq(S), NEW n \in Nat, n <= Len(q), n <= Len(r),
           \A i \in 1 .. n : q[i] = r[i]
    PROVE  SubSeq(q, 1, n) = SubSeq(r, 1, n)
<1>1. PICK a \in Seq(S), b \in Seq(S) :
        /\ a = SubSeq(q, 1, n) /\ Len(a) = n /\ \A i \in 1 .. n : a[i] = q[i]
        /\ b = SubSeq(r, 1, n) /\ Len(b) = n /\ \A i \in 1 .. n : b[i] = r[i]
  <2>1. ASSUME NEW s \in Seq(S), n <= Len(s)
        PROVE  /\ SubSeq(s, 1, n) \in Seq(S) /\ Len(SubSeq(s, 1, n)) = n
               /\ \A i \in 1 .. n : SubSeq(s, 1, n)[i] = s[i]
    BY <2>1
  <2> QED
    BY <2>1, Zenon
<1> QED
  BY <1>1, SeqEqual

\* Two entries that a path starts with are the same if they are equally long.
LEMMA StartsAgree ==
    ASSUME NEW p \in Path, NEW q \in Path, NEW r \in Path,
           FindsAtStart(p, q), FindsAtStart(p, r), Len(q) <= Len(r), length[q] = length[r]
    PROVE  q = r
<1>1. /\ p \in Seq(Names) /\ q \in Seq(Names) /\ r \in Seq(Names)
      /\ Len(q) \in Nat \ {0} /\ Len(r) \in Nat /\ Len(q) <= Len(p) /\ Len(r) <= Len(p)
  BY EmptySeq, LenProperties DEF Path, FindsAtStart
<1>2. PICK n \in Nat \ {0} : n = Len(q)
  BY <1>1
<1>3. n \in 1 .. Len(q) /\ n \in 1 .. Len(r) /\ n \in 1 .. Len(p) /\ n - 1 \in Nat
  BY <1>1, <1>2
<1>4. PICK x \in Names, y \in Names, z \in Names : x = q[n] /\ y = r[n] /\ z = p[n]
  BY <1>1, <1>3, ElementOfSeq
<1>5. \A i \in 1 .. n - 1 : q[i] = r[i]
  BY <1>1, <1>2 DEF FindsAtStart
<1>6. SubSeq(q, 1, n - 1) = SubSeq(r, 1, n - 1)
  BY <1>1, <1>3, <1>5, SubSeqEqual
<1>7. PICK a \in Nat, c \in Seq(Names), d \in Seq(Names) :
        /\ length[q] = a + (1 + NameLength[x]) + length[d] /\ Len(d) = 0
        /\ length[r] = a + (1 + NameLength[y]) + length[c] /\ Len(c) = Len(r) - n
  <2>1. PICK a \in Seq(Names), d \in Seq(Names) :
          /\ a = SubSeq(q, 1, n - 1) /\ Len(d) = Len(q) - n
          /\ length[q] = length[a] + (1 + NameLength[x]) + length[d]
    BY <1>1, <1>3, <1>4, LengthSplit, Zenon
  <2>2. PICK b \in Seq(Names), c \in Seq(Names) :
          /\ b = SubSeq(r, 1, n - 1) /\ Len(c) = Len(r) - n
          /\ length[r] = length[b] + (1 + NameLength[y]) + length[c]
    BY <1>1, <1>3, <1>4, LengthSplit, Zenon
  <2>3. a = b /\ Len(q) - n = 0
    BY <1>2, <1>6, <2>1, <2>2
  <2>4. length[a] \in Nat
    BY LengthIs
  <2> QED
    BY <2>1, <2>2, <2>3, <2>4
<1>8. PICK lx \in Nat, ly \in Nat, lz \in Nat, lc \in Nat :
        /\ lx = NameLength[x] /\ ly = NameLength[y] /\ lz = NameLength[z] /\ lc = length[c]
        /\ lx = ly + lc
  <2>1. d = << >>
    BY <1>7, EmptySeq
  <2>2. length[d] = 0
    BY <2>1, LengthIs
  <2>3. NameLength[x] \in Nat /\ NameLength[y] \in Nat /\ NameLength[z] \in Nat
    BY NameAssumption
  <2>4. length[c] \in Nat
    BY LengthIs
  <2>5. PICK lx \in Nat, ly \in Nat, lz \in Nat, lc \in Nat, lq \in Nat :
          /\ lx = NameLength[x] /\ ly = NameLength[y] /\ lz = NameLength[z] /\ lc = length[c]
          /\ lq = length[q] /\ lq = length[r]
    <3>1. length[q] \in Nat
      BY <1>1, LengthIs
    <3> QED
      BY <2>3, <2>4, <3>1
  <2>6. lq = a + (1 + lx) + 0 /\ lq = a + (1 + ly) + lc
    BY <1>7, <2>2, <2>5, Zenon
  <2>7. lx = ly + lc
    BY <2>6
  <2> QED
    BY <2>5, <2>7, Zenon
<1>9. <<z, x>> \in Begins
  BY <1>2, <1>4 DEF FindsAtStart
<1>10. CASE Len(r) = n
  <2>1. <<z, y>> \in Begins
    BY <1>4, <1>10 DEF FindsAtStart
  <2>2. c = << >>
    BY <1>7, <1>10, EmptySeq
  <2>3. lx = ly /\ lx <= ly
    <3>1. lc = 0
      BY <1>8, <2>2, LengthIs
    <3> QED
      BY <1>8, <3>1
  <2>4. NameLength[x] = NameLength[y] /\ NameLength[x] <= NameLength[y]
    BY <1>8, <2>3, Zenon
  <2>5. <<y, x>> \in Begins
    BY <1>9, <2>1, <2>4, NameAssumption
  <2>6. x = y
    BY <2>4, <2>5, NameAssumption
  <2>7. \A i \in 1 .. Len(q) : q[i] = r[i]
    <3>1. \A i \in 1 .. n : i = n \/ i \in 1 .. n - 1
      OBVIOUS
    <3> QED
      BY <1>2, <1>4, <1>5, <2>6, <3>1
  <2> QED
    BY <1>1, <1>2, <1>10, <2>7, SeqEqual
<1>11. CASE Len(r) # n
  <2>1. n \in 1 .. Len(r) - 1
    BY <1>1, <1>2, <1>11
  <2>2. y = z
    BY <1>4, <2>1 DEF FindsAtStart
  <2>3. c # << >>
    BY <1>1, <1>2, <1>7, <1>11, EmptySeq
  <2>4. lc >= 1
    <3>1. PICK h \in Nat, k \in Nat : length[c] = 1 + h + k
      BY <2>3, TailShorter, LengthIs
    <3> QED
      BY <1>8, <3>1
  <2>5. lx <= ly
    <3>1. NameLength[x] <= NameLength[z]
      BY <1>9, NameAssumption
    <3> QED
      BY <1>8, <2>2, <3>1
  <2> QED
    BY <1>8, <2>4, <2>5
<1> QED
  BY <1>10, <1>11

-----------------------------------------------------------------------------
(***************************************************************************)
(* The inductive invariant: the entries that are tried are the configured  *)
(* ones, longest first, and an answer is the one of the first that hits.   *)
(***************************************************************************)

EntriesConfigured ==
    /\ \A i \in DOMAIN path_entries_ : \E j \in DOMAIN configured : path_entries_[i] = configured[j]
    /\ \A j \in DOMAIN configured : \E i \in DOMAIN path_entries_ : path_entries_[i] = configured[j]

LongestFirst ==
    \A i, j \in DOMAIN path_entries_ :
        i < j => length[path_entries_[i].path] >= length[path_entries_[j].path]

Hits(p) == {i \in DOMAIN path_entries_ : FindsAtStart(p, path_entries_[i].path)}

FirstDecides ==
    state = "answered" =>
        answer = \E i \in Hits(asked) : /\ \A j \in Hits(asked) : i <= j
                                        /\ path_entries_[i].do_include

PathsInv == TypeOK /\ EntriesConfigured /\ LongestFirst /\ FirstDecides

LEMMA AbsoluteIsPath ==
    ASSUME NEW given \in Given, NEW cwd \in Path
    PROVE  Absolute(given, cwd) \in Path
<1>1. given.path \in Path
  BY DEF Given
<1>2. \A p, q \in Path : p \o q \in Path
  <2>1. ASSUME NEW p \in Path, NEW q \in Path PROVE p \o q \in Path
    <3>1. p \in Seq(Names) /\ q \in Seq(Names) /\ Len(q) # 0
      BY EmptySeq DEF Path
    <3>2. p \o q \in Seq(Names) /\ Len(p \o q) = Len(p) + Len(q) /\ Len(p) \in Nat /\ Len(q) \in Nat
      BY <3>1
    <3>3. Len(p \o q) # 0
      BY <3>1, <3>2
    <3> QED
      BY <3>2, <3>3, EmptySeq DEF Path
  <2> QED
    BY <2>1
<1> QED
  BY <1>1, <1>2 DEF Absolute

LEMMA EntryIs ==
    ASSUME NEW p \in Path, NEW include \in BOOLEAN
    PROVE  Entry(p, include) \in PathEntry /\ Entry(p, include).path = p
           /\ Entry(p, include).do_include = include
BY DEF Entry, PathEntry

\* A list of the configuration, as entries.
LEMMA ListIs ==
    ASSUME NEW list \in Lists, NEW cwd \in Path, NEW include \in BOOLEAN
    PROVE  [i \in DOMAIN list |-> Entry(Absolute(list[i], cwd), include)] \in Seq(PathEntry)
<1>1. PICK n \in Nat : list \in [1 .. n -> Listed]
  BY EntriesAssumption DEF Lists
<1>2. \A i \in 1 .. n : Entry(Absolute(list[i], cwd), include) \in PathEntry
  BY <1>1, AbsoluteIsPath, EntryIs, PathAssumption
<1>3. DOMAIN list = 1 .. n
  BY <1>1
<1> DEFINE s == [i \in 1 .. n |-> Entry(Absolute(list[i], cwd), include)]
<1>4. s \in [1 .. n -> PathEntry]
  BY <1>2
<1>5. s \in Seq(PathEntry)
  BY <1>4
<1> QED
  BY <1>3, <1>5

\* A sorted list has the entries of the list, longest first.
LEMMA SortedIs ==
    ASSUME NEW entries \in Seq(PathEntry), NEW sorted \in Sortings(entries)
    PROVE  /\ sorted \in Seq(PathEntry)
           /\ \A i \in DOMAIN sorted : \E j \in DOMAIN entries : sorted[i] = entries[j]
           /\ \A j \in DOMAIN entries : \E i \in DOMAIN sorted : sorted[i] = entries[j]
           /\ \A i, j \in DOMAIN sorted : i < j => length[sorted[i].path] >= length[sorted[j].path]
<1>1. PICK perm \in Bijection(DOMAIN entries, DOMAIN entries) :
        sorted = [i \in DOMAIN entries |-> entries[perm[i]]]
  BY DEF Sortings
<1>2. \A i, j \in DOMAIN entries : i < j => length[sorted[i].path] >= length[sorted[j].path]
  BY DEF Sortings
<1>3. /\ perm \in [DOMAIN entries -> DOMAIN entries]
      /\ \A j \in DOMAIN entries : \E i \in DOMAIN entries : perm[i] = j
  BY DEF Bijection, Injection, Surjection
<1>4. DOMAIN sorted = DOMAIN entries /\ \A i \in DOMAIN entries : sorted[i] = entries[perm[i]]
  BY <1>1
<1>5. PICK n \in Nat : DOMAIN entries = 1 .. n /\ \A i \in 1 .. n : entries[i] \in PathEntry
  <2>1. Len(entries) \in Nat /\ DOMAIN entries = 1 .. Len(entries)
        /\ \A i \in 1 .. Len(entries) : entries[i] \in PathEntry
    OBVIOUS
  <2> QED
    BY <2>1
<1>6. sorted \in [1 .. n -> PathEntry]
  BY <1>1, <1>3, <1>5
<1>7. sorted \in Seq(PathEntry)
  BY <1>6
<1> QED
  BY <1>2, <1>3, <1>4, <1>7

\* "/" is not longer than any path.
LEMMA RootIsShortest ==
    ASSUME NEW p \in Path
    PROVE  Root \in Path /\ length[Root] <= length[p]
<1>1. PICK h \in Nat, t \in Nat : length[p] = 1 + h + t
  BY TailShorter, LengthIs DEF Path
<1>2. Root \in Path /\ length[Root] = 1
  <2>1. Empty \in Names /\ NameLength[Empty] = 0
    BY NameAssumption
  <2>2. Root \in Seq(Names) /\ Root # << >>
    BY <2>1, EmptySeq DEF Root
  <2>3. length[Root] = 1 + NameLength[Empty]
    BY <2>1, LengthOfOne, Zenon DEF Root
  <2> QED
    BY <2>1, <2>2, <2>3 DEF Path
<1> QED
  BY <1>1, <1>2

LEMMA InvInit == Init => PathsInv
<1> SUFFICES ASSUME Init PROVE PathsInv
  OBVIOUS
<1>1. path_entries_ = << >> /\ configured = << >> /\ DOMAIN << >> = {} /\ state = "start"
  BY DEF Init
<1>2. << >> \in Seq(PathEntry)
  OBVIOUS
<1>3. TypeOK
  <2>1. Tmp \in Path
    BY PathAssumption
  <2>2. Root \in Path
    BY <2>1, RootIsShortest
  <2> QED
    BY <1>1, <1>2, <2>2 DEF TypeOK, Init
<1>4. EntriesConfigured /\ LongestFirst /\ FirstDecides
  BY <1>1 DEF EntriesConfigured, LongestFirst, FirstDecides
<1> QED
  BY <1>3, <1>4 DEF PathsInv

LEMMA InvLoadDefault ==
    ASSUME PathsInv, LoadDefault
    PROVE  PathsInv'
<1>1. Tmp \in Path /\ Root \in Path /\ length[Root] <= length[Tmp]
  BY PathAssumption, RootIsShortest
<1>2. PICK e \in PathEntry, f \in PathEntry :
        e = Entry(Tmp, TRUE) /\ e.path = Tmp /\ f = Entry(Root, FALSE) /\ f.path = Root
  BY <1>1, EntryIs
<1>3. path_entries_' = <<e, f>> /\ configured' = <<e, f>> /\ state' = "loaded"
      /\ asked' = asked /\ answer' = answer
  BY <1>2 DEF LoadDefault
<1>4. <<e, f>> \in Seq(PathEntry) /\ DOMAIN <<e, f>> = 1 .. 2
      /\ <<e, f>>[1] = e /\ <<e, f>>[2] = f
  OBVIOUS
<1>5. TypeOK'
  BY <1>3, <1>4 DEF PathsInv, TypeOK
<1>6. EntriesConfigured'
  BY <1>3 DEF EntriesConfigured
<1>7. LongestFirst'
  <2> SUFFICES ASSUME NEW i \in 1 .. 2, NEW j \in 1 .. 2, i < j
               PROVE  length[<<e, f>>[i].path] >= length[<<e, f>>[j].path]
    BY <1>3, <1>4 DEF LongestFirst
  <2>1. i = 1 /\ j = 2
    OBVIOUS
  <2>2. PICK lr \in Nat, lt \in Nat : lr = length[Root] /\ lt = length[Tmp] /\ lr <= lt
    <3>1. Root \in Seq(Names) /\ Tmp \in Seq(Names)
      BY <1>1 DEF Path
    <3> QED
      BY <1>1, <3>1, LengthIs
  <2>3. length[<<e, f>>[i].path] = lt /\ length[<<e, f>>[j].path] = lr
    BY <1>2, <1>4, <2>1, <2>2
  <2> QED
    BY <2>2, <2>3
<1>8. FirstDecides'
  BY <1>3 DEF FirstDecides
<1> QED
  BY <1>5, <1>6, <1>7, <1>8 DEF PathsInv

LEMMA InvParseYAML ==
    ASSUME PathsInv, NEW include \in Lists, NEW exclude \in Lists, NEW cwd \in Cwds,
           ParseYAML(include, exclude, cwd)
    PROVE  PathsInv'
<1>1. cwd \in Path
  BY PathAssumption
<1>2. PICK s \in Seq(PathEntry), t \in Seq(PathEntry) :
        /\ s = [i \in DOMAIN include |-> Entry(Absolute(include[i], cwd), TRUE)]
        /\ t = [i \in DOMAIN exclude |-> Entry(Absolute(exclude[i], cwd), FALSE)]
  BY <1>1, ListIs
<1>3. configured' = s \o t /\ path_entries_' \in Sortings(configured') /\ state' = "loaded"
      /\ asked' = asked /\ answer' = answer
  BY <1>2 DEF ParseYAML
<1>4. s \o t \in Seq(PathEntry)
  OBVIOUS
<1>5. /\ path_entries_' \in Seq(PathEntry)
      /\ EntriesConfigured' /\ LongestFirst'
  BY <1>3, <1>4, SortedIs DEF EntriesConfigured, LongestFirst
<1>6. TypeOK'
  BY <1>3, <1>4, <1>5 DEF PathsInv, TypeOK
<1>7. FirstDecides'
  BY <1>3 DEF FirstDecides
<1> QED
  BY <1>5, <1>6, <1>7 DEF PathsInv

LEMMA InvShouldIntercept ==
    ASSUME PathsInv, NEW given \in Opened, NEW cwd \in Cwds, ShouldIntercept(given, cwd)
    PROVE  PathsInv'
<1>1. asked' \in Path
  BY PathAssumption, AbsoluteIsPath DEF ShouldIntercept
<1>2. path_entries_' = path_entries_ /\ configured' = configured /\ state' = "answered"
  BY DEF ShouldIntercept
<1>3. answer' = \E i \in Hits(asked)' : /\ \A j \in Hits(asked)' : i <= j
                                        /\ path_entries_[i].do_include
  BY <1>2 DEF ShouldIntercept, Hits
<1>4. answer' \in BOOLEAN
  BY <1>3
<1>5. TypeOK'
  BY <1>1, <1>2, <1>4 DEF PathsInv, TypeOK
<1>6. EntriesConfigured' /\ LongestFirst'
  BY <1>2 DEF PathsInv, EntriesConfigured, LongestFirst
<1>7. FirstDecides'
  BY <1>2, <1>3 DEF FirstDecides
<1> QED
  BY <1>5, <1>6, <1>7 DEF PathsInv

LEMMA InvNext == PathsInv /\ [Next]_vars => PathsInv'
<1> SUFFICES ASSUME PathsInv, [Next]_vars PROVE PathsInv'
  OBVIOUS
<1>1. CASE LoadDefault
  BY <1>1, InvLoadDefault
<1>2. CASE \E include, exclude \in Lists, cwd \in Cwds : ParseYAML(include, exclude, cwd)
  BY <1>2, InvParseYAML
<1>3. CASE \E given \in Opened, cwd \in Cwds : ShouldIntercept(given, cwd)
  BY <1>3, InvShouldIntercept
<1>4. CASE UNCHANGED vars
  BY <1>4 DEF vars, PathsInv, TypeOK, EntriesConfigured, LongestFirst, FirstDecides, Hits
<1> QED
  BY <1>1, <1>2, <1>3, <1>4 DEF Next

LEMMA InvAlways == Spec => []PathsInv
BY InvInit, InvNext, PTL DEF Spec

-----------------------------------------------------------------------------
(***************************************************************************)
(* The theorems.                                                           *)
(***************************************************************************)

\* The entries, the configuration and the last question always have their
\* types: whatever is listed, it is a list of paths that is sorted and searched.
THEOREM TypeCorrect == Spec => []TypeOK
<1>1. PathsInv => TypeOK
  BY DEF PathsInv
<1> QED
  BY <1>1, InvAlways, PTL

\* The first entry in the order of the sort that a path starts with is one of
\* the longest configured entries that it starts with, so these decide alone.
LEMMA FirstIsLongest == PathsInv => LongestMatchDecides
<1> SUFFICES ASSUME PathsInv, state = "answered"
             PROVE  \/ Matching(asked) = {} /\ answer = FALSE
                    \/ \E i \in Matching(asked) :
                          /\ answer = configured[i].do_include
                          /\ \A j \in Matching(asked) :
                               length[configured[j].path] <= length[configured[i].path]
  BY DEF LongestMatchDecides
<1>1. answer = \E i \in Hits(asked) : /\ \A j \in Hits(asked) : i <= j
                                      /\ path_entries_[i].do_include
  BY DEF PathsInv, FirstDecides
<1>2. /\ \A i \in DOMAIN path_entries_ : i \in Nat /\ path_entries_[i] \in PathEntry
      /\ \A j \in DOMAIN configured : configured[j] \in PathEntry
  BY DEF PathsInv, TypeOK
<1>3. \A j \in Matching(asked) : \E i \in Hits(asked) : path_entries_[i] = configured[j]
  BY DEF PathsInv, EntriesConfigured, Matching, Hits
<1>4. \A i \in Hits(asked) : \E j \in Matching(asked) : path_entries_[i] = configured[j]
  BY DEF PathsInv, EntriesConfigured, Matching, Hits
<1>5. CASE Hits(asked) = {}
  BY <1>1, <1>3, <1>5
<1>6. CASE Hits(asked) # {}
  <2>1. Hits(asked) \subseteq Nat /\ Hits(asked) \subseteq DOMAIN path_entries_
    BY <1>2 DEF Hits
  <2>2. PICK m \in Hits(asked) : \A i \in Hits(asked) : m <= i
    BY <1>6, <2>1, Smallest
  <2>3. answer = path_entries_[m].do_include
    <3>1. \A i \in Hits(asked) : (\A j \in Hits(asked) : i <= j) <=> i = m
      BY <2>1, <2>2
    <3>2. path_entries_[m].do_include \in BOOLEAN
      BY <1>2, <2>1 DEF PathEntry
    <3>3. answer = \E i \in Hits(asked) : i = m /\ path_entries_[i].do_include
      BY <1>1, <3>1
    <3> QED
      BY <3>2, <3>3
  <2>4. PICK k \in Matching(asked) : path_entries_[m] = configured[k]
    BY <1>4
  <2>5. ASSUME NEW j \in Matching(asked)
        PROVE  length[configured[j].path] <= length[configured[k].path]
    <3>1. PICK i \in Hits(asked) : path_entries_[i] = configured[j]
      BY <1>3
    <3>2. PICK li \in Nat, lm \in Nat :
            li = length[path_entries_[i].path] /\ lm = length[path_entries_[m].path]
      <4>1. path_entries_[i].path \in Seq(Names) /\ path_entries_[m].path \in Seq(Names)
        BY <1>2, <2>1 DEF PathEntry, Path
      <4> QED
        BY <4>1, LengthIs
    <3>3. m = i \/ m < i
      BY <2>1, <2>2
    <3>4. li <= lm
      <4>1. CASE m = i
        BY <3>2, <4>1
      <4>2. CASE m < i
        <5>1. lm >= li
          BY <2>1, <3>2, <4>2 DEF PathsInv, LongestFirst
        <5> QED
          BY <5>1
      <4> QED
        BY <3>3, <4>1, <4>2
    <3> QED
      BY <2>4, <3>1, <3>2, <3>4, Zenon
  <2> QED
    BY <2>3, <2>4, <2>5
<1> QED
  BY <1>5, <1>6

\* Of the entries that a path starts with one of the longest has decided, in
\* whatever order the configuration lists them and however the sort orders
\* entries of one length.
THEOREM LongestDecides == Spec => []LongestMatchDecides
BY FirstIsLongest, InvAlways, PTL

\* Two entries that a path starts with and that are equally long are of one
\* path, though an entry may end within a name: what std::sort leaves open
\* matters only for a path that is both included and excluded.
THEOREM TiesSame == Spec => []TiesAreOfOnePath
<1>1. ASSUME PathsInv PROVE TiesAreOfOnePath
  <2> SUFFICES ASSUME NEW i \in Matching(asked), NEW j \in Matching(asked),
                      length[configured[i].path] = length[configured[j].path]
               PROVE  configured[i].path = configured[j].path
    BY DEF TiesAreOfOnePath
  <2>1. PICK p \in Path, q \in Path, r \in Path :
          /\ p = asked /\ q = configured[i].path /\ r = configured[j].path
          /\ FindsAtStart(p, q) /\ FindsAtStart(p, r) /\ length[q] = length[r]
    <3>1. configured[i] \in PathEntry /\ configured[j] \in PathEntry
          /\ FindsAtStart(asked, configured[i].path) /\ FindsAtStart(asked, configured[j].path)
      BY <1>1 DEF Matching, PathsInv, TypeOK
    <3> QED
      BY <1>1, <3>1 DEF PathEntry, PathsInv, TypeOK
  <2>2. Len(q) \in Nat /\ Len(r) \in Nat
    BY DEF Path
  <2>3. CASE Len(q) <= Len(r)
    BY <2>1, <2>3, StartsAgree
  <2>4. CASE Len(r) <= Len(q)
    BY <2>1, <2>4, StartsAgree
  <2> QED
    BY <2>1, <2>2, <2>3, <2>4
<1>2. PathsInv => TiesAreOfOnePath
  BY <1>1
<1> QED
  BY <1>2, InvAlways, PTL
=============================================================================
