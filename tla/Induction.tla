----------------------------- MODULE Induction -----------------------------
(***************************************************************************)
(* Induction over the naturals and over sequences for a set instead of a   *)
(* predicate, and what follows from it: recursive functions exist, and     *)
(* sequences of sequences are put together from the first to the last.     *)
(***************************************************************************)
EXTENDS Naturals, FiniteSets, SequencesExt, FiniteSetTheorems, SequenceTheorems,
        WellFoundedInduction, TLAPS

\* A set that has 0, and n + 1 whenever it has n, has every natural.
LEMMA NatInductive ==
    ASSUME NEW S, 0 \in S, \A n \in Nat : n \in S => n + 1 \in S
    PROVE  Nat \subseteq S
<1> SUFFICES ASSUME NEW x \in Nat, x \notin S
             PROVE  FALSE
  OBVIOUS
<1> DEFINE F == {1..m : m \in Nat \ S}
<1>1. F \subseteq FiniteSubsetsOf(Nat) /\ F # {}
  <2>1. \A m \in Nat : IsFiniteSet(1..m)
    BY FS_Interval
  <2> QED
    BY <2>1 DEF FiniteSubsetsOf
<1>2. IsWellFoundedOn(StrictSubsetOrdering(Nat), FiniteSubsetsOf(Nat))
  BY FS_StrictSubsetOrderingWellFounded
<1> HIDE DEF F
<1>3. \E X \in F : \A Y \in F : ~(<<Y, X>> \in StrictSubsetOrdering(Nat))
  BY <1>1, <1>2, WFMin
<1>4. PICK m \in Nat \ S :
         \A n \in Nat \ S : ~(<<1..n, 1..m>> \in StrictSubsetOrdering(Nat))
  BY <1>3 DEF F
<1>5. m # 0 /\ m - 1 \in Nat /\ m - 1 + 1 = m
  BY <1>4
<1>6. m - 1 \notin S
  BY <1>4, <1>5
<1>7. <<1..(m - 1), 1..m>> \in StrictSubsetOrdering(Nat)
  <2>1. 1..(m - 1) \subseteq Nat /\ 1..m \subseteq Nat /\ 1..(m - 1) \subseteq 1..m
    BY <1>5
  <2>2. m \in 1..m /\ m \notin 1..(m - 1)
    BY <1>5
  <2> QED
    BY <2>1, <2>2 DEF StrictSubsetOrdering
<1> QED
  BY <1>4, <1>5, <1>6, <1>7

\* A set of naturals that is not empty has a least member.
LEMMA LeastExists ==
    ASSUME NEW S \in SUBSET Nat, S # {}
    PROVE  \E x \in S : \A y \in S : x <= y
<1> SUFFICES ASSUME \A x \in S : \E y \in S : ~(x <= y)
             PROVE  FALSE
  OBVIOUS
<1> DEFINE T == {n \in Nat : \A m \in 0..n : m \notin S}
<1>1. 0 \in T
  <2>1. 0 \notin S
    OBVIOUS
  <2> QED
    BY <2>1
<1>2. ASSUME NEW n \in Nat, n \in T
      PROVE  n + 1 \in T
  <2>1. n + 1 \notin S
    BY <1>2
  <2> QED
    BY <1>2, <2>1
<1>3. Nat \subseteq T
  <2> HIDE DEF T
  <2> QED
    BY <1>1, <1>2, NatInductive
<1>4. PICK x \in S : TRUE
  OBVIOUS
<1>5. x \in Nat /\ x \in 0..x /\ x \in T
  BY <1>3
<1> QED
  BY <1>5

\* A set of naturals that is not empty has its minimum.
LEMMA MinIsIn ==
    ASSUME NEW S \in SUBSET Nat, S # {}
    PROVE  Min(S) \in S /\ \A y \in S : Min(S) <= y
<1>1. \E x \in S : \A y \in S : x <= y
  BY LeastExists
<1> QED
  BY <1>1 DEF Min

\* Strong induction: a set that has n whenever it has every number below n
\* has every natural.
LEMMA NatStrong ==
    ASSUME NEW P, \A n \in Nat : (\A k \in 0..(n - 1) : k \in P) => n \in P
    PROVE  Nat \subseteq P
<1> DEFINE T == {n \in Nat : \A k \in 0..n : k \in P}
<1>1. 0 \in T
  <2>1. 0 \in P
    OBVIOUS
  <2> QED
    BY <2>1
<1>2. ASSUME NEW n \in Nat, n \in T
      PROVE  n + 1 \in T
  <2>1. \A k \in 0..(n + 1 - 1) : k \in P
    BY <1>2
  <2>2. n + 1 \in P
    BY <2>1
  <2> QED
    BY <1>2, <2>2
<1>3. Nat \subseteq T
  <2> HIDE DEF T
  <2> QED
    BY <1>1, <1>2, NatInductive
<1> QED
  BY <1>3

\* g begins with r and goes on with G of what comes before.
Recurs(g, m, r, G) == \A n \in 1..m : g[n] = IF n = 1 THEN r ELSE G[g[n - 1]]

\* A function may be defined by recursion on the numbers from 1 to m.
LEMMA RecursionExists ==
    ASSUME NEW X, NEW r \in X, NEW G \in [X -> X], NEW m \in Nat
    PROVE  \E g \in [1..m -> X] : Recurs(g, m, r, G)
<1> DEFINE Is(g, k) == /\ g \in [1..k -> X]
                       /\ \A n \in 1..k : g[n] = IF n = 1 THEN r ELSE G[g[n - 1]]
           S == {k \in Nat : \E g : Is(g, k)}
<1>1. 0 \in S
  <2>1. Is([n \in 1..0 |-> r], 0)
    OBVIOUS
  <2> QED
    BY <2>1
<1>2. ASSUME NEW k \in Nat, k \in S
      PROVE  k + 1 \in S
  <2>1. PICK g : Is(g, k)
    BY <1>2
  <2> DEFINE h == [n \in 1..(k + 1) |->
                     IF n <= k THEN g[n] ELSE IF k = 0 THEN r ELSE G[g[k]]]
  <2>2. h \in [1..(k + 1) -> X]
    <3> SUFFICES ASSUME NEW n \in 1..(k + 1)
                 PROVE  (IF n <= k THEN g[n] ELSE IF k = 0 THEN r ELSE G[g[k]]) \in X
      OBVIOUS
    <3> QED
      BY <2>1
  <2>3. \A n \in 1..(k + 1) : h[n] = IF n = 1 THEN r ELSE G[h[n - 1]]
    <3> SUFFICES ASSUME NEW n \in 1..(k + 1)
                 PROVE  h[n] = IF n = 1 THEN r ELSE G[h[n - 1]]
      OBVIOUS
    <3>1. CASE n <= k
      <4>1. n \in 1..k /\ h[n] = g[n] /\ (n # 1 => n - 1 \in 1..k /\ h[n - 1] = g[n - 1])
        BY <3>1
      <4> QED
        BY <2>1, <4>1
    <3>2. CASE n = k + 1
      <4>1. h[n] = IF k = 0 THEN r ELSE G[g[k]]
        BY <3>2
      <4>2. k # 0 => n - 1 = k /\ n - 1 \in 1..(k + 1) /\ h[n - 1] = g[k]
        BY <3>2
      <4> HIDE DEF h
      <4> QED
        BY <3>2, <4>1, <4>2
    <3> QED
      BY <3>1, <3>2
  <2> HIDE DEF h
  <2>4. Is(h, k + 1)
    BY <2>2, <2>3
  <2> QED
    BY <2>4
<1>3. m \in S
  <2> HIDE DEF S
  <2> QED
    BY <1>1, <1>2, NatInductive
<1> QED
  BY <1>3 DEF Recurs

\* g begins with r at 0 and goes on with G of the place and what comes before.
RecursFrom(g, m, r, G) == g[0] = r /\ \A n \in 1..m : g[n] = G[<<n, g[n - 1]>>]

\* A function may be defined by such a recursion on the numbers from 0 to m.
LEMMA IndexedRecursionExists ==
    ASSUME NEW X, NEW r \in X, NEW m \in Nat, NEW G \in [(1..m) \X X -> X]
    PROVE  \E g \in [0..m -> X] : RecursFrom(g, m, r, G)
<1> DEFINE Is(g, k) == /\ g \in [0..k -> X] /\ g[0] = r
                       /\ \A n \in 1..k : g[n] = G[<<n, g[n - 1]>>]
           S == {k \in Nat : k <= m => \E g : Is(g, k)}
<1>1. 0 \in S
  <2>1. Is([n \in 0..0 |-> r], 0)
    OBVIOUS
  <2> QED
    BY <2>1
<1>2. ASSUME NEW k \in Nat, k \in S
      PROVE  k + 1 \in S
  <2> SUFFICES ASSUME k + 1 <= m
               PROVE  \E g : Is(g, k + 1)
    OBVIOUS
  <2>1. PICK g : Is(g, k)
    BY <1>2
  <2> DEFINE new == G[<<k + 1, g[k]>>]
             h == [n \in 0..(k + 1) |-> IF n <= k THEN g[n] ELSE new]
  <2>2. new \in X
    <3>1. k + 1 \in 1..m /\ g[k] \in X
      BY <2>1
    <3>2. <<k + 1, g[k]>> \in (1..m) \X X
      BY <3>1
    <3> QED
      BY <3>2
  <2>3. \A n \in 0..k : h[n] = g[n]
    OBVIOUS
  <2>4. h[k + 1] = new
    OBVIOUS
  <2>5. h \in [0..(k + 1) -> X]
    <3> SUFFICES ASSUME NEW n \in 0..(k + 1)
                 PROVE  (IF n <= k THEN g[n] ELSE new) \in X
      OBVIOUS
    <3> HIDE DEF new
    <3> QED
      BY <2>1, <2>2
  <2> HIDE DEF h
  <2>6. ASSUME NEW n \in 1..(k + 1)
        PROVE  h[n] = G[<<n, h[n - 1]>>]
    <3>1. CASE n \in 1..k
      <4>1. n - 1 \in 0..k /\ n \in 0..k
        BY <3>1
      <4> QED
        BY <2>1, <2>3, <3>1, <4>1
    <3>2. CASE n = k + 1
      <4>1. n - 1 = k /\ k \in 0..k
        BY <3>2
      <4> QED
        BY <2>3, <2>4, <3>2, <4>1
    <3>3. n \in 1..k \/ n = k + 1
      BY <2>6
    <3> QED
      BY <3>1, <3>2, <3>3
  <2>7. h[0] = r
    BY <2>1, <2>3
  <2> QED
    BY <2>5, <2>6, <2>7
<1>3. m \in S
  <2> HIDE DEF S
  <2> QED
    BY <1>1, <1>2, NatInductive
<1> QED
  BY <1>3 DEF RecursFrom

-----------------------------------------------------------------------------
(***************************************************************************)
(* Sequences.                                                              *)
(***************************************************************************)

\* A set that has the empty sequence, and s with one more element whenever
\* it has s, has every sequence.
LEMMA SeqInductive ==
    ASSUME NEW S, NEW P, <<>> \in P,
           \A s \in Seq(S), c \in S : s \in P => Append(s, c) \in P
    PROVE  Seq(S) \subseteq P
<1> DEFINE T == {n \in Nat : \A s \in Seq(S) : Len(s) = n => s \in P}
<1>1. 0 \in T
  <2>1. \A s \in Seq(S) : Len(s) = 0 => s = <<>>
    OBVIOUS
  <2> QED
    BY <2>1
<1>2. ASSUME NEW n \in Nat, n \in T
      PROVE  n + 1 \in T
  <2>1. ASSUME NEW s \in Seq(S), Len(s) = n + 1
        PROVE  s \in P
    <3>1. s # <<>>
      BY <2>1
    <3>2. PICK q \in Seq(S), e \in S : s = Append(q, e)
      BY <3>1, SequenceEmptyOrAppend
    <3>3. Len(q) = n
      BY <2>1, <3>2
    <3> QED
      BY <1>2, <3>2, <3>3
  <2> QED
    BY <2>1
<1>3. Nat \subseteq T
  <2> HIDE DEF T
  <2> QED
    BY <1>1, <1>2, NatInductive
<1> QED
  BY <1>3

\* A part of a sequence.
LEMMA PartIs ==
    ASSUME NEW S, NEW s \in Seq(S), NEW i \in Nat \ {0}, NEW j \in Nat, j <= Len(s)
    PROVE  /\ SubSeq(s, i, j) \in Seq(S)
           /\ Len(SubSeq(s, i, j)) = IF i <= j THEN j - i + 1 ELSE 0
           /\ \A k \in 1..(j - i + 1) : SubSeq(s, i, j)[k] = s[i + k - 1]
<1>1. \A k \in i..j : s[k] \in S
  OBVIOUS
<1>2. i \in Int /\ j \in Int
  OBVIOUS
<1> QED
  BY <1>1, <1>2, SubSeqProperties

\* An element added to the second of two sequences.
LEMMA AppendLast ==
    ASSUME NEW S, NEW a \in Seq(S), NEW b \in Seq(S), NEW c \in S
    PROVE  a \o Append(b, c) = Append(a \o b, c)
  OBVIOUS

\* g holds the beginnings of A, put together.
Joins(g, A) == g[0] = <<>> /\ \A n \in 1..Len(A) : g[n] = g[n - 1] \o A[n]

\* FlattenSeq puts the sequences together from the first to the last.
LEMMA FlattenJoins ==
    ASSUME NEW S, NEW A \in Seq(Seq(S))
    PROVE  \E g \in [0..Len(A) -> Seq(S)] : Joins(g, A) /\ FlattenSeq(A) = g[Len(A)]
<1> DEFINE m == Len(A)
           X == Seq(S)
           G == [p \in (1..m) \X X |-> p[2] \o A[p[1]]]
<1>1. m \in Nat /\ \A n \in 1..m : A[n] \in X
  BY LenProperties, ElementOfSeq
<1>2. <<>> \in X
  BY EmptySeq
<1>3. G \in [(1..m) \X X -> X]
  <2> SUFFICES ASSUME NEW p \in (1..m) \X X
               PROVE  p[2] \o A[p[1]] \in X
    OBVIOUS
  <2>1. p[2] \in X /\ A[p[1]] \in X
    BY <1>1
  <2> QED
    BY <2>1, ConcatProperties
<1>4. \E g \in [0..m -> X] : RecursFrom(g, m, <<>>, G)
  <2> DEFINE r == <<>>
  <2>1. r \in X
    BY <1>2
  <2> HIDE DEF m, X, G, r
  <2>2. \E g \in [0..m -> X] : RecursFrom(g, m, r, G)
    BY <1>1, <1>3, <2>1, IndexedRecursionExists
  <2> QED
    BY <2>2 DEF r
<1>5. PICK g \in [0..m -> X] : RecursFrom(g, m, <<>>, G)
  BY <1>4
<1>6. g[0] = <<>> /\ \A n \in 1..m : g[n] = g[n - 1] \o A[n] /\ g[n - 1] \in X
  <2>1. g[0] = <<>> /\ \A n \in 1..m : g[n] = G[<<n, g[n - 1]>>]
    BY <1>5 DEF RecursFrom
  <2>2. ASSUME NEW n \in 1..m
        PROVE  g[n] = g[n - 1] \o A[n] /\ g[n - 1] \in X
    <3>1. n - 1 \in 0..m
      BY <1>1
    <3>2. <<n, g[n - 1]>> \in (1..m) \X X
      BY <3>1
    <3> QED
      BY <2>1, <3>1, <3>2
  <2> QED
    BY <2>1, <2>2
<1> HIDE DEF X, G
<1>7. FlattenSeq(A) = g[m]
  <2>1. CASE m = 0
    <3>1. A = <<>>
      BY <2>1, EmptySeq
    <3> QED
      BY <1>6, <2>1, <3>1 DEF FlattenSeq
  <2>2. CASE m # 0
    <3> DEFINE w == [i \in 1..m |-> g[i]]
    <3>1. ASSUME NEW i \in 1..m
          PROVE  w[i] = IF i = 1 THEN A[i] ELSE w[i - 1] \o A[i]
      <4>1. CASE i = 1
        <5>1. g[1] = g[0] \o A[1] /\ g[0] = <<>> /\ A[1] \in Seq(S)
          <6>1. 1 \in 1..m /\ 1 - 1 = 0
            BY <1>1, <4>1
          <6> QED
            BY <1>1, <1>6, <6>1, Zenon DEF X
        <5>2. g[1] = A[1]
          BY <5>1, ConcatEmptySeq
        <5> QED
          BY <4>1, <5>2
      <4>2. CASE i # 1
        <5>1. i - 1 \in 1..m
          BY <1>1, <4>2
        <5> QED
          BY <1>6, <4>2, <5>1
      <4> QED
        BY <4>1, <4>2
    <3>2. w = [i \in 1..m |-> IF i = 1 THEN A[i] ELSE w[i - 1] \o A[i]]
      <4>1. w = [i \in 1..m |-> w[i]]
        OBVIOUS
      <4> HIDE DEF w
      <4> QED
        BY <3>1, <4>1
    <3> DEFINE f == CHOOSE f : f = [i \in 1..m |-> IF i = 1 THEN A[i] ELSE f[i - 1] \o A[i]]
    <3>3. FlattenSeq(A) = f[m]
      BY <2>2 DEF FlattenSeq
    <3> HIDE DEF w
    <3>4. f = [i \in 1..m |-> IF i = 1 THEN A[i] ELSE f[i - 1] \o A[i]]
      BY <3>2
    <3> HIDE DEF f
    <3> DEFINE T == {n \in Nat : n + 1 <= m => f[n + 1] = w[n + 1]}
    <3>5. 0 \in T
      BY <1>1, <3>2, <3>4
    <3>6. ASSUME NEW n \in Nat, n \in T
          PROVE  n + 1 \in T
      <4> SUFFICES ASSUME n + 1 + 1 <= m
                   PROVE  f[n + 1 + 1] = w[n + 1 + 1]
        OBVIOUS
      <4> DEFINE j == n + 1 + 1
      <4>1. j \in 1..m /\ j # 1 /\ j - 1 = n + 1 /\ n + 1 <= m
        BY <1>1
      <4>2. f[n + 1] = w[n + 1]
        BY <3>6, <4>1
      <4> HIDE DEF j
      <4>3. f[j] = f[j - 1] \o A[j]
        <5>1. \A i \in 1..m : f[i] = IF i = 1 THEN A[i] ELSE f[i - 1] \o A[i]
          BY <3>4
        <5> QED
          BY <4>1, <5>1
      <4>4. w[j] = w[j - 1] \o A[j]
        BY <3>1, <4>1
      <4>5. f[j] = w[j]
        BY <4>1, <4>2, <4>3, <4>4
      <4> QED
        BY <4>5 DEF j
    <3>7. m - 1 \in T /\ m - 1 + 1 = m
      <4>1. m - 1 \in Nat /\ m - 1 + 1 = m
        BY <1>1, <2>2
      <4> HIDE DEF T
      <4> QED
        BY <3>5, <3>6, <4>1, NatInductive
    <3>8. f[m] = w[m] /\ w[m] = g[m]
      BY <1>1, <2>2, <3>7 DEF w
    <3> QED
      BY <3>3, <3>8
  <2> QED
    BY <2>1, <2>2
<1> QED
  BY <1>6, <1>7 DEF Joins, X

\* What is put together holds what the parts hold.
LEMMA FlattenType ==
    ASSUME NEW S, NEW A \in Seq(Seq(S))
    PROVE  FlattenSeq(A) \in Seq(S)
<1>1. PICK g \in [0..Len(A) -> Seq(S)] : FlattenSeq(A) = g[Len(A)]
  BY FlattenJoins
<1>2. Len(A) \in 0..Len(A)
  BY LenProperties
<1> QED
  BY <1>1, <1>2

\* Nothing put together, and one sequence more.
LEMMA FlattenAppend ==
    ASSUME NEW S
    PROVE  /\ FlattenSeq(<<>>) = <<>>
           /\ \A A \in Seq(Seq(S)), x \in Seq(S) :
                 FlattenSeq(Append(A, x)) = FlattenSeq(A) \o x
<1>1. FlattenSeq(<<>>) = <<>>
  <2> DEFINE A == <<>>
  <2>1. A \in Seq(Seq(S)) /\ Len(A) = 0
    OBVIOUS
  <2> HIDE DEF A
  <2>2. PICK g \in [0..Len(A) -> Seq(S)] : Joins(g, A) /\ FlattenSeq(A) = g[Len(A)]
    BY <2>1, FlattenJoins
  <2> QED
    BY <2>1, <2>2 DEF Joins, A
<1>2. ASSUME NEW A \in Seq(Seq(S)), NEW x \in Seq(S)
      PROVE  FlattenSeq(Append(A, x)) = FlattenSeq(A) \o x
  <2> DEFINE X == Seq(S)
             B == Append(A, x)
             m == Len(A)
  <2>1. /\ B \in Seq(X) /\ Len(B) = m + 1 /\ B[m + 1] = x /\ m \in Nat
        /\ \A i \in 1..m : B[i] = A[i]
    BY AppendProperties
  <2>2. PICK g \in [0..m -> X] : Joins(g, A) /\ FlattenSeq(A) = g[m]
    BY FlattenJoins
  <2> HIDE DEF B
  <2>3. PICK h \in [0..Len(B) -> X] : Joins(h, B) /\ FlattenSeq(B) = h[Len(B)]
    BY <2>1, FlattenJoins
  <2> HIDE DEF X
  <2>4. g[0] = <<>> /\ \A n \in 1..m : g[n] = g[n - 1] \o A[n]
    BY <2>2 DEF Joins
  <2>5. h[0] = <<>> /\ \A n \in 1..(m + 1) : h[n] = h[n - 1] \o B[n]
    BY <2>1, <2>3 DEF Joins
  <2> HIDE DEF m
  <2>6. h[m] = g[m]
    <3> DEFINE T == {n \in Nat : n <= m => h[n] = g[n]}
    <3>1. 0 \in T
      BY <2>4, <2>5
    <3>2. ASSUME NEW n \in Nat, n \in T
          PROVE  n + 1 \in T
      <4> SUFFICES ASSUME n + 1 <= m
                   PROVE  h[n + 1] = g[n + 1]
        OBVIOUS
      <4> DEFINE k == n + 1
      <4>1. k \in 1..m /\ k \in 1..(m + 1) /\ k - 1 = n /\ h[n] = g[n]
        BY <2>1, <3>2
      <4> HIDE DEF k
      <4>2. h[k] = h[n] \o B[k] /\ g[k] = g[n] \o A[k] /\ B[k] = A[k]
        BY <2>1, <2>4, <2>5, <4>1
      <4> QED
        BY <4>1, <4>2 DEF k
    <3>3. m \in T
      <4> HIDE DEF T
      <4> QED
        BY <2>1, <3>1, <3>2, NatInductive
    <3> QED
      BY <2>1, <3>3
  <2>7. h[m + 1] = h[m] \o x
    <3> DEFINE k == m + 1
    <3>1. k \in 1..(m + 1) /\ k - 1 = m /\ B[k] = x
      BY <2>1
    <3> HIDE DEF k
    <3>2. h[k] = h[m] \o x
      BY <2>5, <3>1
    <3> QED
      BY <3>2 DEF k
  <2> QED
    BY <2>1, <2>2, <2>3, <2>6, <2>7 DEF B
<1> QED
  BY <1>1, <1>2

-----------------------------------------------------------------------------
(***************************************************************************)
(* Where a sequence lies in another.                                       *)
(***************************************************************************)

\* A single unit.
LEMMA UnitIs ==
    ASSUME NEW S, NEW u \in S
    PROVE  <<u>> \in Seq(S) /\ Len(<<u>>) = 1 /\ <<u>>[1] = u
  OBVIOUS

\* x is in buf behind the first p units.
LiesAt(buf, p, x) == p + Len(x) <= Len(buf) /\ \A j \in 1..Len(x) : buf[p + j] = x[j]

\* What lies in a buffer lies there part by part.
LEMMA LiesParts ==
    ASSUME NEW S, NEW buf \in Seq(S), NEW x \in Seq(S), NEW y \in Seq(S), NEW p \in Nat,
           LiesAt(buf, p, x \o y)
    PROVE  LiesAt(buf, p, x) /\ LiesAt(buf, p + Len(x), y)
<1> DEFINE m == Len(x)
           n == Len(y)
           z == x \o y
<1>1. /\ m \in Nat /\ n \in Nat /\ Len(buf) \in Nat /\ Len(z) = m + n
      /\ \A j \in 1..(m + n) : z[j] = IF j <= m THEN x[j] ELSE y[j - m]
  BY ConcatProperties
<1>2. p + (m + n) <= Len(buf) /\ \A j \in 1..(m + n) : buf[p + j] = z[j]
  BY <1>1 DEF LiesAt
<1> HIDE DEF m, n, z
<1>3. p + m <= Len(buf) /\ p + m + n <= Len(buf)
  BY <1>1, <1>2
<1>4. ASSUME NEW j \in 1..m
      PROVE  buf[p + j] = x[j]
  <2>1. j \in 1..(m + n) /\ j <= m
    BY <1>1
  <2> QED
    BY <1>1, <1>2, <2>1
<1>5. ASSUME NEW j \in 1..n
      PROVE  buf[p + m + j] = y[j]
  <2>1. m + j \in 1..(m + n) /\ ~(m + j <= m) /\ (m + j) - m = j /\ p + (m + j) = p + m + j
    BY <1>1
  <2>2. buf[p + (m + j)] = z[m + j] /\ z[m + j] = y[(m + j) - m]
    BY <1>1, <1>2, <2>1
  <2> QED
    BY <2>1, <2>2
<1> QED
  BY <1>3, <1>4, <1>5 DEF LiesAt, m, n

\* What is in a part of a buffer is in the buffer.
LEMMA LiesWithin ==
    ASSUME NEW S, NEW b \in Seq(S), NEW x \in Seq(S), NEW y \in Seq(S), NEW p \in Nat, NEW q \in Nat,
           LiesAt(b, p, x), LiesAt(x, q, y)
    PROVE  LiesAt(b, p + q, y)
<1>1. /\ Len(b) \in Nat /\ Len(x) \in Nat /\ Len(y) \in Nat
      /\ p + Len(x) <= Len(b) /\ q + Len(y) <= Len(x)
  BY DEF LiesAt
<1>2. p + q + Len(y) <= Len(b)
  BY <1>1
<1>3. ASSUME NEW j \in 1..Len(y)
      PROVE  b[p + q + j] = y[j]
  <2>1. q + j \in 1..Len(x) /\ p + (q + j) = p + q + j
    BY <1>1
  <2>2. x[q + j] = y[j]
    BY DEF LiesAt
  <2>3. b[p + (q + j)] = x[q + j]
    BY <2>1 DEF LiesAt
  <2> QED
    BY <2>1, <2>2, <2>3
<1> QED
  BY <1>2, <1>3 DEF LiesAt

\* A buffer lies in itself.
LEMMA LiesWhole ==
    ASSUME NEW S, NEW b \in Seq(S)
    PROVE  LiesAt(b, 0, b)
<1>1. Len(b) \in Nat /\ \A j \in 1..Len(b) : 0 + j = j
  OBVIOUS
<1> QED
  BY <1>1 DEF LiesAt

\* The units of a buffer where x lies.
LEMMA PartThere ==
    ASSUME NEW S, NEW b \in Seq(S), NEW a \in Nat, NEW x \in Seq(S), LiesAt(b, a, x),
           NEW n, Len(x) = n
    PROVE  SubSeq(b, a + 1, a + n) = x
<1> DEFINE i == a + 1
           j == a + n
           w == SubSeq(b, i, j)
<1>2. n \in Nat /\ Len(b) \in Nat /\ a + n <= Len(b) /\ \A k \in 1..n : b[a + k] = x[k]
  BY DEF LiesAt
<1>5. /\ i \in Nat \ {0} /\ j \in Nat /\ j <= Len(b) /\ j - i + 1 = n
      /\ (IF i <= j THEN j - i + 1 ELSE 0) = n
      /\ \A k \in 1..n : i + k - 1 = a + k
  BY <1>2
<1> HIDE DEF i, j
<1>6. w \in Seq(S) /\ Len(w) = n /\ \A k \in 1..n : w[k] = b[a + k]
  <2>1. /\ w \in Seq(S) /\ Len(w) = (IF i <= j THEN j - i + 1 ELSE 0)
        /\ \A k \in 1..(j - i + 1) : w[k] = b[i + k - 1]
    BY <1>5, PartIs
  <2> QED
    BY <1>5, <2>1
<1> HIDE DEF w
<1>7. w = x
  <2>1. \A k \in 1..n : w[k] = x[k]
    BY <1>2, <1>6
  <2> QED
    BY <1>6, <2>1, SeqEqual
<1> QED
  BY <1>7 DEF w, i, j

-----------------------------------------------------------------------------
(***************************************************************************)
(* Division.                                                               *)
(***************************************************************************)

\* Quotient and rest.
LEMMA Quotient ==
    ASSUME NEW a \in Nat, NEW b \in Nat \ {0}
    PROVE  a = b * (a \div b) + (a % b) /\ a % b \in 0..b - 1 /\ a \div b \in Nat
OBVIOUS

\* The quotient and the rest are determined by that.
LEMMA QuotientUnique ==
    ASSUME NEW a \in Nat, NEW b \in Nat \ {0}, NEW q \in Nat, NEW r \in 0..b - 1,
           a = b * q + r
    PROVE  a \div b = q /\ a % b = r
<1> DEFINE p == a \div b
           t == a % b
<1>1. p \in Nat /\ t \in 0..b - 1 /\ b * q + r = b * p + t
  BY Quotient
<1> HIDE DEF p, t
<1>2. CASE p > q
  <2>1. b * p >= b * (q + 1)
    BY <1>1, <1>2
  <2>2. b * (q + 1) = b * q + b
    OBVIOUS
  <2> QED
    BY <1>1, <2>1, <2>2
<1>3. CASE p < q
  <2>1. b * q >= b * (p + 1)
    BY <1>1, <1>3
  <2>2. b * (p + 1) = b * p + b
    BY <1>1
  <2> QED
    BY <1>1, <2>1, <2>2
<1>4. CASE p = q
  BY <1>1, <1>4 DEF p, t
<1> QED
  BY <1>1, <1>2, <1>3, <1>4
=============================================================================
