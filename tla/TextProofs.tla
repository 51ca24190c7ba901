----------------------------- MODULE TextProofs -----------------------------
(***************************************************************************)
(* Proofs about the strings of s.hpp and cs.hpp and what is made of them:  *)
(* e-mail addresses, names of persons and of files, and numbers as text.   *)
(* They hold for texts of any length.                                      *)
(***************************************************************************)
EXTENDS ContactValues, TextEdit, CString, FileName, Induction

-----------------------------------------------------------------------------
(***************************************************************************)
(* Searching for a character.                                              *)
(***************************************************************************)

\* find of a single character finds the places where it is.
LEMMA CharOccurs ==
    ASSUME NEW S, NEW s \in Seq(S), NEW c
    PROVE  Occurrences(s, <<c>>) = {i \in 1..Len(s) : s[i] = c}
<1>1. Len(s) \in Nat /\ Len(<<c>>) = 1
  OBVIOUS
<1>2. ASSUME NEW i \in 1..Len(s)
      PROVE  SubSeq(s, i, i + 1 - 1) = <<c>> <=> s[i] = c
  <2> DEFINE w == SubSeq(s, i, i)
  <2>1. \A j \in i..i : s[j] \in S
    BY <1>1
  <2>2. /\ w \in Seq(S) /\ Len(w) = 1 /\ w[1] = s[i]
    BY <2>1, SubSeqProperties
  <2>3. i + 1 - 1 = i
    OBVIOUS
  <2> HIDE DEF w
  <2>4. w = <<c>> => s[i] = c
    BY <2>2
  <2>5. s[i] = c => w = <<c>>
    BY <2>2
  <2> QED
    BY <2>3, <2>4, <2>5 DEF w
<1> QED
  BY <1>1, <1>2 DEF Occurrences

\* A character is found exactly if it is somewhere.
LEMMA CharHas ==
    ASSUME NEW S, NEW s \in Seq(S), NEW c
    PROVE  Has(s, <<c>>) <=> \E i \in 1..Len(s) : s[i] = c
<1>1. Occurrences(s, <<c>>) = {i \in 1..Len(s) : s[i] = c}
  BY CharOccurs
<1> QED
  BY <1>1 DEF Has

\* The first place of a character that is there.
LEMMA FirstChar ==
    ASSUME NEW S, NEW s \in Seq(S), NEW c, Has(s, <<c>>)
    PROVE  LET i == Min(Occurrences(s, <<c>>))
           IN  /\ i \in 1..Len(s) /\ s[i] = c
               /\ \A j \in 1..(i - 1) : s[j] # c
<1> DEFINE O == Occurrences(s, <<c>>)
           i == Min(O)
<1>1. O = {k \in 1..Len(s) : s[k] = c}
  BY CharOccurs
<1>2. O \in SUBSET Nat /\ O # {}
  BY <1>1 DEF Has
<1> HIDE DEF O
<1>3. i \in O /\ \A y \in O : i <= y
  BY <1>2, MinIsIn
<1> HIDE DEF i
<1>4. i \in 1..Len(s) /\ s[i] = c
  BY <1>1, <1>3
<1>5. ASSUME NEW j \in 1..(i - 1)
      PROVE  s[j] # c
  BY <1>1, <1>3, <1>4
<1> QED
  BY <1>4, <1>5 DEF i, O

-----------------------------------------------------------------------------
(***************************************************************************)
(* The pieces of a string.                                                 *)
(***************************************************************************)

\* One more character leaves a piece to add to.
LEMMA PieceCharType ==
    ASSUME NEW S, NEW ps \in Seq(Seq(S)), ps # <<>>, NEW c \in S, NEW ch
    PROVE  PieceChar(ps, c, ch) \in Seq(Seq(S)) /\ PieceChar(ps, c, ch) # <<>>
<1> DEFINE last == Append(ps[Len(ps)], c)
           T == Seq(S)
<1>1. Len(ps) \in Nat \ {0} /\ Len(ps) \in 1..Len(ps)
  BY EmptySeq
<1>2. ps[Len(ps)] \in T
  BY <1>1, ElementOfSeq
<1>3. last \in T /\ <<>> \in T
  BY <1>2, AppendProperties
<1>4. PieceChar(ps, c, ch) =
         IF c = ch THEN Append(ps, <<>>) ELSE [ps EXCEPT ![Len(ps)] = last]
  BY DEF PieceChar
<1> HIDE DEF last, T
<1>5. ps \in Seq(T)
  BY DEF T
<1>6. Append(ps, <<>>) \in Seq(T) /\ Append(ps, <<>>) # <<>>
  BY <1>3, <1>5, AppendProperties
<1>7. [ps EXCEPT ![Len(ps)] = last] \in Seq(T) /\ Len([ps EXCEPT ![Len(ps)] = last]) = Len(ps)
  BY <1>1, <1>3, <1>5, ExceptSeq
<1>8. [ps EXCEPT ![Len(ps)] = last] # <<>>
  BY <1>1, <1>7
<1> QED
  BY <1>4, <1>6, <1>7, <1>8 DEF T

\* p has the pieces of each beginning of s.
Grows(p, s, ch, S) ==
    /\ p \in [0..Len(s) -> Seq(Seq(S)) \ {<<>>}]
    /\ p[0] = <<<<>>>>
    /\ \A n \in 1..Len(s) : p[n] = PieceChar(p[n - 1], s[n], ch)

\* The pieces of s come from the empty piece, one character at a time.
LEMMA PiecesGrow ==
    ASSUME NEW S, NEW s \in Seq(S), NEW ch
    PROVE  \E p : Grows(p, s, ch, S) /\ Pieces(s, ch) = p[Len(s)]
<1> DEFINE X == Seq(Seq(S)) \ {<<>>}
           m == Len(s)
           Is(g) == g = [n \in 0..m |-> IF n = 0 THEN <<<<>>>>
                                        ELSE PieceChar(g[n - 1], s[n], ch)]
           p == CHOOSE g : Is(g)
           G == [x \in (1..m) \X X |-> PieceChar(x[2], s[x[1]], ch)]
<1>1. m \in Nat /\ \A n \in 1..m : s[n] \in S
  OBVIOUS
<1>2. <<<<>>>> \in X
  OBVIOUS
<1>3. \A ps \in X, c \in S : PieceChar(ps, c, ch) \in X
  BY PieceCharType
<1>4. Pieces(s, ch) = p[Len(s)]
  BY DEF Pieces
<1> HIDE DEF X, m, p
<1>5. ASSUME NEW n \in 1..m, NEW ps \in X
      PROVE  G[<<n, ps>>] = PieceChar(ps, s[n], ch)
  <2>1. <<n, ps>> \in (1..m) \X X
    OBVIOUS
  <2> QED
    BY <2>1
<1>6. G \in [(1..m) \X X -> X]
  <2>1. ASSUME NEW x \in (1..m) \X X
        PROVE  PieceChar(x[2], s[x[1]], ch) \in X
    BY <1>1, <1>3
  <2> QED
    BY <2>1
<1> HIDE DEF G
<1>7. PICK g \in [0..m -> X] : RecursFrom(g, m, <<<<>>>>, G)
  <2> DEFINE r == <<<<>>>>
  <2>1. r \in X
    BY <1>2
  <2> HIDE DEF r
  <2>2. \E g \in [0..m -> X] : RecursFrom(g, m, r, G)
    BY <1>1, <1>6, <2>1, IndexedRecursionExists
  <2> QED
    BY <2>2 DEF r
<1>8. Is(g)
  <2>1. g[0] = <<<<>>>>
    BY <1>7 DEF RecursFrom
  <2>2. ASSUME NEW n \in 1..m
        PROVE  g[n] = PieceChar(g[n - 1], s[n], ch)
    <3>1. n - 1 \in 0..m
      BY <1>1
    <3>2. g[n - 1] \in X
      BY <1>7, <3>1
    <3> QED
      BY <1>5, <1>7, <3>2 DEF RecursFrom
  <2>3. ASSUME NEW n \in 0..m
        PROVE  g[n] = IF n = 0 THEN <<<<>>>> ELSE PieceChar(g[n - 1], s[n], ch)
    <3>1. n = 0 \/ n \in 1..m
      BY <1>1
    <3>2. n \in 1..m => n # 0
      BY <1>1
    <3> QED
      BY <2>1, <2>2, <3>1, <3>2, Zenon
  <2> QED
    BY <1>7, <2>3
<1>9. Is(p)
  BY <1>8 DEF p
<1>10. p[0] = <<<<>>>> /\ \A n \in 1..m : p[n] = PieceChar(p[n - 1], s[n], ch)
  BY <1>1, <1>9
<1>11. \A n \in 0..m : p[n] \in X
  <2> DEFINE T == {n \in Nat : n <= m => p[n] \in X}
  <2>1. 0 \in T
    BY <1>2, <1>10
  <2>2. ASSUME NEW n \in Nat, n \in T
        PROVE  n + 1 \in T
    <3> SUFFICES ASSUME n + 1 <= m
                 PROVE  p[n + 1] \in X
      OBVIOUS
    <3> DEFINE k == n + 1
    <3>1. k \in 1..m /\ k - 1 = n /\ p[n] \in X
      BY <1>1, <2>2
    <3> HIDE DEF k
    <3>2. p[k] = PieceChar(p[n], s[k], ch) /\ s[k] \in S
      BY <1>1, <1>10, <3>1
    <3> QED
      BY <1>3, <3>1, <3>2 DEF k
  <2>3. Nat \subseteq T
    <3> HIDE DEF T
    <3> QED
      BY <2>1, <2>2, NatInductive
  <2> QED
    BY <1>1, <2>3
<1>12. p \in [0..m -> X]
  BY <1>9, <1>11
<1> QED
  BY <1>4, <1>10, <1>12 DEF X, m, Grows

\* What one more character changes: a separator adds an empty piece, any
\* other character goes to the end of the last one.
LEMMA PieceCharIs ==
    ASSUME NEW S, NEW ps \in Seq(Seq(S)), ps # <<>>, NEW c \in S, NEW ch
    PROVE  LET q == PieceChar(ps, c, ch)
               L == Len(ps)
           IN  /\ L \in Nat /\ L >= 1
               /\ c = ch => /\ q = Append(ps, <<>>) /\ Len(q) = L + 1
                            /\ q[L + 1] = <<>>
                            /\ \A k \in 1..L : q[k] = ps[k]
               /\ c # ch => /\ Len(q) = L /\ q[L] = Append(ps[L], c)
                            /\ \A k \in 1..L : k # L => q[k] = ps[k]
<1> DEFINE last == Append(ps[Len(ps)], c)
           T == Seq(S)
<1>1. Len(ps) \in Nat \ {0} /\ Len(ps) \in 1..Len(ps)
  BY EmptySeq
<1>2. ps[Len(ps)] \in T
  BY <1>1, ElementOfSeq
<1>3. last \in T /\ <<>> \in T
  BY <1>2, AppendProperties
<1>4. PieceChar(ps, c, ch) =
         IF c = ch THEN Append(ps, <<>>) ELSE [ps EXCEPT ![Len(ps)] = last]
  BY DEF PieceChar
<1> HIDE DEF T
<1>5. ps \in Seq(T)
  BY DEF T
<1>6. LET q == Append(ps, <<>>)
      IN  /\ Len(q) = Len(ps) + 1 /\ q[Len(ps) + 1] = <<>>
          /\ \A k \in 1..Len(ps) : q[k] = ps[k]
  BY <1>3, <1>5, AppendProperties
<1> HIDE DEF last
<1>7. LET q == [ps EXCEPT ![Len(ps)] = last]
      IN  /\ Len(q) = Len(ps)
          /\ \A k \in 1..Len(ps) : q[k] = IF k = Len(ps) THEN last ELSE ps[k]
  BY <1>1, <1>3, <1>5, ExceptSeq
<1> DEFINE q == PieceChar(ps, c, ch)
<1>8. c = ch => /\ q = Append(ps, <<>>) /\ Len(q) = Len(ps) + 1
                /\ q[Len(ps) + 1] = <<>>
                /\ \A k \in 1..Len(ps) : q[k] = ps[k]
  BY <1>4, <1>6, SMTT(40)
<1>9. c # ch => /\ Len(q) = Len(ps) /\ q[Len(ps)] = last
                /\ \A k \in 1..Len(ps) : k # Len(ps) => q[k] = ps[k]
  BY <1>1, <1>4, <1>7
<1>10. Len(ps) \in Nat /\ Len(ps) >= 1
  BY <1>1
<1> HIDE DEF q
<1> QED
  BY <1>8, <1>9, <1>10, Zenon DEF last, q

\* No piece has the separator.
NoneHas(p, ch) == \A k \in 1..Len(p) : \A j \in 1..Len(p[k]) : p[k][j] # ch

\* No piece has the separator, and what is no separator is in a piece.
LEMMA PiecesHold ==
    ASSUME NEW S, NEW s \in Seq(S), NEW ch
    PROVE  LET p == Pieces(s, ch)
           IN  /\ p \in Seq(Seq(S)) /\ p # <<>>
               /\ NoneHas(p, ch)
               /\ \A i \in 1..Len(s) : s[i] # ch =>
                     \E k \in 1..Len(p) : \E j \in 1..Len(p[k]) : p[k][j] = s[i]
<1> DEFINE m == Len(s)
           X == Seq(Seq(S)) \ {<<>>}
<1>0. PICK p : Grows(p, s, ch, S) /\ Pieces(s, ch) = p[m]
  BY PiecesGrow
<1>1. /\ p \in [0..m -> X] /\ p[0] = <<<<>>>>
      /\ \A n \in 1..m : p[n] = PieceChar(p[n - 1], s[n], ch)
      /\ Pieces(s, ch) = p[m]
  BY <1>0, Zenon DEF Grows
<1>2. m \in Nat /\ \A n \in 1..m : s[n] \in S
  OBVIOUS
<1> HIDE DEF m
<1> DEFINE Free(ps) == \A k \in 1..Len(ps) : \A j \in 1..Len(ps[k]) : ps[k][j] # ch
           In(c, ps) == \E k \in 1..Len(ps) : \E j \in 1..Len(ps[k]) : ps[k][j] = c
           Inv(n) == Free(p[n]) /\ \A i \in 1..n : s[i] # ch => In(s[i], p[n])
           U == {n \in Nat : n <= m => Inv(n)}
<1>3. 0 \in U
  <2>1. Len(p[0]) = 1 /\ p[0][1] = <<>>
    BY <1>1
  <2> QED
    BY <2>1
<1>4. ASSUME NEW n \in Nat, n \in U
      PROVE  n + 1 \in U
  <2> SUFFICES ASSUME n + 1 <= m
               PROVE  Inv(n + 1)
    <3> HIDE DEF Inv
    <3> QED
      OBVIOUS
  <2> DEFINE k == n + 1
             ps == p[n]
             q == p[k]
             L == Len(ps)
  <2>1. k \in 1..m /\ k - 1 = n /\ n \in 0..m /\ n <= m
    BY <1>2
  <2>0. Inv(n)
    BY <1>4, <2>1, Zenon
  <2> HIDE DEF k
  <2>2. q = PieceChar(ps, s[k], ch) /\ s[k] \in S /\ ps \in Seq(Seq(S)) /\ ps # <<>>
    BY <1>1, <1>2, <2>1
  <2>3. Free(ps) /\ \A i \in 1..n : s[i] # ch => In(s[i], ps)
    BY <2>0
  <2> HIDE DEF ps, q
  <2>4. /\ L \in Nat /\ L >= 1
        /\ s[k] = ch => /\ Len(q) = L + 1 /\ q[L + 1] = <<>>
                        /\ \A l \in 1..L : q[l] = ps[l]
        /\ s[k] # ch => /\ Len(q) = L /\ q[L] = Append(ps[L], s[k])
                        /\ \A l \in 1..L : l # L => q[l] = ps[l]
    BY <2>2, PieceCharIs, SMTT(40)
  <2> DEFINE old == ps[L]
             new == Append(old, s[k])
  <2>5. old \in Seq(S)
    BY <2>2, <2>4
  <2> HIDE DEF old, L
  <2>6. /\ Len(old) \in Nat /\ Len(new) = Len(old) + 1
        /\ \A j \in 1..Len(old) : new[j] = old[j]
        /\ new[Len(old) + 1] = s[k]
    BY <2>2, <2>5, AppendProperties
  <2> HIDE DEF new
  <2>7. Free(q)
    <3> SUFFICES ASSUME NEW l \in 1..Len(q)
                 PROVE  \A j \in 1..Len(q[l]) : q[l][j] # ch
      OBVIOUS
    <3> SUFFICES ASSUME NEW j \in 1..Len(q[l])
                 PROVE  q[l][j] # ch
      OBVIOUS
    <3>1. CASE s[k] = ch
      BY <2>3, <2>4, <3>1 DEF L
    <3>2. CASE s[k] # ch
      <4>1. CASE l # L
        BY <2>3, <2>4, <3>2, <4>1 DEF L
      <4>2. CASE l = L
        <5>1. q[l] = new /\ L \in 1..Len(ps)
          BY <2>4, <3>2, <4>2 DEF new, old, L
        <5>2. \A i \in 1..Len(old) : old[i] # ch
          BY <2>3, <5>1 DEF old
        <5>3. j \in 1..Len(old) \/ j = Len(old) + 1
          BY <2>6, <5>1
        <5> QED
          BY <2>6, <3>2, <5>1, <5>2, <5>3
      <4> QED
        BY <4>1, <4>2
    <3> QED
      BY <3>1, <3>2
  <2>8. ASSUME NEW c, In(c, ps)
        PROVE  In(c, q)
    <3>0. PICK l \in 1..Len(ps) : \E j \in 1..Len(ps[l]) : ps[l][j] = c
      BY <2>8
    <3>1. PICK j \in 1..Len(ps[l]) : ps[l][j] = c
      BY <3>0
    <3>2. l \in 1..Len(q)
      BY <2>4, <3>1 DEF L
    <3>3. CASE q[l] = ps[l]
      BY <3>1, <3>2, <3>3
    <3>4. CASE q[l] # ps[l]
      <4>1. s[k] # ch /\ l = L /\ q[l] = new /\ ps[l] = old
        BY <2>4, <3>1, <3>4 DEF new, old, L
      <4>2. j \in 1..Len(q[l]) /\ q[l][j] = c
        BY <2>6, <3>1, <4>1
      <4> QED
        BY <3>2, <4>2
    <3> QED
      BY <3>3, <3>4
  <2>9. s[k] # ch => In(s[k], q)
    <3> SUFFICES ASSUME s[k] # ch
                 PROVE  In(s[k], q)
      OBVIOUS
    <3>1. L \in 1..Len(q) /\ q[L] = new
      BY <2>4 DEF new, old
    <3>2. Len(old) + 1 \in 1..Len(q[L]) /\ q[L][Len(old) + 1] = s[k]
      BY <2>6, <3>1
    <3> QED
      BY <3>1, <3>2
  <2>10. \A i \in 1..k : i \in 1..n \/ i = k
    BY <2>1
  <2> QED
    BY <2>3, <2>7, <2>8, <2>9, <2>10 DEF k, q
<1>5. m \in U
  <2> HIDE DEF U
  <2> QED
    BY <1>2, <1>3, <1>4, NatInductive
<1>6. p[m] \in Seq(Seq(S)) /\ p[m] # <<>>
  BY <1>1, <1>2
<1>7. Inv(m)
  BY <1>2, <1>5
<1>8. NoneHas(p[m], ch)
  BY <1>7 DEF NoneHas
<1> QED
  BY <1>1, <1>6, <1>7, <1>8 DEF m

-----------------------------------------------------------------------------
(***************************************************************************)
(* E-mail addresses.                                                       *)
(***************************************************************************)

\* The two sides of a text with an @ are what is before and behind it.
LEMMA SidesAre ==
    ASSUME NEW s \in Seq(EmailChars), Has(s, <<At>>)
    PROVE  /\ LocalSide(s) \in Seq(EmailChars) /\ DomainSide(s) \in Seq(EmailChars)
           /\ Len(s) = Len(LocalSide(s)) + 1 + Len(DomainSide(s))
           /\ s[Len(LocalSide(s)) + 1] = At
           /\ \A j \in 1..Len(LocalSide(s)) : LocalSide(s)[j] = s[j] /\ s[j] # At
           /\ \A j \in 1..Len(DomainSide(s)) :
                 DomainSide(s)[j] = s[j + Len(LocalSide(s)) + 1]
<1> DEFINE i == Min(Occurrences(s, <<At>>))
           l == LocalSide(s)
           d == DomainSide(s)
<1>1. /\ i \in 1..Len(s) /\ s[i] = At
      /\ \A j \in 1..(i - 1) : s[j] # At
  BY FirstChar
<1>2. l = SubSeq(s, 1, i - 1)
  BY DEF LocalSide
<1> HIDE DEF i
<1>3. \A j \in 1..(i - 1) : s[j] \in EmailChars
  BY <1>1
<1>4. /\ l \in Seq(EmailChars) /\ Len(l) = i - 1
      /\ \A j \in 1..(i - 1) : l[j] = s[j]
  <2> DEFINE k == i - 1
  <2>1. k \in Int /\ 1 \in Int /\ k - 1 + 1 = k /\ k >= 0
    BY <1>1
  <2> HIDE DEF k
  <2>2. /\ SubSeq(s, 1, k) \in Seq(EmailChars)
        /\ Len(SubSeq(s, 1, k)) = IF 1 <= k THEN k - 1 + 1 ELSE 0
        /\ \A j \in 1..(k - 1 + 1) : SubSeq(s, 1, k)[j] = s[1 + j - 1]
    BY <1>3, <2>1, SubSeqProperties DEF k
  <2>3. \A j \in 1..k : 1 + j - 1 = j
    BY <2>1
  <2>4. l = SubSeq(s, 1, k)
    BY <1>2 DEF k
  <2> HIDE DEF l
  <2> QED
    BY <2>1, <2>2, <2>3, <2>4 DEF k
<1>5. d = SubSeq(s, Len(l) + 2, Len(s))
  BY DEF DomainSide
<1> HIDE DEF l
<1>6. \A j \in (Len(l) + 2)..Len(s) : s[j] \in EmailChars
  BY <1>1, <1>4
<1>7. /\ d \in Seq(EmailChars) /\ Len(d) = Len(s) - i
      /\ \A j \in 1..(Len(s) - i) : d[j] = s[j + i]
  <2> DEFINE k == Len(l) + 2
             e == Len(s)
  <2>1. k \in Int /\ e \in Int /\ k = i + 1 /\ e >= i /\ i \in Int
    BY <1>1, <1>4
  <2> HIDE DEF k, e
  <2>2. /\ SubSeq(s, k, e) \in Seq(EmailChars)
        /\ Len(SubSeq(s, k, e)) = IF k <= e THEN e - k + 1 ELSE 0
        /\ \A j \in 1..(e - k + 1) : SubSeq(s, k, e)[j] = s[k + j - 1]
    BY <1>6, <2>1, SubSeqProperties DEF k, e
  <2>3. \A j \in 1..(e - i) : k + j - 1 = j + i
    BY <2>1
  <2>4. d = SubSeq(s, k, e)
    BY <1>5 DEF k, e
  <2>5. e - k + 1 = e - i /\ (IF k <= e THEN e - k + 1 ELSE 0) = e - i
    BY <2>1
  <2> HIDE DEF d
  <2> QED
    BY <2>2, <2>3, <2>4, <2>5 DEF e
<1> HIDE DEF d
<1>8. Len(l) + 1 = i /\ Len(s) = Len(l) + 1 + Len(d)
  BY <1>1, <1>4, <1>7
<1>9. \A j \in 1..Len(d) : j + Len(l) + 1 = j + i
  BY <1>1, <1>4, <1>7
<1>10. \A j \in 1..Len(d) : d[j] = s[j + Len(l) + 1]
  BY <1>7, <1>9
<1> QED
  BY <1>1, <1>4, <1>7, <1>8, <1>10 DEF l, d

\* The sides of an address put together are its parts, if the local part
\* has no @.
LEMMA SidesOfText ==
    ASSUME NEW l \in Seq(EmailChars), NEW d \in Seq(EmailChars), ~Has(l, <<At>>)
    PROVE  LET s == l \o <<At>> \o d
           IN  /\ s \in Seq(EmailChars) /\ Has(s, <<At>>)
               /\ LocalSide(s) = l /\ DomainSide(s) = d
<1> DEFINE a == <<At>>
           la == l \o a
           s == la \o d
<1>1. a \in Seq(EmailChars) /\ Len(a) = 1 /\ a[1] = At
  <2>1. At \in EmailChars
    BY DEF EmailChars
  <2> QED
    BY <2>1
<1> HIDE DEF a
<1>2. /\ la \in Seq(EmailChars) /\ Len(la) = Len(l) + 1
      /\ \A i \in 1..(Len(l) + 1) : la[i] = IF i <= Len(l) THEN l[i] ELSE a[i - Len(l)]
  BY <1>1, ConcatProperties, SMTT(40)
<1> HIDE DEF la
<1>3. /\ s \in Seq(EmailChars) /\ Len(s) = Len(la) + Len(d)
      /\ \A i \in 1..(Len(la) + Len(d)) : s[i] = IF i <= Len(la) THEN la[i] ELSE d[i - Len(la)]
  BY <1>2, ConcatProperties, ZenonT(60)
<1>4. Len(l) \in Nat /\ Len(d) \in Nat
  OBVIOUS
<1>5. Len(s) = Len(l) + 1 + Len(d)
  BY <1>2, <1>3, <1>4
<1>6. \A i \in 1..Len(l) : s[i] = l[i] /\ s[i] # At
  <2> SUFFICES ASSUME NEW i \in 1..Len(l)
               PROVE  s[i] = l[i] /\ s[i] # At
    OBVIOUS
  <2>1. i \in 1..(Len(l) + 1) /\ i <= Len(la) /\ i \in 1..(Len(la) + Len(d)) /\ i <= Len(l)
    BY <1>2, <1>4
  <2>2. s[i] = l[i]
    BY <1>2, <1>3, <2>1
  <2> QED
    BY <2>2, CharHas
<1>7. s[Len(l) + 1] = At
  <2> DEFINE k == Len(l) + 1
  <2>1. k \in 1..(Len(l) + 1) /\ k <= Len(la) /\ k \in 1..(Len(la) + Len(d)) /\ ~(k <= Len(l))
        /\ k - Len(l) = 1
    BY <1>2, <1>4
  <2> HIDE DEF k
  <2> QED
    BY <1>1, <1>2, <1>3, <2>1 DEF k
<1>8. \A i \in 1..Len(d) : s[i + Len(l) + 1] = d[i]
  <2> SUFFICES ASSUME NEW i \in 1..Len(d)
               PROVE  s[i + Len(l) + 1] = d[i]
    OBVIOUS
  <2> DEFINE k == i + Len(l) + 1
  <2>1. k \in 1..(Len(la) + Len(d)) /\ ~(k <= Len(la)) /\ k - Len(la) = i
    BY <1>2, <1>4
  <2> HIDE DEF k
  <2> QED
    BY <1>3, <2>1 DEF k
<1> HIDE DEF s
<1>9. Has(s, <<At>>)
  <2>1. Len(l) + 1 \in 1..Len(s)
    BY <1>4, <1>5
  <2> QED
    BY <1>3, <1>7, <2>1, CharHas
<1> DEFINE L == LocalSide(s)
           D == DomainSide(s)
<1>10. /\ L \in Seq(EmailChars) /\ D \in Seq(EmailChars)
       /\ Len(s) = Len(L) + 1 + Len(D)
       /\ s[Len(L) + 1] = At
       /\ \A j \in 1..Len(L) : L[j] = s[j] /\ s[j] # At
       /\ \A j \in 1..Len(D) : D[j] = s[j + Len(L) + 1]
  BY <1>3, <1>9, SidesAre
<1> HIDE DEF L, D
<1>11. Len(L) = Len(l)
  <2>1. Len(L) \in Nat
    BY <1>10
  <2>2. ~(Len(L) < Len(l))
    <3> SUFFICES ASSUME Len(L) < Len(l)
                 PROVE  FALSE
      OBVIOUS
    <3>1. Len(L) + 1 \in 1..Len(l)
      BY <1>4, <2>1
    <3> QED
      BY <1>6, <1>10, <3>1
  <2>3. ~(Len(l) < Len(L))
    <3> SUFFICES ASSUME Len(l) < Len(L)
                 PROVE  FALSE
      OBVIOUS
    <3>1. Len(l) + 1 \in 1..Len(L)
      BY <1>4, <2>1
    <3> QED
      BY <1>7, <1>10, <3>1
  <2> QED
    BY <1>4, <2>1, <2>2, <2>3
<1>12. L = l
  <2>1. \A j \in 1..Len(L) : L[j] = l[j]
    BY <1>6, <1>10, <1>11
  <2> QED
    BY <1>10, <1>11, <2>1, SeqEqual
<1>13. D = d
  <2>1. Len(D) = Len(d)
    BY <1>4, <1>5, <1>10, <1>11
  <2>2. \A j \in 1..Len(D) : D[j] = d[j]
    BY <1>8, <1>10, <1>11, <2>1
  <2> QED
    BY <1>10, <2>1, <2>2, SeqEqual
<1> QED
  BY <1>3, <1>9, <1>12, <1>13 DEF L, D, s, la, a

\* A valid local part has no @, and neither has a valid domain: each of its
\* characters is a dot or in a label.
LEMMA ValidHasNoAt ==
    ASSUME NEW s \in Seq(EmailChars)
    PROVE  /\ is_valid_local_part(s) => ~Has(s, <<At>>)
           /\ is_valid_domain(s) => ~Has(s, <<At>>)
<1>1. At \notin Letters \cup DigitChars /\ At # Dot /\ At # Hyphen /\ At # "_" /\ At # "+"
  BY EmailAssumption DEF At, Dot, Hyphen
<1>2. is_valid_local_part(s) => ~Has(s, <<At>>)
  <2> SUFFICES ASSUME is_valid_local_part(s), NEW i \in 1..Len(s)
               PROVE  s[i] # At
    BY CharHas
  <2>1. s[i] \in Letters \cup DigitChars \cup {Dot, "_", Hyphen, "+"}
    BY DEF is_valid_local_part
  <2> QED
    BY <1>1, <2>1
<1>3. is_valid_domain(s) => ~Has(s, <<At>>)
  <2> SUFFICES ASSUME is_valid_domain(s), NEW i \in 1..Len(s), s[i] = At
               PROVE  FALSE
    BY CharHas
  <2> DEFINE p == Pieces(s, Dot)
  <2>1. /\ p \in Seq(Seq(EmailChars))
        /\ \A n \in 1..Len(s) : s[n] # Dot =>
              \E k \in 1..Len(p) : \E j \in 1..Len(p[k]) : p[k][j] = s[n]
    BY PiecesHold
  <2>2. \A k \in DOMAIN p : ValidLabel(p[k])
    BY DEF is_valid_domain
  <2> HIDE DEF p
  <2>3. PICK k \in 1..Len(p) : \E j \in 1..Len(p[k]) : p[k][j] = At
    BY <1>1, <2>1
  <2>4. PICK j \in 1..Len(p[k]) : p[k][j] = At
    BY <2>3
  <2>5. ValidLabel(p[k])
    BY <2>1, <2>2
  <2>6. p[k][j] \in Letters \cup DigitChars \cup {Hyphen}
    BY <2>5 DEF ValidLabel
  <2> QED
    BY <1>1, <2>4, <2>6
<1> QED
  BY <1>2, <1>3

\* A text is valid exactly if its two sides are.
LEMMA ValidBySides ==
    ASSUME NEW s \in Seq(EmailChars), Has(s, <<At>>)
    PROVE  is_valid_email_address(s) <=>
              is_valid_local_part(LocalSide(s)) /\ is_valid_domain(DomainSide(s))
<1> DEFINE l == LocalSide(s)
           d == DomainSide(s)
<1>1. /\ l \in Seq(EmailChars) /\ d \in Seq(EmailChars)
      /\ Len(s) = Len(l) + 1 + Len(d)
      /\ s[Len(l) + 1] = At
      /\ \A j \in 1..Len(l) : l[j] = s[j] /\ s[j] # At
      /\ \A j \in 1..Len(d) : d[j] = s[j + Len(l) + 1]
  BY SidesAre
<1>2. is_valid_email_address(s) => is_valid_local_part(l) /\ is_valid_domain(d)
  BY DEF is_valid_email_address
<1>3. ASSUME is_valid_local_part(l), is_valid_domain(d)
      PROVE  is_valid_email_address(s)
  <2> HIDE DEF l, d
  <2>1. l # <<>> /\ d # <<>>
    BY <1>3 DEF is_valid_local_part, is_valid_domain
  <2>2. Len(l) \in Nat \ {0} /\ Len(d) \in Nat \ {0}
    BY <1>1, <2>1, EmptySeq
  <2>3. s[1] # At
    <3>1. 1 \in 1..Len(l)
      BY <2>2
    <3> QED
      BY <1>1, <3>1
  <2>4. ~Has(d, <<At>>)
    BY <1>1, <1>3, ValidHasNoAt
  <2>5. s[Len(s)] # At
    <3>1. Len(d) \in 1..Len(d) /\ Len(d) + Len(l) + 1 = Len(s)
      BY <1>1, <2>2
    <3>2. d[Len(d)] = s[Len(s)]
      BY <1>1, <3>1
    <3> QED
      BY <1>1, <2>4, <3>1, <3>2, CharHas
  <2> QED
    BY <1>3, <2>3, <2>4, <2>5 DEF l, d, is_valid_email_address
<1> QED
  BY <1>2, <1>3

\* Parts that were checked are null or valid, and no local part has an @.
EmailInd ==
    /\ addr \in Seq(EmailChars) /\ local \in Seq(EmailChars) /\ domain \in Seq(EmailChars)
    /\ ~Has(local, <<At>>)
    /\ ~unchecked => Accepted(local, domain)

\* The default constructor's null address.
LEMMA EmailIndInit == EmailInit => EmailInd
  BY EmailAssumption DEF EmailInit, EmailInd, Accepted, IsNull

\* The local side never has an @.
LEMMA LocalSideClean ==
    ASSUME NEW s \in Seq(EmailChars), Has(s, <<At>>)
    PROVE  ~Has(LocalSide(s), <<At>>)
<1> DEFINE l == LocalSide(s)
<1>1. l \in Seq(EmailChars) /\ \A j \in 1..Len(l) : l[j] = s[j] /\ s[j] # At
  BY SidesAre
<1> HIDE DEF l
<1>2. ~Has(l, <<At>>)
  BY <1>1, CharHas
<1> QED
  BY <1>2 DEF l

\* Each operation keeps it.
LEMMA EmailIndNext == EmailInd /\ [EmailNext]_emailVars => EmailInd'
<1> SUFFICES ASSUME EmailInd, [EmailNext]_emailVars
             PROVE  EmailInd'
  OBVIOUS
<1>1. CASE construct
  <2>1. addr \in Seq(EmailChars) /\ Has(addr, <<At>>)
    BY <1>1 DEF construct, Constructs, EmailInd
  <2>2. LocalSide(addr) \in Seq(EmailChars) /\ DomainSide(addr) \in Seq(EmailChars)
    BY <2>1, SidesAre
  <2>3. ~Has(LocalSide(addr), <<At>>)
    BY <2>1, LocalSideClean
  <2>4. /\ local' = LocalSide(addr) /\ domain' = DomainSide(addr) /\ addr' = addr
        /\ Accepted(LocalSide(addr), DomainSide(addr))
    BY <1>1 DEF construct, Constructs
  <2> QED
    BY <2>1, <2>2, <2>3, <2>4 DEF EmailInd, Accepted, IsNull
<1>2. CASE write_email
  <2>1. EmailText \in Seq(EmailChars)
    BY SidesOfText DEF EmailInd, EmailText
  <2> QED
    BY <1>2, <2>1 DEF write_email, EmailInd, Accepted, IsNull
<1>3. CASE read_email
  <2>1. addr \in Seq(EmailChars) /\ Has(addr, <<At>>)
    BY <1>3 DEF read_email, EmailInd
  <2>2. LocalSide(addr) \in Seq(EmailChars) /\ DomainSide(addr) \in Seq(EmailChars)
    BY <2>1, SidesAre
  <2>3. ~Has(LocalSide(addr), <<At>>)
    BY <2>1, LocalSideClean
  <2> QED
    BY <1>3, <2>1, <2>2, <2>3 DEF read_email, EmailInd
<1>4. CASE UNCHANGED emailVars
  BY <1>4 DEF emailVars, EmailInd, Accepted, IsNull
<1> QED
  BY <1>1, <1>2, <1>3, <1>4 DEF EmailNext

\* What the invariant says of the address, of the constructor and of the
\* text that is written.
LEMMA EmailIndImplies == EmailInd => EmailsExact
<1> SUFFICES ASSUME EmailInd
             PROVE  EmailsExact
  OBVIOUS
<1>1. /\ EmailText \in Seq(EmailChars) /\ Has(EmailText, <<At>>)
      /\ LocalSide(EmailText) = local /\ DomainSide(EmailText) = domain
  BY SidesOfText DEF EmailInd, EmailText
<1>2. EmailRoundTrip
  BY <1>1 DEF EmailRoundTrip
<1>3. ~unchecked => IsNull(local, domain) \/ is_valid_email_address(EmailText)
  <2> SUFFICES ASSUME ~unchecked, ~IsNull(local, domain)
               PROVE  is_valid_email_address(EmailText)
    OBVIOUS
  <2>1. is_valid_local_part(local) /\ is_valid_domain(domain)
    BY DEF EmailInd, Accepted
  <2> QED
    BY <1>1, <2>1, ValidBySides
<1>4. Constructs(addr) =
         \/ /\ is_valid_email_address(addr)
            /\ CSFit(LocalSide(addr), DomainSide(addr))
         \/ Has(addr, <<At>>) /\ IsNull(LocalSide(addr), DomainSide(addr))
  <2> DEFINE l == LocalSide(addr)
             d == DomainSide(addr)
  <2>1. IsNull(l, d) => CSFit(l, d)
    BY EmailAssumption DEF IsNull, CSFit
  <2>2. is_valid_email_address(addr) => Has(addr, <<At>>)
    BY DEF is_valid_email_address
  <2>3. Has(addr, <<At>>) => (is_valid_email_address(addr) <=>
           is_valid_local_part(l) /\ is_valid_domain(d))
    BY ValidBySides DEF EmailInd
  <2>4. Constructs(addr) <=>
           /\ Has(addr, <<At>>) /\ CSFit(l, d)
           /\ IsNull(l, d) \/ (is_valid_local_part(l) /\ is_valid_domain(d))
    BY DEF Constructs, Accepted
  <2>5. Constructs(addr) \in BOOLEAN
    BY DEF Constructs
  <2> HIDE DEF l, d
  <2>6. Constructs(addr) <=>
           \/ is_valid_email_address(addr) /\ CSFit(l, d)
           \/ Has(addr, <<At>>) /\ IsNull(l, d)
    BY <2>1, <2>2, <2>3, <2>4
  <2> QED
    BY <2>5, <2>6 DEF l, d
<1> QED
  BY <1>2, <1>3, <1>4, Zenon DEF EmailsExact, EmailExact

\* For all limits and alphabets: an Email that was constructed holds a valid
\* address or the null address, the constructor takes only addresses that
\* is_valid_email_address accepts, or the null address, and all of them that
\* are shorter than the CS, and what str() writes reads back.
THEOREM EmailsCorrect == EmailSpec => []EmailsExact
<1>1. EmailInd /\ [EmailNext]_emailVars => EmailInd'
  BY EmailIndNext
<1> QED
  BY <1>1, EmailIndInit, EmailIndImplies, PTL DEF EmailSpec

-----------------------------------------------------------------------------
(***************************************************************************)
(* Leaving elements out.                                                   *)
(***************************************************************************)

\* One more element: left out if it is in D.
KeptWith(w, c, D) == IF c \in D THEN w ELSE Append(w, c)

\* w has each beginning of s without the elements of D.
Keeps(w, s, D, S) ==
    /\ w \in [0..Len(s) -> Seq(S)] /\ w[0] = <<>>
    /\ \A n \in 1..Len(s) : w[n] = KeptWith(w[n - 1], s[n], D)

\* Without goes through the sequence from its beginning.
LEMMA WithoutKeeps ==
    ASSUME NEW S, NEW s \in Seq(S), NEW D
    PROVE  \E w : Keeps(w, s, D, S) /\ Without(s, D) = w[Len(s)]
<1> DEFINE X == Seq(S)
           m == Len(s)
           Is(g) == g = [n \in 0..m |-> IF n = 0 THEN <<>>
                                        ELSE KeptWith(g[n - 1], s[n], D)]
           w == CHOOSE g : Is(g)
           G == [x \in (1..m) \X X |-> KeptWith(x[2], s[x[1]], D)]
<1>1. m \in Nat /\ \A n \in 1..m : s[n] \in S
  OBVIOUS
<1>2. <<>> \in X
  OBVIOUS
<1>3. \A v \in X, c \in S : KeptWith(v, c, D) \in X
  BY AppendProperties DEF KeptWith
<1>4. Without(s, D) = w[Len(s)]
  BY DEF Without, KeptWith
<1> HIDE DEF X, m, w
<1>5. ASSUME NEW n \in 1..m, NEW v \in X
      PROVE  G[<<n, v>>] = KeptWith(v, s[n], D)
  <2>1. <<n, v>> \in (1..m) \X X
    OBVIOUS
  <2> QED
    BY <2>1
<1>6. G \in [(1..m) \X X -> X]
  <2>1. ASSUME NEW x \in (1..m) \X X
        PROVE  KeptWith(x[2], s[x[1]], D) \in X
    BY <1>1, <1>3
  <2> QED
    BY <2>1
<1> HIDE DEF G
<1>7. PICK g \in [0..m -> X] : RecursFrom(g, m, <<>>, G)
  <2> DEFINE r == <<>>
  <2>1. r \in X
    BY <1>2
  <2> HIDE DEF r
  <2>2. \E g \in [0..m -> X] : RecursFrom(g, m, r, G)
    BY <1>1, <1>6, <2>1, IndexedRecursionExists
  <2> QED
    BY <2>2 DEF r
<1>8. Is(g)
  <2>1. g[0] = <<>>
    BY <1>7 DEF RecursFrom
  <2>2. ASSUME NEW n \in 1..m
        PROVE  g[n] = KeptWith(g[n - 1], s[n], D)
    <3>1. n - 1 \in 0..m
      BY <1>1
    <3>2. g[n - 1] \in X
      BY <1>7, <3>1
    <3> QED
      BY <1>5, <1>7, <3>2 DEF RecursFrom
  <2>3. ASSUME NEW n \in 0..m
        PROVE  g[n] = IF n = 0 THEN <<>> ELSE KeptWith(g[n - 1], s[n], D)
    <3>1. n = 0 \/ n \in 1..m
      BY <1>1
    <3>2. n \in 1..m => n # 0
      BY <1>1
    <3> QED
      BY <2>1, <2>2, <3>1, <3>2, Zenon
  <2> QED
    BY <1>7, <2>3
<1>9. Is(w)
  BY <1>8 DEF w
<1>10. w[0] = <<>> /\ \A n \in 1..m : w[n] = KeptWith(w[n - 1], s[n], D)
  BY <1>1, <1>9
<1>11. \A n \in 0..m : w[n] \in X
  <2> DEFINE T == {n \in Nat : n <= m => w[n] \in X}
  <2>1. 0 \in T
    BY <1>2, <1>10
  <2>2. ASSUME NEW n \in Nat, n \in T
        PROVE  n + 1 \in T
    <3> SUFFICES ASSUME n + 1 <= m
                 PROVE  w[n + 1] \in X
      OBVIOUS
    <3> DEFINE k == n + 1
    <3>1. k \in 1..m /\ k - 1 = n /\ w[n] \in X
      BY <1>1, <2>2
    <3> HIDE DEF k
    <3>2. w[k] = KeptWith(w[n], s[k], D) /\ s[k] \in S
      BY <1>1, <1>10, <3>1
    <3> QED
      BY <1>3, <3>1, <3>2 DEF k
  <2>3. Nat \subseteq T
    <3> HIDE DEF T
    <3> QED
      BY <2>1, <2>2, NatInductive
  <2> QED
    BY <1>1, <2>3
<1>12. w \in [0..m -> X]
  BY <1>9, <1>11
<1> QED
  BY <1>4, <1>10, <1>12 DEF X, m, Keeps

\* Without of the empty sequence, and of one that is one longer.
LEMMA WithoutEmpty == ASSUME NEW D PROVE Without(<<>>, D) = <<>>
<1> DEFINE s == <<>>
<1>1. s \in Seq({}) /\ Len(s) = 0
  OBVIOUS
<1> HIDE DEF s
<1>2. PICK w : Keeps(w, s, D, {}) /\ Without(s, D) = w[Len(s)]
  BY <1>1, WithoutKeeps
<1>3. Without(s, D) = <<>>
  BY <1>1, <1>2 DEF Keeps
<1> QED
  BY <1>3 DEF s

\* One more character is kept unless it is one of those left out.
LEMMA WithoutAppend ==
    ASSUME NEW S, NEW s \in Seq(S), NEW c \in S, NEW D
    PROVE  /\ Without(s, D) \in Seq(S)
           /\ Without(Append(s, c), D) = KeptWith(Without(s, D), c, D)
<1> DEFINE t == Append(s, c)
           m == Len(s)
<1>1. /\ t \in Seq(S) /\ Len(t) = m + 1 /\ t[m + 1] = c /\ m \in Nat
      /\ \A i \in 1..m : t[i] = s[i]
  BY AppendProperties
<1> HIDE DEF t
<1>2. PICK w : Keeps(w, s, D, S) /\ Without(s, D) = w[m]
  BY WithoutKeeps
<1>3. PICK v : Keeps(v, t, D, S) /\ Without(t, D) = v[Len(t)]
  BY <1>1, WithoutKeeps
<1> HIDE DEF m
<1>4. \A n \in 0..m : v[n] = w[n]
  <2> DEFINE T == {n \in Nat : n <= m => v[n] = w[n]}
  <2>1. 0 \in T
    BY <1>2, <1>3 DEF Keeps
  <2>2. ASSUME NEW n \in Nat, n \in T
        PROVE  n + 1 \in T
    <3> SUFFICES ASSUME n + 1 <= m
                 PROVE  v[n + 1] = w[n + 1]
      OBVIOUS
    <3> DEFINE k == n + 1
    <3>1. k \in 1..m /\ k \in 1..Len(t) /\ k - 1 = n /\ v[n] = w[n]
      BY <1>1, <2>2
    <3> HIDE DEF k
    <3>2. w[k] = KeptWith(w[n], s[k], D)
      BY <1>2, <3>1 DEF Keeps, m
    <3>3. v[k] = KeptWith(v[n], t[k], D)
      BY <1>3, <3>1 DEF Keeps
    <3>4. t[k] = s[k]
      BY <1>1, <3>1
    <3> QED
      BY <3>1, <3>2, <3>3, <3>4 DEF k
  <2>3. Nat \subseteq T
    <3> HIDE DEF T
    <3> QED
      BY <2>1, <2>2, NatInductive
  <2> QED
    BY <1>1, <2>3
<1>5. v[m + 1] = KeptWith(v[m], c, D)
  <2> DEFINE k == m + 1
  <2>1. k \in 1..Len(t) /\ k - 1 = m /\ t[k] = c
    BY <1>1
  <2> HIDE DEF k
  <2> QED
    BY <1>3, <2>1 DEF Keeps, k
<1>6. v[m] = w[m] /\ w[m] \in Seq(S)
  <2>1. m \in 0..m
    BY <1>1
  <2> QED
    BY <1>2, <1>4, <2>1 DEF Keeps, m
<1> QED
  BY <1>1, <1>2, <1>3, <1>5, <1>6 DEF t

\* What is left is a sequence of elements of s that are not in D.
LEMMA WithoutHas ==
    ASSUME NEW S, NEW D
    PROVE  \A s \in Seq(S) :
              /\ Without(s, D) \in Seq(S)
              /\ \A k \in 1..Len(Without(s, D)) :
                    /\ Without(s, D)[k] \notin D
                    /\ \E i \in 1..Len(s) : s[i] = Without(s, D)[k]
<1> DEFINE Ok(u, s) == /\ u \in Seq(S)
                       /\ \A k \in 1..Len(u) : u[k] \notin D /\ \E i \in 1..Len(s) : s[i] = u[k]
           P == {s \in Seq(S) : Ok(Without(s, D), s)}
<1>1. <<>> \in P
  <2> DEFINE e == <<>>
  <2>1. Without(e, D) = e /\ e \in Seq(S) /\ Len(e) = 0
    BY WithoutEmpty
  <2> HIDE DEF e
  <2>2. e \in P
    BY <2>1
  <2> QED
    BY <2>2 DEF e
<1>2. ASSUME NEW s \in Seq(S), NEW c \in S, s \in P
      PROVE  Append(s, c) \in P
  <2> DEFINE u == Without(s, D)
             t == Append(s, c)
             v == Without(t, D)
  <2>1. v = KeptWith(u, c, D) /\ Ok(u, s)
    BY <1>2, WithoutAppend
  <2>2. /\ t \in Seq(S) /\ Len(t) = Len(s) + 1 /\ t[Len(s) + 1] = c /\ Len(s) \in Nat
        /\ \A i \in 1..Len(s) : t[i] = s[i]
    BY AppendProperties
  <2> HIDE DEF u, v, t
  <2>3. ASSUME NEW x, \E i \in 1..Len(s) : s[i] = x
        PROVE  \E i \in 1..Len(t) : t[i] = x
    <3>1. PICK i \in 1..Len(s) : s[i] = x
      BY <2>3
    <3>2. i \in 1..Len(t) /\ t[i] = x
      BY <2>2, <3>1
    <3> QED
      BY <3>2
  <2>4. \E i \in 1..Len(t) : t[i] = c
    <3>1. Len(s) + 1 \in 1..Len(t)
      BY <2>2
    <3> QED
      BY <2>2, <3>1
  <2>5. Ok(v, t)
    <3>1. CASE c \in D
      <4>1. v = u
        BY <2>1, <3>1 DEF KeptWith
      <4> QED
        BY <2>1, <2>3, <4>1
    <3>2. CASE c \notin D
      <4>1. v = Append(u, c)
        BY <2>1, <3>2 DEF KeptWith
      <4>2. /\ v \in Seq(S) /\ Len(v) = Len(u) + 1 /\ v[Len(u) + 1] = c /\ Len(u) \in Nat
            /\ \A i \in 1..Len(u) : v[i] = u[i]
        BY <2>1, <4>1, AppendProperties
      <4>3. ASSUME NEW k \in 1..Len(v)
            PROVE  v[k] \notin D /\ \E i \in 1..Len(t) : t[i] = v[k]
        <5>1. k \in 1..Len(u) \/ k = Len(u) + 1
          BY <4>2
        <5>2. CASE k \in 1..Len(u)
          BY <2>1, <2>3, <4>2, <5>2
        <5>3. CASE k = Len(u) + 1
          BY <2>4, <3>2, <4>2, <5>3
        <5> QED
          BY <5>1, <5>2, <5>3
      <4> QED
        BY <4>2, <4>3
    <3> QED
      BY <3>1, <3>2
  <2> QED
    BY <2>2, <2>5 DEF t, v
<1>3. Seq(S) \subseteq P
  <2> HIDE DEF P
  <2> QED
    BY <1>1, <1>2, SeqInductive
<1> QED
  BY <1>3

\* Parts may be gone through one after the other.
LEMMA WithoutConcat ==
    ASSUME NEW S, NEW s \in Seq(S), NEW D
    PROVE  \A t \in Seq(S) : Without(s \o t, D) = Without(s, D) \o Without(t, D)
<1> DEFINE P == {t \in Seq(S) : Without(s \o t, D) = Without(s, D) \o Without(t, D)}
<1>0. Without(s, D) \in Seq(S)
  BY WithoutHas
<1>1. <<>> \in P
  <2>1. Without(<<>>, D) = <<>> /\ s \o <<>> = s
    BY WithoutEmpty, ConcatEmptySeq
  <2>2. Without(s, D) \o <<>> = Without(s, D)
    BY <1>0, ConcatEmptySeq
  <2>3. <<>> \in Seq(S)
    OBVIOUS
  <2> QED
    BY <2>1, <2>2, <2>3, Zenon
<1>2. ASSUME NEW t \in Seq(S), NEW c \in S, t \in P
      PROVE  Append(t, c) \in P
  <2> DEFINE st == s \o t
             tc == Append(t, c)
             u == Without(s, D)
             v == Without(t, D)
  <2>1. st \in Seq(S) /\ tc \in Seq(S)
    BY ConcatProperties, AppendProperties
  <2>2. s \o tc = Append(st, c)
    OBVIOUS
  <2>3. Without(tc, D) = KeptWith(v, c, D) /\ v \in Seq(S)
    BY WithoutAppend
  <2>4. Without(st, D) = u \o v
    BY <1>2
  <2> HIDE DEF st
  <2>5. Without(Append(st, c), D) = KeptWith(Without(st, D), c, D)
    BY <2>1, WithoutAppend
  <2> HIDE DEF u, v
  <2>6. KeptWith(u \o v, c, D) = u \o KeptWith(v, c, D)
    <3>1. u \o Append(v, c) = Append(u \o v, c)
      BY <1>0, <2>3 DEF u
    <3> QED
      BY <3>1 DEF KeptWith
  <2>7. Without(s \o tc, D) = u \o Without(tc, D)
    BY <2>2, <2>3, <2>4, <2>5, <2>6
  <2> HIDE DEF tc
  <2> QED
    BY <2>1, <2>7 DEF tc, u
<1>3. Seq(S) \subseteq P
  <2> HIDE DEF P
  <2> QED
    BY <1>1, <1>2, SeqInductive
<1> QED
  BY <1>3

\* Only the elements that are there matter.
LEMMA WithoutSame ==
    ASSUME NEW S, NEW D, NEW E
    PROVE  \A s \in Seq(S) :
              (\A i \in 1..Len(s) : s[i] \in D <=> s[i] \in E) =>
                 Without(s, D) = Without(s, E)
<1> DEFINE Same(s) == \A i \in 1..Len(s) : s[i] \in D <=> s[i] \in E
           P == {s \in Seq(S) : Same(s) => Without(s, D) = Without(s, E)}
<1>1. <<>> \in P
  BY WithoutEmpty
<1>2. ASSUME NEW s \in Seq(S), NEW c \in S, s \in P
      PROVE  Append(s, c) \in P
  <2> DEFINE t == Append(s, c)
  <2>1. /\ Without(t, D) = KeptWith(Without(s, D), c, D)
        /\ Without(t, E) = KeptWith(Without(s, E), c, E)
    BY WithoutAppend
  <2>2. /\ t \in Seq(S) /\ Len(t) = Len(s) + 1 /\ t[Len(s) + 1] = c /\ Len(s) \in Nat
        /\ \A i \in 1..Len(s) : t[i] = s[i]
    BY AppendProperties
  <2> HIDE DEF t
  <2>3. ASSUME Same(t)
        PROVE  Without(t, D) = Without(t, E)
    <3>1. Same(s)
      BY <2>2, <2>3
    <3>2. c \in D <=> c \in E
      <4>1. Len(s) + 1 \in 1..Len(t)
        BY <2>2
      <4> QED
        BY <2>2, <2>3, <4>1
    <3> QED
      BY <1>2, <2>1, <3>1, <3>2 DEF KeptWith
  <2> QED
    BY <2>2, <2>3 DEF t
<1>3. Seq(S) \subseteq P
  <2> HIDE DEF P
  <2> QED
    BY <1>1, <1>2, SeqInductive
<1> QED
  BY <1>3

\* Nothing to leave out.
LEMMA WithoutNone ==
    ASSUME NEW S, NEW D
    PROVE  \A s \in Seq(S) : (\A i \in 1..Len(s) : s[i] \notin D) => Without(s, D) = s
<1> DEFINE Clean(s) == \A i \in 1..Len(s) : s[i] \notin D
           P == {s \in Seq(S) : Clean(s) => Without(s, D) = s}
<1>1. <<>> \in P
  BY WithoutEmpty
<1>2. ASSUME NEW s \in Seq(S), NEW c \in S, s \in P
      PROVE  Append(s, c) \in P
  <2> DEFINE t == Append(s, c)
  <2>1. Without(t, D) = KeptWith(Without(s, D), c, D)
    BY WithoutAppend
  <2>2. /\ t \in Seq(S) /\ Len(t) = Len(s) + 1 /\ t[Len(s) + 1] = c /\ Len(s) \in Nat
        /\ \A i \in 1..Len(s) : t[i] = s[i]
    BY AppendProperties
  <2> HIDE DEF t
  <2>3. ASSUME Clean(t)
        PROVE  Without(t, D) = t
    <3>1. Clean(s)
      BY <2>2, <2>3
    <3>2. c \notin D
      <4>1. Len(s) + 1 \in 1..Len(t)
        BY <2>2
      <4> QED
        BY <2>2, <2>3, <4>1
    <3> QED
      BY <1>2, <2>1, <3>1, <3>2 DEF KeptWith, t
  <2> QED
    BY <2>2, <2>3 DEF t
<1>3. Seq(S) \subseteq P
  <2> HIDE DEF P
  <2> QED
    BY <1>1, <1>2, SeqInductive
<1> QED
  BY <1>3

\* Leaving out twice.
LEMMA WithoutTwice ==
    ASSUME NEW S, NEW D, NEW E
    PROVE  \A s \in Seq(S) : Without(Without(s, D), E) = Without(s, D \cup E)
<1> DEFINE P == {s \in Seq(S) : Without(Without(s, D), E) = Without(s, D \cup E)}
<1>1. <<>> \in P
  BY WithoutEmpty
<1>2. ASSUME NEW s \in Seq(S), NEW c \in S, s \in P
      PROVE  Append(s, c) \in P
  <2> DEFINE t == Append(s, c)
             u == Without(s, D)
             DE == D \cup E
  <2>0. c \in DE <=> c \in D \/ c \in E
    OBVIOUS
  <2>1. Without(u, E) = Without(s, DE)
    BY <1>2
  <2> HIDE DEF DE
  <2>2. /\ Without(t, D) = KeptWith(u, c, D) /\ u \in Seq(S)
        /\ Without(t, DE) = KeptWith(Without(s, DE), c, DE)
    BY WithoutAppend
  <2> HIDE DEF u
  <2>3. Without(Append(u, c), E) = KeptWith(Without(u, E), c, E)
    BY <2>2, WithoutAppend
  <2>4. Without(Without(t, D), E) = Without(t, DE)
    <3>1. CASE c \in D
      <4>1. Without(t, D) = u /\ Without(t, DE) = Without(s, DE)
        BY <2>0, <2>2, <3>1 DEF KeptWith
      <4> QED
        BY <2>1, <4>1
    <3>2. CASE c \notin D
      <4>1. Without(t, D) = Append(u, c)
        BY <2>2, <3>2 DEF KeptWith
      <4>2. KeptWith(Without(u, E), c, E) = KeptWith(Without(u, E), c, DE)
        BY <2>0, <3>2 DEF KeptWith
      <4> QED
        BY <2>1, <2>2, <2>3, <4>1, <4>2
    <3> QED
      BY <3>1, <3>2
  <2>5. t \in Seq(S)
    BY AppendProperties
  <2> QED
    BY <2>4, <2>5 DEF DE
<1>3. Seq(S) \subseteq P
  <2> HIDE DEF P
  <2> QED
    BY <1>1, <1>2, SeqInductive
<1> QED
  BY <1>3

-----------------------------------------------------------------------------
(***************************************************************************)
(* Removing.                                                               *)
(***************************************************************************)

\* find finds the places where every character agrees.
LEMMA OccursIs ==
    ASSUME NEW S, NEW s \in Seq(S), NEW o \in Seq(S), o # <<>>
    PROVE  Occurrences(s, o) = {i \in 1..(Len(s) - Len(o) + 1) :
                                  \A k \in 1..Len(o) : s[i + k - 1] = o[k]}
<1> DEFINE L == Len(o)
<1>1. L \in Nat \ {0} /\ Len(s) \in Nat
  BY EmptySeq
<1>2. ASSUME NEW i \in 1..(Len(s) - L + 1)
      PROVE  SubSeq(s, i, i + L - 1) = o <=> \A k \in 1..L : s[i + k - 1] = o[k]
  <2> DEFINE j == i + L - 1
             w == SubSeq(s, i, j)
  <2>1. /\ i \in Nat \ {0} /\ j \in Nat /\ j <= Len(s) /\ i <= j
        /\ j - i + 1 = L
    BY <1>1
  <2> HIDE DEF j, L
  <2>2. /\ w \in Seq(S) /\ Len(w) = L
        /\ \A k \in 1..L : w[k] = s[i + k - 1]
    BY <2>1, PartIs, SMTT(40)
  <2> HIDE DEF w
  <2>3. w = o => \A k \in 1..L : s[i + k - 1] = o[k]
    BY <2>2
  <2>4. (\A k \in 1..L : s[i + k - 1] = o[k]) => w = o
    <3> SUFFICES ASSUME \A k \in 1..L : s[i + k - 1] = o[k]
                 PROVE  w = o
      OBVIOUS
    <3>1. \A k \in 1..Len(w) : w[k] = o[k]
      BY <2>2
    <3> QED
      BY <2>2, <3>1, SeqEqual DEF L
  <2> QED
    BY <2>3, <2>4 DEF w, j
<1> QED
  BY <1>2 DEF Occurrences

\* s.erase(i, n)
Cut(s, i, n) == SubSeq(s, 1, i - 1) \o SubSeq(s, i + n, Len(s))

\* The characters that are left.
LEMMA CutIs ==
    ASSUME NEW S, NEW s \in Seq(S), NEW n \in Nat, NEW i \in 1..(Len(s) - n + 1)
    PROVE  /\ Cut(s, i, n) \in Seq(S) /\ Len(Cut(s, i, n)) = Len(s) - n
           /\ Len(s) - n \in Nat
           /\ \A j \in 1..(Len(s) - n) :
                 Cut(s, i, n)[j] = IF j < i THEN s[j] ELSE s[j + n]
<1> DEFINE b == i - 1
           e == i + n
           L == Len(s)
           x == SubSeq(s, 1, b)
           y == SubSeq(s, e, L)
<1>1. /\ b \in Nat /\ b <= L /\ e \in Nat \ {0} /\ e <= L + 1 /\ L \in Nat /\ 1 \in Nat \ {0}
      /\ b - 1 + 1 = b /\ L - e + 1 = L - n - b /\ (IF 1 <= b THEN b ELSE 0) = b
      /\ (IF e <= L THEN L - e + 1 ELSE 0) = L - n - b
  OBVIOUS
<1>2. \A k \in 1..b : 1 + k - 1 = k
  BY <1>1
<1>3. \A k \in 1..(L - n - b) : e + k - 1 = b + k + n
  BY <1>1
<1> HIDE DEF b, e, L
<1>4. L <= Len(s)
  BY DEF L
<1>5. /\ x \in Seq(S) /\ Len(x) = b
      /\ \A k \in 1..b : x[k] = s[k]
  BY <1>1, <1>2, PartIs DEF L
<1>6. /\ y \in Seq(S) /\ Len(y) = L - n - b
      /\ \A k \in 1..(L - n - b) : y[k] = s[b + k + n]
  <2>1. /\ y \in Seq(S) /\ Len(y) = IF e <= L THEN L - e + 1 ELSE 0
        /\ \A k \in 1..(L - e + 1) : y[k] = s[e + k - 1]
    BY <1>1, <1>4, PartIs
  <2> HIDE DEF y
  <2> QED
    BY <1>1, <1>3, <2>1
<1> HIDE DEF x, y
<1>7. /\ x \o y \in Seq(S) /\ Len(x \o y) = Len(x) + Len(y)
      /\ \A j \in 1..(Len(x) + Len(y)) :
            (x \o y)[j] = IF j <= Len(x) THEN x[j] ELSE y[j - Len(x)]
  BY <1>5, <1>6, ConcatProperties
<1>8. Len(x) + Len(y) = L - n
  BY <1>1, <1>5, <1>6
<1>9. L - n \in Nat /\ i = b + 1
  BY <1>1 DEF b, L
<1>10. ASSUME NEW j \in 1..(L - n)
       PROVE  (x \o y)[j] = IF j < i THEN s[j] ELSE s[j + n]
  <2>1. CASE j < i
    <3>1. j \in 1..b /\ j <= Len(x)
      BY <1>1, <1>5, <1>9, <2>1
    <3> QED
      BY <1>5, <1>7, <1>8, <2>1, <3>1
  <2>2. CASE ~(j < i)
    <3> DEFINE k == j - b
    <3>1. k \in 1..(L - n - b) /\ ~(j <= Len(x)) /\ b + k + n = j + n /\ j - Len(x) = k
      BY <1>1, <1>5, <1>9, <2>2
    <3> HIDE DEF k
    <3>2. (x \o y)[j] = y[k]
      BY <1>7, <1>8, <3>1
    <3>3. y[k] = s[j + n]
      BY <1>6, <3>1
    <3> QED
      BY <2>2, <3>2, <3>3
  <2> QED
    BY <2>1, <2>2
<1>11. Cut(s, i, n) = x \o y
  BY DEF Cut, x, y, b, e, L
<1> QED
  BY <1>7, <1>8, <1>9, <1>10, <1>11 DEF L

\* erase of the first occurrence is such a cut.
LEMMA ErasedIs ==
    ASSUME NEW S, NEW s \in Seq(S), NEW o \in Seq(S), o # <<>>
    PROVE  /\ Erased(s, o) \in Seq(S)
           /\ ~Has(s, o) => Erased(s, o) = s
           /\ Has(s, o) => /\ Min(Occurrences(s, o)) \in Occurrences(s, o)
                           /\ Erased(s, o) = Cut(s, Min(Occurrences(s, o)), Len(o))
                           /\ Len(Erased(s, o)) = Len(s) - Len(o)
<1>1. ~Has(s, o) => Erased(s, o) = s
  BY DEF Erased
<1>2. ASSUME Has(s, o)
      PROVE  /\ Min(Occurrences(s, o)) \in Occurrences(s, o)
             /\ Erased(s, o) = Cut(s, Min(Occurrences(s, o)), Len(o))
             /\ Len(Erased(s, o)) = Len(s) - Len(o)
             /\ Erased(s, o) \in Seq(S)
  <2> DEFINE O == Occurrences(s, o)
             i == Min(O)
  <2>1. O \in SUBSET Nat /\ O # {} /\ \A k \in O : k \in 1..(Len(s) - Len(o) + 1)
    BY <1>2, OccursIs DEF Has
  <2> HIDE DEF O
  <2>2. i \in O
    BY <2>1, MinIsIn
  <2>3. Erased(s, o) = Cut(s, i, Len(o))
    BY <1>2 DEF Erased, Cut, O
  <2> HIDE DEF i
  <2>4. i \in 1..(Len(s) - Len(o) + 1) /\ Len(o) \in Nat
    BY <2>1, <2>2
  <2>5. Cut(s, i, Len(o)) \in Seq(S) /\ Len(Cut(s, i, Len(o))) = Len(s) - Len(o)
    <3> DEFINE n == Len(o)
    <3>1. n \in Nat /\ i \in 1..(Len(s) - n + 1)
      BY <2>4
    <3> HIDE DEF n
    <3>2. Cut(s, i, n) \in Seq(S) /\ Len(Cut(s, i, n)) = Len(s) - n
      BY <3>1, CutIs
    <3> QED
      BY <3>2 DEF n
  <2> QED
    BY <2>2, <2>3, <2>5 DEF i, O
<1> QED
  BY <1>1, <1>2

\* r has the string before the first turn of the loop, and after each one.
Turns(r, t, o, S) ==
    /\ r \in [0..Len(t) -> Seq(S)] /\ r[0] = t
    /\ \A k \in 1..Len(t) : r[k] = Erased(r[k - 1], o)

\* remove takes Len(t) turns.
LEMMA RemoveTurns ==
    ASSUME NEW S, NEW t \in Seq(S), NEW o \in Seq(S), o # <<>>
    PROVE  \E r : Turns(r, t, o, S) /\ remove(o, t) = r[Len(t)]
<1> DEFINE X == Seq(S)
           m == Len(t)
           Is(g) == g = [k \in 0..m |-> IF k = 0 THEN t ELSE Erased(g[k - 1], o)]
           r == CHOOSE g : Is(g)
           G == [x \in (1..m) \X X |-> Erased(x[2], o)]
<1>1. m \in Nat
  OBVIOUS
<1>2. t \in X
  OBVIOUS
<1>3. \A v \in X : Erased(v, o) \in X
  BY ErasedIs
<1>4. remove(o, t) = r[Len(t)]
  BY DEF remove
<1> HIDE DEF X, m, r
<1>5. ASSUME NEW n \in 1..m, NEW v \in X
      PROVE  G[<<n, v>>] = Erased(v, o)
  <2>1. <<n, v>> \in (1..m) \X X
    OBVIOUS
  <2> QED
    BY <2>1
<1>6. G \in [(1..m) \X X -> X]
  <2>1. ASSUME NEW x \in (1..m) \X X
        PROVE  Erased(x[2], o) \in X
    BY <1>1, <1>3
  <2> QED
    BY <2>1
<1> HIDE DEF G
<1>7. PICK g \in [0..m -> X] : RecursFrom(g, m, t, G)
  BY <1>1, <1>2, <1>6, IndexedRecursionExists
<1>8. Is(g)
  <2>1. g[0] = t
    BY <1>7 DEF RecursFrom
  <2>2. ASSUME NEW n \in 1..m
        PROVE  g[n] = Erased(g[n - 1], o)
    <3>1. n - 1 \in 0..m
      BY <1>1
    <3>2. g[n - 1] \in X
      BY <1>7, <3>1
    <3> QED
      BY <1>5, <1>7, <3>2 DEF RecursFrom
  <2>3. ASSUME NEW n \in 0..m
        PROVE  g[n] = IF n = 0 THEN t ELSE Erased(g[n - 1], o)
    <3>1. n = 0 \/ n \in 1..m
      BY <1>1
    <3>2. n \in 1..m => n # 0
      BY <1>1
    <3> QED
      BY <2>1, <2>2, <3>1, <3>2, Zenon
  <2> QED
    BY <1>7, <2>3
<1>9. Is(r)
  BY <1>8 DEF r
<1>10. r[0] = t /\ \A n \in 1..m : r[n] = Erased(r[n - 1], o)
  BY <1>1, <1>9
<1>11. \A n \in 0..m : r[n] \in X
  <2> DEFINE T == {n \in Nat : n <= m => r[n] \in X}
  <2>1. 0 \in T
    BY <1>2, <1>10
  <2>2. ASSUME NEW n \in Nat, n \in T
        PROVE  n + 1 \in T
    <3> SUFFICES ASSUME n + 1 <= m
                 PROVE  r[n + 1] \in X
      OBVIOUS
    <3> DEFINE k == n + 1
    <3>1. k \in 1..m /\ k - 1 = n /\ r[n] \in X
      BY <1>1, <2>2
    <3> HIDE DEF k
    <3>2. r[k] = Erased(r[n], o)
      BY <1>1, <1>10, <3>1
    <3> QED
      BY <1>3, <3>1, <3>2 DEF k
  <2>3. Nat \subseteq T
    <3> HIDE DEF T
    <3> QED
      BY <2>1, <2>2, NatInductive
  <2> QED
    BY <1>1, <2>3
<1>12. r \in [0..m -> X]
  BY <1>9, <1>11
<1> QED
  BY <1>4, <1>10, <1>12 DEF X, m, Turns

\* Where o occurs there are as many characters.
LEMMA HasRoom ==
    ASSUME NEW S, NEW s \in Seq(S), NEW o \in Seq(S), o # <<>>, Has(s, o)
    PROVE  Len(o) \in Nat \ {0} /\ Len(o) <= Len(s)
<1>1. Len(o) \in Nat \ {0} /\ Len(s) \in Nat
  BY EmptySeq
<1>2. PICK i : i \in Occurrences(s, o)
  BY DEF Has
<1>3. i \in 1..(Len(s) - Len(o) + 1)
  BY <1>2, OccursIs
<1> QED
  BY <1>1, <1>3

\* remove leaves no occurrence: every turn that finds one makes the string
\* shorter.
LEMMA RemoveClean ==
    ASSUME NEW S, NEW t \in Seq(S), NEW o \in Seq(S), o # <<>>
    PROVE  remove(o, t) \in Seq(S) /\ ~Has(remove(o, t), o)
<1>1. PICK r : Turns(r, t, o, S) /\ remove(o, t) = r[Len(t)]
  BY RemoveTurns
<1> DEFINE m == Len(t)
<1>2. m \in Nat
  OBVIOUS
<1>3. /\ r \in [0..m -> Seq(S)] /\ r[0] = t
      /\ \A k \in 1..m : r[k] = Erased(r[k - 1], o)
  BY <1>1 DEF Turns
<1> DEFINE Inv(k) == Has(r[k], o) => Len(r[k]) <= m - k
           U == {k \in Nat : k <= m => Inv(k)}
<1>4. 0 \in U
  BY <1>3
<1> HIDE DEF m
<1>5. ASSUME NEW n \in Nat, n \in U
      PROVE  n + 1 \in U
  <2> SUFFICES ASSUME n + 1 <= m
               PROVE  Inv(n + 1)
    <3> HIDE DEF Inv
    <3> QED
      OBVIOUS
  <2> DEFINE k == n + 1
  <2>1. k \in 1..m /\ k - 1 = n /\ n \in 0..m /\ n <= m /\ k \in 0..m
    BY <1>2
  <2>2. Inv(n)
    BY <1>5, <2>1, Zenon
  <2> HIDE DEF k
  <2>3. r[k] = Erased(r[n], o) /\ r[n] \in Seq(S) /\ r[k] \in Seq(S)
    BY <1>3, <2>1
  <2>4. CASE Has(r[n], o)
    <3>1. Len(r[k]) = Len(r[n]) - Len(o)
      BY <2>3, <2>4, ErasedIs, ZenonT(60)
    <3>2. Len(o) \in Nat \ {0}
      BY EmptySeq
    <3>3. Len(r[n]) \in Nat /\ Len(r[n]) <= m - n
      BY <2>2, <2>3, <2>4
    <3>4. Len(r[k]) <= m - k
      BY <1>2, <2>1, <3>1, <3>2, <3>3
    <3> QED
      BY <3>4 DEF k
  <2>5. CASE ~Has(r[n], o)
    <3>1. r[k] = r[n]
      BY <2>3, <2>5, ErasedIs
    <3> QED
      BY <2>5, <3>1 DEF k
  <2> QED
    BY <2>4, <2>5
<1>6. m \in U
  <2> HIDE DEF U
  <2> QED
    BY <1>2, <1>4, <1>5, NatInductive
<1>7. r[m] \in Seq(S)
  BY <1>2, <1>3
<1>8. ~Has(r[m], o)
  <2> SUFFICES ASSUME Has(r[m], o)
               PROVE  FALSE
    OBVIOUS
  <2>1. Len(r[m]) <= m - m
    BY <1>2, <1>6
  <2>2. Len(o) \in Nat \ {0} /\ Len(o) <= Len(r[m])
    BY <1>7, HasRoom
  <2> QED
    BY <1>2, <2>1, <2>2
<1> QED
  BY <1>1, <1>7, <1>8 DEF m

\* What has no occurrence stays as it is, and the first turn may be taken
\* before the loop.
LEMMA RemoveNone ==
    ASSUME NEW S, NEW t \in Seq(S), NEW o \in Seq(S), o # <<>>, ~Has(t, o)
    PROVE  remove(o, t) = t
<1>1. PICK r : Turns(r, t, o, S) /\ remove(o, t) = r[Len(t)]
  BY RemoveTurns
<1> DEFINE m == Len(t)
<1>2. m \in Nat
  OBVIOUS
<1>3. r[0] = t /\ \A k \in 1..m : r[k] = Erased(r[k - 1], o)
  BY <1>1 DEF Turns
<1> HIDE DEF m
<1> DEFINE U == {k \in Nat : k <= m => r[k] = t}
<1>4. 0 \in U
  BY <1>3
<1>5. ASSUME NEW n \in Nat, n \in U
      PROVE  n + 1 \in U
  <2> SUFFICES ASSUME n + 1 <= m
               PROVE  r[n + 1] = t
    OBVIOUS
  <2> DEFINE k == n + 1
  <2>1. k \in 1..m /\ k - 1 = n /\ r[n] = t
    BY <1>2, <1>5
  <2> HIDE DEF k
  <2>2. r[k] = Erased(t, o)
    BY <1>3, <2>1
  <2> QED
    BY <2>2, ErasedIs DEF k
<1>6. m \in U
  <2> HIDE DEF U
  <2> QED
    BY <1>2, <1>4, <1>5, NatInductive
<1> QED
  BY <1>1, <1>2, <1>6 DEF m

\* A text is removed by erasing its first occurrence and removing the rest.
LEMMA RemoveTurn ==
    ASSUME NEW S, NEW t \in Seq(S), NEW o \in Seq(S), o # <<>>, Has(t, o)
    PROVE  remove(o, t) = remove(o, Erased(t, o))
<1> DEFINE u == Erased(t, o)
           m == Len(t)
           l == Len(u)
<1>1. u \in Seq(S) /\ l = m - Len(o)
  BY ErasedIs
<1>2. Len(o) \in Nat \ {0} /\ Len(o) <= m /\ m \in Nat
  BY HasRoom
<1>3. l \in Nat /\ l + 1 <= m
  BY <1>1, <1>2
<1> HIDE DEF u
<1>4. PICK r : Turns(r, t, o, S) /\ remove(o, t) = r[m]
  BY RemoveTurns
<1>5. PICK q : Turns(q, u, o, S) /\ remove(o, u) = q[l]
  BY <1>1, RemoveTurns
<1>6. /\ r \in [0..m -> Seq(S)] /\ r[0] = t
      /\ \A k \in 1..m : r[k] = Erased(r[k - 1], o)
  BY <1>4 DEF Turns
<1>7. /\ q \in [0..l -> Seq(S)] /\ q[0] = u
      /\ \A k \in 1..l : q[k] = Erased(q[k - 1], o)
  BY <1>5 DEF Turns
<1>8. ~Has(q[l], o) /\ q[l] \in Seq(S)
  BY <1>1, <1>5, RemoveClean
<1> HIDE DEF m, l
<1>9. q[l] = r[l + 1]
  <2> DEFINE U == {k \in Nat : k <= l => q[k] = r[k + 1]}
  <2>1. 0 \in U
    <3>1. 1 \in 1..m /\ 1 - 1 = 0 /\ 0 + 1 = 1
      BY <1>2, <1>3
    <3>2. r[1] = Erased(r[0], o)
      BY <1>6, <3>1
    <3>3. r[0 + 1] = q[0]
      BY <1>6, <1>7, <3>1, <3>2 DEF u
    <3> QED
      BY <3>3
  <2>2. ASSUME NEW n \in Nat, n \in U
        PROVE  n + 1 \in U
    <3> SUFFICES ASSUME n + 1 <= l
                 PROVE  q[n + 1] = r[n + 1 + 1]
      OBVIOUS
    <3> DEFINE k == n + 1
               j == n + 1 + 1
    <3>1. k \in 1..l /\ k - 1 = n /\ q[n] = r[k]
      BY <1>3, <2>2
    <3>2. j \in 1..m /\ j - 1 = k
      BY <1>2, <1>3
    <3> HIDE DEF k, j
    <3>3. q[k] = Erased(q[n], o) /\ r[j] = Erased(r[k], o)
      BY <1>6, <1>7, <3>1, <3>2
    <3>4. q[k] = r[j]
      BY <3>1, <3>3
    <3> QED
      BY <3>4 DEF k, j
  <2>3. l \in U
    <3> HIDE DEF U
    <3> QED
      BY <1>3, <2>1, <2>2, NatInductive
  <2> QED
    BY <1>3, <2>3
<1>10. r[m] = r[l + 1]
  <2> DEFINE U == {k \in Nat : l + 1 + k <= m => r[l + 1 + k] = q[l]}
  <2>1. 0 \in U
    <3>1. l + 1 + 0 = l + 1
      BY <1>3
    <3> QED
      BY <1>9, <3>1
  <2>2. ASSUME NEW n \in Nat, n \in U
        PROVE  n + 1 \in U
    <3> SUFFICES ASSUME l + 1 + (n + 1) <= m
                 PROVE  r[l + 1 + (n + 1)] = q[l]
      OBVIOUS
    <3> DEFINE k == l + 1 + (n + 1)
               i == l + 1 + n
    <3>1. k \in 1..m /\ k - 1 = i /\ r[i] = q[l]
      BY <1>2, <1>3, <2>2, SMTT(40)
    <3> HIDE DEF k, i
    <3>2. r[k] = Erased(q[l], o)
      BY <1>6, <3>1
    <3>3. r[k] = q[l]
      BY <1>8, <3>2, ErasedIs
    <3> QED
      BY <3>3 DEF k
  <2> DEFINE z == m - l - 1
  <2>3. z \in U
    <3>1. z \in Nat
      BY <1>2, <1>3
    <3> HIDE DEF U, z
    <3> QED
      BY <2>1, <2>2, <3>1, NatInductive
  <2>4. l + 1 + z = m /\ m <= m
    BY <1>2, <1>3
  <2> HIDE DEF z
  <2> QED
    BY <1>9, <2>3, <2>4
<1>11. remove(o, t) = remove(o, u)
  BY <1>4, <1>5, <1>9, <1>10
<1> QED
  BY <1>11 DEF u

\* Where two cuts do not overlap, it does not matter which comes first.
LEMMA CutsCommute ==
    ASSUME NEW S, NEW s \in Seq(S), NEW o \in Seq(S), o # <<>>,
           NEW i \in Occurrences(s, o), NEW j \in Occurrences(s, o), i + Len(o) <= j
    PROVE  /\ j - Len(o) \in Occurrences(Cut(s, i, Len(o)), o)
           /\ i \in Occurrences(Cut(s, j, Len(o)), o)
           /\ Cut(Cut(s, i, Len(o)), j - Len(o), Len(o)) = Cut(Cut(s, j, Len(o)), i, Len(o))
<1> DEFINE n == Len(o)
           m == Len(s)
           x == Cut(s, i, n)
           y == Cut(s, j, n)
           h == j - n
           u == Cut(x, h, n)
           v == Cut(y, i, n)
<1>1. n \in Nat \ {0} /\ m \in Nat
  BY EmptySeq
<1>2. /\ i \in 1..(m - n + 1) /\ j \in 1..(m - n + 1)
      /\ \A k \in 1..n : s[i + k - 1] = o[k]
      /\ \A k \in 1..n : s[j + k - 1] = o[k]
  BY OccursIs
<1>3. i + n <= j
  OBVIOUS
<1> HIDE DEF n
<1>4. /\ x \in Seq(S) /\ Len(x) = m - n
      /\ \A k \in 1..(m - n) : x[k] = IF k < i THEN s[k] ELSE s[k + n]
  BY <1>1, <1>2, CutIs, ZenonT(60)
<1>5. /\ y \in Seq(S) /\ Len(y) = m - n
      /\ \A k \in 1..(m - n) : y[k] = IF k < j THEN s[k] ELSE s[k + n]
  BY <1>1, <1>2, CutIs
<1> HIDE DEF x, y, m
<1>6. /\ h \in 1..(m - n - n + 1) /\ i \in 1..(m - n - n + 1) /\ h >= i /\ m - n - n \in Nat
      /\ h + n = j
  BY <1>1, <1>2, <1>3
<1> HIDE DEF h
<1>7. h \in Occurrences(x, o)
  <2>1. ASSUME NEW k \in 1..n
        PROVE  x[h + k - 1] = o[k]
    <3> DEFINE z == h + k - 1
    <3>1. z \in 1..(m - n) /\ ~(z < i) /\ z + n = j + k - 1
      BY <1>1, <1>6
    <3> HIDE DEF z
    <3>2. x[z] = s[j + k - 1]
      BY <1>4, <3>1
    <3> QED
      BY <1>2, <3>2 DEF z
  <2>2. Occurrences(x, o) = {e \in 1..(Len(x) - Len(o) + 1) :
                                \A k \in 1..Len(o) : x[e + k - 1] = o[k]}
    <3>1. x \in Seq(S) /\ o \in Seq(S) /\ o # <<>>
      BY <1>4
    <3> QED
      BY ONLY <3>1, OccursIs
  <2>3. h \in 1..(Len(x) - n + 1)
    BY <1>4, <1>6
  <2> QED
    BY <2>1, <2>2, <2>3 DEF n
<1>8. i \in Occurrences(y, o)
  <2>1. ASSUME NEW k \in 1..n
        PROVE  y[i + k - 1] = o[k]
    <3> DEFINE z == i + k - 1
    <3>1. z \in 1..(m - n) /\ z < j
      BY <1>1, <1>2, <1>3, <1>6
    <3> HIDE DEF z
    <3>2. y[z] = s[z]
      BY <1>5, <3>1
    <3> QED
      BY <1>2, <3>2 DEF z
  <2>2. Occurrences(y, o) = {e \in 1..(Len(y) - Len(o) + 1) :
                                \A k \in 1..Len(o) : y[e + k - 1] = o[k]}
    <3>1. y \in Seq(S) /\ o \in Seq(S) /\ o # <<>>
      BY <1>5
    <3> QED
      BY ONLY <3>1, OccursIs
  <2>3. i \in 1..(Len(y) - n + 1)
    BY <1>5, <1>6
  <2> QED
    BY <2>1, <2>2, <2>3 DEF n
<1>9. /\ u \in Seq(S) /\ Len(u) = m - n - n
      /\ \A k \in 1..(m - n - n) : u[k] = IF k < h THEN x[k] ELSE x[k + n]
  <2>1. n \in Nat /\ h \in 1..(Len(x) - n + 1)
    BY <1>1, <1>4, <1>6
  <2>2. /\ u \in Seq(S) /\ Len(u) = Len(x) - n
        /\ \A k \in 1..(Len(x) - n) : u[k] = IF k < h THEN x[k] ELSE x[k + n]
    BY <1>4, <2>1, CutIs, ZenonT(60)
  <2> QED
    BY <1>4, <2>2
<1>10. /\ v \in Seq(S) /\ Len(v) = m - n - n
       /\ \A k \in 1..(m - n - n) : v[k] = IF k < i THEN y[k] ELSE y[k + n]
  <2>1. n \in Nat /\ i \in 1..(Len(y) - n + 1)
    BY <1>1, <1>5, <1>6
  <2>2. /\ v \in Seq(S) /\ Len(v) = Len(y) - n
        /\ \A k \in 1..(Len(y) - n) : v[k] = IF k < i THEN y[k] ELSE y[k + n]
    BY <1>5, <2>1, CutIs, ZenonT(60)
  <2> QED
    BY <1>5, <2>2
<1> HIDE DEF u, v
<1>11. u = v
  <2>1. ASSUME NEW k \in 1..(m - n - n)
        PROVE  u[k] = v[k]
    <3> DEFINE q == k + n
    <3>1. k \in 1..(m - n) /\ q \in 1..(m - n)
      BY <1>1, <1>6
    <3>2. CASE k < i
      <4>1. k < h /\ k < j
        BY <1>1, <1>6, <3>2
      <4> QED
        BY <1>4, <1>5, <1>9, <1>10, <3>1, <3>2, <4>1
    <3>3. CASE i <= k /\ k < h
      <4>1. ~(k < i) /\ q < j
        BY <1>1, <1>6, <3>3
      <4>2. u[k] = s[q]
        BY <1>4, <1>9, <3>1, <3>3, <4>1
      <4>3. v[k] = y[q]
        BY <1>10, <3>1, <4>1
      <4> HIDE DEF q
      <4> QED
        BY <1>5, <3>1, <4>1, <4>2, <4>3
    <3>4. CASE h <= k
      <4>1. ~(k < h) /\ ~(k < i) /\ ~(q < i) /\ ~(q < j)
        BY <1>1, <1>6, <3>4
      <4>2. u[k] = x[q] /\ v[k] = y[q]
        BY <1>9, <1>10, <4>1
      <4> HIDE DEF q
      <4> QED
        BY <1>4, <1>5, <3>1, <4>1, <4>2
    <3>5. k < i \/ (i <= k /\ k < h) \/ h <= k
      BY <1>6
    <3> QED
      BY <3>2, <3>3, <3>4, <3>5
  <2> QED
    BY <1>9, <1>10, <2>1, SeqEqual
<1> QED
  BY <1>7, <1>8, <1>11 DEF u, v, x, y, h, n

\* No end of o is a beginning of it; and o repeats one character.
Unbordered(o) == \A d \in 1..(Len(o) - 1) : \E k \in 1..(Len(o) - d) : o[k] # o[k + d]
Uniform(o)    == \A i, j \in 1..Len(o) : o[i] = o[j]

\* Two occurrences that overlap: none of an unbordered string, and of a
\* uniform one either may be cut.
LEMMA CutsOverlap ==
    ASSUME NEW S, NEW s \in Seq(S), NEW o \in Seq(S), o # <<>>,
           Unbordered(o) \/ Uniform(o),
           NEW i \in Occurrences(s, o), NEW j \in Occurrences(s, o), i < j, j < i + Len(o)
    PROVE  Cut(s, i, Len(o)) = Cut(s, j, Len(o))
<1> DEFINE n == Len(o)
           m == Len(s)
           x == Cut(s, i, n)
           y == Cut(s, j, n)
<1>1. n \in Nat \ {0} /\ m \in Nat
  BY EmptySeq
<1>2. /\ i \in 1..(m - n + 1) /\ j \in 1..(m - n + 1)
      /\ \A k \in 1..n : s[i + k - 1] = o[k]
      /\ \A k \in 1..n : s[j + k - 1] = o[k]
  BY OccursIs
<1>3. i < j /\ j < i + n
  OBVIOUS
<1>4. Uniform(o)
  <2> SUFFICES ASSUME Unbordered(o)
               PROVE  FALSE
    OBVIOUS
  <2> DEFINE d == j - i
  <2>1. d \in 1..(n - 1)
    BY <1>1, <1>2, <1>3
  <2>2. PICK k \in 1..(n - d) : o[k] # o[k + d]
    BY <2>1 DEF Unbordered
  <2>3. k \in 1..n /\ k + d \in 1..n /\ i + (k + d) - 1 = j + k - 1
    BY <1>1, <1>2, <2>1, <2>2
  <2>4. s[j + k - 1] = o[k] /\ s[i + (k + d) - 1] = o[k + d]
    <3> HIDE DEF d
    <3> QED
      BY <1>2, <2>3
  <2> QED
    BY <2>2, <2>3, <2>4
<1> HIDE DEF n
<1>5. /\ x \in Seq(S) /\ Len(x) = m - n /\ m - n \in Nat
      /\ \A k \in 1..(m - n) : x[k] = IF k < i THEN s[k] ELSE s[k + n]
  BY <1>1, <1>2, CutIs
<1>6. /\ y \in Seq(S) /\ Len(y) = m - n
      /\ \A k \in 1..(m - n) : y[k] = IF k < j THEN s[k] ELSE s[k + n]
  BY <1>1, <1>2, CutIs, ZenonT(60)
<1> HIDE DEF x, y, m
<1>7. ASSUME NEW k \in 1..(m - n)
      PROVE  x[k] = y[k]
  <2>1. CASE k < i
    <3>1. k < j
      BY <1>2, <1>3, <2>1
    <3> QED
      BY <1>5, <1>6, <2>1, <3>1
  <2>2. CASE i <= k /\ k < j
    <3> DEFINE a == k + n - j + 1
               b == k - i + 1
    <3>1. a \in 1..n /\ j + a - 1 = k + n /\ b \in 1..n /\ i + b - 1 = k /\ ~(k < i)
      BY <1>1, <1>2, <1>3, <2>2
    <3>2. x[k] = s[k + n] /\ y[k] = s[k]
      BY <1>5, <1>6, <2>2, <3>1
    <3> HIDE DEF a, b
    <3>3. s[k + n] = o[a] /\ s[k] = o[b]
      BY <1>2, <3>1
    <3>4. o[a] = o[b]
      BY <1>4, <3>1 DEF Uniform, n
    <3> QED
      BY <3>2, <3>3, <3>4
  <2>3. CASE j <= k
    <3>1. ~(k < i) /\ ~(k < j)
      BY <1>2, <1>3, <2>3
    <3> QED
      BY <1>5, <1>6, <3>1
  <2>4. k < i \/ (i <= k /\ k < j) \/ j <= k
    BY <1>2
  <2> QED
    BY <2>1, <2>2, <2>3, <2>4
<1>8. x = y
  BY <1>5, <1>6, <1>7, SeqEqual
<1> QED
  BY <1>8 DEF x, y, n

\* It does not matter which occurrence goes first.
LEMMA RemoveAny ==
    ASSUME NEW S, NEW o \in Seq(S), o # <<>>, Unbordered(o) \/ Uniform(o)
    PROVE  \A t \in Seq(S) : \A i \in Occurrences(t, o) :
              remove(o, Cut(t, i, Len(o))) = remove(o, t)
<1> DEFINE n == Len(o)
           Each(t) == \A i \in Occurrences(t, o) : remove(o, Cut(t, i, n)) = remove(o, t)
           P == {l \in Nat : \A t \in Seq(S) : Len(t) = l => Each(t)}
<1>1. n \in Nat \ {0}
  BY EmptySeq
<1>2. ASSUME NEW l \in Nat, \A k \in 0..(l - 1) : k \in P
      PROVE  l \in P
  <2>1. ASSUME NEW t \in Seq(S), Len(t) = l, NEW i \in Occurrences(t, o)
        PROVE  remove(o, Cut(t, i, n)) = remove(o, t)
    <3> DEFINE f == Min(Occurrences(t, o))
    <3>1. Has(t, o)
      BY DEF Has
    <3>2. f \in Occurrences(t, o) /\ Erased(t, o) = Cut(t, f, n)
      BY <3>1, ErasedIs
    <3> HIDE DEF f
    <3>3. remove(o, t) = remove(o, Cut(t, f, n))
      <4>1. remove(o, t) = remove(o, Erased(t, o))
        BY <3>1, RemoveTurn
      <4> QED
        BY <3>2, <4>1
    <3>4. Occurrences(t, o) \in SUBSET Nat /\ Occurrences(t, o) # {}
      BY <3>1, OccursIs DEF Has
    <3>5. f <= i
      BY <3>4, MinIsIn DEF f
    <3>6. f \in Nat /\ i \in Nat
      BY <3>2, <3>4
    <3>7. CASE i = f
      BY <3>3, <3>7
    <3>8. CASE i > f /\ i < f + n
      <4>1. Cut(t, f, n) = Cut(t, i, n)
        BY <3>2, <3>6, <3>8, CutsOverlap
      <4> QED
        BY <3>3, <4>1
    <3>9. CASE f + n <= i
      <4> DEFINE x == Cut(t, f, n)
                 y == Cut(t, i, n)
                 h == i - n
      <4>1. h \in Occurrences(x, o) /\ f \in Occurrences(y, o) /\ Cut(x, h, n) = Cut(y, f, n)
        BY <3>2, <3>9, CutsCommute
      <4>2. /\ f \in 1..(Len(t) - n + 1) /\ i \in 1..(Len(t) - n + 1)
        BY <3>2, OccursIs
      <4> HIDE DEF n
      <4>3. x \in Seq(S) /\ Len(x) = l - n /\ y \in Seq(S) /\ Len(y) = l - n /\ l - n \in Nat
        BY <1>1, <2>1, <4>2, CutIs
      <4>4. l - n \in P
        BY <1>1, <1>2, <4>3
      <4> HIDE DEF x, y, h
      <4>5. Each(x) /\ Each(y)
        BY <4>3, <4>4
      <4>6. remove(o, Cut(x, h, n)) = remove(o, x) /\ remove(o, Cut(y, f, n)) = remove(o, y)
        BY <4>1, <4>5
      <4> QED
        BY <3>3, <4>1, <4>6 DEF x, y
    <3>10. i = f \/ (i > f /\ i < f + n) \/ f + n <= i
      BY <1>1, <3>5, <3>6
    <3> QED
      BY <3>7, <3>8, <3>9, <3>10
  <2> QED
    BY <2>1
<1>3. Nat \subseteq P
  <2> HIDE DEF P
  <2> QED
    BY <1>2, NatStrong
<1>4. ASSUME NEW t \in Seq(S)
      PROVE  Each(t)
  <2>1. Len(t) \in P
    BY <1>3
  <2> HIDE DEF Each
  <2> QED
    BY <2>1
<1> QED
  BY <1>4

\* reverse turns a string around.
LEMMA ReverseIs ==
    ASSUME NEW S, NEW s \in Seq(S)
    PROVE  /\ reverse(s) \in Seq(S) /\ Len(reverse(s)) = Len(s)
           /\ \A i \in 1..Len(s) : reverse(s)[i] = s[Len(s) + 1 - i]
<1> DEFINE m == Len(s)
           r == reverse(s)
<1>1. m \in Nat /\ \A i \in 1..m : m + 1 - i \in 1..m /\ s[m + 1 - i] \in S
  OBVIOUS
<1>2. r = [i \in 1..m |-> s[m + 1 - i]]
  BY DEF reverse
<1> HIDE DEF m, r
<1>3. r \in [1..m -> S] /\ \A i \in 1..m : r[i] = s[m + 1 - i]
  BY <1>1, <1>2
<1>4. r \in Seq(S) /\ Len(r) = m
  BY <1>1, <1>3
<1> QED
  BY <1>3, <1>4 DEF r, m

\* A text reversed twice is the text.
LEMMA ReverseTwice ==
    ASSUME NEW S, NEW s \in Seq(S)
    PROVE  reverse(reverse(s)) = s
<1> DEFINE r == reverse(s)
           m == Len(s)
           q == reverse(r)
<1>1. r \in Seq(S) /\ Len(r) = m /\ \A i \in 1..m : r[i] = s[m + 1 - i]
  BY ReverseIs
<1> HIDE DEF r
<1>2. q \in Seq(S) /\ Len(q) = m /\ \A i \in 1..m : q[i] = r[m + 1 - i]
  BY <1>1, ReverseIs
<1> HIDE DEF q
<1>3. m \in Nat
  OBVIOUS
<1>4. ASSUME NEW i \in 1..m
      PROVE  q[i] = s[i]
  <2> HIDE DEF m
  <2> DEFINE j == m + 1 - i
  <2>1. j \in 1..m /\ m + 1 - j = i
    BY <1>3
  <2>2. q[i] = r[j]
    BY <1>2
  <2> HIDE DEF j
  <2> QED
    BY <1>1, <2>1, <2>2
<1>5. q = s
  BY <1>2, <1>4, SeqEqual
<1> QED
  BY <1>5 DEF q, r

\* An occurrence is one, seen from the other end, and may be cut there.
LEMMA ReverseOccurs ==
    ASSUME NEW S, NEW t \in Seq(S), NEW o \in Seq(S), o # <<>>, NEW i \in Occurrences(t, o)
    PROVE  LET h == Len(t) - Len(o) + 2 - i
           IN  /\ h \in Occurrences(reverse(t), reverse(o))
               /\ reverse(Cut(t, i, Len(o))) = Cut(reverse(t), h, Len(o))
<1> DEFINE n == Len(o)
           m == Len(t)
           h == m - n + 2 - i
           r == reverse(t)
           p == reverse(o)
           x == Cut(t, i, n)
<1>1. n \in Nat \ {0} /\ m \in Nat
  BY EmptySeq
<1>2. i \in 1..(m - n + 1) /\ \A k \in 1..n : t[i + k - 1] = o[k]
  BY OccursIs
<1>3. r \in Seq(S) /\ Len(r) = m /\ \A k \in 1..m : r[k] = t[m + 1 - k]
  BY ReverseIs
<1>4. p \in Seq(S) /\ Len(p) = n /\ \A k \in 1..n : p[k] = o[n + 1 - k]
  BY ReverseIs
<1> HIDE DEF n
<1>5. /\ x \in Seq(S) /\ Len(x) = m - n /\ m - n \in Nat
      /\ \A j \in 1..(m - n) : x[j] = IF j < i THEN t[j] ELSE t[j + n]
  BY <1>1, <1>2, CutIs
<1> HIDE DEF m, r, p, x
<1>6. h \in 1..(m - n + 1)
  BY <1>1, <1>2, <1>5
<1>7. ASSUME NEW k \in 1..n
      PROVE  r[h + k - 1] = p[k]
  <2> DEFINE z == h + k - 1
             q == n + 1 - k
  <2>1. z \in 1..m /\ m + 1 - z = i + q - 1 /\ q \in 1..n
    BY <1>1, <1>2, <1>5, <1>6
  <2>2. p[k] = o[q]
    BY <1>4
  <2> HIDE DEF z, q, h
  <2>3. r[z] = t[i + q - 1]
    BY <1>3, <2>1
  <2>4. t[i + q - 1] = o[q]
    BY <1>2, <2>1
  <2> QED
    BY <2>2, <2>3, <2>4 DEF z
<1> HIDE DEF h
<1>8. h \in Occurrences(r, p)
  <2>1. p # <<>>
    BY <1>1, <1>4
  <2>2. Occurrences(r, p) = {e \in 1..(Len(r) - Len(p) + 1) :
                               \A k \in 1..Len(p) : r[e + k - 1] = p[k]}
    <3>1. r \in Seq(S) /\ p \in Seq(S) /\ p # <<>>
      BY <1>3, <1>4, <2>1
    <3> QED
      BY ONLY <3>1, OccursIs
  <2> QED
    BY <1>3, <1>4, <1>6, <1>7, <2>2
<1> DEFINE y == Cut(r, h, n)
           w == reverse(x)
<1>9. /\ y \in Seq(S) /\ Len(y) = m - n
      /\ \A j \in 1..(m - n) : y[j] = IF j < h THEN r[j] ELSE r[j + n]
  <2>1. n \in Nat /\ r \in Seq(S) /\ h \in 1..(Len(r) - n + 1)
    BY <1>1, <1>3, <1>6
  <2>2. /\ y \in Seq(S) /\ Len(y) = Len(r) - n
        /\ \A j \in 1..(Len(r) - n) : y[j] = IF j < h THEN r[j] ELSE r[j + n]
    BY ONLY <2>1, CutIs
  <2> QED
    BY <1>3, <2>2
<1>10. /\ w \in Seq(S) /\ Len(w) = m - n
       /\ \A j \in 1..(m - n) : w[j] = x[m - n + 1 - j]
  BY <1>5, ReverseIs
<1> HIDE DEF y, w
<1>11. ASSUME NEW j \in 1..(m - n)
       PROVE  w[j] = y[j]
  <2> DEFINE z == m - n + 1 - j
  <2>1. z \in 1..(m - n) /\ (z < i <=> ~(j < h)) /\ w[j] = x[z]
    BY <1>1, <1>2, <1>5, <1>10 DEF h
  <2>2. CASE j < h
    <3>1. j \in 1..m /\ z + n = m + 1 - j
      BY <1>1, <1>5
    <3> HIDE DEF z
    <3>2. x[z] = t[z + n]
      BY <1>5, <2>1, <2>2
    <3>3. y[j] = t[m + 1 - j]
      BY <1>3, <1>9, <2>2, <3>1
    <3> QED
      BY <2>1, <3>1, <3>2, <3>3
  <2>3. CASE ~(j < h)
    <3> DEFINE q == j + n
    <3>1. q \in 1..m /\ m + 1 - q = z
      BY <1>1, <1>5
    <3>2. y[j] = r[q]
      BY <1>9, <2>3
    <3> HIDE DEF z, q
    <3>3. x[z] = t[z]
      BY <1>5, <2>1, <2>3
    <3>4. r[q] = t[z]
      BY <1>3, <3>1
    <3> QED
      BY <2>1, <3>2, <3>3, <3>4
  <2> QED
    BY <2>2, <2>3
<1>12. w = y
  BY <1>9, <1>10, <1>11, SeqEqual
<1> QED
  BY <1>8, <1>12 DEF w, y, x, r, p, h, m, n

\* Removing from the right gives the same as removing from the left.
LEMMA RemoveReversed ==
    ASSUME NEW S, NEW o \in Seq(S), o # <<>>, Unbordered(o) \/ Uniform(o)
    PROVE  \A t \in Seq(S) : reverse(remove(reverse(o), reverse(t))) = remove(o, t)
<1> DEFINE n == Len(o)
           p == reverse(o)
           Same(t) == reverse(remove(p, reverse(t))) = remove(o, t)
           P == {l \in Nat : \A t \in Seq(S) : Len(t) = l => Same(t)}
<1>1. n \in Nat \ {0}
  BY EmptySeq
<1>2. p \in Seq(S) /\ Len(p) = n /\ reverse(p) = o
  BY ReverseIs, ReverseTwice
<1>3. p # <<>>
  BY <1>1, <1>2
<1> HIDE DEF p
<1>4. ASSUME NEW l \in Nat, \A k \in 0..(l - 1) : k \in P
      PROVE  l \in P
  <2>1. ASSUME NEW t \in Seq(S), Len(t) = l
        PROVE  Same(t)
    <3> DEFINE r == reverse(t)
    <3>1. r \in Seq(S) /\ Len(r) = l /\ reverse(r) = t
      BY <2>1, ReverseIs, ReverseTwice
    <3>2. CASE ~Has(r, p)
      <4>1. ~Has(t, o)
        <5> SUFFICES ASSUME Has(t, o)
                     PROVE  FALSE
          OBVIOUS
        <5>1. PICK i : i \in Occurrences(t, o)
          BY DEF Has
        <5>2. Len(t) - Len(o) + 2 - i \in Occurrences(r, p)
          BY <5>1, ReverseOccurs DEF p
        <5> QED
          BY <3>2, <5>2 DEF Has
      <4>2. remove(o, t) = t
        BY <4>1, RemoveNone
      <4> HIDE DEF r
      <4>3. remove(p, r) = r
        BY <1>2, <1>3, <3>1, <3>2, RemoveNone
      <4> QED
        BY <3>1, <4>2, <4>3 DEF r
    <3>3. CASE Has(r, p)
      <4> DEFINE f == Min(Occurrences(r, p))
                 i == Len(r) - n + 2 - f
                 u == Cut(t, i, n)
                 v == Cut(r, f, n)
      <4> HIDE DEF r
      <4>1. f \in Occurrences(r, p) /\ Erased(r, p) = v
        BY <1>2, <1>3, <3>1, <3>3, ErasedIs
      <4>2. remove(p, r) = remove(p, v)
        <5>1. remove(p, r) = remove(p, Erased(r, p))
          BY <1>2, <1>3, <3>1, <3>3, RemoveTurn
        <5> QED
          BY <4>1, <5>1
      <4>3. f \in 1..(Len(r) - n + 1)
        <5>1. f \in 1..(Len(r) - Len(p) + 1)
          BY ONLY <1>2, <1>3, <3>1, <4>1, OccursIs
        <5> QED
          BY <1>2, <5>1
      <4> HIDE DEF f
      <4>4. i \in Occurrences(reverse(r), reverse(p)) /\ reverse(v) = Cut(reverse(r), i, n)
        <5>1. LET h == Len(r) - Len(p) + 2 - f
              IN  /\ h \in Occurrences(reverse(r), reverse(p))
                  /\ reverse(Cut(r, f, Len(p))) = Cut(reverse(r), h, Len(p))
          BY <1>2, <1>3, <3>1, <4>1, ReverseOccurs
        <5> QED
          BY <1>2, <5>1
      <4>5. i \in Occurrences(t, o) /\ reverse(v) = u
        BY <1>2, <3>1, <4>4
      <4>6. i \in 1..(Len(t) - n + 1)
        BY <1>1, <2>1, <3>1, <4>3
      <4> HIDE DEF i
      <4>7. /\ u \in Seq(S) /\ Len(u) = l - n /\ l - n \in Nat
        <5> HIDE DEF n
        <5> QED
          BY <1>1, <2>1, <4>6, CutIs
      <4>8. v \in Seq(S)
        <5> HIDE DEF n
        <5> QED
          BY <1>1, <3>1, <4>3, CutIs
      <4>9. remove(o, u) = remove(o, t)
        BY <4>5, RemoveAny
      <4> HIDE DEF u, v
      <4>10. reverse(u) = v
        BY <4>5, <4>8, ReverseTwice
      <4>11. l - n \in P
        BY <1>1, <1>4, <4>7
      <4>12. Same(u)
        BY <4>7, <4>11
      <4> QED
        BY <4>2, <4>9, <4>10, <4>12 DEF r
    <3> QED
      BY <3>2, <3>3
  <2> HIDE DEF Same
  <2> QED
    BY <2>1
<1>5. Nat \subseteq P
  <2> HIDE DEF P
  <2> QED
    BY <1>4, NatStrong
<1>6. ASSUME NEW t \in Seq(S)
      PROVE  Same(t)
  <2>1. Len(t) \in P
    BY <1>5
  <2> HIDE DEF Same
  <2> QED
    BY <2>1
<1> QED
  BY <1>6 DEF p

\* Removing a character leaves the others.
LEMMA RemoveChar ==
    ASSUME NEW S, NEW c \in S
    PROVE  \A t \in Seq(S) : remove(<<c>>, t) = Without(t, {c})
<1> DEFINE o == <<c>>
           D == {c}
           Same(t) == remove(o, t) = Without(t, D)
           P == {l \in Nat : \A t \in Seq(S) : Len(t) = l => Same(t)}
<1>1. o \in Seq(S) /\ o # <<>> /\ Len(o) = 1 /\ o[1] = c
  OBVIOUS
<1>2. Without(o, D) = <<>>
  <2>1. <<>> \in Seq(S) /\ Append(<<>>, c) = o
    OBVIOUS
  <2> DEFINE e == <<>>
  <2>2. e \in Seq(S) /\ Append(e, c) = o /\ Without(e, D) = e
    BY <2>1, WithoutEmpty
  <2>5. c \in D
    OBVIOUS
  <2> HIDE DEF o, e, D
  <2>3. Without(Append(e, c), D) = KeptWith(Without(e, D), c, D)
    <3>1. e \in Seq(S) /\ c \in S
      BY <2>2
    <3> QED
      BY ONLY <3>1, WithoutAppend
  <2>4. Without(o, D) = e
    BY <2>2, <2>3, <2>5 DEF KeptWith
  <2> QED
    BY <2>4 DEF e
<1>3. ASSUME NEW l \in Nat, \A k \in 0..(l - 1) : k \in P
      PROVE  l \in P
  <2>1. ASSUME NEW t \in Seq(S), Len(t) = l
        PROVE  Same(t)
    <3>1. CASE ~Has(t, o)
      <4>1. \A i \in 1..Len(t) : t[i] \notin D
        BY <3>1, CharHas
      <4> HIDE DEF o, D
      <4>2. Without(t, D) = t
        BY <4>1, WithoutNone
      <4>3. remove(o, t) = t
        BY <1>1, <3>1, RemoveNone
      <4> QED
        BY <4>2, <4>3
    <3>2. CASE Has(t, o)
      <4> DEFINE i == Min(Occurrences(t, o))
                 u == Erased(t, o)
      <4>1. i \in 1..Len(t) /\ t[i] = c
        BY <3>2, FirstChar
      <4> HIDE DEF o
      <4>2. u \in Seq(S) /\ u = Cut(t, i, 1) /\ Len(u) = l - 1
        BY <1>1, <2>1, <3>2, ErasedIs, ZenonT(60)
      <4>3. remove(o, t) = remove(o, u)
        BY <1>1, <3>2, RemoveTurn
      <4> HIDE DEF i
      <4> DEFINE b == i - 1
                 d == i + 1
                 m == Len(t)
                 x == SubSeq(t, 1, b)
                 y == SubSeq(t, d, m)
                 z == SubSeq(t, i, m)
      <4>4. /\ b \in Nat /\ b <= m /\ d \in Nat \ {0} /\ m \in Nat /\ m <= Len(t) /\ 1 \in Nat \ {0}
            /\ i \in Nat \ {0} /\ b + 1 = i /\ 1 \in 1..(m + 1) /\ b \in (1 - 1)..m /\ m \in b..m
            /\ m \in i..m
        BY <4>1
      <4>5. u = x \o y
        BY <4>2 DEF Cut
      <4>6. t = x \o z
        <5>1. SubSeq(t, 1, b) \o SubSeq(t, b + 1, m) = SubSeq(t, 1, m)
          <6> HIDE DEF b
          <6> QED
            BY <4>4, ConcatAdjacentSubSeq
        <5>2. SubSeq(t, 1, m) = t
          BY SubSeqFull
        <5> HIDE DEF b, m
        <5> QED
          BY <4>4, <5>1, <5>2
      <4>7. z = o \o y
        <5>1. z = <<t[i]>> \o SubSeq(t, i + 1, m)
          BY <4>1, <4>4, SubSeqRecursiveFirst
        <5> QED
          BY <4>1, <5>1 DEF o
      <4> HIDE DEF b, d
      <4>8. x \in Seq(S) /\ y \in Seq(S) /\ z \in Seq(S)
        BY <4>4, PartIs
      <4> HIDE DEF x, y, z
      <4> HIDE DEF D
      <4>9. Without(z, D) = Without(y, D)
        <5>1. Without(o \o y, D) = Without(o, D) \o Without(y, D)
          <6>1. o \in Seq(S) /\ y \in Seq(S)
            BY <1>1, <4>8
          <6> QED
            BY ONLY <6>1, WithoutConcat
        <5>2. Without(y, D) \in Seq(S)
          BY <4>8, WithoutHas
        <5>3. <<>> \o Without(y, D) = Without(y, D)
          BY <5>2, ConcatEmptySeq
        <5> QED
          BY <1>2, <4>7, <5>1, <5>3
      <4>10. Without(u, D) = Without(t, D)
        <5>1. Without(x \o y, D) = Without(x, D) \o Without(y, D)
          BY <4>8, WithoutConcat, SMTT(40)
        <5>2. Without(x \o z, D) = Without(x, D) \o Without(z, D)
          BY <4>8, WithoutConcat, SMTT(40)
        <5> HIDE DEF u
        <5> QED
          BY <4>5, <4>6, <4>9, <5>1, <5>2
      <4> HIDE DEF u
      <4>11. l - 1 \in P /\ l - 1 \in Nat
        <5>1. l - 1 \in 0..(l - 1)
          BY <2>1, <4>1
        <5> QED
          BY <1>3, <5>1
      <4>12. Same(u)
        BY <4>2, <4>11
      <4> QED
        BY <4>3, <4>10, <4>12
    <3> QED
      BY <3>1, <3>2
  <2> HIDE DEF Same
  <2> QED
    BY <2>1
<1>4. Nat \subseteq P
  <2> HIDE DEF P
  <2> QED
    BY <1>3, NatStrong
<1>5. ASSUME NEW t \in Seq(S)
      PROVE  Same(t)
  <2> HIDE DEF Same
  <2>1. Len(t) \in P
    <3>1. Len(t) \in Nat
      OBVIOUS
    <3> HIDE DEF P
    <3> QED
      BY <1>4, <3>1
  <2> QED
    BY <2>1
<1> QED
  BY <1>5

\* Letters and digits are none of the other characters.
LEMMA CharsDiffer ==
    /\ Blank \notin Alphanumeric /\ "," \notin Alphanumeric /\ Dot \notin Alphanumeric
    /\ {"a", Blank, ",", Dot} \subseteq TextChars
<1>1. Range(Digit) = {Digit[i] : i \in 1..10}
  BY DEF Range, Digit
<1>2. \A i \in 1..10 : Digit[i] \in {"0", "1", "2", "3", "4", "5", "6", "7", "8", "9"}
  BY DEF Digit
<1>3. Range(Digit) \subseteq {"0", "1", "2", "3", "4", "5", "6", "7", "8", "9"}
  BY <1>1, <1>2
<1> QED
  BY <1>3 DEF Alphanumeric, TextChars, Blank, Dot

\* Taking the separators off one at a time leaves letters and digits.
LEMMA OnlyAlphaNumeric ==
    ASSUME NEW t \in Seq(TextChars)
    PROVE  only_alpha_numeric(t) = remove(<<" ">>, remove(<<",">>, remove(<<".">>, t)))
<1> DEFINE S == TextChars
           b == " "
           k == ","
           d == "."
           D == {d}
           K == {k}
           B == {b}
           u == Without(t, D)
           v == Without(u, K)
           DK == D \cup K
           C == DK \cup B
           A == Range(t) \ Alphanumeric
<1>1. b \in S /\ k \in S /\ d \in S
  BY CharsDiffer DEF Blank, Dot
<1>2. C = {Blank, k, Dot}
  BY DEF Blank, Dot
<1> HIDE DEF S, b, k, d, C
<1>3. u \in Seq(S) /\ remove(<<d>>, t) = u
  <2>1. t \in Seq(S)
    BY DEF S
  <2> QED
    BY <1>1, <2>1, RemoveChar, WithoutHas
<1> HIDE DEF u
<1>4. v \in Seq(S) /\ remove(<<k>>, u) = v
  BY <1>1, <1>3, RemoveChar, WithoutHas
<1>5. v = Without(t, DK)
  BY WithoutTwice DEF u, v, S
<1> HIDE DEF v, D, K, B
<1>6. remove(<<b>>, v) = Without(v, B)
  BY <1>1, <1>4, RemoveChar DEF B
<1> HIDE DEF DK
<1>7. Without(v, B) = Without(t, C)
  BY <1>5, WithoutTwice DEF C
<1>8. ASSUME NEW i \in 1..Len(t)
      PROVE  t[i] \in A <=> t[i] \in C
  <2>1. t[i] \in Range(t)
    BY DEF Range
  <2>2. t[i] \in Alphanumeric \cup {Blank, k, Dot}
    BY ElementOfSeq DEF TextChars, k
  <2>3. Blank \notin Alphanumeric /\ k \notin Alphanumeric /\ Dot \notin Alphanumeric
    BY CharsDiffer DEF k
  <2> QED
    BY <1>2, <2>1, <2>2, <2>3
<1> HIDE DEF A
<1>9. Without(t, A) = Without(t, C)
  BY <1>8, WithoutSame
<1>10. only_alpha_numeric(t) = Without(t, A)
  BY DEF only_alpha_numeric, A
<1> QED
  BY <1>3, <1>4, <1>6, <1>7, <1>9, <1>10 DEF b, k, d

\* What removal promises, of every string.
LEMMA RemovesExactly == text \in Seq(TextChars) => RemoveExact
<1> SUFFICES ASSUME text \in Seq(TextChars)
             PROVE  RemoveExact
  OBVIOUS
<1> DEFINE o1 == <<"a">>
           o2 == <<" ", " ">>
           o3 == <<"a", ",">>
           o4 == <<"a", ",", ".">>
<1>1. "a" \in TextChars /\ " " \in TextChars /\ "," \in TextChars /\ "." \in TextChars
  BY CharsDiffer DEF Blank, Dot
<1>2. /\ o1 \in Seq(TextChars) /\ o2 \in Seq(TextChars)
      /\ o3 \in Seq(TextChars) /\ o4 \in Seq(TextChars)
  <2> DEFINE a == "a"
             b == " "
             k == ","
             d == "."
             S == TextChars
  <2>1. a \in S /\ b \in S /\ k \in S /\ d \in S
    BY <1>1
  <2> HIDE DEF a, b, k, d, S
  <2>2. <<a>> \in Seq(S) /\ <<b, b>> \in Seq(S) /\ <<a, k>> \in Seq(S) /\ <<a, k, d>> \in Seq(S)
    BY <2>1
  <2> QED
    BY <2>2 DEF a, b, k, d, S
<1>3. o1 # <<>> /\ o2 # <<>> /\ o3 # <<>> /\ o4 # <<>>
  OBVIOUS
<1>4. Unbordered(o1)
  BY DEF Unbordered
<1>5. Uniform(o2)
  <2>1. Len(o2) = 2 /\ o2[1] = " " /\ o2[2] = " "
    OBVIOUS
  <2> HIDE DEF o2
  <2>2. \A i \in 1..Len(o2) : o2[i] = " "
    <3>0. 1..Len(o2) = 1..2
      BY <2>1
    <3>1. \A i \in 1..Len(o2) : i = 1 \/ i = 2
      BY ONLY <3>0
    <3> QED
      BY <2>1, <3>1
  <2> QED
    BY <2>2 DEF Uniform
<1>6. Unbordered(o3)
  <2>1. Len(o3) = 2 /\ o3[1] # o3[2]
    OBVIOUS
  <2> HIDE DEF o3
  <2>2. ASSUME NEW d \in 1..(Len(o3) - 1)
        PROVE  \E k \in 1..(Len(o3) - d) : o3[k] # o3[k + d]
    <3>1. d = 1 /\ 1 \in 1..(Len(o3) - d) /\ 1 + d = 2
      BY <2>1
    <3> QED
      BY <2>1, <3>1
  <2> QED
    BY <2>2 DEF Unbordered
<1>7. Unbordered(o4)
  <2>1. Len(o4) = 3 /\ o4[1] # o4[2] /\ o4[1] # o4[3]
    OBVIOUS
  <2> HIDE DEF o4
  <2>2. ASSUME NEW d \in 1..(Len(o4) - 1)
        PROVE  \E k \in 1..(Len(o4) - d) : o4[k] # o4[k + d]
    <3>1. d \in {1, 2} /\ 1 \in 1..(Len(o4) - d) /\ (d = 1 => 1 + d = 2) /\ (d = 2 => 1 + d = 3)
      BY <2>1
    <3>2. o4[1] # o4[1 + d]
      BY <2>1, <3>1
    <3> QED
      BY <3>1, <3>2
  <2> QED
    BY <2>2 DEF Unbordered
<1> HIDE DEF o1, o2, o3, o4
<1>8. ASSUME NEW o \in {o1, o2, o3, o4}
      PROVE  /\ ~Has(remove(o, text), o)
             /\ reverse(remove(reverse(o), reverse(text))) = remove(o, text)
  <2>1. o \in Seq(TextChars) /\ o # <<>> /\ (Unbordered(o) \/ Uniform(o))
    BY <1>2, <1>3, <1>4, <1>5, <1>6, <1>7
  <2> QED
    BY <2>1, RemoveClean, RemoveReversed
<1>9. only_alpha_numeric(text) = remove(<<" ">>, remove(<<",">>, remove(<<".">>, text)))
  BY OnlyAlphaNumeric
<1> QED
  BY <1>8, <1>9 DEF RemoveExact, o1, o2, o3, o4

-----------------------------------------------------------------------------
(***************************************************************************)
(* Splitting.                                                              *)
(***************************************************************************)

\* A sequence that is not empty is its front and its last element.
LEMMA LastApart ==
    ASSUME NEW S, NEW p \in Seq(S), p # <<>>
    PROVE  /\ Front(p) \in Seq(S) /\ p[Len(p)] \in S
           /\ Len(p) \in Nat \ {0} /\ Len(Front(p)) = Len(p) - 1
           /\ p = Append(Front(p), p[Len(p)])
           /\ \A k \in 1..(Len(p) - 1) : Front(p)[k] = p[k]
<1> DEFINE n == Len(p)
           b == n - 1
           f == Front(p)
           q == Append(f, p[n])
<1>1. n \in Nat \ {0} /\ b \in Nat /\ b <= n /\ n \in 1..n /\ 1 \in Nat \ {0} /\ b + 1 = n
      /\ (IF 1 <= b THEN b - 1 + 1 ELSE 0) = b /\ b - 1 + 1 = b
  <2>1. n \in Nat \ {0}
    BY EmptySeq
  <2> HIDE DEF n
  <2> QED
    BY <2>1
<1>2. \A k \in 1..b : 1 + k - 1 = k
  BY <1>1
<1>3. f = SubSeq(p, 1, b)
  BY DEF Front
<1>4. p[n] \in S
  BY <1>1, ElementOfSeq
<1> HIDE DEF n, b, f
<1>5. f \in Seq(S) /\ Len(f) = b /\ \A k \in 1..b : f[k] = p[k]
  BY <1>1, <1>2, <1>3, PartIs DEF n
<1>6. q \in Seq(S) /\ Len(q) = b + 1 /\ q[b + 1] = p[n] /\ \A k \in 1..b : q[k] = f[k]
  BY <1>4, <1>5, AppendProperties
<1> HIDE DEF q
<1>7. ASSUME NEW k \in 1..n
      PROVE  q[k] = p[k]
  <2>1. k \in 1..b \/ k = n
    BY <1>1
  <2> QED
    BY <1>1, <1>5, <1>6, <2>1
<1>8. q = p
  BY <1>1, <1>6, <1>7, SeqEqual DEF n
<1> QED
  BY <1>1, <1>4, <1>5, <1>8 DEF q, f, n, b

\* One more character, said of front and last piece.
LEMMA PieceCharOfAppend ==
    ASSUME NEW S, NEW f \in Seq(Seq(S)), NEW x \in Seq(S), NEW c \in S, NEW ch
    PROVE  PieceChar(Append(f, x), c, ch) =
              IF c = ch THEN Append(Append(f, x), <<>>) ELSE Append(f, Append(x, c))
<1> DEFINE T == Seq(S)
           ps == Append(f, x)
           L == Len(ps)
           q == PieceChar(ps, c, ch)
           y == Append(x, c)
           r == Append(f, y)
<1>1. /\ ps \in Seq(T) /\ ps # <<>> /\ L = Len(f) + 1 /\ ps[Len(f) + 1] = x
      /\ \A k \in 1..Len(f) : ps[k] = f[k]
      /\ Len(f) \in Nat
  BY AppendProperties
<1>2. y \in T
  BY AppendProperties
<1> HIDE DEF ps
<1>3. /\ L \in Nat /\ L >= 1
      /\ c = ch => q = Append(ps, <<>>)
      /\ c # ch => /\ Len(q) = L /\ q[L] = Append(ps[L], c)
                   /\ \A k \in 1..L : k # L => q[k] = ps[k]
  BY <1>1, PieceCharIs
<1>4. q \in Seq(T)
  BY <1>1, PieceCharType
<1> HIDE DEF y, q, T
<1>5. /\ r \in Seq(T) /\ Len(r) = L /\ r[L] = y
      /\ \A k \in 1..Len(f) : r[k] = f[k]
  <2>1. f \in Seq(T)
    BY DEF T
  <2> QED
    BY <1>1, <1>2, <2>1, AppendProperties
<1> HIDE DEF r, L
<1>6. ASSUME c # ch
      PROVE  q = r
  <2>1. ASSUME NEW k \in 1..L
        PROVE  q[k] = r[k]
    <3>1. k \in 1..Len(f) \/ k = L
      BY <1>1
    <3>2. CASE k = L
      BY <1>1, <1>3, <1>5, <1>6, <3>2 DEF y
    <3>3. CASE k \in 1..Len(f) /\ k # L
      BY <1>1, <1>3, <1>5, <1>6, <3>3
    <3> QED
      BY <3>1, <3>2, <3>3
  <2> QED
    BY <1>3, <1>4, <1>5, <1>6, <2>1, SeqEqual
<1> QED
  BY <1>3, <1>6 DEF q, ps, r, y

\* The pieces of the empty string, and of one that is one longer.
LEMMA PiecesAppend ==
    ASSUME NEW S, NEW ch
    PROVE  /\ Pieces(<<>>, ch) = <<<<>>>>
           /\ \A s \in Seq(S), c \in S :
                 Pieces(Append(s, c), ch) = PieceChar(Pieces(s, ch), c, ch)
<1>1. Pieces(<<>>, ch) = <<<<>>>>
  <2> DEFINE s == <<>>
  <2>1. s \in Seq(S) /\ Len(s) = 0
    OBVIOUS
  <2> HIDE DEF s
  <2>2. PICK p : Grows(p, s, ch, S) /\ Pieces(s, ch) = p[Len(s)]
    BY <2>1, PiecesGrow
  <2> QED
    BY <2>1, <2>2 DEF Grows, s
<1>2. ASSUME NEW s \in Seq(S), NEW c \in S
      PROVE  Pieces(Append(s, c), ch) = PieceChar(Pieces(s, ch), c, ch)
  <2> DEFINE t == Append(s, c)
             m == Len(s)
  <2>1. /\ t \in Seq(S) /\ Len(t) = m + 1 /\ t[m + 1] = c /\ m \in Nat
        /\ \A i \in 1..m : t[i] = s[i]
    BY AppendProperties
  <2>2. PICK w : Grows(w, s, ch, S) /\ Pieces(s, ch) = w[m]
    BY PiecesGrow
  <2> HIDE DEF t
  <2>3. PICK v : Grows(v, t, ch, S) /\ Pieces(t, ch) = v[Len(t)]
    BY <2>1, PiecesGrow
  <2>4. w[0] = <<<<>>>> /\ \A n \in 1..m : w[n] = PieceChar(w[n - 1], s[n], ch)
    BY <2>2 DEF Grows
  <2>5. v[0] = <<<<>>>> /\ \A n \in 1..(m + 1) : v[n] = PieceChar(v[n - 1], t[n], ch)
    BY <2>1, <2>3 DEF Grows
  <2> HIDE DEF m
  <2>6. v[m] = w[m]
    <3> DEFINE T == {n \in Nat : n <= m => v[n] = w[n]}
    <3>1. 0 \in T
      BY <2>4, <2>5
    <3>2. ASSUME NEW n \in Nat, n \in T
          PROVE  n + 1 \in T
      <4> SUFFICES ASSUME n + 1 <= m
                   PROVE  v[n + 1] = w[n + 1]
        OBVIOUS
      <4> DEFINE k == n + 1
      <4>1. k \in 1..m /\ k \in 1..(m + 1) /\ k - 1 = n /\ v[n] = w[n]
        BY <2>1, <3>2
      <4> HIDE DEF k
      <4>2. w[k] = PieceChar(w[n], s[k], ch) /\ v[k] = PieceChar(v[n], t[k], ch) /\ t[k] = s[k]
        BY <2>1, <2>4, <2>5, <4>1
      <4> QED
        BY <4>1, <4>2 DEF k
    <3>3. m \in T
      <4> HIDE DEF T
      <4> QED
        BY <2>1, <3>1, <3>2, NatInductive
    <3> QED
      BY <2>1, <3>3
  <2>7. v[m + 1] = PieceChar(v[m], c, ch)
    <3> DEFINE k == m + 1
    <3>1. k \in 1..(m + 1) /\ k - 1 = m /\ t[k] = c
      BY <2>1
    <3> HIDE DEF k
    <3>2. v[k] = PieceChar(v[m], c, ch)
      BY <2>5, <3>1
    <3> QED
      BY <3>2 DEF k
  <2> QED
    BY <2>1, <2>2, <2>3, <2>6, <2>7 DEF t
<1> QED
  BY <1>1, <1>2

\* The pieces with the separator before each of them.
Led(p, ch) == [k \in DOMAIN p |-> <<ch>> \o p[k]]

\* One more piece.
LEMMA LedAppend ==
    ASSUME NEW S, NEW p \in Seq(Seq(S)), NEW x \in Seq(S), NEW ch \in S
    PROVE  /\ Led(p, ch) \in Seq(Seq(S)) /\ Len(Led(p, ch)) = Len(p)
           /\ Led(Append(p, x), ch) = Append(Led(p, ch), <<ch>> \o x)
<1> DEFINE T == Seq(S)
           q == Append(p, x)
           y == <<ch>> \o x
           l == Led(p, ch)
           m == Led(q, ch)
           r == Append(l, y)
           n == Len(p)
<1>1. \A z \in T : <<ch>> \o z \in T
  <2>1. <<ch>> \in Seq(S)
    OBVIOUS
  <2> QED
    BY <2>1, ConcatProperties
<1>2. y \in T
  BY <1>1
<1>3. /\ q \in Seq(T) /\ Len(q) = n + 1 /\ q[n + 1] = x /\ n \in Nat
      /\ \A k \in 1..n : q[k] = p[k]
  BY AppendProperties
<1> HIDE DEF q, y
<1>4. DOMAIN p = 1..n /\ DOMAIN q = 1..(n + 1)
  BY <1>3
<1>5. l = [k \in 1..n |-> <<ch>> \o p[k]]
  BY <1>4 DEF Led
<1>6. m = [k \in 1..(n + 1) |-> <<ch>> \o q[k]]
  BY <1>4 DEF Led
<1>7. \A k \in 1..n : p[k] \in T
  BY <1>3, ElementOfSeq
<1> HIDE DEF l, m, T, n
<1>8. l \in Seq(T) /\ Len(l) = n /\ \A k \in 1..n : l[k] = <<ch>> \o p[k]
  <2>1. \A k \in 1..n : l[k] = <<ch>> \o p[k] /\ l[k] \in T
    BY <1>1, <1>5, <1>7
  <2>2. l \in [1..n -> T]
    BY <1>5, <2>1
  <2> QED
    BY <1>3, <2>1, <2>2
<1>9. /\ r \in Seq(T) /\ Len(r) = n + 1 /\ r[n + 1] = y
      /\ \A k \in 1..n : r[k] = l[k]
  BY <1>2, <1>8, AppendProperties
<1> HIDE DEF r
<1>10. m = r
  <2>1. ASSUME NEW k \in 1..(n + 1)
        PROVE  <<ch>> \o q[k] = r[k]
    <3>1. k \in 1..n \/ k = n + 1
      BY <1>3
    <3> QED
      BY <1>3, <1>8, <1>9, <3>1 DEF y
  <2>2. r = [k \in 1..(n + 1) |-> r[k]]
    BY <1>9
  <2> QED
    BY <1>6, <2>1, <2>2
<1> QED
  BY <1>8, <1>10 DEF l, m, r, q, y, T, n

\* Put together with a separator before each, the pieces are the separator
\* and the string.
LEMMA LedPieces ==
    ASSUME NEW S, NEW ch \in S
    PROVE  \A s \in Seq(S) : FlattenSeq(Led(Pieces(s, ch), ch)) = <<ch>> \o s
<1> DEFINE F(p) == FlattenSeq(Led(p, ch))
           P == {s \in Seq(S) : F(Pieces(s, ch)) = <<ch>> \o s}
           e == <<>>
<1>0. e \in Seq(S) /\ e \in Seq(Seq(S)) /\ \A x \in Seq(S) : e \o x = x /\ x \o e = x
  <2>1. \A x \in Seq(S) : <<>> \o x = x /\ x \o <<>> = x
    BY ConcatEmptySeq
  <2> QED
    BY <2>1
<1>1. \A f \in Seq(Seq(S)), x \in Seq(S) : F(Append(f, x)) = F(f) \o (<<ch>> \o x) /\ F(f) \in Seq(S)
  <2> SUFFICES ASSUME NEW f \in Seq(Seq(S)), NEW x \in Seq(S)
               PROVE  F(Append(f, x)) = F(f) \o (<<ch>> \o x) /\ F(f) \in Seq(S)
    OBVIOUS
  <2> DEFINE l == Led(f, ch)
             y == <<ch>> \o x
  <2>1. y \in Seq(S)
    OBVIOUS
  <2>2. l \in Seq(Seq(S)) /\ Led(Append(f, x), ch) = Append(l, y)
    BY LedAppend
  <2> HIDE DEF l, y
  <2>3. FlattenSeq(Append(l, y)) = FlattenSeq(l) \o y /\ FlattenSeq(l) \in Seq(S)
    BY <2>1, <2>2, FlattenAppend, FlattenType
  <2> QED
    BY <2>2, <2>3 DEF l, y
<1>2. F(e) = e
  <2>1. Led(e, ch) = e
    BY DEF Led
  <2> QED
    BY <2>1, FlattenAppend
<1> HIDE DEF F
<1>3. e \in P
  <2>1. Pieces(e, ch) = Append(e, e)
    BY PiecesAppend
  <2>2. F(Append(e, e)) = F(e) \o (<<ch>> \o e)
    BY <1>0, <1>1
  <2>3. <<ch>> \o e \in Seq(S)
    BY <1>0, ConcatProperties
  <2>4. e \o (<<ch>> \o e) = <<ch>> \o e
    BY <1>0, <2>3
  <2> QED
    BY <1>0, <1>2, <2>1, <2>2, <2>4
<1> HIDE DEF e
<1>4. ASSUME NEW s \in Seq(S), NEW c \in S, s \in P
      PROVE  Append(s, c) \in P
  <2> DEFINE ps == Pieces(s, ch)
             f == Front(ps)
             x == ps[Len(ps)]
             q == Pieces(Append(s, c), ch)
  <2>1. ps \in Seq(Seq(S)) /\ ps # <<>>
    BY PiecesHold
  <2>2. F(ps) = <<ch>> \o s
    BY <1>4
  <2>3. q = PieceChar(ps, c, ch)
    BY PiecesAppend
  <2> HIDE DEF ps, q
  <2>4. f \in Seq(Seq(S)) /\ x \in Seq(S) /\ ps = Append(f, x)
    <3> DEFINE T == Seq(S)
    <3>1. ps \in Seq(T)
      BY <2>1
    <3> HIDE DEF T
    <3>2. f \in Seq(T) /\ x \in T /\ ps = Append(f, x)
      BY <2>1, <3>1, LastApart
    <3> QED
      BY <3>2 DEF T
  <2> HIDE DEF f, x
  <2>5. q = IF c = ch THEN Append(ps, <<>>) ELSE Append(f, Append(x, c))
    BY <2>3, <2>4, PieceCharOfAppend
  <2>6. F(q) = <<ch>> \o Append(s, c)
    <3>1. CASE c = ch
      <4>1. F(q) = F(ps) \o (<<ch>> \o e)
        BY <1>0, <1>1, <2>1, <2>5, <3>1 DEF e
      <4>2. <<ch>> \o e = <<ch>>
        BY DEF e
      <4>3. F(q) = (<<ch>> \o s) \o <<c>>
        BY <2>2, <3>1, <4>1, <4>2
      <4> QED
        BY <4>3
    <3>2. CASE c # ch
      <4>1. Append(x, c) \in Seq(S) /\ F(f) \in Seq(S)
        BY <1>1, <2>4, AppendProperties
      <4>2. F(q) = F(f) \o (<<ch>> \o Append(x, c))
        BY <1>1, <2>4, <2>5, <3>2, <4>1
      <4>3. F(ps) = F(f) \o (<<ch>> \o x)
        BY <1>1, <2>4
      <4> DEFINE ff == F(f)
      <4> HIDE DEF ff
      <4>4. ff \in Seq(S) /\ ff \o (<<ch>> \o x) = <<ch>> \o s
        BY <2>2, <4>1, <4>3 DEF ff
      <4>5. ff \o (<<ch>> \o Append(x, c)) = Append(ff \o (<<ch>> \o x), c)
        <5>1. <<ch>> \o Append(x, c) = Append(<<ch>> \o x, c)
          BY <2>4, <4>1
        <5>2. <<ch>> \o x \in Seq(S)
          BY <2>4
        <5> QED
          BY <4>4, <5>1, <5>2, AppendLast, SMTT(40)
      <4>6. Append(<<ch>> \o s, c) = <<ch>> \o Append(s, c)
        OBVIOUS
      <4> QED
        BY <4>2, <4>4, <4>5, <4>6 DEF ff
    <3> QED
      BY <3>1, <3>2
  <2>7. Append(s, c) \in Seq(S)
    BY AppendProperties
  <2> QED
    BY <2>6, <2>7 DEF q
<1>5. Seq(S) \subseteq P
  <2> HIDE DEF P
  <2> QED
    BY <1>3, <1>4, SeqInductive DEF e
<1> QED
  BY <1>5 DEF F

\* Put together with nothing in between, the pieces are the string without
\* its separators.
LEMMA PiecesFlat ==
    ASSUME NEW S, NEW ch \in S
    PROVE  \A s \in Seq(S) : FlattenSeq(Pieces(s, ch)) = Without(s, {ch})
<1> DEFINE D == {ch}
           e == <<>>
           P == {s \in Seq(S) : FlattenSeq(Pieces(s, ch)) = Without(s, D)}
<1>0. e \in Seq(S) /\ e \in Seq(Seq(S)) /\ \A x \in Seq(S) : e \o x = x /\ x \o e = x
  <2>1. \A x \in Seq(S) : <<>> \o x = x /\ x \o <<>> = x
    BY ConcatEmptySeq
  <2> QED
    BY <2>1
<1>1. \A c : c \in D <=> c = ch
  OBVIOUS
<1>2. Pieces(e, ch) = Append(e, e) /\ FlattenSeq(e) = e /\ Without(e, D) = e
  BY PiecesAppend, FlattenAppend, WithoutEmpty
<1> HIDE DEF D
<1>3. \A f \in Seq(Seq(S)), x \in Seq(S) :
         FlattenSeq(Append(f, x)) = FlattenSeq(f) \o x /\ FlattenSeq(f) \in Seq(S)
  BY FlattenAppend, FlattenType
<1>4. e \in P
  <2> HIDE DEF e
  <2> QED
    BY <1>0, <1>2, <1>3
<1>5. ASSUME NEW s \in Seq(S), NEW c \in S, s \in P
      PROVE  Append(s, c) \in P
  <2> DEFINE ps == Pieces(s, ch)
             f == Front(ps)
             x == ps[Len(ps)]
             q == Pieces(Append(s, c), ch)
             w == Without(s, D)
  <2>1. ps \in Seq(Seq(S)) /\ ps # <<>>
    BY PiecesHold
  <2>2. FlattenSeq(ps) = w
    BY <1>5
  <2>3. q = PieceChar(ps, c, ch)
    BY PiecesAppend
  <2>4. w \in Seq(S) /\ Without(Append(s, c), D) = IF c \in D THEN w ELSE Append(w, c)
    BY WithoutAppend DEF KeptWith
  <2> HIDE DEF ps, q, w
  <2>5. f \in Seq(Seq(S)) /\ x \in Seq(S) /\ ps = Append(f, x)
    <3> DEFINE T == Seq(S)
    <3>1. ps \in Seq(T)
      BY <2>1
    <3> HIDE DEF T
    <3>2. f \in Seq(T) /\ x \in T /\ ps = Append(f, x)
      BY <2>1, <3>1, LastApart
    <3> QED
      BY <3>2 DEF T
  <2> HIDE DEF f, x
  <2>6. q = IF c = ch THEN Append(ps, <<>>) ELSE Append(f, Append(x, c))
    BY <2>3, <2>5, PieceCharOfAppend
  <2>7. FlattenSeq(q) = Without(Append(s, c), D)
    <3>1. CASE c = ch
      <4>1. q = Append(ps, e)
        BY <2>6, <3>1
      <4> HIDE DEF e
      <4>2. FlattenSeq(q) = w \o e
        BY <1>0, <1>3, <2>1, <2>2, <4>1
      <4> QED
        BY <1>0, <1>1, <2>4, <3>1, <4>2
    <3>2. CASE c # ch
      <4>1. Append(x, c) \in Seq(S)
        BY <2>5, AppendProperties
      <4>2. FlattenSeq(q) = FlattenSeq(f) \o Append(x, c)
        BY <1>3, <2>5, <2>6, <3>2, <4>1
      <4>3. FlattenSeq(f) \o x = w /\ FlattenSeq(f) \in Seq(S)
        BY <1>3, <2>2, <2>5
      <4>4. FlattenSeq(f) \o Append(x, c) = Append(w, c)
        BY <2>5, <4>3, AppendLast, SMTT(40)
      <4> QED
        BY <1>1, <2>4, <3>2, <4>2, <4>4
    <3> QED
      BY <3>1, <3>2
  <2>8. Append(s, c) \in Seq(S)
    BY AppendProperties
  <2> QED
    BY <2>7, <2>8 DEF q
<1>6. Seq(S) \subseteq P
  <2> HIDE DEF P
  <2> QED
    BY <1>4, <1>5, SeqInductive
<1> QED
  BY <1>6 DEF D

\* Empty strings add nothing.
LEMMA FlattenWithout ==
    ASSUME NEW S
    PROVE  \A A \in Seq(Seq(S)) : FlattenSeq(Without(A, {<<>>})) = FlattenSeq(A)
<1> DEFINE T == Seq(S)
           D == {<<>>}
           e == <<>>
           P == {A \in Seq(T) : FlattenSeq(Without(A, D)) = FlattenSeq(A)}
<1>0. e \in Seq(T) /\ \A x \in T : x \o <<>> = x
  BY ConcatEmptySeq
<1>1. \A x : x \in D <=> x = <<>>
  OBVIOUS
<1> HIDE DEF D
<1>2. e \in P
  BY <1>0, WithoutEmpty, FlattenAppend
<1>3. \A f \in Seq(T), x \in T :
         FlattenSeq(Append(f, x)) = FlattenSeq(f) \o x /\ FlattenSeq(f) \in T
  BY FlattenAppend, FlattenType
<1> HIDE DEF T
<1>4. ASSUME NEW A \in Seq(T), NEW x \in T, A \in P
      PROVE  Append(A, x) \in P
  <2> DEFINE w == Without(A, D)
  <2>1. /\ w \in Seq(T)
        /\ Without(Append(A, x), D) = IF x \in D THEN w ELSE Append(w, x)
    <3>1. w \in Seq(T) /\ Without(Append(A, x), D) = KeptWith(w, x, D)
      <4> HIDE DEF P
      <4> QED
        BY WithoutAppend
    <3> QED
      BY <3>1 DEF KeptWith
  <2>2. FlattenSeq(w) = FlattenSeq(A)
    BY <1>4
  <2> HIDE DEF w
  <2>3. FlattenSeq(Without(Append(A, x), D)) = FlattenSeq(Append(A, x))
    <3>1. CASE x \in D
      <4>1. x = <<>>
        BY <1>1, <3>1
      <4>2. FlattenSeq(Append(A, x)) = FlattenSeq(A) \o x
        BY <1>3
      <4> QED
        BY <1>0, <1>3, <2>1, <2>2, <3>1, <4>1, <4>2
    <3>2. CASE x \notin D
      BY <1>3, <2>1, <2>2, <3>2
    <3> QED
      BY <3>1, <3>2
  <2>4. Append(A, x) \in Seq(T)
    BY AppendProperties
  <2> QED
    BY <2>3, <2>4
<1>5. Seq(T) \subseteq P
  <2> HIDE DEF P
  <2> QED
    BY <1>2, <1>4, SeqInductive
<1> QED
  BY <1>5 DEF D, T

\* The greatest of a set of places.
LEMMA MaxIs ==
    ASSUME NEW T \in SUBSET Nat, NEW m \in T, \A y \in T : y <= m
    PROVE  Max(T) = m
<1>1. Max(T) \in T /\ \A y \in T : Max(T) >= y
  <2>1. \E x \in T : \A y \in T : x >= y
    OBVIOUS
  <2> QED
    BY <2>1 DEF Max
<1> DEFINE x == Max(T)
<1>2. x \in T /\ x >= m
  BY <1>1
<1> HIDE DEF x
<1>3. x \in Nat /\ m \in Nat /\ x <= m
  BY <1>2
<1>4. x = m
  BY <1>2, <1>3
<1> QED
  BY <1>4 DEF x

\* Places in a string have a greatest one.
LEMMA MaxIsIn ==
    ASSUME NEW n \in Nat, NEW T \in SUBSET (1..n), T # {}
    PROVE  Max(T) \in T /\ \A y \in T : y <= Max(T)
<1> DEFINE R == {n - i : i \in T}
<1>1. R \subseteq Nat /\ R # {}
  <2>1. \A i \in T : n - i \in Nat
    OBVIOUS
  <2>2. PICK i \in T : TRUE
    OBVIOUS
  <2>3. n - i \in R
    BY <2>2
  <2> QED
    BY <2>1, <2>3
<1>2. PICK x \in R : \A y \in R : x <= y
  <2> HIDE DEF R
  <2> QED
    BY <1>1, LeastExists
<1>3. PICK i \in T : x = n - i
  OBVIOUS
<1>4. \A y \in T : y <= i
  <2> TAKE y \in T
  <2>1. n - y \in R
    OBVIOUS
  <2>2. n - i <= n - y
    BY <1>2, <1>3, <2>1
  <2> QED
    BY <2>2
<1>5. T \subseteq Nat
  OBVIOUS
<1>6. Max(T) = i
  BY <1>4, <1>5, MaxIs
<1> QED
  BY <1>4, <1>6

-----------------------------------------------------------------------------
(***************************************************************************)
(* Trimming.                                                               *)
(***************************************************************************)

\* Nothing but blanks leaves nothing.
LEMMA WithoutBlanks ==
    ASSUME NEW S, NEW D
    PROVE  \A s \in Seq(S) : (\A i \in 1..Len(s) : s[i] \in D) => Without(s, D) = <<>>
<1> SUFFICES ASSUME NEW s \in Seq(S), \A i \in 1..Len(s) : s[i] \in D
             PROVE  Without(s, D) = <<>>
  OBVIOUS
<1> DEFINE w == Without(s, D)
<1>1. w \in Seq(S) /\ \A k \in 1..Len(w) : w[k] \notin D /\ \E i \in 1..Len(s) : s[i] = w[k]
  BY WithoutHas
<1> HIDE DEF w
<1>2. \A k \in 1..Len(w) : FALSE
  BY <1>1
<1>3. w = <<>>
  BY <1>1, <1>2
<1> QED
  BY <1>3 DEF w

\* A string, cut in two.
LEMMA CutInTwo ==
    ASSUME NEW S, NEW s \in Seq(S), NEW m \in 0..Len(s)
    PROVE  /\ SubSeq(s, 1, m) \in Seq(S) /\ SubSeq(s, m + 1, Len(s)) \in Seq(S)
           /\ s = SubSeq(s, 1, m) \o SubSeq(s, m + 1, Len(s))
           /\ Len(SubSeq(s, 1, m)) = m /\ Len(SubSeq(s, m + 1, Len(s))) = Len(s) - m
           /\ \A k \in 1..m : SubSeq(s, 1, m)[k] = s[k]
           /\ \A k \in 1..(Len(s) - m) : SubSeq(s, m + 1, Len(s))[k] = s[m + k]
<1> DEFINE n == Len(s)
           i == m + 1
           a == SubSeq(s, 1, m)
           b == SubSeq(s, i, n)
           t == a \o b
<1>1. /\ n \in Nat /\ m \in Nat /\ m <= n /\ i \in Nat \ {0} /\ n <= n /\ 1 \in Nat \ {0}
      /\ (IF 1 <= m THEN m - 1 + 1 ELSE 0) = m /\ m - 1 + 1 = m
      /\ (IF i <= n THEN n - i + 1 ELSE 0) = n - m /\ n - i + 1 = n - m
      /\ \A k \in Nat : 1 + k - 1 = k /\ i + k - 1 = m + k
  <2>1. n \in Nat
    OBVIOUS
  <2> HIDE DEF n
  <2> QED
    BY <2>1 DEF n
<1> HIDE DEF n, i
<1>2. a \in Seq(S) /\ Len(a) = m /\ \A k \in 1..m : a[k] = s[k]
  BY <1>1, PartIs DEF n
<1>3. b \in Seq(S) /\ Len(b) = n - m /\ \A k \in 1..(n - m) : b[k] = s[m + k]
  <2>1. b \in Seq(S) /\ Len(b) = n - m /\ \A k \in 1..(n - m) : b[k] = s[i + k - 1]
    BY <1>1, PartIs DEF n
  <2> QED
    BY <1>1, <2>1
<1> HIDE DEF a, b
<1>4. /\ t \in Seq(S) /\ Len(t) = n
      /\ \A k \in 1..n : t[k] = IF k <= m THEN a[k] ELSE b[k - m]
  <2>1. /\ t \in Seq(S) /\ Len(t) = Len(a) + Len(b)
        /\ \A k \in 1..(Len(a) + Len(b)) :
              t[k] = IF k <= Len(a) THEN a[k] ELSE b[k - Len(a)]
    BY <1>2, <1>3, ConcatProperties
  <2>2. Len(a) + Len(b) = n
    <3>1. m + (n - m) = n
      BY <1>1
    <3> QED
      BY <1>2, <1>3, <3>1
  <2> QED
    BY <1>2, <2>1, <2>2
<1> HIDE DEF t
<1>5. ASSUME NEW k \in 1..n
      PROVE  t[k] = s[k]
  <2>1. CASE k <= m
    <3>1. k \in 1..m
      BY <1>1, <2>1
    <3> QED
      BY <1>2, <1>4, <2>1, <3>1
  <2>2. CASE ~(k <= m)
    <3>1. k - m \in 1..(n - m) /\ m + (k - m) = k
      BY <1>1, <2>2
    <3> QED
      BY <1>3, <1>4, <2>2, <3>1
  <2> QED
    BY <2>1, <2>2
<1>6. t = s
  BY <1>1, <1>4, <1>5, SeqEqual DEF n
<1> QED
  BY <1>2, <1>3, <1>6 DEF a, b, t, n, i

\* No blanks at the ends.
Trimmed(s) == s # <<>> => s[1] # Blank /\ s[Len(s)] # Blank

\* Trimming a trimmed string changes nothing.
LEMMA TrimOfTrimmed ==
    ASSUME NEW S, NEW s \in Seq(S), Trimmed(s)
    PROVE  trim(s) = s
<1> DEFINE n == Len(s)
<1>1. n \in Nat /\ Inked(s) \subseteq 1..n /\ Inked(s) \in SUBSET Nat
  BY DEF Inked
<1>2. CASE s = <<>>
  <2>1. Len(s) = 0
    BY <1>2
  <2>2. Inked(s) = {}
    BY <1>1, <2>1
  <2>3. rtrim(s) = s
    BY <1>2, <2>2 DEF rtrim
  <2>4. ltrim(s) = s
    BY <1>2, <2>2 DEF ltrim
  <2> QED
    BY <2>3, <2>4 DEF trim
<1>3. CASE s # <<>>
  <2>1. n \in Nat \ {0}
    BY <1>3, EmptySeq
  <2>2. s[1] # Blank /\ s[n] # Blank
    BY <1>3 DEF Trimmed
  <2>3. n \in Inked(s) /\ 1 \in Inked(s)
    BY <2>1, <2>2 DEF Inked
  <2>4. Max(Inked(s)) = n
    BY <1>1, <2>3, MaxIs
  <2>5. Min(Inked(s)) = 1
    <3>1. Min(Inked(s)) \in Inked(s) /\ Min(Inked(s)) <= 1
      BY <1>1, <2>3, MinIsIn
    <3> QED
      BY <1>1, <3>1
  <2>6. SubSeq(s, 1, n) = s
    OBVIOUS
  <2>7. rtrim(s) = s
    BY <2>3, <2>4, <2>6 DEF rtrim
  <2>8. ltrim(s) = s
    BY <2>3, <2>5, <2>6 DEF ltrim
  <2> QED
    BY <2>7, <2>8 DEF trim
<1> QED
  BY <1>2, <1>3

\* rtrim takes nothing but blanks, and all of those at the end.
LEMMA RightTrim ==
    ASSUME NEW S, NEW s \in Seq(S)
    PROVE  /\ rtrim(s) \in Seq(S)
           /\ rtrim(s) # <<>> => rtrim(s)[Len(rtrim(s))] # Blank
           /\ Without(rtrim(s), {Blank}) = Without(s, {Blank})
<1> DEFINE n == Len(s)
           D == {Blank}
           m == Max(Inked(s))
           j == m + 1
           a == SubSeq(s, 1, m)
           b == SubSeq(s, j, n)
<1>1. n \in Nat /\ Inked(s) \in SUBSET (1..n) /\ \A i \in 1..n : i \notin Inked(s) => s[i] = Blank
  BY DEF Inked
<1>2. \A x : x \in D <=> x = Blank
  OBVIOUS
<1> HIDE DEF D
<1>3. CASE Inked(s) = {}
  <2>1. rtrim(s) = <<>>
    BY <1>3 DEF rtrim
  <2>2. Without(s, D) = <<>>
    BY <1>1, <1>2, <1>3, WithoutBlanks
  <2>3. Without(<<>>, D) = <<>>
    BY WithoutEmpty
  <2> QED
    BY <2>1, <2>2, <2>3 DEF D
<1>4. CASE Inked(s) # {}
  <2>1. m \in Inked(s) /\ \A y \in Inked(s) : y <= m
    BY <1>1, <1>4, MaxIsIn
  <2>2. rtrim(s) = a
    BY <1>4 DEF rtrim
  <2> HIDE DEF m
  <2>3. m \in 1..n /\ m \in 0..n /\ s[m] # Blank
    BY <1>1, <2>1 DEF Inked
  <2>4. /\ a \in Seq(S) /\ b \in Seq(S) /\ s = a \o b /\ Len(a) = m /\ Len(b) = n - m
        /\ \A k \in 1..m : a[k] = s[k]
        /\ \A k \in 1..(n - m) : b[k] = s[m + k]
    BY <2>3, CutInTwo
  <2> HIDE DEF a, b
  <2>5. \A k \in 1..Len(b) : b[k] \in D
    <3> TAKE k \in 1..Len(b)
    <3>1. m + k \in 1..n /\ ~(m + k <= m) /\ b[k] = s[m + k]
      BY <1>1, <2>3, <2>4
    <3> QED
      BY <1>1, <1>2, <2>1, <3>1
  <2>6. Without(b, D) = <<>>
    BY <2>4, <2>5, WithoutBlanks
  <2>7. Without(s, D) = Without(a, D) \o Without(b, D)
    BY <2>4, WithoutConcat
  <2>8. Without(a, D) \in Seq(S)
    BY <2>4, WithoutHas
  <2>9. Without(s, D) = Without(a, D)
    BY <2>6, <2>7, <2>8, ConcatEmptySeq
  <2>10. a[Len(a)] # Blank
    BY <2>3, <2>4
  <2> QED
    BY <2>2, <2>4, <2>9, <2>10 DEF D
<1> QED
  BY <1>3, <1>4

\* ltrim takes nothing but blanks, all of those at the beginning, and keeps
\* the end.
LEMMA LeftTrim ==
    ASSUME NEW S, NEW s \in Seq(S)
    PROVE  /\ ltrim(s) \in Seq(S)
           /\ ltrim(s) # <<>> => /\ ltrim(s)[1] # Blank
                                 /\ s # <<>> /\ ltrim(s)[Len(ltrim(s))] = s[Len(s)]
           /\ Without(ltrim(s), {Blank}) = Without(s, {Blank})
<1> DEFINE n == Len(s)
           D == {Blank}
           i == Min(Inked(s))
           m == i - 1
           j == m + 1
           a == SubSeq(s, 1, m)
           b == SubSeq(s, j, n)
<1>1. n \in Nat /\ Inked(s) \in SUBSET (1..n) /\ \A k \in 1..n : k \notin Inked(s) => s[k] = Blank
  BY DEF Inked
<1>2. \A x : x \in D <=> x = Blank
  OBVIOUS
<1> HIDE DEF D
<1>3. CASE Inked(s) = {}
  <2>1. ltrim(s) = <<>>
    BY <1>3 DEF ltrim
  <2>2. Without(s, D) = <<>>
    BY <1>1, <1>2, <1>3, WithoutBlanks
  <2>3. Without(<<>>, D) = <<>>
    BY WithoutEmpty
  <2> QED
    BY <2>1, <2>2, <2>3 DEF D
<1>4. CASE Inked(s) # {}
  <2>1. i \in Inked(s) /\ \A y \in Inked(s) : i <= y
    BY <1>1, <1>4, MinIsIn
  <2>2. ltrim(s) = SubSeq(s, i, n)
    BY <1>4 DEF ltrim
  <2> HIDE DEF i
  <2>3. /\ i \in 1..n /\ m \in 0..n /\ j = i /\ s[i] # Blank
        /\ n - m \in Nat \ {0} /\ m + 1 = i /\ m + (n - m) = n /\ s # <<>>
    BY <1>1, <2>1 DEF Inked
  <2>4. ltrim(s) = b
    BY <2>2, <2>3
  <2> HIDE DEF m
  <2>5. /\ a \in Seq(S) /\ b \in Seq(S) /\ s = a \o b /\ Len(a) = m /\ Len(b) = n - m
        /\ \A k \in 1..m : a[k] = s[k]
        /\ \A k \in 1..(n - m) : b[k] = s[m + k]
    <3>1. s \in Seq(S) /\ m \in 0..Len(s)
      BY <2>3
    <3> QED
      BY ONLY <3>1, CutInTwo, ZenonT(60)
  <2> HIDE DEF a, b
  <2>6. \A k \in 1..Len(a) : a[k] \in D
    <3> TAKE k \in 1..Len(a)
    <3>1. k \in 1..n /\ ~(i <= k) /\ a[k] = s[k]
      BY <1>1, <2>3, <2>5
    <3> QED
      BY <1>1, <1>2, <2>1, <3>1
  <2>7. Without(a, D) = <<>>
    BY <2>5, <2>6, WithoutBlanks
  <2>8. Without(s, D) = Without(a, D) \o Without(b, D)
    BY <2>5, WithoutConcat
  <2>9. Without(b, D) \in Seq(S)
    BY <2>5, WithoutHas
  <2>10. Without(s, D) = Without(b, D)
    BY <2>7, <2>8, <2>9, ConcatEmptySeq
  <2>11. b[1] # Blank /\ b[Len(b)] = s[n]
    BY <1>1, <2>3, <2>5
  <2> QED
    BY <2>3, <2>4, <2>5, <2>10, <2>11 DEF D
<1> QED
  BY <1>3, <1>4

\* trim takes nothing but blanks, all of those at the ends, and a second
\* trim takes nothing.
LEMMA Trims ==
    ASSUME NEW S, NEW s \in Seq(S)
    PROVE  /\ trim(s) \in Seq(S) /\ trim(trim(s)) = trim(s)
           /\ Without(trim(s), {Blank}) = Without(s, {Blank})
<1> DEFINE r == rtrim(s)
           t == ltrim(r)
<1>1. /\ r \in Seq(S)
      /\ r # <<>> => r[Len(r)] # Blank
      /\ Without(r, {Blank}) = Without(s, {Blank})
  BY RightTrim
<1> HIDE DEF r
<1>2. /\ t \in Seq(S)
      /\ t # <<>> => t[1] # Blank /\ r # <<>> /\ t[Len(t)] = r[Len(r)]
      /\ Without(t, {Blank}) = Without(r, {Blank})
  BY <1>1, LeftTrim
<1> HIDE DEF t
<1>3. Trimmed(t)
  BY <1>1, <1>2 DEF Trimmed
<1>4. trim(t) = t
  BY <1>2, <1>3, TrimOfTrimmed
<1>5. t = trim(s)
  BY DEF t, r, trim
<1> QED
  BY <1>1, <1>2, <1>4, <1>5

\* Each piece trimmed.
TrimEach(p) == [k \in DOMAIN p |-> trim(p[k])]

\* One more piece.
LEMMA TrimEachAppend ==
    ASSUME NEW S, NEW p \in Seq(Seq(S)), NEW x \in Seq(S)
    PROVE  /\ TrimEach(p) \in Seq(Seq(S)) /\ Len(TrimEach(p)) = Len(p)
           /\ \A k \in 1..Len(p) : TrimEach(p)[k] = trim(p[k])
           /\ TrimEach(Append(p, x)) = Append(TrimEach(p), trim(x))
<1> DEFINE T == Seq(S)
           q == Append(p, x)
           y == trim(x)
           l == TrimEach(p)
           m == TrimEach(q)
           r == Append(l, y)
           n == Len(p)
<1>1. \A z \in T : trim(z) \in T
  BY Trims
<1>2. y \in T
  BY <1>1
<1>3. /\ q \in Seq(T) /\ Len(q) = n + 1 /\ q[n + 1] = x /\ n \in Nat
      /\ \A k \in 1..n : q[k] = p[k]
  BY AppendProperties
<1> HIDE DEF q, y
<1>4. DOMAIN p = 1..n /\ DOMAIN q = 1..(n + 1)
  BY <1>3
<1>5. l = [k \in 1..n |-> trim(p[k])]
  BY <1>4 DEF TrimEach
<1>6. m = [k \in 1..(n + 1) |-> trim(q[k])]
  BY <1>4 DEF TrimEach
<1>7. \A k \in 1..n : p[k] \in T
  BY <1>3, ElementOfSeq
<1> HIDE DEF l, m, T, n
<1>8. l \in Seq(T) /\ Len(l) = n /\ \A k \in 1..n : l[k] = trim(p[k])
  <2>1. \A k \in 1..n : l[k] = trim(p[k]) /\ l[k] \in T
    BY <1>1, <1>5, <1>7
  <2>2. l \in [1..n -> T]
    BY <1>5, <2>1
  <2> QED
    BY <1>3, <2>1, <2>2
<1>9. /\ r \in Seq(T) /\ Len(r) = n + 1 /\ r[n + 1] = y
      /\ \A k \in 1..n : r[k] = l[k]
  BY <1>2, <1>8, AppendProperties
<1> HIDE DEF r
<1>10. m = r
  <2>1. ASSUME NEW k \in 1..(n + 1)
        PROVE  trim(q[k]) = r[k]
    <3>1. k \in 1..n \/ k = n + 1
      BY <1>3
    <3> QED
      BY <1>3, <1>8, <1>9, <3>1 DEF y
  <2>2. r = [k \in 1..(n + 1) |-> r[k]]
    BY <1>9
  <2> QED
    BY <1>6, <2>1, <2>2
<1> QED
  BY <1>8, <1>10 DEF l, m, r, q, y, T, n

\* Trimming the pieces takes only blanks.
LEMMA TrimEachFlat ==
    ASSUME NEW S
    PROVE  \A A \in Seq(Seq(S)) :
              Without(FlattenSeq(TrimEach(A)), {Blank}) = Without(FlattenSeq(A), {Blank})
<1> DEFINE T == Seq(S)
           D == {Blank}
           e == <<>>
           P == {A \in Seq(T) : Without(FlattenSeq(TrimEach(A)), D) = Without(FlattenSeq(A), D)}
<1>1. \A x \in T : trim(x) \in T /\ Without(trim(x), D) = Without(x, D)
  BY Trims
<1> HIDE DEF D
<1>2. e \in P
  <2>1. TrimEach(e) = e
    BY DEF TrimEach
  <2> QED
    BY <2>1
<1>3. \A f \in Seq(T), x \in T :
         FlattenSeq(Append(f, x)) = FlattenSeq(f) \o x /\ FlattenSeq(f) \in T
  BY FlattenAppend, FlattenType
<1>4. \A x \in T, y \in T : Without(x \o y, D) = Without(x, D) \o Without(y, D)
  BY WithoutConcat
<1>5. \A f \in Seq(T), x \in T :
         TrimEach(f) \in Seq(T) /\ TrimEach(Append(f, x)) = Append(TrimEach(f), trim(x))
  BY TrimEachAppend
<1> HIDE DEF T
<1>6. ASSUME NEW A \in Seq(T), NEW x \in T, A \in P
      PROVE  Append(A, x) \in P
  <2> DEFINE a == TrimEach(A)
             y == trim(x)
             g == FlattenSeq(a)
             h == FlattenSeq(A)
  <2>1. Without(g, D) = Without(h, D)
    BY <1>6
  <2>2. a \in Seq(T) /\ TrimEach(Append(A, x)) = Append(a, y)
    BY <1>5
  <2>3. y \in T /\ Without(y, D) = Without(x, D)
    BY <1>1
  <2> HIDE DEF a, y
  <2>4. /\ FlattenSeq(Append(a, y)) = g \o y /\ g \in T
        /\ FlattenSeq(Append(A, x)) = h \o x /\ h \in T
    BY <1>3, <2>2, <2>3
  <2> HIDE DEF g, h
  <2>5. /\ Without(g \o y, D) = Without(g, D) \o Without(y, D)
        /\ Without(h \o x, D) = Without(h, D) \o Without(x, D)
    BY <1>4, <2>3, <2>4
  <2>6. Append(A, x) \in Seq(T)
    BY AppendProperties
  <2> QED
    BY <2>1, <2>2, <2>3, <2>4, <2>5, <2>6
<1>7. Seq(T) \subseteq P
  <2> HIDE DEF P
  <2> QED
    BY <1>2, <1>6, SeqInductive
<1> QED
  BY <1>7 DEF D, T

-----------------------------------------------------------------------------
(***************************************************************************)
(* What split and remove_ext promise.                                      *)
(***************************************************************************)

\* Without any separator split gives the string itself, else the pieces.
LEMMA SplitIs ==
    ASSUME NEW S, NEW s \in Seq(S), NEW ch \in S
    PROVE  /\ ~Has(s, <<ch>>) => /\ split(s, ch, FALSE, TRUE) = <<s>>
                                 /\ split(s, ch, TRUE, FALSE) = <<s>>
           /\ Has(s, <<ch>>) =>
                /\ split(s, ch, FALSE, TRUE) = Pieces(s, ch)
                /\ split(s, ch, TRUE, FALSE) = Without(TrimEach(Pieces(s, ch)), {<<>>})
<1> DEFINE ps == Pieces(s, ch)
           T == Seq(S)
           D == {}
<1>1. ps \in Seq(T)
  BY PiecesHold
<1>2. ~Has(s, <<ch>>) => /\ split(s, ch, FALSE, TRUE) = <<s>>
                         /\ split(s, ch, TRUE, FALSE) = <<s>>
  BY DEF split
<1>3. Has(s, <<ch>>) => split(s, ch, FALSE, TRUE) = Without([k \in DOMAIN ps |-> ps[k]], D)
  BY DEF split
<1>4. Has(s, <<ch>>) => split(s, ch, TRUE, FALSE) = Without(TrimEach(ps), {<<>>})
  BY DEF split, TrimEach
<1> HIDE DEF ps
<1>5. [k \in DOMAIN ps |-> ps[k]] = ps
  BY <1>1
<1>6. \A i \in 1..Len(ps) : ps[i] \notin D
  OBVIOUS
<1> HIDE DEF T, D
<1>7. Without(ps, D) = ps
  BY <1>1, <1>6, WithoutNone
<1> QED
  BY <1>2, <1>3, <1>4, <1>5, <1>7 DEF ps

\* No piece has the separator, said with Has.
LEMMA PiecesClean ==
    ASSUME NEW S, NEW s \in Seq(S), NEW ch \in S
    PROVE  \A k \in DOMAIN Pieces(s, ch) : ~Has(Pieces(s, ch)[k], <<ch>>)
<1> DEFINE ps == Pieces(s, ch)
<1>1. ps \in Seq(Seq(S)) /\ \A k \in 1..Len(ps) : \A j \in 1..Len(ps[k]) : ps[k][j] # ch
  <2>1. ps \in Seq(Seq(S))
    BY PiecesHold
  <2>2. NoneHas(ps, ch)
    BY PiecesHold
  <2> QED
    BY <2>1, <2>2 DEF NoneHas
<1> HIDE DEF ps
<1>2. DOMAIN ps = 1..Len(ps)
  BY <1>1
<1>3. ASSUME NEW k \in 1..Len(ps)
      PROVE  ~Has(ps[k], <<ch>>)
  <2>1. ps[k] \in Seq(S)
    BY <1>1, ElementOfSeq
  <2>2. \A j \in 1..Len(ps[k]) : ps[k][j] # ch
    BY <1>1
  <2> DEFINE x == ps[k]
  <2> HIDE DEF x
  <2>3. x \in Seq(S) /\ \A j \in 1..Len(x) : x[j] # ch
    BY <2>1, <2>2 DEF x
  <2>4. ~Has(x, <<ch>>)
    BY <2>3, CharHas
  <2> QED
    BY <2>4 DEF x
<1> QED
  BY <1>2, <1>3 DEF ps

\* One more piece, put together.
LEMMA LedMore ==
    ASSUME NEW S, NEW f \in Seq(Seq(S)), NEW x \in Seq(S), NEW ch \in S
    PROVE  /\ FlattenSeq(Led(f, ch)) \in Seq(S)
           /\ FlattenSeq(Led(Append(f, x), ch)) = FlattenSeq(Led(f, ch)) \o (<<ch>> \o x)
<1> DEFINE l == Led(f, ch)
           y == <<ch>> \o x
<1>1. y \in Seq(S)
  OBVIOUS
<1>2. l \in Seq(Seq(S)) /\ Led(Append(f, x), ch) = Append(l, y)
  BY LedAppend
<1> HIDE DEF l, y
<1>3. FlattenSeq(Append(l, y)) = FlattenSeq(l) \o y /\ FlattenSeq(l) \in Seq(S)
  BY <1>1, <1>2, FlattenAppend, FlattenType
<1> QED
  BY <1>2, <1>3 DEF l, y

\* A single piece, put together.
LEMMA LedOne ==
    ASSUME NEW S, NEW s \in Seq(S), NEW ch \in S
    PROVE  FlattenSeq(Led(<<s>>, ch)) = <<ch>> \o s
<1> DEFINE e == <<>>
<1>1. e \in Seq(Seq(S)) /\ <<s>> = Append(e, s)
  OBVIOUS
<1>2. FlattenSeq(Led(e, ch)) = <<>>
  <2>1. Led(e, ch) = e
    BY DEF Led
  <2> QED
    BY <2>1, FlattenAppend
<1> HIDE DEF e
<1>3. FlattenSeq(Led(<<s>>, ch)) = <<>> \o (<<ch>> \o s)
  <2>1. FlattenSeq(Led(Append(e, s), ch)) = FlattenSeq(Led(e, ch)) \o (<<ch>> \o s)
    BY <1>1, LedMore
  <2> QED
    BY <1>1, <1>2, <2>1
<1>4. <<>> \o (<<ch>> \o s) = <<ch>> \o s
  OBVIOUS
<1> QED
  BY <1>3, <1>4

\* The fields, with the separator in between, are the string.
LEMMA RawJoins ==
    ASSUME NEW S, NEW s \in Seq(S), NEW ch \in S
    PROVE  /\ Join(split(s, ch, FALSE, TRUE), ch) = s
           /\ \A k \in DOMAIN split(s, ch, FALSE, TRUE) :
                 ~Has(split(s, ch, FALSE, TRUE)[k], <<ch>>)
<1> DEFINE raw == split(s, ch, FALSE, TRUE)
<1>0. \A p : Join(p, ch) = Tail(FlattenSeq(Led(p, ch)))
  BY DEF Join, Led
<1>1. Tail(<<ch>> \o s) = s
  OBVIOUS
<1>2. CASE Has(s, <<ch>>)
  <2>1. raw = Pieces(s, ch)
    BY <1>2, SplitIs
  <2>2. FlattenSeq(Led(Pieces(s, ch), ch)) = <<ch>> \o s
    BY LedPieces
  <2> HIDE DEF raw
  <2>3. \A k \in DOMAIN raw : ~Has(raw[k], <<ch>>)
    BY <2>1, PiecesClean
  <2> QED
    BY <1>0, <1>1, <2>1, <2>2, <2>3 DEF raw
<1>3. CASE ~Has(s, <<ch>>)
  <2>1. raw = <<s>>
    BY <1>3, SplitIs
  <2> HIDE DEF raw
  <2>2. FlattenSeq(Led(raw, ch)) = <<ch>> \o s
    BY <2>1, LedOne
  <2>3. \A k \in DOMAIN raw : raw[k] = s
    BY <2>1
  <2> QED
    BY <1>0, <1>1, <1>3, <2>2, <2>3 DEF raw
<1> QED
  BY <1>2, <1>3

\* With the default arguments no field is empty or has blanks around it.
LEMMA FieldsTrimmed ==
    ASSUME NEW S, NEW s \in Seq(S), NEW ch \in S, Has(s, <<ch>>)
    PROVE  \A k \in DOMAIN split(s, ch, TRUE, FALSE) :
              /\ split(s, ch, TRUE, FALSE)[k] # <<>>
              /\ trim(split(s, ch, TRUE, FALSE)[k]) = split(s, ch, TRUE, FALSE)[k]
<1> DEFINE T == Seq(S)
           D == {<<>>}
           ps == Pieces(s, ch)
           t == TrimEach(ps)
           w == Without(t, D)
           def == split(s, ch, TRUE, FALSE)
<1>1. def = w
  BY SplitIs
<1>2. ps \in Seq(T)
  BY PiecesHold
<1>3. \A x : x \notin D <=> x # <<>>
  OBVIOUS
<1> HIDE DEF def, D, ps
<1>4. t \in Seq(T) /\ Len(t) = Len(ps) /\ \A k \in 1..Len(ps) : t[k] = trim(ps[k])
  <2>1. <<>> \in Seq(S)
    OBVIOUS
  <2> QED
    BY <1>2, <2>1, TrimEachAppend
<1> HIDE DEF t
<1>5. \A x \in T : trim(trim(x)) = trim(x)
  BY Trims
<1> HIDE DEF T
<1>6. w \in Seq(T) /\ \A k \in 1..Len(w) : w[k] \notin D /\ \E i \in 1..Len(t) : t[i] = w[k]
  BY <1>4, WithoutHas
<1> HIDE DEF w
<1>7. ASSUME NEW k \in 1..Len(w)
      PROVE  w[k] # <<>> /\ trim(w[k]) = w[k]
  <2>1. PICK i \in 1..Len(t) : t[i] = w[k]
    BY <1>6
  <2>2. i \in 1..Len(ps) /\ ps[i] \in T
    BY <1>2, <1>4, ElementOfSeq
  <2>3. w[k] = trim(ps[i])
    BY <1>4, <2>1, <2>2
  <2> QED
    BY <1>3, <1>5, <1>6, <2>2, <2>3
<1>8. DOMAIN w = 1..Len(w)
  BY <1>6
<1> QED
  BY <1>1, <1>7, <1>8 DEF def

\* Nothing but separators and blanks is lost.
LEMMA FieldsKeep ==
    ASSUME NEW S, NEW s \in Seq(S), NEW ch \in S
    PROVE  remove_blanks(FlattenSeq(split(s, ch, TRUE, FALSE))) = Without(s, {ch, Blank})
<1> DEFINE T == Seq(S)
           D == {<<>>}
           B == {Blank}
           C == {ch}
           CB == {ch, Blank}
           ps == Pieces(s, ch)
           t == TrimEach(ps)
           def == split(s, ch, TRUE, FALSE)
<1>1. C \cup B = CB /\ \A x : (x \in CB <=> x = ch \/ x = Blank) /\ (x \in B <=> x = Blank)
  OBVIOUS
<1>2. CASE Has(s, <<ch>>)
  <2>1. def = Without(t, D)
    BY <1>2, SplitIs
  <2>2. ps \in Seq(T)
    BY PiecesHold
  <2>3. FlattenSeq(ps) = Without(s, C)
    BY PiecesFlat
  <2> HIDE DEF ps
  <2>4. t \in Seq(T)
    <3>1. <<>> \in Seq(S)
      OBVIOUS
    <3> QED
      BY <2>2, <3>1, TrimEachAppend
  <2>5. Without(FlattenSeq(t), B) = Without(FlattenSeq(ps), B)
    BY <2>2, TrimEachFlat
  <2> HIDE DEF t
  <2>6. FlattenSeq(Without(t, D)) = FlattenSeq(t)
    BY <2>4, FlattenWithout
  <2> HIDE DEF C, B, CB, def, D
  <2>7. Without(Without(s, C), B) = Without(s, C \cup B)
    BY WithoutTwice
  <2>8. Without(FlattenSeq(def), B) = Without(s, CB)
    BY <1>1, <2>1, <2>3, <2>5, <2>6, <2>7
  <2> QED
    BY <2>8 DEF def, B, CB, remove_blanks
<1>3. CASE ~Has(s, <<ch>>)
  <2>1. def = <<s>>
    BY <1>3, SplitIs
  <2>2. FlattenSeq(<<s>>) = s
    <3> DEFINE e == <<>>
    <3>1. e \in Seq(T) /\ <<s>> = Append(e, s) /\ FlattenSeq(e) = e /\ e \o s = s
      BY FlattenAppend
    <3> HIDE DEF e
    <3> QED
      BY <3>1, FlattenAppend
  <2>3. \A i \in 1..Len(s) : s[i] # ch
    BY <1>3, CharHas
  <2> HIDE DEF B, CB, def
  <2>4. Without(s, B) = Without(s, CB)
    BY <1>1, <2>3, WithoutSame
  <2> QED
    BY <2>1, <2>2, <2>4 DEF def, B, CB, remove_blanks
<1> QED
  BY <1>2, <1>3

\* remove_ext takes the last field and the dot before it.
LEMMA LastFieldGone ==
    ASSUME NEW S, NEW s \in Seq(S), Dot \in S, Has(s, <<Dot>>)
    PROVE  remove_ext(s) = Join(Front(split(s, Dot, FALSE, TRUE)), Dot)
<1> DEFINE ch == Dot
           ps == Pieces(s, ch)
           T == Seq(S)
           f == Front(ps)
           x == ps[Len(ps)]
           g == FlattenSeq(Led(f, ch))
           m == Len(g)
           n == Len(s)
           v == <<ch>> \o s
<1>1. split(s, Dot, FALSE, TRUE) = ps
  BY SplitIs
<1>2. ps \in Seq(T) /\ ps # <<>> /\ NoneHas(ps, ch)
  BY PiecesHold
<1>3. FlattenSeq(Led(ps, ch)) = v
  BY LedPieces
<1> HIDE DEF ps
<1>4. f \in Seq(T) /\ x \in T /\ ps = Append(f, x) /\ Len(ps) \in Nat \ {0}
  <2> HIDE DEF T
  <2> QED
    BY <1>2, LastApart
<1>5. \A j \in 1..Len(x) : x[j] # ch
  BY <1>2, <1>4 DEF NoneHas
<1> HIDE DEF f, x
<1>6. g \in Seq(S) /\ v = g \o (<<ch>> \o x)
  <2>1. ch \in S /\ s \in Seq(S) /\ f \in Seq(Seq(S)) /\ x \in Seq(S)
    BY <1>4
  <2> HIDE DEF ch
  <2>2. /\ FlattenSeq(Led(f, ch)) \in Seq(S)
        /\ FlattenSeq(Led(Append(f, x), ch)) = FlattenSeq(Led(f, ch)) \o (<<ch>> \o x)
    BY ONLY <2>1, LedMore
  <2> QED
    BY <1>3, <1>4, <2>2
<1>8. /\ n \in Nat /\ Len(v) = n + 1 /\ v[1] = ch /\ \A i \in 1..n : v[i + 1] = s[i]
      /\ m \in Nat /\ Len(x) \in Nat
  BY <1>4, <1>6
<1>9. /\ Len(v) = m + 1 + Len(x) /\ v[m + 1] = ch
      /\ \A i \in 1..m : v[i] = g[i]
      /\ \A j \in 1..Len(x) : v[m + 1 + j] = x[j]
  <2>1. x \in Seq(S)
    BY <1>4
  <2> HIDE DEF g, v
  <2> QED
    BY <1>6, <2>1
<1>10. m >= 1
  <2> SUFFICES ASSUME m = 0
               PROVE  FALSE
    BY <1>8
  <2>1. \A i \in 1..n : s[i] # ch
    <3> TAKE i \in 1..n
    <3>1. i \in 1..Len(x) /\ v[m + 1 + i] = v[i + 1]
      BY <1>8, <1>9
    <3> QED
      BY <1>5, <1>8, <1>9, <3>1
  <2> QED
    BY <2>1, CharHas
<1> HIDE DEF v, g
<1>11. m \in 1..n /\ s[m] = ch
  BY <1>8, <1>9, <1>10
<1>12. \A i \in 1..n : s[i] = ch => i <= m
  <2> SUFFICES ASSUME NEW i \in 1..n, i > m
               PROVE  s[i] # ch
    BY <1>8
  <2>1. i - m \in 1..Len(x) /\ m + 1 + (i - m) = i + 1
    BY <1>8, <1>9
  <2>2. v[i + 1] = x[i - m]
    BY <1>9, <2>1
  <2> QED
    BY <1>5, <1>8, <2>1, <2>2
<1> DEFINE O == Occurrences(s, <<Dot>>)
           a == SubSeq(s, 1, m - 1)
           b == Tail(g)
<1>13. O = {i \in 1..n : s[i] = Dot}
  BY CharOccurs
<1>14. O # {} /\ Max(O) = m
  <2>1. m \in O /\ O \in SUBSET Nat /\ \A y \in O : y <= m
    BY <1>11, <1>12, <1>13
  <2> HIDE DEF O
  <2> QED
    BY <2>1, MaxIs
<1>15. remove_ext(s) = a
  BY <1>14 DEF remove_ext
<1>16. Join(f, Dot) = b
  BY DEF Join, Led, g
<1>17. /\ a \in Seq(S) /\ Len(a) = m - 1 /\ \A k \in 1..(m - 1) : a[k] = s[k]
  <2> DEFINE l == m - 1
  <2>1. l \in 0..Len(s)
    BY <1>8, <1>11
  <2> HIDE DEF l
  <2>2. LET c == SubSeq(s, 1, l)
        IN  c \in Seq(S) /\ Len(c) = l /\ \A k \in 1..l : c[k] = s[k]
    BY <2>1, CutInTwo
  <2> QED
    BY <2>2 DEF l
<1>18. /\ b \in Seq(S) /\ Len(b) = m - 1 /\ \A k \in 1..(m - 1) : b[k] = g[k + 1]
  <2>1. g # <<>> /\ g \in Seq(S)
    BY <1>6, <1>10
  <2> QED
    BY <2>1
<1> HIDE DEF a, b
<1>19. ASSUME NEW k \in 1..(m - 1)
       PROVE  a[k] = b[k]
  <2>1. k \in 1..n /\ k + 1 \in 1..m
    BY <1>8, <1>11
  <2> QED
    BY <1>8, <1>9, <1>17, <1>18, <2>1
<1>20. a = b
  BY <1>17, <1>18, <1>19, SeqEqual
<1> QED
  BY <1>1, <1>15, <1>16, <1>20 DEF f

\* A pair is one element added to the other.
LEMMA PairIs ==
    ASSUME NEW S, NEW x \in S, NEW y \in S
    PROVE  Append(<<x>>, y) = <<x, y>>
<1> DEFINE a == Append(<<x>>, y)
           b == <<x, y>>
<1>1. b \in Seq(S) /\ Len(b) = 2 /\ b[1] = x /\ b[2] = y
  OBVIOUS
<1>2. <<x>> \in Seq(S) /\ Len(<<x>>) = 1 /\ <<x>>[1] = x
  OBVIOUS
<1>3. a \in Seq(S) /\ Len(a) = 2 /\ a[1] = x /\ a[2] = y
  BY <1>2, AppendProperties
<1> HIDE DEF a, b
<1>4. \A k \in 1..2 : a[k] = b[k]
  <2>1. \A k \in 1..2 : k = 1 \/ k = 2
    OBVIOUS
  <2> QED
    BY <1>1, <1>3, <2>1
<1>5. a = b
  BY <1>1, <1>3, <1>4, SeqEqual
<1> QED
  BY <1>5 DEF a, b

\* The same element twice, and once.
LEMMA TailOne ==
    ASSUME NEW x
    PROVE  Tail(<<x>> \o <<x>>) = <<x>>
<1> DEFINE a == <<x>> \o <<x>>
           b == Tail(a)
           S == {x}
<1>2. <<x>> \in Seq(S) /\ Len(<<x>>) = 1 /\ <<x>>[1] = x
  OBVIOUS
<1>3. a \in Seq(S) /\ Len(a) = 2 /\ a[1] = x /\ a[2] = x /\ a # <<>>
  BY <1>2
<1> HIDE DEF a, S
<1>4. b \in Seq(S) /\ Len(b) = 1 /\ b[1] = x
  BY <1>3
<1> HIDE DEF b
<1>5. b = <<x>>
  BY <1>4
<1> QED
  BY <1>5 DEF a, b

\* remove_delimiters takes the delimiters that were put around a string, and
\* nothing else; a lone delimiter is the string with two empty fields.
LEMMA DelimitersGone ==
    ASSUME NEW S, NEW s \in Seq(S), NEW ch \in S
    PROVE  /\ remove_delimiters(ch, <<ch>> \o s \o <<ch>>) = s
           /\ delimiters_throw(ch, s) <=> split(s, ch, FALSE, TRUE) = <<<<>>, <<>>>>
           /\ remove_delimiters(ch, s) # s /\ ~delimiters_throw(ch, s) =>
                s = <<ch>> \o remove_delimiters(ch, s) \o <<ch>>
<1> DEFINE raw == split(s, ch, FALSE, TRUE)
           t == <<ch>> \o s \o <<ch>>
           n == Len(s)
<1>0. n \in Nat
  OBVIOUS
<1>1. remove_delimiters(ch, t) = s
  <2>1. /\ t \in Seq(S) /\ Len(t) = n + 2 /\ t[1] = ch /\ t[n + 2] = ch /\ t # <<>>
        /\ \A k \in 1..n : t[k + 1] = s[k]
    BY <1>0
  <2> HIDE DEF t
  <2> DEFINE b == n + 1
             a == SubSeq(t, 2, b)
  <2>2. remove_delimiters(ch, t) = a
    <3>1. Len(t) - 1 = b
      BY <1>0, <2>1
    <3> QED
      BY <2>1, <3>1 DEF remove_delimiters
  <2>3. /\ 2 \in Nat \ {0} /\ b \in Nat /\ b <= Len(t) /\ b - 2 + 1 = n
        /\ (IF 2 <= b THEN b - 2 + 1 ELSE 0) = n
        /\ \A k \in 1..n : 2 + k - 1 = k + 1
    BY <1>0, <2>1
  <2> HIDE DEF b, n
  <2>4. a \in Seq(S) /\ Len(a) = n /\ \A k \in 1..n : a[k] = t[k + 1]
    <3>1. /\ a \in Seq(S) /\ Len(a) = (IF 2 <= b THEN b - 2 + 1 ELSE 0)
          /\ \A k \in 1..(b - 2 + 1) : a[k] = t[2 + k - 1]
      BY <2>1, <2>3, PartIs
    <3> QED
      BY <2>3, <3>1
  <2> HIDE DEF a
  <2>5. \A k \in 1..n : a[k] = s[k]
    BY <2>1, <2>4
  <2>6. a = s
    BY <2>4, <2>5, SeqEqual DEF n
  <2> QED
    BY <2>2, <2>6
<1>2. s = <<ch>> => raw = <<<<>>, <<>>>>
  <2> SUFFICES ASSUME s = <<ch>>
               PROVE  raw = <<<<>>, <<>>>>
    OBVIOUS
  <2> DEFINE e == <<>>
  <2>1. Has(s, <<ch>>)
    <3>1. 1 \in 1..Len(s) /\ s[1] = ch
      OBVIOUS
    <3> QED
      BY <3>1, CharHas
  <2>2. raw = Pieces(s, ch)
    BY <2>1, SplitIs
  <2>3. e \in Seq(S) /\ s = Append(e, ch) /\ Pieces(e, ch) = <<<<>>>>
    BY PiecesAppend
  <2> HIDE DEF e
  <2>4. Pieces(s, ch) = PieceChar(<<<<>>>>, ch, ch)
    BY <2>3, PiecesAppend
  <2>5. PieceChar(<<<<>>>>, ch, ch) = <<<<>>, <<>>>>
    <3>1. PieceChar(<<<<>>>>, ch, ch) = Append(<<<<>>>>, <<>>)
      BY DEF PieceChar
    <3>2. Append(<<e>>, e) = <<e, e>>
      BY <2>3, PairIs
    <3> QED
      BY <3>1, <3>2 DEF e
  <2> QED
    BY <2>2, <2>4, <2>5
<1>3. raw = <<<<>>, <<>>>> => s = <<ch>>
  <2> SUFFICES ASSUME raw = <<<<>>, <<>>>>
               PROVE  s = <<ch>>
    OBVIOUS
  <2> DEFINE e == <<>>
             p == <<e>>
             y == <<ch>> \o e
  <2>1. s = Tail(FlattenSeq(Led(raw, ch)))
    BY RawJoins DEF Join, Led
  <2>2. p \in Seq(Seq(S)) /\ e \in Seq(S) /\ raw = Append(p, e) /\ y = <<ch>>
    <3>1. p \in Seq(Seq(S)) /\ e \in Seq(S) /\ y = <<ch>>
      OBVIOUS
    <3>2. raw = <<e, e>>
      OBVIOUS
    <3> HIDE DEF e, raw
    <3>3. Append(<<e>>, e) = <<e, e>>
      BY <3>1, PairIs
    <3> QED
      BY <3>1, <3>2, <3>3
  <2> HIDE DEF e, raw
  <2>3. FlattenSeq(Led(p, ch)) = y
    BY <2>2, LedOne
  <2> HIDE DEF p, y
  <2>4. FlattenSeq(Led(raw, ch)) = y \o y
    <3>1. FlattenSeq(Led(Append(p, e), ch)) = FlattenSeq(Led(p, ch)) \o (<<ch>> \o e)
      BY <2>2, LedMore
    <3> QED
      BY <2>2, <2>3, <3>1 DEF y
  <2>5. Tail(<<ch>> \o <<ch>>) = <<ch>>
    BY TailOne
  <2> QED
    BY <2>1, <2>2, <2>4, <2>5
<1>4. ASSUME remove_delimiters(ch, s) # s, ~delimiters_throw(ch, s)
      PROVE  s = <<ch>> \o remove_delimiters(ch, s) \o <<ch>>
  <2>1. s # <<>> /\ s[1] = ch /\ s[n] = ch /\ remove_delimiters(ch, s) = SubSeq(s, 2, n - 1)
    BY <1>4 DEF remove_delimiters
  <2>2. s # <<ch>>
    BY <1>4 DEF delimiters_throw
  <2>3. n >= 2
    <3>1. n # 0
      BY <2>1, EmptySeq
    <3>2. n # 1
      BY <2>1, <2>2
    <3> HIDE DEF n
    <3> QED
      BY <1>0, <3>1, <3>2
  <2> DEFINE b == n - 1
             a == SubSeq(s, 2, b)
             r == <<ch>> \o a \o <<ch>>
  <2>4. /\ 2 \in Nat \ {0} /\ b \in Nat /\ b <= Len(s) /\ b - 2 + 1 = n - 2 /\ n - 2 \in Nat
        /\ (IF 2 <= b THEN b - 2 + 1 ELSE 0) = n - 2
        /\ \A k \in 1..(n - 2) : 2 + k - 1 = k + 1
    <3>1. n = Len(s)
      OBVIOUS
    <3> HIDE DEF n
    <3>2. b \in Nat /\ b <= Len(s) /\ b - 2 + 1 = n - 2 /\ n - 2 \in Nat
      BY <1>0, <2>3, <3>1
    <3>3. (IF 2 <= b THEN b - 2 + 1 ELSE 0) = n - 2
      BY <1>0, <2>3
    <3> QED
      BY <3>2, <3>3
  <2> HIDE DEF b, n
  <2>5. a \in Seq(S) /\ Len(a) = n - 2 /\ \A k \in 1..(n - 2) : a[k] = s[k + 1]
    <3>1. /\ a \in Seq(S) /\ Len(a) = (IF 2 <= b THEN b - 2 + 1 ELSE 0)
          /\ \A k \in 1..(b - 2 + 1) : a[k] = s[2 + k - 1]
      BY <2>4, PartIs
    <3> QED
      BY <2>4, <3>1
  <2> HIDE DEF a
  <2>6. /\ r \in Seq(S) /\ Len(r) = n /\ r[1] = ch /\ r[n] = ch
        /\ \A k \in 1..(n - 2) : r[k + 1] = a[k]
    BY <1>0, <2>3, <2>5
  <2> HIDE DEF r
  <2>7. ASSUME NEW k \in 1..n
        PROVE  r[k] = s[k]
    <3>1. k = 1 \/ k = n \/ (k - 1 \in 1..(n - 2) /\ (k - 1) + 1 = k)
      BY <1>0
    <3>2. CASE k - 1 \in 1..(n - 2) /\ (k - 1) + 1 = k
      BY <2>5, <2>6, <3>2
    <3> QED
      BY <2>1, <2>6, <3>1, <3>2
  <2>8. r = s
    BY <2>6, <2>7, SeqEqual DEF n
  <2> QED
    BY <2>1, <2>8 DEF r, a, b
<1> QED
  BY <1>1, <1>2, <1>3, <1>4 DEF delimiters_throw

\* split, remove_ext and remove_delimiters keep their promises for any text.
LEMMA SplitsExactly == text \in Seq(TextChars) => SplitExact
<1> SUFFICES ASSUME text \in Seq(TextChars)
             PROVE  SplitExact
  OBVIOUS
<1> DEFINE S == TextChars
<1>1. "," \in S /\ Dot \in S
  BY DEF TextChars
<1> HIDE DEF S
<1>2. ASSUME NEW ch \in {",", Dot}
      PROVE  LET raw == split(text, ch, FALSE, TRUE)
                 def == split(text, ch, TRUE, FALSE)
             IN  /\ Join(raw, ch) = text
                 /\ \A k \in DOMAIN raw : ~Has(raw[k], <<ch>>)
                 /\ Has(text, <<ch>>) =>
                      /\ \A k \in DOMAIN def : def[k] # <<>> /\ trim(def[k]) = def[k]
                      /\ ch = Dot => remove_ext(text) = Join(Front(raw), ch)
                 /\ remove_blanks(FlattenSeq(def)) = Without(text, {ch, Blank})
                 /\ remove_delimiters(ch, <<ch>> \o text \o <<ch>>) = text
                 /\ delimiters_throw(ch, text) <=> raw = <<<<>>, <<>>>>
                 /\ LET inner == remove_delimiters(ch, text) IN
                    inner # text /\ ~delimiters_throw(ch, text) =>
                      text = <<ch>> \o inner \o <<ch>>
  <2>1. ch \in S /\ text \in Seq(S)
    BY <1>1 DEF S
  <2> DEFINE raw == split(text, ch, FALSE, TRUE)
             def == split(text, ch, TRUE, FALSE)
             inner == remove_delimiters(ch, text)
  <2>2. Join(raw, ch) = text /\ \A k \in DOMAIN raw : ~Has(raw[k], <<ch>>)
    BY <2>1, RawJoins
  <2>3. Has(text, <<ch>>) => \A k \in DOMAIN def : def[k] # <<>> /\ trim(def[k]) = def[k]
    BY <2>1, FieldsTrimmed
  <2>4. Has(text, <<ch>>) /\ ch = Dot => remove_ext(text) = Join(Front(raw), ch)
    BY <2>1, LastFieldGone
  <2>5. remove_blanks(FlattenSeq(def)) = Without(text, {ch, Blank})
    BY <2>1, FieldsKeep
  <2>6. /\ remove_delimiters(ch, <<ch>> \o text \o <<ch>>) = text
        /\ delimiters_throw(ch, text) <=> raw = <<<<>>, <<>>>>
        /\ inner # text /\ ~delimiters_throw(ch, text) => text = <<ch>> \o inner \o <<ch>>
    BY <2>1, DelimitersGone
  <2> HIDE DEF raw, def, inner
  <2> QED
    BY <2>2, <2>3, <2>4, <2>5, <2>6 DEF raw, def, inner
<1> QED
  BY <1>2, Zenon DEF SplitExact

-----------------------------------------------------------------------------
(***************************************************************************)
(* Replacing.                                                              *)
(***************************************************************************)

\* The loop of replace_substr works on strings, and stops when there is
\* nothing left to replace.
TextInd ==
    /\ text \in Seq(TextChars)
    /\ subst \in Seq(TextChars) \X Seq(TextChars)
    /\ ReplaceExact

\* It holds at the beginning.
LEMMA TextIndInit == TextInit => TextInd
  BY TextAssumption DEF TextInit, TextInd, ReplaceExact

\* It is kept by every step of the loop.
LEMMA TextIndNext == TextInd /\ [TextNext]_textVars => TextInd'
<1> SUFFICES ASSUME TextInd, [TextNext]_textVars
             PROVE  TextInd'
  OBVIOUS
<1>1. text \in Seq(TextChars) /\ subst \in Seq(TextChars) \X Seq(TextChars)
  BY DEF TextInd
<1>2. CASE replace_substr
  <2> DEFINE o == subst[1]
             r == subst[2]
             O == Occurrences(text, o)
             i == Min(O)
             n == Len(text)
             l == Len(o)
             k == i + l
             h == i - 1
             a == SubSeq(text, 1, h)
             b == SubSeq(text, k, n)
  <2>1. /\ looping /\ Has(text, o) /\ text' = Spliced(text, i, l, r)
        /\ subst' = subst /\ looping' = looping
    BY <1>2 DEF replace_substr
  <2>2. o \in Seq(TextChars) /\ r \in Seq(TextChars) /\ n \in Nat /\ l \in Nat
    BY <1>1
  <2>3. O \in SUBSET (1..(n - l + 1)) /\ O # {}
    BY <2>1 DEF Occurrences, Has
  <2> HIDE DEF O, o, r, n, l
  <2>4. i \in O
    <3>1. O \in SUBSET Nat
      BY <2>2, <2>3
    <3> QED
      BY <2>3, <3>1, MinIsIn
  <2> HIDE DEF i
  <2>5. /\ i \in Nat \ {0} /\ h \in Nat /\ h <= n /\ k \in Nat \ {0} /\ n <= n
        /\ 1 \in Nat \ {0}
    BY <2>2, <2>3, <2>4
  <2> HIDE DEF h, k
  <2>6. a \in Seq(TextChars) /\ b \in Seq(TextChars)
    BY <1>1, <2>2, <2>5, PartIs DEF n
  <2>7. text' = a \o r \o b
    BY <2>1 DEF Spliced, a, b, h, k, n
  <2>8. text' \in Seq(TextChars)
    <3> HIDE DEF a, b
    <3>1. a \o r \in Seq(TextChars)
      BY <2>2, <2>6, ConcatProperties
    <3> QED
      BY <2>6, <2>7, <3>1, ConcatProperties
  <2> QED
    BY <1>1, <2>1, <2>8 DEF TextInd, ReplaceExact
<1>3. CASE replace_ends
  BY <1>1, <1>3 DEF replace_ends, TextInd, ReplaceExact
<1>4. CASE UNCHANGED textVars
  BY <1>4 DEF TextInd, ReplaceExact, textVars
<1> QED
  BY <1>2, <1>3, <1>4 DEF TextNext

\* Whatever the text and the pattern, at any step: the loop of replace_substr
\* ends only when the pattern is gone; remove leaves no occurrence and does
\* not depend on the direction of its search; split loses nothing but
\* separators and blanks, and what it gives can be put together again;
\* remove_ext takes exactly the last field, and remove_delimiters exactly one
\* pair (s.hpp).
THEOREM TextCorrect == TextSpec => []TextExact
<1>1. TextInit => TextInd
  BY TextIndInit
<1>2. TextInd /\ [TextNext]_textVars => TextInd'
  BY TextIndNext
<1>3. TextInd => TextExact
  BY RemovesExactly, SplitsExactly DEF TextInd, TextExact
<1> QED
  BY <1>1, <1>2, <1>3, PTL DEF TextSpec

-----------------------------------------------------------------------------
(***************************************************************************)
(* Names as text.                                                          *)
(***************************************************************************)

\* name() has the three parts in order and loses nothing of them: for words
\* of any characters and any length.
THEOREM FullNamesExact ==
    ASSUME NEW S, NEW n \in [first : Seq(S), middle : Seq(S), last : Seq(S)]
    PROVE  FullNameExact(n)
<1> DEFINE f == n.first
           m == n.middle
           l == n.last
           A == S \cup {Blank}
           b == <<Blank>>
           D == {Blank}
<1> SUFFICES ASSUME Words(n)
             PROVE  remove_blanks(full_name(n)) = f \o m \o l
  BY DEF FullNameExact
<1>1. f \in Seq(A) /\ m \in Seq(A) /\ l \in Seq(A)
  BY SeqMonotonic
<1>2. b \in Seq(A)
  BY UnitIs
<1>3. ~Has(f, b) /\ ~Has(m, b) /\ ~Has(l, b)
  BY DEF Words
<1>4. full_name(n) = f \o b \o IF m = <<>> THEN l ELSE m \o l
  BY DEF full_name
<1> HIDE DEF f, m, l, A
<1>5. ASSUME NEW w \in Seq(A), ~Has(w, b)
      PROVE  Without(w, D) = w
  <2>1. \A i \in 1..Len(w) : w[i] \notin D
    BY <1>5, CharHas
  <2> QED
    BY <2>1, WithoutNone
<1>6. Without(b, D) = <<>>
  <2>1. \A i \in 1..Len(b) : b[i] \in D
    BY UnitIs
  <2> QED
    BY <1>2, <2>1, WithoutBlanks
<1> HIDE DEF b, D
<1>15. ASSUME NEW x \in Seq(A), NEW y \in Seq(A)
       PROVE  Without(x \o y, D) = Without(x, D) \o Without(y, D)
  <2>1. \A t \in Seq(A) : Without(x \o t, D) = Without(x, D) \o Without(t, D)
    BY WithoutConcat
  <2> QED
    BY <2>1
<1>7. Without(f, D) = f /\ Without(m, D) = m /\ Without(l, D) = l
  BY <1>1, <1>3, <1>5
<1> DEFINE r == IF m = <<>> THEN l ELSE m \o l
<1>8. r \in Seq(A) /\ Without(r, D) = m \o l
  <2>1. CASE m = <<>>
    <3>1. m \o l = l
      BY <1>1, <2>1, ConcatEmptySeq
    <3> QED
      BY <1>1, <1>7, <2>1, <3>1
  <2>2. CASE m # <<>>
    <3>1. m \o l \in Seq(A) /\ Without(m \o l, D) = Without(m, D) \o Without(l, D)
      BY <1>1, WithoutConcat, ConcatProperties
    <3> QED
      BY <1>7, <2>2, <3>1
  <2> QED
    BY <2>1, <2>2
<1> HIDE DEF r
<1>9. f \o b \in Seq(A) /\ Without(f \o b, D) = f
  <2>1. f \o b \in Seq(A)
    BY <1>1, <1>2, ConcatProperties
  <2>3. Without(f \o b, D) = Without(f, D) \o Without(b, D)
    BY <1>1, <1>2, <1>15
  <2>2. f \o <<>> = f
    BY <1>1, ConcatEmptySeq
  <2> QED
    BY <1>6, <1>7, <2>1, <2>2, <2>3
<1> DEFINE g == f \o b
<1>14. g \in Seq(A) /\ Without(g, D) = f
  BY <1>9
<1>13. full_name(n) = g \o r
  BY <1>4 DEF r
<1> HIDE DEF g
<1>10. Without(g \o r, D) = Without(g, D) \o Without(r, D)
  BY <1>8, <1>14, <1>15
<1>11. Without(g \o r, D) = f \o (m \o l)
  BY <1>8, <1>14, <1>10
<1>12. f \o (m \o l) = f \o m \o l
  BY <1>1, ConcatAssociative, SMTT(40)
<1> QED
  BY <1>11, <1>12, <1>13 DEF remove_blanks, D

\* z is x and y put together: length and characters.
Joint(z, x, y, S) ==
    /\ z \in Seq(S) /\ Len(x) \in Nat /\ Len(y) \in Nat
    /\ Len(z) = Len(x) + Len(y)
    /\ \A i \in 1..Len(x) : z[i] = x[i]
    /\ \A j \in 1..Len(y) : z[Len(x) + j] = y[j]

\* What \o puts together.
LEMMA ConcatIs ==
    ASSUME NEW S, NEW x \in Seq(S), NEW y \in Seq(S)
    PROVE  Joint(x \o y, x, y, S)
  BY DEF Joint

\* A text that does not begin with a blank is not trimmed on the left.
LEMMA LeftStays ==
    ASSUME NEW S, NEW s \in Seq(S), s # <<>>, s[1] # Blank
    PROVE  ltrim(s) = s
<1> DEFINE n == Len(s)
           i == Min(Inked(s))
<1>1. n \in Nat /\ n >= 1
  BY EmptySeq
<1>2. Inked(s) \in SUBSET Nat /\ 1 \in Inked(s) /\ \A k \in Inked(s) : k >= 1
  BY <1>1 DEF Inked
<1>3. i = 1
  <2>1. Inked(s) # {}
    BY <1>2
  <2>2. i \in Inked(s) /\ i <= 1
    BY <1>2, <2>1, MinIsIn
  <2> HIDE DEF i
  <2> QED
    BY <1>2, <2>2
<1>4. ltrim(s) = SubSeq(s, 1, n)
  BY <1>2, <1>3 DEF ltrim
<1>5. SubSeq(s, 0 + 1, 0 + n) = s
  <2>1. LiesAt(s, 0, s)
    BY LiesWhole
  <2> DEFINE z == 0
  <2>2. z \in Nat /\ LiesAt(s, z, s)
    BY <2>1
  <2> HIDE DEF n, z
  <2>3. SubSeq(s, z + 1, z + n) = s
    BY <2>2, PartThere DEF n
  <2> QED
    BY <2>3 DEF z
<1> QED
  BY <1>1, <1>4, <1>5

\* A blank at the beginning is trimmed.
LEMMA LeftBlankGoes ==
    ASSUME NEW S, NEW t \in Seq(S), Blank \in S
    PROVE  ltrim(<<Blank>> \o t) = ltrim(t)
<1> DEFINE b == <<Blank>>
           s == b \o t
           n == Len(t)
           k == Min(Inked(t))
<1>1. b \in Seq(S) /\ Len(b) = 1 /\ b[1] = Blank
  BY UnitIs
<1> HIDE DEF b
<1>10. Joint(s, b, t, S)
  BY <1>1, ConcatIs
<1> HIDE DEF s
<1>9. /\ s \in Seq(S) /\ n \in Nat /\ Len(s) = Len(b) + n
      /\ \A i \in 1..Len(b) : s[i] = b[i]
      /\ \A j \in 1..n : s[Len(b) + j] = t[j]
  BY <1>10 DEF Joint
<1>2. s \in Seq(S) /\ Len(s) = n + 1 /\ n \in Nat
  BY <1>1, <1>9
<1>3. s[1] = Blank /\ \A i \in 1..n : s[i + 1] = t[i]
  BY <1>1, <1>9
<1>4. \A i \in Nat : i + 1 \in Inked(s) <=> i \in Inked(t)
  BY <1>2, <1>3 DEF Inked
<1>5. \A j \in Inked(s) : j - 1 \in Inked(t)
  BY <1>2, <1>3, <1>4 DEF Inked
<1>6. Inked(t) \in SUBSET (1..n) /\ Inked(s) \in SUBSET Nat /\ Inked(t) \in SUBSET Nat
  BY <1>2 DEF Inked
<1>7. CASE Inked(t) = {}
  <2>1. Inked(s) = {}
    BY <1>5, <1>7
  <2> QED
    BY <1>7, <2>1 DEF ltrim, s, b
<1>8. CASE Inked(t) # {}
  <2>1. k \in Inked(t) /\ \A y \in Inked(t) : k <= y
    BY <1>6, <1>8, MinIsIn
  <2> DEFINE j == Min(Inked(s))
  <2>2. Inked(s) # {}
    BY <1>4, <1>6, <2>1
  <2>3. j \in Inked(s) /\ \A y \in Inked(s) : j <= y
    BY <1>6, <2>2, MinIsIn
  <2>4. ltrim(s) = SubSeq(s, j, n + 1) /\ ltrim(t) = SubSeq(t, k, n)
    BY <1>2, <1>8, <2>2 DEF ltrim
  <2> HIDE DEF j, k
  <2>5. j = k + 1 /\ k \in 1..n
    <3>1. k \in 1..n /\ j \in Nat /\ j - 1 \in Inked(t) /\ k + 1 \in Inked(s)
      BY <1>4, <1>5, <1>6, <2>1, <2>3
    <3>2. k <= j - 1 /\ j <= k + 1
      BY <2>1, <2>3, <3>1
    <3> QED
      BY <3>1, <3>2
  <2> DEFINE x == SubSeq(t, k, n)
             m == n - k + 1
             y == SubSeq(s, k + 1, n + 1)
             k1 == k + 1
             n1 == n + 1
  <2>6. x \in Seq(S) /\ Len(x) = m /\ \A i \in 1..m : x[i] = t[k + i - 1]
    BY <1>2, <2>5, PartIs
  <2>7. /\ y \in Seq(S) /\ Len(y) = IF k1 <= n1 THEN n1 - k1 + 1 ELSE 0
        /\ \A i \in 1..(n1 - k1 + 1) : y[i] = s[k1 + i - 1]
    <3>1. k1 \in Nat \ {0} /\ n1 \in Nat /\ n1 <= Len(s)
      BY <1>2, <2>5
    <3>2. y = SubSeq(s, k1, n1)
      OBVIOUS
    <3> HIDE DEF k1, n1, y
    <3> DEFINE u == SubSeq(s, k1, n1)
    <3>3. /\ u \in Seq(S) /\ Len(u) = IF k1 <= n1 THEN n1 - k1 + 1 ELSE 0
          /\ \A i \in 1..(n1 - k1 + 1) : u[i] = s[k1 + i - 1]
      BY <1>2, <3>1, PartIs
    <3> QED
      BY <3>2, <3>3
  <2> HIDE DEF x, y
  <2>8. Len(y) = m /\ n1 - k1 + 1 = m
    BY <1>2, <2>5, <2>7
  <2>9. \A i \in 1..m : y[i] = x[i]
    <3> TAKE i \in 1..m
    <3>1. /\ k1 + i - 1 = (k + i - 1) + 1 /\ k + i - 1 \in 1..n
      BY <1>2, <2>5
    <3>2. s[k1 + i - 1] = t[k + i - 1]
      BY <1>3, <3>1
    <3> QED
      BY <2>6, <2>7, <2>8, <3>2
  <2>10. y = x
    <3> HIDE DEF m
    <3>1. Len(y) = Len(x) /\ \A i \in 1..Len(y) : y[i] = x[i]
      BY <2>6, <2>8, <2>9
    <3> QED
      BY <2>6, <2>7, <3>1, SeqEqual
  <2> QED
    BY <2>4, <2>5, <2>10 DEF x, y, s, b
<1> QED
  BY <1>7, <1>8

\* A word by itself is read whole.
LEMMA WordAlone ==
    ASSUME NEW S, NEW w \in Seq(S), ~Has(w, <<Blank>>)
    PROVE  Word(w) = w /\ AfterWord(w) = <<>>
<1> DEFINE n == Len(w)
           m == n + 1
<1>0. n \in Nat
  OBVIOUS
<1>1. Occurrences(w, <<Blank>>) = {}
  BY DEF Has
<1>2. ltrim(w) = w
  <2>1. CASE w = <<>>
    <3>1. Inked(w) = {}
      BY <2>1 DEF Inked
    <3> QED
      BY <2>1, <3>1 DEF ltrim
  <2>2. CASE w # <<>>
    <3>1. 1 \in 1..n
      BY <1>0, <2>2, EmptySeq
    <3>2. w[1] # Blank
      BY <3>1, CharHas
    <3> QED
      BY <2>2, <3>2, LeftStays
  <2> QED
    BY <2>1, <2>2
<1>3. Word(w) = w
  BY <1>1, <1>2 DEF Word
<1>4. AfterWord(w) = SubSeq(w, m, n)
  BY <1>2, <1>3 DEF AfterWord
<1>5. SubSeq(w, m, n) = <<>>
  <2>1. m \in Nat \ {0} /\ n <= Len(w) /\ ~(m <= n)
    BY <1>0
  <2> HIDE DEF m
  <2>2. SubSeq(w, m, n) \in Seq(S) /\ Len(SubSeq(w, m, n)) = 0
    BY <1>0, <2>1, PartIs
  <2> QED
    BY <2>2, EmptySeq
<1> QED
  BY <1>3, <1>4, <1>5

\* A word with a blank behind it is read up to the blank.
LEMMA WordThen ==
    ASSUME NEW S, NEW w \in Seq(S), NEW r \in Seq(S), Blank \in S,
           ~Has(w, <<Blank>>), w # <<>>
    PROVE  Word(w \o (<<Blank>> \o r)) = w /\ AfterWord(w \o (<<Blank>> \o r)) = <<Blank>> \o r
<1> DEFINE b == <<Blank>>
           x == b \o r
           s == w \o x
           n == Len(w)
           i == Min(Occurrences(s, <<Blank>>))
<1>1. b \in Seq(S) /\ Len(b) = 1 /\ b[1] = Blank
  BY UnitIs
<1> HIDE DEF b
<1>20. Joint(x, b, r, S)
  BY <1>1, ConcatIs
<1> HIDE DEF x
<1>2. x \in Seq(S) /\ Len(x) = 1 + Len(r) /\ Len(r) \in Nat /\ x[1] = Blank
  BY <1>1, <1>20 DEF Joint
<1>3. n \in Nat /\ n >= 1
  BY EmptySeq
<1>21. Joint(s, w, x, S)
  BY <1>2, ConcatIs
<1> HIDE DEF s
<1>4. /\ s \in Seq(S) /\ Len(s) = n + Len(x) /\ Len(x) \in Nat
      /\ \A j \in 1..n : s[j] = w[j]
      /\ \A j \in 1..Len(x) : s[n + j] = x[j]
  BY <1>21 DEF Joint
<1>5. s[n + 1] = Blank /\ \A j \in 1..n : s[j] = w[j]
  BY <1>2, <1>3, <1>4
<1>6. \A j \in 1..n : w[j] # Blank
  BY CharHas
<1>7. LiesAt(s, 0, w) /\ LiesAt(s, n, x)
  <2> DEFINE z == 0
  <2>4. LiesAt(s, 0, s)
    BY <1>4, LiesWhole
  <2>1. LiesAt(s, z, s) /\ z \in Nat /\ z + n = n
    BY <1>3, <2>4
  <2> HIDE DEF z
  <2>2. LiesAt(s, z, w \o x)
    BY <2>1 DEF s
  <2>3. LiesAt(s, z, w) /\ LiesAt(s, z + n, x)
    BY <1>2, <1>4, <2>1, <2>2, LiesParts
  <2> QED
    BY <2>1, <2>3 DEF z
<1> HIDE DEF s
<1>8. n + 1 \in 1..Len(s)
  BY <1>2, <1>3, <1>4
<1>9. Has(s, <<Blank>>)
  BY <1>4, <1>5, <1>8, CharHas
<1>10. /\ i \in 1..Len(s) /\ s[i] = Blank
       /\ \A j \in 1..(i - 1) : s[j] # Blank
  BY <1>4, <1>9, FirstChar
<1> HIDE DEF i
<1>11. i = n + 1
  <2>1. ~(i \in 1..n)
    BY <1>5, <1>6, <1>10
  <2>2. ~(n + 1 \in 1..(i - 1))
    BY <1>5, <1>10
  <2> QED
    BY <1>3, <1>10, <2>1, <2>2
<1>12. ltrim(s) = s
  <2>1. s # <<>> /\ s[1] # Blank
    BY <1>3, <1>4, <1>5, <1>6
  <2> QED
    BY <1>4, <2>1, LeftStays
<1>13. Word(s) = SubSeq(s, 1, n)
  <2>1. Occurrences(s, <<Blank>>) # {}
    BY <1>9 DEF Has
  <2>2. i - 1 = n
    BY <1>3, <1>11
  <2>3. Word(s) = SubSeq(s, 1, i - 1)
    BY <1>12, <2>1 DEF Word, i
  <2> QED
    BY <2>2, <2>3
<1>14. SubSeq(s, 1, n) = w /\ SubSeq(s, n + 1, Len(s)) = x
  <2> DEFINE z == 0
             l == Len(x)
  <2>1. z \in Nat /\ LiesAt(s, z, w) /\ z + 1 = 1 /\ z + n = n /\ n + l = Len(s)
    BY <1>3, <1>4, <1>7
  <2> HIDE DEF z, n, l
  <2>4. Len(w) = n
    BY DEF n
  <2>2. SubSeq(s, z + 1, z + n) = w
    BY <1>4, <2>1, <2>4, PartThere
  <2>3. SubSeq(s, n + 1, n + l) = x
    BY <1>2, <1>3, <1>4, <1>7, PartThere DEF l
  <2> QED
    BY <2>1, <2>2, <2>3
<1>15. AfterWord(s) = SubSeq(s, n + 1, Len(s))
  BY <1>12, <1>13, <1>14 DEF AfterWord
<1> QED
  BY <1>13, <1>14, <1>15 DEF s, x, b
\* A blank that comes next is ignored, and nothing else is.
LEMMA BlankIgnored ==
    ASSUME NEW S, Blank \in S, NEW r \in Seq(S)
    PROVE  /\ IgnoreBlank(<<Blank>> \o r) = r
           /\ IgnoreBlank(<<>>) = <<>>
           /\ r # <<>> /\ r[1] # Blank => IgnoreBlank(r) = r
<1> DEFINE b == <<Blank>>
           x == b \o r
<1>1. b \in Seq(S) /\ Len(b) = 1 /\ b[1] = Blank
  BY UnitIs
<1> HIDE DEF b
<1>2. Joint(x, b, r, S)
  BY <1>1, ConcatIs
<1> HIDE DEF x
<1>3. /\ x \in Seq(S) /\ Len(x) = 1 + Len(r) /\ Len(r) \in Nat /\ x[1] = Blank
      /\ \A j \in 1..Len(r) : x[1 + j] = r[j]
  BY <1>1, <1>2 DEF Joint
<1>4. x # <<>> /\ Head(x) = Blank
  BY <1>3
<1>5. Tail(x) = r
  <2>1. Tail(x) \in Seq(S) /\ Len(Tail(x)) = Len(r) /\ \A j \in 1..Len(r) : Tail(x)[j] = x[j + 1]
    BY <1>3
  <2>2. \A j \in 1..Len(Tail(x)) : Tail(x)[j] = r[j]
    BY <1>3, <2>1
  <2> QED
    BY <2>1, <2>2, SeqEqual
<1>6. IgnoreBlank(x) = r
  BY <1>4, <1>5 DEF IgnoreBlank
<1>7. ASSUME r # <<>>, r[1] # Blank
      PROVE  IgnoreBlank(r) = r
  <2>1. Head(r) = r[1]
    BY <1>7
  <2> QED
    BY <1>7, <2>1 DEF IgnoreBlank
<1>8. IgnoreBlank(<<>>) = <<>>
  BY DEF IgnoreBlank
<1> QED
  BY <1>6, <1>7, <1>8 DEF x, b

\* What read makes of a text, by what follows its first word.
LEMMA NameRead ==
    ASSUME NEW s, NEW s1, s1 = IgnoreBlank(AfterWord(s)), s1 = <<>> \/ Head(s1) # Blank
    PROVE  read_name(s) = [first |-> Word(s), middle |-> Word(s1),
                           last |-> Word(IgnoreBlank(AfterWord(s1)))]
  BY DEF read_name

\* A name of words of any length reads back as itself exactly if it has a
\* first name and no last name without a middle name, or nothing at all.
THEOREM NamesReadBack ==
    ASSUME NEW S, NEW n \in [first : Seq(S), middle : Seq(S), last : Seq(S)]
    PROVE  NameRoundTrip(n)
<1> DEFINE f == n.first
           m == n.middle
           l == n.last
           A == S \cup {Blank}
           b == <<Blank>>
           s == write_name(n)
           e == <<>>
           whole == n = [first |-> e, middle |-> e, last |-> e] \/ (f # e /\ (m # e \/ l = e))
<1> SUFFICES ASSUME Words(n)
             PROVE  (read_name(s) = n) = whole
  BY DEF NameRoundTrip
<1>1. f \in Seq(A) /\ m \in Seq(A) /\ l \in Seq(A) /\ Blank \in A /\ e \in Seq(A)
  BY SeqMonotonic, EmptySeq
<1>2. b \in Seq(A) /\ Len(b) = 1 /\ b[1] = Blank
  BY UnitIs
<1>3. ~Has(f, b) /\ ~Has(m, b) /\ ~Has(l, b)
  BY DEF Words
<1>4. s = f \o b \o (IF m = e THEN e ELSE m \o b) \o l
  BY DEF write_name
<1>5. \A x, y, z : [first |-> x, middle |-> y, last |-> z] = n <=> x = f /\ y = m /\ z = l
  OBVIOUS
<1>6. whole <=> (f = e /\ m = e /\ l = e) \/ (f # e /\ (m # e \/ l = e))
  BY <1>5
<1> HIDE DEF A, s
<1>7. \A x \in Seq(A), y \in Seq(A), z \in Seq(A) : (x \o y) \o z = x \o (y \o z)
  BY ConcatAssociative, SMTT(40)
<1>8. \A x \in Seq(A) : x \o e = x /\ e \o x = x
  BY ConcatEmptySeq
<1>9. \A x \in Seq(A), y \in Seq(A) : x \o y \in Seq(A)
  BY ConcatProperties
<1>10. ASSUME NEW w \in Seq(A), ~Has(w, b)
       PROVE  Word(w) = w /\ AfterWord(w) = e
  BY <1>10, WordAlone
<1>11. ASSUME NEW w \in Seq(A), NEW r \in Seq(A), ~Has(w, b), w # e
       PROVE  Word(w \o (b \o r)) = w /\ AfterWord(w \o (b \o r)) = b \o r
  BY <1>1, <1>11, WordThen
<1>12. ASSUME NEW r \in Seq(A)
       PROVE  Word(b \o r) = Word(r) /\ AfterWord(b \o r) = AfterWord(r)
  <2>1. ltrim(b \o r) = ltrim(r)
    BY <1>1, LeftBlankGoes
  <2> QED
    BY <2>1 DEF Word, AfterWord
<1>13. ASSUME NEW r \in Seq(A)
       PROVE  IgnoreBlank(b \o r) = r
  BY <1>1, BlankIgnored
<1>14. IgnoreBlank(e) = e
  BY DEF IgnoreBlank
<1>15. ASSUME NEW w \in Seq(A), NEW r \in Seq(A), ~Has(w, b), w # e
       PROVE  Head(w \o r) # Blank /\ Head(w) # Blank
  <2>1. 1 \in 1..Len(w)
    BY <1>15, EmptySeq
  <2>2. w[1] # Blank
    BY <1>15, <2>1, CharHas
  <2>3. Joint(w \o r, w, r, A)
    BY ConcatIs
  <2>4. (w \o r)[1] = w[1]
    BY <2>1, <2>3 DEF Joint
  <2>6. w \o r \in Seq(A)
    BY <1>9
  <2>7. \A u \in Seq(A) : Head(u) = u[1]
    OBVIOUS
  <2>5. Head(w \o r) = (w \o r)[1] /\ Head(w) = w[1]
    BY <2>6, <2>7
  <2> QED
    BY <2>2, <2>4, <2>5
<1>16. ~Has(e, b)
  <2>1. ~\E i \in 1..Len(e) : e[i] = Blank
    OBVIOUS
  <2>2. Has(e, b) <=> \E i \in 1..Len(e) : e[i] = Blank
    BY <1>1, CharHas
  <2> QED
    BY <2>1, <2>2
<1>17. Word(e) = e /\ AfterWord(e) = e
  BY <1>1, <1>10, <1>16
<1> HIDE DEF b, e, f, m, l, whole
<1>18. CASE f # e /\ m # e
  <2> DEFINE x == b \o l
             s1 == m \o x
  <2>1. x \in Seq(A) /\ s1 \in Seq(A)
    BY <1>1, <1>2, <1>9
  <2>2. s = f \o (b \o s1)
    <3>1. s = f \o b \o (m \o b) \o l
      BY <1>4, <1>18
    <3> DEFINE v == m \o b
               u == b \o v
    <3>6. v \in Seq(A) /\ u \in Seq(A)
      BY <1>1, <1>2, <1>9
    <3>5. v \o l = s1
      BY <1>1, <1>2, <1>7
    <3> HIDE DEF v
    <3>9. f \in Seq(A) /\ b \in Seq(A) /\ v \in Seq(A)
      BY <1>1, <1>2, <3>6
    <3>8. (f \o b) \o v = f \o (b \o v)
      BY ONLY <1>7, <3>9
    <3>2. (f \o b) \o v = f \o u
      BY <3>8
    <3>4. u \o l = b \o (v \o l)
      BY <1>1, <1>2, <1>7, <3>6
    <3> HIDE DEF u
    <3>3. (f \o u) \o l = f \o (u \o l)
      BY <1>1, <1>7, <3>6, ZenonT(60)
    <3>7. s = f \o b \o v \o l
      BY <3>1 DEF v
    <3> QED
      BY <3>2, <3>3, <3>4, <3>5, <3>7
  <2>3. Word(s) = f /\ AfterWord(s) = b \o s1
    BY <1>1, <1>3, <1>11, <1>18, <2>1, <2>2
  <2>4. s1 = IgnoreBlank(AfterWord(s))
    BY <1>13, <2>1, <2>3
  <2>5. Head(s1) # Blank
    BY <1>1, <1>3, <1>15, <1>18, <2>1
  <2>6. Word(s1) = m /\ AfterWord(s1) = b \o l
    BY <1>1, <1>3, <1>11, <1>18
  <2> HIDE DEF s1
  <2>7. Word(IgnoreBlank(AfterWord(s1))) = l
    BY <1>1, <1>3, <1>10, <1>13, <2>6
  <2>8. read_name(s) = [first |-> f, middle |-> m, last |-> l]
    BY <2>3, <2>4, <2>5, <2>6, <2>7, NameRead
  <2> QED
    BY <1>5, <1>6, <1>18, <2>8
<1>19. CASE f # e /\ m = e
  <2>1. s = f \o (b \o l)
    <3>1. s = f \o b \o e \o l
      BY <1>4, <1>19
    <3>2. (f \o b) \o e = f \o b
      BY <1>1, <1>2, <1>8, <1>9
    <3>3. (f \o b) \o l = f \o (b \o l)
      BY <1>1, <1>2, <1>7, ZenonT(60)
    <3> QED
      BY <3>1, <3>2, <3>3
  <2>2. Word(s) = f /\ AfterWord(s) = b \o l
    BY <1>1, <1>3, <1>11, <1>19, <2>1
  <2>3. l = IgnoreBlank(AfterWord(s))
    BY <1>1, <1>13, <2>2
  <2>4. l = e \/ Head(l) # Blank
    BY <1>1, <1>3, <1>15
  <2>5. Word(l) = l /\ AfterWord(l) = e
    BY <1>1, <1>3, <1>10
  <2>6. Word(IgnoreBlank(AfterWord(l))) = e
    BY <1>14, <1>17, <2>5
  <2>7. read_name(s) = [first |-> f, middle |-> l, last |-> e]
    BY <2>2, <2>3, <2>4, <2>5, <2>6, NameRead DEF e
  <2> DEFINE g == [first |-> f, middle |-> l, last |-> e]
  <2>10. g = n <=> f = f /\ l = m /\ e = l
    BY <1>5
  <2>8. read_name(s) = n <=> l = m /\ e = l
    BY <2>7, <2>10
  <2>9. whole <=> l = e
    BY <1>6, <1>19
  <2> QED
    BY <1>19, <2>8, <2>9 DEF whole
<1>20. CASE f = e /\ ~(m = e /\ l = e)
  <2> DEFINE r == IF m = e THEN l ELSE m \o (b \o l)
             w == IF m = e THEN l ELSE m
  <2>1. s = b \o r /\ r \in Seq(A)
    <3>1. CASE m = e
      <4>1. s = e \o b \o e \o l
        BY <1>4, <1>20, <3>1
      <4>2. (e \o b) \o e = b
        BY <1>2, <1>8
      <4> QED
        BY <1>1, <3>1, <4>1, <4>2
    <3>2. CASE m # e
      <4>1. s = e \o b \o (m \o b) \o l
        BY <1>4, <1>20, <3>2
      <4>2. e \o b = b
        BY <1>2, <1>8
      <4> DEFINE v == m \o b
      <4>5. v \in Seq(A) /\ s = b \o v \o l
        BY <1>1, <1>2, <1>9, <4>1, <4>2
      <4>4. v \o l = m \o (b \o l)
        BY <1>1, <1>2, <1>7, SMTT(40)
      <4> HIDE DEF v
      <4>3. (b \o v) \o l = b \o (v \o l)
        BY <1>1, <1>2, <1>7, <4>5, ZenonT(60)
      <4>6. m \o (b \o l) \in Seq(A)
        BY <1>1, <1>2, <1>9
      <4> QED
        BY <3>2, <4>3, <4>4, <4>5, <4>6
    <3> QED
      BY <3>1, <3>2
  <2>2. Word(r) = w
    BY <1>1, <1>3, <1>10, <1>11
  <2>3. w # e
    BY <1>20
  <2> HIDE DEF r, w
  <2>4. Word(s) = w
    BY <1>12, <2>1, <2>2
  <2>5. read_name(s).first = w
    BY <2>4 DEF read_name
  <2>6. read_name(s) # n
    BY <1>20, <2>3, <2>5 DEF f
  <2>7. ~whole
    BY <1>6, <1>20
  <2> QED
    BY <2>6, <2>7 DEF whole
<1>21. CASE f = e /\ m = e /\ l = e
  <2>1. s = b \o e
    <3>1. s = e \o b \o e \o e
      BY <1>4, <1>21
    <3>2. e \o b = b /\ b \o e = b
      BY <1>2, <1>8
    <3> QED
      BY <3>1, <3>2
  <2>2. Word(s) = e /\ AfterWord(s) = e
    BY <1>1, <1>12, <1>17, <2>1
  <2>3. e = IgnoreBlank(AfterWord(s))
    BY <1>14, <2>2
  <2>4. Word(IgnoreBlank(AfterWord(e))) = e
    BY <1>14, <1>17
  <2>5. read_name(s) = [first |-> e, middle |-> e, last |-> e]
    BY <1>17, <2>2, <2>3, <2>4, NameRead DEF e
  <2>6. read_name(s) = n
    BY <1>5, <1>21, <2>5
  <2>7. whole
    BY <1>6, <1>21
  <2> QED
    BY <2>6, <2>7 DEF whole
<1> QED
  BY <1>18, <1>19, <1>20, <1>21

-----------------------------------------------------------------------------
(***************************************************************************)
(* Names of files.                                                         *)
(***************************************************************************)

\* A sequence is a prefix if its elements are there.
LEMMA PrefixIs ==
    ASSUME NEW S, NEW p \in Seq(S), NEW b \in Seq(S)
    PROVE  IsPrefix(p, b) <=> Len(p) <= Len(b) /\ \A i \in 1..Len(p) : p[i] = b[i]
<1> DEFINE n == Len(p)
           one == 1
<1>1. n \in Nat /\ Len(b) \in Nat /\ one \in Nat \ {0} /\ one = 1
  OBVIOUS
<1> HIDE DEF one
<1> SUFFICES ASSUME n <= Len(b)
             PROVE  SubSeq(p, one, n) = SubSeq(b, one, n) <=> \A i \in 1..n : p[i] = b[i]
  BY <1>1 DEF IsPrefix
<1> DEFINE x == SubSeq(p, one, n)
           y == SubSeq(b, one, n)
<1> HIDE DEF n
<1>6. n <= Len(p)
  BY <1>1 DEF n
<1>7. /\ x \in Seq(S) /\ Len(x) = IF one <= n THEN n - one + 1 ELSE 0
      /\ \A i \in 1..(n - one + 1) : x[i] = p[one + i - 1]
  BY <1>1, <1>6, PartIs
<1>8. /\ y \in Seq(S) /\ Len(y) = IF one <= n THEN n - one + 1 ELSE 0
      /\ \A i \in 1..(n - one + 1) : y[i] = b[one + i - 1]
  BY <1>1, PartIs
<1>9. n - one + 1 = n /\ (IF one <= n THEN n - one + 1 ELSE 0) = n /\ \A i \in 1..n : one + i - 1 = i
  BY <1>1
<1>2. x \in Seq(S) /\ Len(x) = n /\ \A i \in 1..n : x[i] = p[i]
  BY <1>7, <1>9
<1>3. y \in Seq(S) /\ Len(y) = n /\ \A i \in 1..n : y[i] = b[i]
  BY <1>8, <1>9
<1> HIDE DEF x, y
<1>4. ASSUME x = y
      PROVE  \A i \in 1..n : p[i] = b[i]
  BY <1>2, <1>3, <1>4
<1>5. ASSUME \A i \in 1..n : p[i] = b[i]
      PROVE  x = y
  <2>1. Len(x) = Len(y) /\ \A i \in 1..Len(x) : x[i] = y[i]
    BY <1>2, <1>3, <1>5
  <2> QED
    BY <1>2, <1>3, <2>1, SeqEqual
<1> QED
  BY <1>4, <1>5 DEF x, y

\* A sequence turned around.
LEMMA TurnedIs ==
    ASSUME NEW S, NEW s \in Seq(S)
    PROVE  /\ Reverse(s) \in Seq(S) /\ Len(Reverse(s)) = Len(s)
           /\ \A i \in 1..Len(s) : Reverse(s)[i] = s[(Len(s) - i) + 1]
<1> DEFINE n == Len(s)
           f(i) == s[(n - i) + 1]
<1>1. n \in Nat
  OBVIOUS
<1>2. \A i \in 1..n : f(i) \in S
  BY <1>1
<1>3. Reverse(s) = [i \in 1..n |-> f(i)]
  BY DEF Reverse
<1> HIDE DEF n, f
<1>4. Reverse(s) \in Seq(S) /\ Len(Reverse(s)) = n /\ \A i \in 1..n : Reverse(s)[i] = f(i)
  BY <1>1, <1>2, <1>3
<1> QED
  BY <1>4 DEF n, f

\* What is put at the end is a suffix.
LEMMA SuffixIs ==
    ASSUME NEW S, NEW x \in Seq(S), NEW y \in Seq(S), NEW z, Joint(z, x, y, S)
    PROVE  IsSuffix(y, z)
<1> DEFINE a == Reverse(y)
           b == Reverse(z)
           m == Len(x)
           n == Len(y)
<1>1. /\ z \in Seq(S) /\ m \in Nat /\ n \in Nat /\ Len(z) = m + n
      /\ \A j \in 1..n : z[m + j] = y[j]
  BY DEF Joint
<1>2. a \in Seq(S) /\ Len(a) = n /\ \A i \in 1..n : a[i] = y[(n - i) + 1]
  BY TurnedIs
<1>3. b \in Seq(S) /\ Len(b) = Len(z) /\ \A i \in 1..Len(z) : b[i] = z[(Len(z) - i) + 1]
  BY <1>1, TurnedIs
<1> HIDE DEF a, b, m, n
<1>4. ASSUME NEW i \in 1..n
      PROVE  a[i] = b[i]
  <2> DEFINE j == (n - i) + 1
  <2>1. j \in 1..n /\ i \in 1..Len(z) /\ (Len(z) - i) + 1 = m + j
    BY <1>1
  <2>2. b[i] = z[m + j]
    BY <1>3, <2>1
  <2>3. z[m + j] = y[j]
    BY <1>1, <2>1
  <2> QED
    BY <1>2, <2>2, <2>3
<1>5. IsPrefix(a, b)
  <2>1. Len(a) <= Len(b) /\ \A i \in 1..Len(a) : a[i] = b[i]
    BY <1>1, <1>2, <1>3, <1>4
  <2> QED
    BY <1>2, <1>3, <2>1, PrefixIs
<1> QED
  BY <1>5 DEF IsSuffix, a, b

\* What is put at the beginning is a prefix.
LEMMA PrefixOfJoint ==
    ASSUME NEW S, NEW x \in Seq(S), NEW y \in Seq(S), NEW z, Joint(z, x, y, S)
    PROVE  IsPrefix(x, z)
<1>1. z \in Seq(S) /\ Len(x) <= Len(z) /\ \A i \in 1..Len(x) : x[i] = z[i]
  BY DEF Joint
<1> QED
  BY <1>1, PrefixIs

\* The last of the pieces is what follows the last separator.
LEMMA LastPiece ==
    ASSUME NEW S, NEW ch \in S, NEW x \in Seq(S), NEW b \in Seq(S \ {ch})
    PROVE  \E f \in Seq(Seq(S)) : Pieces(Append(x, ch) \o b, ch) = Append(f, b)
<1> DEFINE R == S \ {ch}
           a == Append(x, ch)
           P == {y \in Seq(R) : \E f \in Seq(Seq(S)) : Pieces(a \o y, ch) = Append(f, y)}
<1>0. R \subseteq S /\ ch \notin R /\ a \in Seq(S)
  OBVIOUS
<1>1. <<>> \in P
  <2>1. a \o <<>> = a
    BY <1>0
  <2>2. Pieces(a, ch) = PieceChar(Pieces(x, ch), ch, ch)
    BY PiecesAppend
  <2>3. Pieces(x, ch) \in Seq(Seq(S))
    BY PiecesHold
  <2>4. Pieces(a, ch) = Append(Pieces(x, ch), <<>>)
    BY <2>2 DEF PieceChar
  <2> HIDE DEF a, R
  <2> QED
    BY <2>1, <2>3, <2>4
<1> HIDE DEF a, R
<1>2. ASSUME NEW y \in Seq(R), NEW c \in R, y \in P
      PROVE  Append(y, c) \in P
  <2>1. PICK f \in Seq(Seq(S)) : Pieces(a \o y, ch) = Append(f, y)
    BY <1>2
  <2>2. y \in Seq(S) /\ c \in S /\ c # ch
    BY <1>0, SeqMonotonic
  <2>3. a \o Append(y, c) = Append(a \o y, c) /\ a \o y \in Seq(S)
    BY <1>0, <2>2, AppendLast
  <2>4. Pieces(Append(a \o y, c), ch) = PieceChar(Pieces(a \o y, ch), c, ch)
    BY <2>2, <2>3, PiecesAppend
  <2>5. PieceChar(Append(f, y), c, ch) = Append(f, Append(y, c))
    BY <2>2, PieceCharOfAppend
  <2>6. Append(y, c) \in Seq(R)
    OBVIOUS
  <2> QED
    BY <2>1, <2>3, <2>4, <2>5, <2>6
<1>3. Seq(R) \subseteq P
  <2> HIDE DEF P
  <2> QED
    BY <1>1, <1>2, SeqInductive
<1> QED
  BY <1>3 DEF a, R

\* A dotless stem, a dot and a dotless extension: remove_ext and split take
\* them apart.
LEMMA ExtensionApart ==
    ASSUME NEW S, Dot \notin S, NEW a \in Seq(S), NEW b \in Seq(S)
    PROVE  /\ remove_ext(a \o <<Dot>> \o b) = a
           /\ Last(split(a \o <<Dot>> \o b, Dot, FALSE, TRUE)) = b
<1> DEFINE T == S \cup {Dot}
           ch == Dot
           x == Append(a, ch)
           name == x \o b
           m == Len(a)
<1>1. a \in Seq(T) /\ b \in Seq(T) /\ ch \in T /\ a \o <<ch>> = x
  BY SeqMonotonic
<1>2. a \o <<Dot>> \o b = name
  BY <1>1
<1>3. b \in Seq(T \ {ch})
  <2>1. S \subseteq T \ {ch}
    OBVIOUS
  <2> QED
    BY <2>1, SeqMonotonic
<1> HIDE DEF T, ch
<1>4. x \in Seq(T) /\ m \in Nat /\ Len(x) = m + 1 /\ x[m + 1] = ch /\ \A i \in 1..m : x[i] = a[i]
  BY <1>1
<1> HIDE DEF x
<1>5. Joint(name, x, b, T)
  BY <1>1, <1>4, ConcatIs
<1> HIDE DEF name
<1>6. /\ name \in Seq(T) /\ Len(b) \in Nat /\ Len(name) = m + 1 + Len(b)
      /\ \A i \in 1..(m + 1) : name[i] = x[i]
      /\ \A j \in 1..Len(b) : name[m + 1 + j] = b[j]
  BY <1>4, <1>5 DEF Joint
<1>7. name[m + 1] = ch /\ \A i \in 1..m : name[i] = a[i]
  BY <1>4, <1>6
<1>8. \A i \in 1..Len(name) : name[i] = ch <=> i = m + 1
  <2> SUFFICES ASSUME NEW i \in 1..Len(name), i # m + 1
               PROVE  name[i] # ch
    BY <1>7
  <2>1. CASE i \in 1..m
    BY <1>7, <2>1 DEF ch
  <2>2. CASE i > m + 1
    <3> DEFINE j == i - (m + 1)
    <3>1. j \in 1..Len(b) /\ m + 1 + j = i
      BY <1>4, <1>6, <2>2
    <3>2. name[i] = b[j]
      BY <1>6, <3>1
    <3>3. b[j] \in S
      BY <3>1
    <3> QED
      BY <3>2, <3>3 DEF ch
  <2> QED
    BY <1>4, <1>6, <2>1, <2>2
<1>9. Occurrences(name, <<ch>>) = {m + 1}
  <2>1. Occurrences(name, <<ch>>) = {i \in 1..Len(name) : name[i] = ch}
    BY <1>6, CharOccurs, SMTT(40)
  <2>2. m + 1 \in 1..Len(name)
    BY <1>4, <1>6
  <2> QED
    BY <1>8, <2>1, <2>2
<1>10. remove_ext(name) = a
  <2>1. Max({m + 1}) = m + 1
    BY <1>4, MaxIs
  <2>2. m + 1 - 1 = m
    BY <1>4
  <2>3. remove_ext(name) = SubSeq(name, 1, m)
    <3> DEFINE dots == Occurrences(name, <<Dot>>)
    <3>1. dots = {m + 1} /\ dots # {}
      BY <1>9 DEF ch
    <3>2. remove_ext(name) = IF dots = {} THEN name ELSE SubSeq(name, 1, Max(dots) - 1)
      BY DEF remove_ext
    <3>3. Max(dots) = m + 1
      BY ONLY <2>1, <3>1
    <3>4. Max(dots) - 1 = m
      BY ONLY <2>2, <3>3
    <3> HIDE DEF dots, m
    <3> QED
      BY ONLY <3>1, <3>2, <3>4
  <2>4. LiesAt(name, 0, a)
    BY <1>4, <1>6, <1>7 DEF LiesAt
  <2> DEFINE z == 0
  <2>5. z \in Nat /\ LiesAt(name, z, a) /\ Len(a) = m /\ name \in Seq(T) /\ a \in Seq(T)
    BY <1>1, <1>6, <2>4
  <2> HIDE DEF z, m
  <2>6. SubSeq(name, z + 1, z + m) = a
    BY ONLY <2>5, PartThere
  <2>7. z + 1 = 1 /\ z + m = m
    BY <1>4 DEF z
  <2> QED
    BY <2>3, <2>6, <2>7
<1>11. Last(split(name, ch, FALSE, TRUE)) = b
  <2>1. Has(name, <<ch>>)
    BY <1>9 DEF Has
  <2>2. split(name, ch, FALSE, TRUE) = Pieces(name, ch)
    BY <1>1, <1>6, <2>1, SplitIs
  <2>3. PICK f \in Seq(Seq(T)) : Pieces(name, ch) = Append(f, b)
    BY <1>1, <1>3, LastPiece DEF name, x
  <2>4. Last(Append(f, b)) = b
    BY <1>1 DEF Last
  <2> QED
    BY <2>2, <2>3, <2>4
<1> QED
  BY <1>2, <1>10, <1>11 DEF ch

\* What random_string draws when it is not refused: letters and digits from
\* one of the tries on, a letter first.
Draws(d, C) ==
    LET r == random_string(d, NameLength)
        u == Undrawn(d, NameLength)
    IN  /\ r \in Seq(C) /\ Len(r) = NameLength /\ r[1] \notin Range(Digit)
        /\ \E i \in 1..MaxTries : r = SubSeq(d, i, i + NameLength - 1)
        /\ u \in Seq(C) /\ Len(u) + MaxTries + NameLength > Len(d)

\* random_string takes a name's length from the first letter on.
LEMMA StringDrawn ==
    ASSUME NEW C, NEW d \in Seq(C), ~Refused(d), MaxTries \in Nat, NameLength \in Nat \ {0},
           Len(d) >= MaxTries + NameLength
    PROVE  Draws(d, C)
<1> DEFINE L == Letterlike(d)
           i == Min(L)
           n == NameLength
           D == Range(Digit)
           j == i + n - 1
           h == i + n
           r == SubSeq(d, i, j)
           u == SubSeq(d, h, Len(d))
<1>1. L = {k \in 1..Len(d) : d[k] \notin D}
  BY DEF Letterlike
<1>2. PICK k \in L : k \in 1..MaxTries
  BY DEF Refused
<1>3. L \in SUBSET Nat /\ L # {}
  BY <1>1, <1>2
<1>4. i \in L /\ i <= k
  BY <1>2, <1>3, MinIsIn
<1>5. random_string(d, n) = r /\ Undrawn(d, n) = u
  BY DEF random_string, Undrawn
<1> HIDE DEF L, i, n, D
<1>6. n \in Nat \ {0} /\ n = NameLength /\ Len(d) >= MaxTries + n /\ Len(d) \in Nat
  BY DEF n
<1>7. i \in 1..MaxTries /\ i \in 1..Len(d) /\ d[i] \notin D
  BY <1>1, <1>2, <1>3, <1>4
<1>8. /\ i \in Nat \ {0} /\ j \in Nat /\ j <= Len(d) /\ i <= j /\ j - i + 1 = n /\ 1 \in 1..n
      /\ h \in Nat \ {0} /\ i + 1 - 1 = i
  BY <1>6, <1>7
<1>9. Len(d) - h + 1 + MaxTries + n > Len(d)
  BY <1>6, <1>7
<1>10. h <= Len(d) + 1
  BY <1>6, <1>7
<1> HIDE DEF j, h
<1>11. r \in Seq(C) /\ Len(r) = n /\ r[1] \notin D
  <2>1. /\ r \in Seq(C) /\ Len(r) = (IF i <= j THEN j - i + 1 ELSE 0)
        /\ \A y \in 1..(j - i + 1) : r[y] = d[i + y - 1]
    BY <1>8, PartIs
  <2>2. r[1] = d[i]
    BY <1>8, <2>1
  <2> QED
    BY <1>7, <1>8, <2>1, <2>2
<1>12. u \in Seq(C) /\ Len(u) + MaxTries + n > Len(d)
  <2> DEFINE l == Len(d)
  <2>1. l \in Nat /\ l <= Len(d)
    BY <1>6
  <2> HIDE DEF l
  <2>2. /\ SubSeq(d, h, l) \in Seq(C) /\ Len(SubSeq(d, h, l)) = (IF h <= l THEN l - h + 1 ELSE 0)
    BY <1>8, <2>1, PartIs
  <2>3. Len(u) = Len(d) - h + 1 /\ u \in Seq(C)
    BY <1>6, <1>8, <1>10, <2>2 DEF l
  <2> QED
    BY <1>9, <2>3
<1>13. \E y \in 1..MaxTries : r = SubSeq(d, y, y + n - 1)
  BY <1>7 DEF j
<1> QED
  BY <1>5, <1>11, <1>12, <1>13 DEF Draws, n, D

\* What get_extension returns has no dot, and begins with a letter if drawn.
LEMMA ExtensionIs ==
    ASSUME NEW C, Extension \in Seq(C), CustomExt \in Seq(C), NEW u \in Seq(C),
           NEW type, type = "RANDOM" => Draws(u, C)
    PROVE  /\ get_extension(type, u) \in Seq(C)
           /\ type = "RANDOM" => /\ Len(get_extension(type, u)) = NameLength
                                 /\ get_extension(type, u)[1] \notin Range(Digit)
<1>1. CASE type = "RANDOM"
  BY <1>1 DEF get_extension, Draws
<1>2. CASE type = "FIXED"
  BY <1>2 DEF get_extension
<1>3. CASE type = "FUNCTION"
  BY <1>3 DEF get_extension
<1>4. CASE type \notin {"RANDOM", "FIXED", "FUNCTION"}
  <2>1. get_extension(type, u) = <<>>
    BY <1>4 DEF get_extension
  <2> QED
    BY <1>4, <2>1
<1> QED
  BY <1>1, <1>2, <1>3, <1>4

\* The names of files for any characters without a dot and any draws that
\* are enough for two strings.
THEOREM FilesNamed ==
    ASSUME NEW C, Dot \notin C, NEW d \in Seq(C), Extension \in Seq(C), CustomExt \in Seq(C),
           MaxTries \in Nat, NameLength \in Nat \ {0},
           Len(d) >= 2 * (MaxTries + NameLength)
    PROVE  FileNameExact(d)
<1> DEFINE n == NameLength
           D == Range(Digit)
           S == C \cup {"1", "b"}
           r == random_string(d, n)
           u == Undrawn(d, n)
<1>1. Dot \notin S /\ C \subseteq S /\ "1" \in S /\ "b" \in S
  BY DEF Dot
<1> SUFFICES ASSUME NEW type \in ExtensionTypes, NEW prefix \in {<<>>, <<"1">>},
                    NEW suffix \in {<<>>, <<"b">>}, ~NameRefused(type, d)
             PROVE  LET name == random_name(prefix, suffix, type, d)
                        stem == remove_ext(name)
                        ext  == Last(split(name, Dot, FALSE, TRUE))
                    IN  /\ Len(stem) = Len(prefix) + n + Len(suffix)
                        /\ IsPrefix(prefix, stem) /\ IsSuffix(suffix, stem)
                        /\ stem[Len(prefix) + 1] \notin D
                        /\ stem \o <<Dot>> \o ext = name
                        /\ type = "RANDOM" => Len(ext) = n /\ ext[1] \notin D
                        /\ \E i \in 1..MaxTries : SubSeq(d, i, i + n - 1) =
                             SubSeq(stem, Len(prefix) + 1, Len(prefix) + n)
  BY DEF FileNameExact
<1> DEFINE ext == get_extension(type, u)
           pr == prefix \o r
           stem == pr \o suffix
           name == stem \o <<Dot>> \o ext
           p == Len(prefix)
<1>2. ~Refused(d) /\ (type = "RANDOM" => ~Refused(u))
  BY DEF NameRefused
<1>3. random_name(prefix, suffix, type, d) = name
  BY DEF random_name
<1>4. prefix \in Seq(S) /\ suffix \in Seq(S)
  <2> DEFINE x == "1"
             y == "b"
  <2>1. x \in S /\ y \in S /\ prefix \in {<<>>, <<x>>} /\ suffix \in {<<>>, <<y>>}
    BY <1>1
  <2> HIDE DEF S, x, y
  <2>2. <<x>> \in Seq(S) /\ <<y>> \in Seq(S)
    BY <2>1, UnitIs
  <2>3. <<>> \in Seq(S)
    OBVIOUS
  <2> QED
    BY <2>1, <2>2, <2>3
<1> HIDE DEF n, D, S, r, u
<1>5. n = NameLength /\ n \in Nat \ {0} /\ Len(d) \in Nat /\ Len(d) >= 2 * (MaxTries + n)
  BY DEF n
<1>6. Draws(d, C)
  <2>1. Len(d) >= MaxTries + NameLength
    BY <1>5
  <2> QED
    BY <1>2, <2>1, StringDrawn
<1>7. /\ r \in Seq(C) /\ Len(r) = n /\ r[1] \notin D
      /\ \E i \in 1..MaxTries : r = SubSeq(d, i, i + n - 1)
      /\ u \in Seq(C) /\ Len(u) + MaxTries + n > Len(d)
  BY <1>6 DEF Draws, r, u, n, D
<1>8. type = "RANDOM" => Draws(u, C)
  <2> SUFFICES ASSUME type = "RANDOM"
               PROVE  Draws(u, C)
    OBVIOUS
  <2>1. Len(u) \in Nat
    BY <1>7
  <2>2. Len(u) >= MaxTries + NameLength
    BY <1>5, <1>7, <2>1
  <2> QED
    BY <1>2, <1>7, <2>2, StringDrawn
<1>9. ext \in Seq(C) /\ (type = "RANDOM" => Len(ext) = n /\ ext[1] \notin D)
  BY <1>7, <1>8, ExtensionIs DEF n, D
<1> HIDE DEF ext
<1>10. r \in Seq(S) /\ ext \in Seq(S)
  BY <1>1, <1>7, <1>9, SeqMonotonic
<1>11. Joint(pr, prefix, r, S)
  BY <1>4, <1>10, ConcatIs
<1>12. pr \in Seq(S)
  BY <1>11 DEF Joint
<1> HIDE DEF pr
<1>13. Joint(stem, pr, suffix, S)
  BY <1>4, <1>12, ConcatIs
<1>14. stem \in Seq(S)
  BY <1>13 DEF Joint
<1> HIDE DEF stem
<1>15. remove_ext(name) = stem /\ Last(split(name, Dot, FALSE, TRUE)) = ext
  BY <1>1, <1>10, <1>14, ExtensionApart
<1> HIDE DEF p
<1>16. /\ p \in Nat /\ Len(pr) = p + n /\ \A i \in 1..p : pr[i] = prefix[i]
       /\ \A j \in 1..n : pr[p + j] = r[j]
  BY <1>7, <1>11 DEF Joint, p
<1>17. /\ Len(suffix) \in Nat /\ Len(stem) = p + n + Len(suffix)
       /\ \A i \in 1..(p + n) : stem[i] = pr[i]
  BY <1>13, <1>16 DEF Joint
<1>18. IsSuffix(suffix, stem)
  BY <1>4, <1>12, <1>13, SuffixIs
<1>19. IsPrefix(prefix, stem)
  <2>1. IsPrefix(prefix, stem) <=> Len(prefix) <= Len(stem) /\ \A i \in 1..Len(prefix) : prefix[i] = stem[i]
    BY <1>4, <1>14, PrefixIs
  <2>2. p <= Len(stem)
    BY <1>5, <1>16, <1>17
  <2>3. ASSUME NEW i \in 1..p
        PROVE  prefix[i] = stem[i]
    <3>1. i \in 1..(p + n)
      BY <1>5, <1>16
    <3> QED
      BY <1>16, <1>17, <3>1
  <2> QED
    BY <2>1, <2>2, <2>3 DEF p
<1>20. \A j \in 1..n : stem[p + j] = r[j]
  <2> TAKE j \in 1..n
  <2>1. p + j \in 1..(p + n)
    BY <1>5, <1>16
  <2> QED
    BY <1>16, <1>17, <2>1
<1>21. stem[p + 1] \notin D
  <2>1. 1 \in 1..n
    BY <1>5
  <2> QED
    BY <1>7, <1>20, <2>1
<1>22. SubSeq(stem, p + 1, p + n) = r
  <2>0. p + n <= Len(stem)
    BY <1>5, <1>16, <1>17
  <2>1. LiesAt(stem, p, r)
    BY <1>7, <1>20, <2>0 DEF LiesAt
  <2>2. stem \in Seq(S) /\ r \in Seq(S) /\ p \in Nat /\ Len(r) = n
    BY <1>7, <1>10, <1>14, <1>16
  <2> QED
    BY ONLY <2>1, <2>2, PartThere
<1>23. \E i \in 1..MaxTries : SubSeq(d, i, i + n - 1) = SubSeq(stem, p + 1, p + n)
  BY <1>7, <1>22
<1>24. stem \o <<Dot>> \o ext = name
  OBVIOUS
<1> HIDE DEF name
<1> QED
  BY <1>3, <1>9, <1>15, <1>17, <1>18, <1>19, <1>21, <1>23, <1>24 DEF p

-----------------------------------------------------------------------------
(***************************************************************************)
(* Numbers as text.                                                        *)
(***************************************************************************)

\* The greater of two numbers.
LEMMA MaxOfTwo ==
    ASSUME NEW a \in Int, NEW b \in Int
    PROVE  Max({a, b}) = IF a >= b THEN a ELSE b
<1> DEFINE S == {a, b}
           c == IF a >= b THEN a ELSE b
<1>1. c \in S /\ \A y \in S : c >= y
  OBVIOUS
<1>2. \A x \in S : (\A y \in S : x >= y) => x = c
  OBVIOUS
<1> HIDE DEF S, c
<1>3. Max(S) = c
  BY <1>1, <1>2 DEF Max
<1> QED
  BY <1>3 DEF S, c

\* The digits.
Figures == {"0", "1", "2", "3", "4", "5", "6", "7", "8", "9"}

\* Digit holds them, and neither the comma nor the dot.
LEMMA FiguresAre ==
    /\ Range(Digit) \subseteq Figures /\ \A i \in 1..10 : Digit[i] \in Range(Digit)
    /\ "," \notin Range(Digit) /\ Dot \notin Range(Digit) /\ "0" \in Range(Digit)
<1>1. Range(Digit) = {Digit[i] : i \in 1..10}
  BY DEF Range, Digit
<1>2. \A i \in 1..10 : Digit[i] \in Figures
  BY DEF Digit, Figures
<1>3. Range(Digit) \subseteq Figures
  BY <1>1, <1>2
<1>4. "," \notin Figures /\ Dot \notin Figures
  BY DEF Figures, Dot
<1>5. 1 \in 1..10 /\ Digit[1] = "0"
  BY DEF Digit
<1> QED
  BY <1>1, <1>3, <1>4, <1>5

\* A number is written with one to four digits.
LEMMA DecimalIs ==
    ASSUME NEW n \in Nat
    PROVE  /\ Decimal(n) \in Seq(Range(Digit)) /\ Len(Decimal(n)) \in 1..4
           /\ n >= 100 /\ n < 1000 => Len(Decimal(n)) = 3
<1> DEFINE D == Range(Digit)
           size == IF n < 10 THEN 1 ELSE IF n < 100 THEN 2 ELSE IF n < 1000 THEN 3 ELSE 4
           f(i) == Digit[((n \div Tens[size - i + 1]) % 10) + 1]
<1>1. size \in 1..4 /\ (n >= 100 /\ n < 1000 => size = 3)
  OBVIOUS
<1>2. Decimal(n) = [i \in 1..size |-> f(i)]
  BY DEF Decimal
<1> HIDE DEF size
<1>3. ASSUME NEW i \in 1..size
      PROVE  f(i) \in D
  <2> DEFINE t == Tens[size - i + 1]
             q == n \div t
             r == q % 10
  <2>1. size - i + 1 \in {1, 2, 3, 4}
    BY <1>1
  <2>2. t \in {1, 10, 100, 1000}
    BY <2>1 DEF Tens
  <2>3. t \in Nat \ {0}
    BY <2>2
  <2> HIDE DEF t
  <2>4. q \in Nat
    BY <2>3, Quotient
  <2> HIDE DEF q
  <2>5. r + 1 \in 1..10
    BY <2>4
  <2> HIDE DEF r
  <2>6. Digit[r + 1] \in D
    BY <2>5, FiguresAre
  <2> QED
    BY <2>6 DEF r, q, t
<1> HIDE DEF D, f
<1>4. Decimal(n) \in Seq(D) /\ Len(Decimal(n)) = size
  BY <1>1, <1>2, <1>3
<1> QED
  BY <1>1, <1>4 DEF D

\* A single sign between digits is lost by only_digits, nothing else is.
LEMMA SignGone ==
    ASSUME NEW a \in Seq(Range(Digit)), NEW b \in Seq(Range(Digit)), NEW ch, ch \notin Range(Digit)
    PROVE  only_digits(a \o (<<ch>> \o b)) = a \o b
<1> DEFINE G == Range(Digit)
           S == G \cup {ch}
           u == <<ch>>
           y == u \o b
           x == a \o y
           D == Range(x) \ G
           m == Len(a)
<1>1. a \in Seq(S) /\ b \in Seq(S) /\ ch \in S
  BY SeqMonotonic
<1>2. only_digits(x) = Without(x, D)
  BY DEF only_digits
<1>3. \A i \in 1..Len(a) : a[i] \in G
  OBVIOUS
<1>4. \A i \in 1..Len(b) : b[i] \in G
  OBVIOUS
<1> HIDE DEF G, S, u
<1>5. u \in Seq(S) /\ Len(u) = 1 /\ u[1] = ch
  BY <1>1, UnitIs DEF u
<1>6. Joint(y, u, b, S)
  BY <1>1, <1>5, ConcatIs
<1> HIDE DEF y
<1>7. y \in Seq(S) /\ Len(y) \in Nat /\ Len(y) >= 1 /\ y[1] = ch
  BY <1>5, <1>6 DEF Joint
<1>8. Joint(x, a, y, S)
  BY <1>1, <1>7, ConcatIs
<1> HIDE DEF x
<1>9. ch \in D
  <2>1. m \in Nat /\ Len(x) = m + Len(y) /\ x \in Seq(S) /\ \A j \in 1..Len(y) : x[m + j] = y[j]
    BY <1>8 DEF Joint
  <2>2. m + 1 \in 1..Len(x) /\ 1 \in 1..Len(y)
    BY <1>7, <2>1
  <2>3. x[m + 1] = ch /\ DOMAIN x = 1..Len(x)
    BY <1>7, <2>1, <2>2
  <2>4. ch \in Range(x)
    BY <2>2, <2>3 DEF Range
  <2> QED
    BY <2>4 DEF G
<1>10. \A i : i \in G => i \notin D
  OBVIOUS
<1> HIDE DEF D
<1>11. Without(x, D) = Without(a, D) \o Without(y, D)
  BY <1>1, <1>7, WithoutConcat DEF x
<1>12. Without(y, D) = Without(u, D) \o Without(b, D)
  BY <1>1, <1>5, WithoutConcat DEF y
<1>13. Without(a, D) = a
  BY <1>1, <1>3, <1>10, WithoutNone
<1>14. Without(b, D) = b
  BY <1>1, <1>4, <1>10, WithoutNone
<1>15. Without(u, D) = <<>>
  <2> DEFINE e == <<>>
  <2>1. e \in Seq(S) /\ Append(e, ch) = u /\ Without(e, D) = e
    BY WithoutEmpty DEF u
  <2> HIDE DEF e
  <2>2. Without(Append(e, ch), D) = KeptWith(Without(e, D), ch, D)
    <3>1. e \in Seq(S) /\ ch \in S
      BY <1>1, <2>1
    <3> QED
      BY ONLY <3>1, WithoutAppend
  <2>3. KeptWith(e, ch, D) = e
    BY <1>9 DEF KeptWith
  <2> QED
    BY <2>1, <2>2, <2>3 DEF e
<1>16. <<>> \o b = b
  BY ConcatEmptySeq
<1> QED
  BY <1>2, <1>11, <1>12, <1>13, <1>14, <1>15, <1>16 DEF x, y, u

\* Digits alone are kept.
LEMMA FiguresStay ==
    ASSUME NEW s \in Seq(Range(Digit))
    PROVE  only_digits(s) = s
<1> DEFINE G == Range(Digit)
           D == Range(s) \ G
<1>1. \A i \in 1..Len(s) : s[i] \notin D
  OBVIOUS
<1>2. only_digits(s) = Without(s, D)
  BY DEF only_digits
<1> HIDE DEF G, D
<1>3. s \in Seq(G)
  BY DEF G
<1> QED
  BY <1>1, <1>2, <1>3, WithoutNone

\* The parts a sequence is put together from, a sign after the first e.
Signed(s, e, ch) == [k \in 1..Len(s) |-> IF k = e THEN <<s[k], ch>> ELSE <<s[k]>>]

\* One character more, not where the sign is.
LEMMA SignedAppend ==
    ASSUME NEW S, NEW s \in Seq(S), NEW c \in S, NEW ch \in S, NEW e, e # Len(s) + 1
    PROVE  /\ Signed(s, e, ch) \in Seq(Seq(S))
           /\ Signed(Append(s, c), e, ch) = Append(Signed(s, e, ch), <<c>>)
<1> DEFINE n == Len(s)
           t == Append(s, c)
           A == Signed(s, e, ch)
           B == Signed(t, e, ch)
           u == <<c>>
           E == Append(A, u)
           T == Seq(S)
           one(x) == <<x>>
           two(x) == <<x, ch>>
<1>1. /\ n \in Nat /\ t \in Seq(S) /\ Len(t) = n + 1 /\ t[n + 1] = c
      /\ \A k \in 1..n : t[k] = s[k]
  BY AppendProperties
<1>2. \A x \in S : one(x) \in T /\ two(x) \in T
  OBVIOUS
<1>3. u = one(c)
  OBVIOUS
<1>4. A = [k \in 1..n |-> IF k = e THEN two(s[k]) ELSE one(s[k])]
  BY DEF Signed
<1>5. B = [k \in 1..(n + 1) |-> IF k = e THEN two(t[k]) ELSE one(t[k])]
  BY <1>1 DEF Signed
<1>6. \A k \in 1..n : s[k] \in S
  OBVIOUS
<1>7. e # n + 1
  OBVIOUS
<1>8. \A k \in 1..(n + 1) : t[k] \in S
  BY <1>1
<1> HIDE DEF t, A, B, u, T, one, two, n
<1>9. A \in Seq(T) /\ Len(A) = n /\ \A k \in 1..n : A[k] = IF k = e THEN two(s[k]) ELSE one(s[k])
  <2>1. \A k \in 1..n : (IF k = e THEN two(s[k]) ELSE one(s[k])) \in T
    BY <1>2, <1>6
  <2> QED
    BY <1>1, <1>4, <2>1
<1>10. /\ B \in Seq(T) /\ Len(B) = n + 1
       /\ \A k \in 1..(n + 1) : B[k] = IF k = e THEN two(t[k]) ELSE one(t[k])
  <2>1. \A k \in 1..(n + 1) : (IF k = e THEN two(t[k]) ELSE one(t[k])) \in T
    BY <1>2, <1>8
  <2> QED
    BY <1>1, <1>5, <2>1
<1>11. u \in T
  BY <1>2, <1>3
<1>12. E \in Seq(T) /\ Len(E) = n + 1 /\ E[n + 1] = u /\ \A k \in 1..n : E[k] = A[k]
  BY <1>1, <1>9, <1>11, AppendProperties
<1> HIDE DEF E
<1>13. ASSUME NEW k \in 1..(n + 1)
       PROVE  B[k] = E[k]
  <2>1. CASE k = n + 1
    BY <1>1, <1>3, <1>7, <1>10, <1>12, <2>1
  <2>2. CASE k \in 1..n
    BY <1>1, <1>9, <1>10, <1>12, <2>2
  <2> QED
    BY <1>1, <2>1, <2>2
<1>14. B = E
  BY <1>10, <1>12, <1>13, SeqEqual
<1> QED
  BY <1>9, <1>14 DEF T, E, A, B, t, u

\* Without a sign the parts are the sequence.
LEMMA FlatUnits ==
    ASSUME NEW S, NEW ch \in S
    PROVE  \A s \in Seq(S) : FlattenSeq(Signed(s, 0, ch)) = s
<1> DEFINE P == {s \in Seq(S) : FlattenSeq(Signed(s, 0, ch)) = s}
<1>1. <<>> \in P
  <2>1. Signed(<<>>, 0, ch) = <<>>
    BY DEF Signed
  <2>2. FlattenSeq(<<>>) = <<>>
    BY FlattenAppend
  <2> QED
    BY <2>1, <2>2
<1>2. ASSUME NEW s \in Seq(S), NEW c \in S, s \in P
      PROVE  Append(s, c) \in P
  <2> DEFINE A == Signed(s, 0, ch)
             u == <<c>>
             e == 0
  <2>1. e # Len(s) + 1 /\ u \in Seq(S) /\ Append(s, c) \in Seq(S)
    OBVIOUS
  <2> HIDE DEF u, e
  <2>2. Signed(s, e, ch) \in Seq(Seq(S)) /\ Signed(Append(s, c), e, ch) = Append(Signed(s, e, ch), u)
    BY <2>1, SignedAppend DEF u
  <2>3. A \in Seq(Seq(S)) /\ Signed(Append(s, c), 0, ch) = Append(A, u)
    BY <2>2 DEF e
  <2> HIDE DEF A
  <2>4. FlattenSeq(Append(A, u)) = FlattenSeq(A) \o u
    BY <2>1, <2>3, FlattenAppend
  <2>5. FlattenSeq(A) = s
    BY <1>2 DEF A
  <2>6. s \o u = Append(s, c)
    BY DEF u
  <2> QED
    BY <2>1, <2>3, <2>4, <2>5, <2>6
<1>3. Seq(S) \subseteq P
  <2> HIDE DEF P
  <2> QED
    BY <1>1, <1>2, SeqInductive
<1> QED
  BY <1>3

\* A sign after the first character.
LEMMA FlatSigned ==
    ASSUME NEW S, NEW ch \in S, NEW a \in S
    PROVE  \A t \in Seq(S) : FlattenSeq(Signed(<<a>> \o t, 1, ch)) = <<a>> \o (<<ch>> \o t)
<1> DEFINE x == <<a>>
           u == <<ch>>
           v == <<a, ch>>
           e == 1
           P == {t \in Seq(S) : FlattenSeq(Signed(x \o t, e, ch)) = x \o (u \o t)}
<1>1. /\ x \in Seq(S) /\ Len(x) = 1 /\ x[1] = a
      /\ u \in Seq(S) /\ Len(u) = 1 /\ u[1] = ch
  BY UnitIs
<1>2. v \in Seq(S) /\ Len(v) = 2 /\ v[1] = a /\ v[2] = ch
  OBVIOUS
<1>3. v = x \o u
  <2> DEFINE y == x \o u
  <2> HIDE DEF v, x, u
  <2>1. y \in Seq(S) /\ Len(y) = 2 /\ y[1] = a /\ y[2] = ch
    <3>1. Joint(y, x, u, S)
      BY <1>1, ConcatIs
    <3> HIDE DEF y
    <3>2. /\ y \in Seq(S) /\ Len(y) = 1 + 1 /\ \A i \in 1..1 : y[i] = x[i]
          /\ \A j \in 1..1 : y[1 + j] = u[j]
      BY <1>1, <3>1 DEF Joint
    <3> QED
      BY <1>1, <3>2
  <2> HIDE DEF y
  <2>2. \A i \in 1..2 : v[i] = y[i]
    BY <1>2, <2>1
  <2>3. v = y
    BY <1>2, <2>1, <2>2, SeqEqual
  <2> QED
    BY <2>3 DEF y
<1>4. Signed(x, e, ch) = <<v>>
  <2>1. Signed(x, e, ch) = [k \in 1..1 |-> v]
    BY <1>1 DEF Signed
  <2>2. <<v>> = [k \in 1..1 |-> v]
    OBVIOUS
  <2> QED
    BY <2>1, <2>2
<1>5. e = 1
  OBVIOUS
<1> HIDE DEF x, u, v, e
<1>6. <<>> \in P
  <2> DEFINE o == <<>>
             A == <<>>
  <2>1. x \o o = x /\ u \o o = u /\ o \in Seq(S) /\ A \in Seq(Seq(S)) /\ Append(A, v) = <<v>>
    BY <1>1
  <2>2. FlattenSeq(A) = <<>>
    BY FlattenAppend
  <2> HIDE DEF o, A
  <2>3. FlattenSeq(Append(A, v)) = FlattenSeq(A) \o v
    BY <1>2, <2>1, FlattenAppend
  <2>4. <<>> \o v = v
    BY <1>2, ConcatEmptySeq
  <2>5. o \in P
    BY <1>3, <1>4, <2>1, <2>2, <2>3, <2>4
  <2> QED
    BY <2>5 DEF o
<1>7. ASSUME NEW t \in Seq(S), NEW c \in S, t \in P
      PROVE  Append(t, c) \in P
  <2> DEFINE s == x \o t
             w == <<c>>
             z == u \o t
  <2>1. s \in Seq(S) /\ Len(s) = 1 + Len(t) /\ Len(t) \in Nat /\ z \in Seq(S)
    <3>1. Joint(s, x, t, S) /\ Joint(z, u, t, S)
      BY <1>1, ConcatIs
    <3> HIDE DEF s, z
    <3> QED
      BY <1>1, <3>1 DEF Joint
  <2>2. x \o Append(t, c) = Append(s, c) /\ u \o Append(t, c) = Append(z, c)
    BY <1>1, AppendLast
  <2>3. w \in Seq(S) /\ \A y \in Seq(S) : y \o w = Append(y, c)
    OBVIOUS
  <2>4. FlattenSeq(Signed(s, e, ch)) = x \o z
    BY <1>7
  <2> HIDE DEF s, w, z
  <2>5. e # Len(s) + 1
    BY <1>5, <2>1
  <2> DEFINE A == Signed(s, e, ch)
  <2>6. A \in Seq(Seq(S)) /\ Signed(Append(s, c), e, ch) = Append(A, w)
    BY <2>1, <2>5, SignedAppend DEF w
  <2> HIDE DEF A
  <2>7. FlattenSeq(Append(A, w)) = FlattenSeq(A) \o w
    BY <2>3, <2>6, FlattenAppend
  <2>8. x \o z \in Seq(S)
    BY <1>1, <2>1
  <2>9. FlattenSeq(Append(A, w)) = Append(x \o z, c)
    BY <2>3, <2>4, <2>7, <2>8 DEF A
  <2>10. Append(x \o z, c) = x \o Append(z, c)
    <3>1. x \in Seq(S) /\ z \in Seq(S) /\ w \in Seq(S)
      BY <1>1, <2>1, <2>3
    <3>2. x \o (z \o w) = (x \o z) \o w
      BY ONLY <3>1, ConcatAssociative, SMTT(40)
    <3> QED
      BY <2>3, <2>8, <3>1, <3>2
  <2>11. Append(t, c) \in Seq(S)
    OBVIOUS
  <2>12. FlattenSeq(Signed(x \o Append(t, c), e, ch)) = x \o (u \o Append(t, c))
    BY <2>2, <2>6, <2>9, <2>10
  <2> QED
    BY <2>11, <2>12
<1>8. Seq(S) \subseteq P
  <2> HIDE DEF P
  <2> QED
    BY <1>6, <1>7, SeqInductive
<1> QED
  BY <1>8 DEF x, u, e

\* What grouping promises of the digits s.
Grouped(s) ==
    LET g == insert_grouping_char(s, ",")
    IN  /\ only_digits(g) = s
        /\ \A i \in 1..Len(g) : (g[i] = ",") = ((Len(g) - i) % 4 = 3)

\* Up to three digits stay as they are.
LEMMA ShortGrouped ==
    ASSUME NEW s \in Seq(Range(Digit)), Len(s) \in 1..3
    PROVE  Grouped(s)
<1> DEFINE G == Range(Digit)
           ch == ","
           S == G \cup {ch}
           n == Len(s)
           A == [k \in 1..Len(s) |-> IF k \in GroupEnds(s) THEN <<s[k], ch>> ELSE <<s[k]>>]
<1>1. n \in {1, 2, 3}
  OBVIOUS
<1>2. s \in Seq(S) /\ ch \in S /\ \A i \in 1..n : s[i] \in G
  <2>1. s \in Seq(G) /\ G \subseteq S /\ ch \in S
    OBVIOUS
  <2> HIDE DEF G, S, ch
  <2> QED
    BY <2>1, SeqMonotonic
<1>3. GroupEnds(s) = {}
  <2> DEFINE p == IF n % 3 = 0 THEN 2 ELSE (n % 3) - 1
  <2>1. GroupEnds(s) = {k \in 1..n - 1 : k > p /\ (k - p - 1) % 3 = 0}
    BY DEF GroupEnds
  <2> HIDE DEF n
  <2>2. p = n - 1
    BY <1>1
  <2> HIDE DEF p
  <2>3. \A k \in 1..n - 1 : ~(k > p)
    BY <1>1, <2>2
  <2> QED
    BY <2>1, <2>3
<1>4. insert_grouping_char(s, ch) = FlattenSeq(A)
  BY DEF insert_grouping_char
<1>5. A = Signed(s, 0, ch)
  <2>1. \A k \in 1..n : k \notin GroupEnds(s) /\ k # 0
    BY <1>1, <1>3
  <2> QED
    BY <2>1 DEF Signed
<1> HIDE DEF A, S, G
<1>6. FlattenSeq(A) = s
  BY <1>2, <1>5, FlatUnits
<1>7. only_digits(s) = s
  BY FiguresStay
<1>8. ASSUME NEW i \in 1..n
      PROVE  s[i] # "," /\ (n - i) % 4 # 3
  <2>1. s[i] # ","
    BY <1>2, FiguresAre DEF G
  <2> HIDE DEF n
  <2>2. n - i \in 0..2
    BY <1>1
  <2>3. \A k \in 0..2 : k % 4 # 3
    OBVIOUS
  <2> QED
    BY <2>1, <2>2, <2>3
<1> QED
  BY <1>4, <1>6, <1>7, <1>8 DEF Grouped

\* Four digits have one separator.
LEMMA LongGrouped ==
    ASSUME NEW s \in Seq(Range(Digit)), Len(s) = 4
    PROVE  Grouped(s)
<1> DEFINE G == Range(Digit)
           ch == ","
           S == G \cup {ch}
           a == s[1]
           x == <<a>>
           t == SubSeq(s, 2, 4)
           u == <<ch>>
           y == u \o t
           g == x \o y
           A == [k \in 1..Len(s) |-> IF k \in GroupEnds(s) THEN <<s[k], ch>> ELSE <<s[k]>>]
<1>1. s \in Seq(S) /\ ch \in S /\ \A i \in 1..4 : s[i] \in G
  <2>1. s \in Seq(G) /\ G \subseteq S /\ ch \in S /\ Len(s) = 4
    OBVIOUS
  <2> HIDE DEF G, S, ch
  <2>2. s \in Seq(S)
    BY <2>1, SeqMonotonic
  <2>3. \A i \in 1..Len(s) : s[i] \in G
    BY <2>1, ElementOfSeq
  <2> QED
    BY <2>1, <2>2, <2>3
<1>2. GroupEnds(s) = {1}
  <2> DEFINE n == Len(s)
             p == IF n % 3 = 0 THEN 2 ELSE (n % 3) - 1
  <2>1. GroupEnds(s) = {k \in 1..n - 1 : k > p /\ (k - p - 1) % 3 = 0}
    BY DEF GroupEnds
  <2>2. n = 4
    OBVIOUS
  <2> HIDE DEF n
  <2>3. p = 0
    BY <2>2
  <2> HIDE DEF p
  <2>4. \A k \in 1..n - 1 : (k > p /\ (k - p - 1) % 3 = 0) <=> k = 1
    BY <2>2, <2>3
  <2> QED
    BY <2>1, <2>2, <2>4
<1>3. insert_grouping_char(s, ch) = FlattenSeq(A)
  BY DEF insert_grouping_char
<1>4. A = Signed(s, 1, ch)
  BY <1>2 DEF Signed
<1> HIDE DEF A, S
<1>5. t \in Seq(G) /\ Len(t) = 3 /\ \A k \in 1..3 : t[k] = s[k + 1]
  <2> DEFINE i == 2
             j == 4
  <2>1. j - i + 1 = 3 /\ i = 2 /\ i <= j
    OBVIOUS
  <2>2. s \in Seq(G) /\ i \in Nat \ {0} /\ j \in Nat /\ j <= Len(s)
    OBVIOUS
  <2> HIDE DEF i, j, G
  <2>3. /\ SubSeq(s, i, j) \in Seq(G) /\ Len(SubSeq(s, i, j)) = (IF i <= j THEN j - i + 1 ELSE 0)
        /\ \A k \in 1..(j - i + 1) : SubSeq(s, i, j)[k] = s[i + k - 1]
    BY ONLY <2>2, PartIs
  <2>4. /\ SubSeq(s, i, j) \in Seq(G) /\ Len(SubSeq(s, i, j)) = 3
        /\ \A k \in 1..3 : SubSeq(s, i, j)[k] = s[k + 1]
    BY <2>1, <2>3
  <2> QED
    BY <2>4 DEF i, j
<1>6. a \in G
  <2> HIDE DEF G
  <2>1. 1 \in 1..4
    OBVIOUS
  <2> QED
    BY <1>1, <2>1
<1> HIDE DEF a, t
<1>7. /\ t \in Seq(S) /\ a \in S
  BY <1>5, <1>6, SeqMonotonic DEF S
<1>8. x \in Seq(S) /\ x \in Seq(G) /\ Len(x) = 1 /\ x[1] = a
  BY <1>6, <1>7, UnitIs
<1>9. u \in Seq(S) /\ Len(u) = 1 /\ u[1] = ch
  BY <1>1, UnitIs
<1>10. FlattenSeq(Signed(x \o t, 1, ch)) = g
  BY <1>1, <1>7, FlatSigned
<1>11. ch \notin G
  BY FiguresAre
<1>12. only_digits(g) = x \o t
  BY <1>5, <1>8, <1>11, SignGone
<1> HIDE DEF x, u, G, ch
<1>13. s = x \o t
  <2> DEFINE z == x \o t
  <2>1. Joint(z, x, t, S)
    BY <1>7, <1>8, ConcatIs
  <2> HIDE DEF z
  <2>2. /\ z \in Seq(S) /\ Len(z) = 1 + 3 /\ \A i \in 1..1 : z[i] = x[i]
        /\ \A j \in 1..3 : z[1 + j] = t[j]
    BY <1>5, <1>8, <2>1 DEF Joint
  <2>3. Len(z) = 4 /\ z[1] = s[1]
    BY <1>8, <2>2 DEF a
  <2>4. ASSUME NEW i \in 1..4
        PROVE  s[i] = z[i]
    <3>1. CASE i = 1
      BY <2>3, <3>1
    <3>2. CASE i # 1
      <4>1. i - 1 \in 1..3 /\ 1 + (i - 1) = i /\ (i - 1) + 1 = i
        BY <3>2
      <4>2. z[1 + (i - 1)] = t[i - 1] /\ t[i - 1] = s[(i - 1) + 1]
        BY <1>5, <2>2, <4>1
      <4> QED
        BY <4>1, <4>2
    <3> QED
      BY <3>1, <3>2
  <2>5. s = z
    BY <1>1, <2>2, <2>3, <2>4, SeqEqual
  <2> QED
    BY <2>5 DEF z
<1>14. /\ Len(g) = 5 /\ g[1] # ch /\ g[2] = ch /\ \A j \in 1..3 : g[2 + j] # ch
  <2>1. Joint(y, u, t, S)
    BY <1>7, <1>9, ConcatIs
  <2>2. y \in Seq(S)
    BY <2>1 DEF Joint
  <2> HIDE DEF y
  <2>3. Joint(g, x, y, S)
    BY <1>8, <2>2, ConcatIs
  <2> HIDE DEF g
  <2>4. /\ Len(y) = 1 + 3 /\ \A i \in 1..1 : y[i] = u[i]
        /\ \A j \in 1..3 : y[1 + j] = t[j]
    BY <1>5, <1>9, <2>1 DEF Joint
  <2>5. /\ Len(g) = 1 + (1 + 3) /\ \A i \in 1..1 : g[i] = x[i]
        /\ \A j \in 1..4 : g[1 + j] = y[j]
    BY <1>8, <2>3, <2>4 DEF Joint
  <2>6. g[1] = a
    BY <1>8, <2>5
  <2>7. g[1 + 1] = y[1] /\ y[1] = ch
    BY <1>9, <2>4, <2>5
  <2>8. ASSUME NEW j \in 1..3
        PROVE  g[2 + j] # ch
    <3>1. 1 + j \in 1..4 /\ 1 + (1 + j) = 2 + j
      OBVIOUS
    <3>2. g[1 + (1 + j)] = y[1 + j] /\ y[1 + j] = t[j]
      BY <2>4, <2>5, <3>1
    <3>3. t[j] \in G
      <4>1. j + 1 \in 1..4 /\ t[j] = s[j + 1]
        BY <1>5
      <4> QED
        BY <1>1, <4>1
    <3> QED
      BY <1>11, <3>1, <3>2, <3>3
  <2> QED
    BY <1>6, <1>11, <2>5, <2>6, <2>7, <2>8
<1> HIDE DEF g
<1>15. ASSUME NEW i \in 1..5
       PROVE  (g[i] = ch) = ((5 - i) % 4 = 3)
  <2>1. CASE i = 1
    BY <1>14, <2>1
  <2>2. CASE i = 2
    BY <1>14, <2>2
  <2>3. CASE i \in 3..5
    <3>1. i - 2 \in 1..3 /\ 2 + (i - 2) = i
      BY <2>3
    <3>2. g[i] # ch
      BY <1>14, <3>1
    <3>3. 5 - i \in 0..2 /\ \A k \in 0..2 : k % 4 # 3
      BY <2>3
    <3> QED
      BY <3>2, <3>3
  <2> QED
    BY <2>1, <2>2, <2>3
<1>16. insert_grouping_char(s, ch) = g
  BY <1>3, <1>4, <1>10, <1>13
<1> QED
  BY <1>12, <1>13, <1>14, <1>15, <1>16 DEF Grouped, ch

\* What padding to w promises of the digits s.
Padded(s, w) ==
    LET p == pad(s, "0", w, TRUE)
    IN  /\ Len(p) = Max({w, Len(s)}) /\ IsSuffix(s, p)
        /\ Reverse(pad(Reverse(s), "0", w, FALSE)) = p

\* Zeros on the left of s, or on the right of s turned around.
LEMMA PaddingIs ==
    ASSUME NEW S, "0" \in S, NEW s \in Seq(S), NEW w \in Nat
    PROVE  Padded(s, w)
<1> DEFINE c == "0"
           n == Len(s)
           r == Reverse(s)
           k == w - n
           z == Times(c, k)
           p == z \o s
           q == r \o z
           v == Reverse(q)
<1>1. n \in Nat /\ c \in S
  OBVIOUS
<1>2. Max({w, n}) = IF w >= n THEN w ELSE n
  BY <1>1, MaxOfTwo
<1>3. r \in Seq(S) /\ Len(r) = n /\ \A i \in 1..n : r[i] = s[(n - i) + 1]
  BY TurnedIs
<1> HIDE DEF r, c, n
<1>4. CASE w = 0 \/ w <= n
  <2>1. pad(s, c, w, TRUE) = s /\ pad(r, c, w, FALSE) = r
    BY <1>3, <1>4 DEF pad, n
  <2>2. Max({w, n}) = n
    BY <1>1, <1>2, <1>4
  <2>3. IsSuffix(s, s)
    <3> DEFINE e == <<>>
    <3>1. e \in Seq(S) /\ e \o s = s
      BY ConcatEmptySeq
    <3> HIDE DEF e
    <3>2. Joint(s, e, s, S)
      BY <3>1, ConcatIs
    <3> QED
      BY <3>1, <3>2, SuffixIs
  <2>4. Reverse(r) = s
    <3> DEFINE x == Reverse(r)
    <3>1. x \in Seq(S) /\ Len(x) = n /\ \A i \in 1..n : x[i] = r[(n - i) + 1]
      BY <1>3, TurnedIs
    <3> HIDE DEF x
    <3>2. ASSUME NEW i \in 1..n
          PROVE  x[i] = s[i]
      <4>1. (n - i) + 1 \in 1..n /\ (n - ((n - i) + 1)) + 1 = i
        BY <1>1
      <4> QED
        BY <1>3, <3>1, <4>1
    <3>3. x = s
      BY <3>1, <3>2, SeqEqual DEF n
    <3> QED
      BY <3>3 DEF x
  <2> QED
    BY <2>1, <2>2, <2>3, <2>4 DEF Padded, c, r, n
<1>5. CASE ~(w = 0 \/ w <= n)
  <2>1. pad(s, c, w, TRUE) = p /\ pad(r, c, w, FALSE) = q
    BY <1>3, <1>5 DEF pad, n
  <2>2. k \in Nat /\ k + n = w /\ Max({w, n}) = w
    BY <1>1, <1>2, <1>5
  <2> HIDE DEF k
  <2>3. z \in Seq(S) /\ Len(z) = k /\ \A i \in 1..k : z[i] = c
    BY <1>1, <2>2 DEF Times
  <2> HIDE DEF z
  <2>4. Joint(p, z, s, S)
    BY <2>3, ConcatIs
  <2>5. Joint(q, r, z, S)
    BY <1>3, <2>3, ConcatIs
  <2> HIDE DEF p, q
  <2>6. IsSuffix(s, p)
    BY <2>3, <2>4, SuffixIs
  <2>7. /\ p \in Seq(S) /\ Len(p) = w /\ \A i \in 1..k : p[i] = c
        /\ \A j \in 1..n : p[k + j] = s[j]
    BY <2>2, <2>3, <2>4 DEF Joint, n
  <2>8. /\ q \in Seq(S) /\ Len(q) = w /\ \A i \in 1..n : q[i] = r[i]
        /\ \A j \in 1..k : q[n + j] = c
    <3>1. /\ q \in Seq(S) /\ Len(q) = Len(r) + Len(z) /\ \A i \in 1..Len(r) : q[i] = r[i]
          /\ \A j \in 1..Len(z) : q[Len(r) + j] = z[j]
      BY <2>5 DEF Joint
    <3>2. /\ q \in Seq(S) /\ Len(q) = n + k /\ \A i \in 1..n : q[i] = r[i]
          /\ \A j \in 1..k : q[n + j] = z[j]
      BY <1>3, <2>3, <3>1
    <3>3. n + k = w
      BY <1>1, <2>2
    <3> QED
      BY <2>3, <3>2, <3>3
  <2>9. v \in Seq(S) /\ Len(v) = w /\ \A i \in 1..w : v[i] = q[(w - i) + 1]
    BY <2>8, TurnedIs
  <2> HIDE DEF v
  <2>10. ASSUME NEW i \in 1..w
         PROVE  v[i] = p[i]
    <3>1. CASE i \in 1..k
      <4> DEFINE j == (k - i) + 1
      <4>1. j \in 1..k /\ (w - i) + 1 = n + j
        BY <1>1, <2>2, <3>1
      <4>2. v[i] = q[n + j]
        BY <2>9, <4>1
      <4> HIDE DEF j
      <4> QED
        BY <2>7, <2>8, <3>1, <4>1, <4>2
    <3>2. CASE i > k
      <4> DEFINE j == i - k
                 h == (n - j) + 1
      <4>1. j \in 1..n /\ h \in 1..n /\ (w - i) + 1 = h /\ k + j = i /\ (n - h) + 1 = j
        BY <1>1, <2>2, <3>2
      <4>2. v[i] = q[h]
        BY <2>9, <4>1
      <4> HIDE DEF j, h
      <4>3. q[h] = r[h] /\ r[h] = s[(n - h) + 1]
        BY <1>3, <2>8, <4>1
      <4>4. p[k + j] = s[j]
        BY <2>7, <4>1
      <4> QED
        BY <4>1, <4>2, <4>3, <4>4
    <3> QED
      BY <2>2, <3>1, <3>2
  <2>11. v = p
    BY <2>7, <2>9, <2>10, SeqEqual
  <2> QED
    BY <2>1, <2>2, <2>6, <2>7, <2>11 DEF Padded, c, r, n, v
<1> QED
  BY <1>4, <1>5

\* The hundredths of n / 1024 are the nearest.
LEMMA HundredthsNear ==
    ASSUME NEW n \in Nat
    PROVE  /\ Hundredths(n) \in 0..n
           /\ 1024 * Hundredths(n) <= 100 * n + 512 /\ 100 * n <= 1024 * Hundredths(n) + 512
<1> DEFINE x == 100 * n
           q == x \div 1024
           r == x % 1024
<1>1. x \in Nat
  OBVIOUS
<1> HIDE DEF x
<1>2. q \in Nat /\ r \in 0..1023 /\ x = 1024 * q + r
  BY <1>1
<1>3. Hundredths(n) = IF r > 512 \/ (r = 512 /\ q % 2 = 1) THEN q + 1 ELSE q
  BY DEF Hundredths, x
<1> HIDE DEF q, r
<1>4. CASE r > 512 \/ (r = 512 /\ q % 2 = 1)
  <2>1. Hundredths(n) = q + 1 /\ r >= 512
    BY <1>2, <1>3, <1>4
  <2> QED
    BY <1>2, <2>1 DEF x
<1>5. CASE ~(r > 512 \/ (r = 512 /\ q % 2 = 1))
  <2>1. Hundredths(n) = q /\ r <= 512
    BY <1>2, <1>3, <1>5
  <2> QED
    BY <1>2, <2>1 DEF x
<1> QED
  BY <1>4, <1>5

\* Numbers as text: grouping, padding and two decimals, for every n.  (The
\* digits are those of n itself below 10000, where Decimal ends.)
THEOREM NumbersExact ==
    ASSUME NEW n \in Nat
    PROVE  NumberExact(n)
<1> DEFINE G == Range(Digit)
           s == to_string(n)
           g == insert_grouping_char(s, ",")
           r == Hundredths(n)
           whole == n \div 1024
           b == <<Dot>> \o Tail(Decimal(100 + (r % 100)))
<1>1. s = Decimal(n)
  BY DEF to_string
<1>2. whole \in Nat
  OBVIOUS
<1>8. to_string_double(n, Dot) = to_string(whole) \o b
  BY DEF to_string_double
<1> HIDE DEF G, r, whole, s, g, b
<1>3. s \in Seq(G) /\ Len(s) \in 1..4
  BY <1>1, DecimalIs DEF G
<1>4. Grouped(s)
  <2>1. CASE Len(s) = 4
    BY <1>3, <2>1, LongGrouped DEF G
  <2>2. CASE Len(s) \in 1..3
    BY <1>3, <2>2, ShortGrouped DEF G
  <2> QED
    BY <1>3, <2>1, <2>2
<1>5. ASSUME NEW w \in 0..6
      PROVE  /\ Len(pad_left0(n, w)) = Max({w, Len(s)})
             /\ IsSuffix(s, pad_left0(n, w))
             /\ Reverse(pad(Reverse(s), "0", w, FALSE)) = pad_left0(n, w)
  <2>1. "0" \in G
    BY ONLY FiguresAre DEF G
  <2>2. w \in Nat
    OBVIOUS
  <2>3. Padded(s, w)
    BY <1>3, <2>1, <2>2, PaddingIs
  <2>4. pad_left0(n, w) = pad(s, "0", w, TRUE)
    BY DEF pad_left0, s
  <2> QED
    BY ONLY <2>3, <2>4 DEF Padded
<1>6. r \in 0..n /\ 1024 * r <= 100 * n + 512 /\ 100 * n <= 1024 * r + 512
  BY HundredthsNear DEF r
<1>7. only_digits(g) = s /\ \A i \in 1..Len(g) : (g[i] = ",") = ((Len(g) - i) % 4 = 3)
  BY ONLY <1>4 DEF Grouped, g
<1>9. \A w \in 0..6 : /\ Len(pad_left0(n, w)) = Max({w, Len(s)})
                      /\ IsSuffix(s, pad_left0(n, w))
                      /\ Reverse(pad(Reverse(s), "0", w, FALSE)) = pad_left0(n, w)
  BY <1>5
<1>10. to_string(whole) = Decimal(whole)
  BY <1>2 DEF to_string
<1>11. r \div 100 = whole => to_string_double(n, Dot) = Decimal(r \div 100) \o b
  BY ONLY <1>8, <1>10
<1>12. \E k \in 0..n :
          /\ 1024 * k <= 100 * n + 512 /\ 100 * n <= 1024 * k + 512
          /\ k \div 100 = whole =>
                to_string_double(n, Dot)
                  = Decimal(k \div 100) \o (<<Dot>> \o Tail(Decimal(100 + (k % 100))))
  BY ONLY <1>6, <1>11, Zenon DEF b
<1> QED
  BY ONLY <1>7, <1>9, <1>12, Zenon DEF NumberExact, s, g, whole

-----------------------------------------------------------------------------
(***************************************************************************)
(* CS.                                                                     *)
(***************************************************************************)

CSChars == Codes \cup {NUL}

\* The array d holds w and a null behind it.
Holds(d, w) ==
    /\ Len(w) < Len(d)
    /\ \A i \in 1..Len(w) : d[i] = w[i]
    /\ d[Len(w) + 1] = NUL

\* The inductive invariant: not only does the array read as the string, the
\* string has room for the null that ends it.
CSInd == CSTypeOK /\ (~overrun => Holds(cs, wanted))

\* Strings of code points are sequences.
LEMMA StringsAre ==
    ASSUME NEW n \in Nat, NEW s \in Strings(n)
    PROVE  s \in Seq(Codes) /\ Len(s) \in Nat /\ \A i \in 1..Len(s) : s[i] \in Codes
<1>1. PICK k \in 0..n : s \in [1..k -> Codes]
  BY DEF Strings
<1>2. s \in Seq(Codes)
  BY <1>1
<1> QED
  BY <1>2, LenProperties, ElementOfSeq

\* length() and str() find a string that ends with a null.
LEMMA HoldsReads ==
    ASSUME NEW d \in Seq(CSChars), NEW w \in Seq(Codes), Holds(d, w)
    PROVE  length(d) = Len(w) /\ str(d) = w
<1> DEFINE P(n) == /\ \A i \in 1..n : d[i] # NUL
                   /\ n = Len(d) \/ d[n + 1] = NUL
           m == Len(w)
<1>1. /\ m \in Nat /\ Len(d) \in Nat /\ m < Len(d) /\ m \in 0..Len(d)
      /\ \A i \in 1..m : d[i] = w[i] /\ d[i] \in Codes
      /\ d[m + 1] = NUL
  BY LenProperties, ElementOfSeq DEF Holds
<1>2. NUL \notin Codes
  BY CStringAssumption
<1> HIDE DEF m
<1>3. P(m)
  BY <1>1, <1>2
<1>4. ASSUME NEW n \in 0..Len(d), P(n)
      PROVE  n = m
  <2>1. CASE n < m
    <3>1. n + 1 \in 1..m /\ n # Len(d)
      BY <1>1, <2>1
    <3> QED
      BY <1>1, <1>2, <1>4, <3>1
  <2>2. CASE n > m
    <3>1. m + 1 \in 1..n
      BY <1>1, <2>2
    <3> QED
      BY <1>1, <1>4, <3>1
  <2> QED
    BY <1>1, <2>1, <2>2
<1>5. length(d) = CHOOSE n \in 0..Len(d) : P(n)
  BY DEF length
<1> HIDE DEF P
<1>6. length(d) = m
  BY <1>1, <1>3, <1>4, <1>5
<1>7. SubSeq(d, 1, m) = w
  <2>1. \A i \in 1..m : d[i] \in Codes
    BY <1>1
  <2>2. /\ SubSeq(d, 1, m) \in Seq(Codes)
        /\ Len(SubSeq(d, 1, m)) = m
        /\ \A i \in 1..m : SubSeq(d, 1, m)[i] = d[i]
    BY <1>1, <2>1, SubSeqProperties
  <2>3. m = Len(w) /\ \A i \in 1..m : SubSeq(d, 1, m)[i] = w[i]
    BY <1>1, <2>2 DEF m
  <2> QED
    BY <2>2, <2>3, SeqEqual
<1> QED
  BY <1>6, <1>7 DEF str, m

\* The array of an object as a sequence.
LEMMA ArrayIsSeq ==
    ASSUME NEW d \in [1..MAX -> CSChars]
    PROVE  d \in Seq(CSChars) /\ Len(d) = MAX
BY CStringAssumption

\* Nulls behind a string leave the string.
LEMMA FilledHolds ==
    ASSUME NEW w \in Seq(Codes), NEW n \in Nat \ {0}
    PROVE  /\ w \o fill_null(n) \in Seq(CSChars)
           /\ Len(w \o fill_null(n)) = Len(w) + n
           /\ Holds(w \o fill_null(n), w)
<1> DEFINE z == fill_null(n)
<1>1. z \in [1..n -> CSChars] /\ z[1] = NUL
  BY DEF fill_null, CSChars
<1>2. z \in Seq(CSChars) /\ Len(z) = n
  BY <1>1
<1>3. w \in Seq(CSChars) /\ Len(w) \in Nat
  BY LenProperties DEF CSChars
<1> HIDE DEF z
<1> DEFINE d == w \o z
<1>4. /\ d \in Seq(CSChars) /\ Len(d) = Len(w) + Len(z)
      /\ \A i \in 1..Len(w) + Len(z) : d[i] = IF i <= Len(w) THEN w[i] ELSE z[i - Len(w)]
  BY <1>2, <1>3, ConcatProperties
<1> HIDE DEF d
<1>5. Len(w) + 1 \in 1..Len(w) + Len(z) /\ (Len(w) + 1) - Len(w) = 1 /\ ~(Len(w) + 1 <= Len(w))
  BY <1>2, <1>3
<1>6. d[Len(w) + 1] = NUL
  BY <1>1, <1>4, <1>5
<1>7. ASSUME NEW i \in 1..Len(w)
      PROVE  d[i] = w[i]
  <2>1. i \in 1..Len(w) + Len(z) /\ i <= Len(w)
    BY <1>2, <1>3
  <2> QED
    BY <1>4, <2>1
<1>8. Len(w) < Len(d)
  BY <1>2, <1>3, <1>4
<1>9. Holds(d, w)
  BY <1>6, <1>7, <1>8 DEF Holds
<1> QED
  BY <1>2, <1>4, <1>9 DEF d, z

\* The default constructor makes the empty string.
LEMMA CSIndInit == CSInit => CSInd
<1> SUFFICES ASSUME CSInit PROVE CSInd
  OBVIOUS
<1>1. MAX \in Nat \ {0} /\ MAX >= 1
  BY CStringAssumption
<1>2. cs \in [1..MAX -> CSChars] /\ cs[1] = NUL
  BY <1>1 DEF CSInit, fill_null, CSChars
<1>3. wanted = <<>> /\ wanted \in Seq(Codes) /\ Len(wanted) = 0 /\ overrun = FALSE
  BY EmptySeq DEF CSInit
<1>4. Len(cs) = MAX
  BY <1>2, ArrayIsSeq
<1>5. CSTypeOK
  BY <1>2, <1>3 DEF CSTypeOK, CSChars
<1> DEFINE w == wanted
<1>6. Len(w) = 0 /\ Len(w) + 1 = 1
  BY <1>3
<1>7. Holds(cs, w)
  <2> HIDE DEF w
  <2>1. Len(w) < Len(cs) /\ cs[Len(w) + 1] = NUL /\ 1..Len(w) = {}
    BY <1>1, <1>2, <1>4, <1>6
  <2> QED
    BY <2>1 DEF Holds
<1> QED
  BY <1>5, <1>7 DEF CSInd

\* copy keeps the invariant.
LEMMA CopyHolds ==
    ASSUME CSInd, NEW s \in Strings(MAX), copy(s)
    PROVE  CSInd'
<1>1. s \in Seq(Codes) /\ Len(s) \in Nat /\ Len(s) < MAX /\ MAX - Len(s) \in Nat \ {0}
  BY CStringAssumption, StringsAre DEF copy, Fits
<1>2. cs' = Copied(s) /\ wanted' = s /\ overrun' = overrun
  BY DEF copy
<1> DEFINE n == MAX - Len(s)
           d == s \o fill_null(n)
<1>3. d \in Seq(CSChars) /\ Len(d) = Len(s) + n /\ Holds(d, s)
  <2>1. n \in Nat \ {0}
    BY <1>1
  <2> HIDE DEF n
  <2> QED
    BY <1>1, <2>1, FilledHolds
<1>4. Len(s) + n = MAX
  BY <1>1, CStringAssumption
<1>5. cs' = d
  BY <1>2 DEF Copied
<1> HIDE DEF d, n
<1>6. d \in [1..MAX -> CSChars]
  BY <1>3, <1>4, LenProperties
<1> QED
  BY <1>1, <1>2, <1>3, <1>5, <1>6 DEF CSInd, CSTypeOK, CSChars

\* A write through operator[] keeps the invariant: a null cuts the string.
LEMMA SetHolds ==
    ASSUME CSInd, NEW i \in 1..MAX, NEW c \in CSChars, set_at(i, c)
    PROVE  CSInd'
<1> DEFINE m == Len(wanted)
<1>1. /\ ~overrun /\ ~overrun' /\ cs \in [1..MAX -> CSChars] /\ wanted \in Seq(Codes)
      /\ Holds(cs, wanted) /\ cs' = [cs EXCEPT ![i] = c]
      /\ wanted' = IF c = NUL THEN SubSeq(wanted, 1, i - 1) ELSE [wanted EXCEPT ![i] = c]
      /\ i \in 1..length(cs) /\ overrun' \in BOOLEAN
  BY DEF CSInd, CSTypeOK, set_at, CSChars
<1>2. cs \in Seq(CSChars) /\ Len(cs) = MAX /\ length(cs) = Len(wanted)
  BY <1>1, ArrayIsSeq, HoldsReads
<1>3. /\ m \in Nat /\ m < MAX /\ i \in 1..m /\ i \in Nat /\ cs[m + 1] = NUL
      /\ \A j \in 1..m : cs[j] = wanted[j] /\ wanted[j] \in Codes
  BY <1>1, <1>2, LenProperties, ElementOfSeq DEF Holds
<1>4. MAX \in Nat /\ cs' \in [1..MAX -> CSChars] /\ Len(cs') = MAX
      /\ cs'[i] = c /\ \A j \in 1..MAX : j # i => cs'[j] = cs[j]
  <2>1. cs' \in [1..MAX -> CSChars] /\ cs'[i] = c /\ \A j \in 1..MAX : j # i => cs'[j] = cs[j]
    BY <1>1
  <2> QED
    BY <2>1, CStringAssumption, ArrayIsSeq
<1> HIDE DEF m
<1>5. wanted' \in Seq(Codes) /\ Holds(cs', wanted')
  <2>1. CASE c = NUL
    <3> DEFINE k == i - 1
               w == SubSeq(wanted, 1, k)
    <3>1. k \in Nat /\ k < m /\ k + 1 = i /\ k < MAX /\ \A j \in 1..k : j \in 1..m /\ j \in 1..MAX /\ j # i
      BY <1>3, <1>4
    <3>2. wanted' = w
      BY <1>1, <2>1
    <3> HIDE DEF k
    <3>3. w \in Seq(Codes) /\ Len(w) = k /\ \A j \in 1..k : w[j] = wanted[j]
      <4>1. \A j \in 1..k : wanted[j] \in Codes
        BY <1>3, <3>1
      <4> QED
        BY <3>1, <4>1, SubSeqProperties
    <3> HIDE DEF w
    <3>4. \A j \in 1..k : cs'[j] = w[j]
      BY <1>3, <1>4, <3>1, <3>3
    <3>5. cs'[k + 1] = NUL
      BY <1>4, <2>1, <3>1
    <3> QED
      BY <1>4, <3>1, <3>2, <3>3, <3>4, <3>5 DEF Holds
  <2>2. CASE c # NUL
    <3> DEFINE w == [wanted EXCEPT ![i] = c]
    <3>1. c \in Codes /\ wanted' = w
      BY <1>1, <2>2 DEF CSChars
    <3>2. i \in 1..Len(wanted) /\ Len(wanted) = m
      BY <1>3 DEF m
    <3>3. w \in Seq(Codes) /\ Len(w) = m /\ \A j \in 1..m : w[j] = IF j = i THEN c ELSE wanted[j]
      BY <1>1, <3>1, <3>2, ExceptSeq
    <3> HIDE DEF w
    <3>4. m + 1 \in 1..MAX /\ m + 1 # i /\ \A j \in 1..m : j \in 1..MAX
      BY <1>3, <1>4
    <3>5. \A j \in 1..m : cs'[j] = w[j]
      BY <1>3, <1>4, <3>3, <3>4
    <3> QED
      BY <1>3, <1>4, <3>1, <3>3, <3>4, <3>5 DEF Holds
  <2> QED
    BY <2>1, <2>2
<1> QED
  BY <1>1, <1>4, <1>5 DEF CSInd, CSTypeOK, CSChars

\* operator+= keeps the invariant, or says that it has overrun the array.
LEMMA AppendHolds ==
    ASSUME CSInd, NEW s \in Strings(MAX), append(s)
    PROVE  CSInd'
<1> DEFINE m == Len(wanted)
           k == Len(s)
           w == wanted \o s
<1>1. /\ ~overrun /\ cs \in [1..MAX -> CSChars] /\ wanted \in Seq(Codes)
      /\ Holds(cs, wanted) /\ cs' = Appended(cs, s) /\ wanted' = w
      /\ length(cs) + k <= MAX /\ overrun' = (length(cs) + k = MAX)
  BY DEF CSInd, CSTypeOK, append, CSChars
<1>2. cs \in Seq(CSChars) /\ Len(cs) = MAX /\ length(cs) = m /\ MAX \in Nat
  BY <1>1, ArrayIsSeq, HoldsReads, CStringAssumption
<1>3. /\ m \in Nat /\ m < MAX /\ cs[m + 1] = NUL
      /\ \A j \in 1..m : cs[j] = wanted[j]
  BY <1>1, <1>2, LenProperties DEF Holds
<1>4. s \in Seq(Codes) /\ k \in Nat /\ \A j \in 1..k : s[j] \in Codes
  BY <1>2, StringsAre
<1>5. /\ w \in Seq(Codes) /\ Len(w) = m + k
      /\ \A j \in 1..m + k : w[j] = IF j <= m THEN wanted[j] ELSE s[j - m]
  BY <1>1, <1>4, ConcatProperties
<1>6. cs' = [i \in 1..MAX |-> IF i - m \in 1..k THEN s[i - m]
                              ELSE IF i = m + k + 1 THEN NUL ELSE cs[i]]
  BY <1>1, <1>2 DEF Appended
<1> HIDE DEF m, k, w
<1>7. cs' \in [1..MAX -> CSChars]
  <2>1. \A i \in 1..MAX : (IF i - m \in 1..k THEN s[i - m]
                              ELSE IF i = m + k + 1 THEN NUL ELSE cs[i]) \in CSChars
    BY <1>1, <1>4 DEF CSChars
  <2> QED
    BY <1>6, <2>1
<1>8. Len(cs') = MAX
  BY <1>7, ArrayIsSeq
<1>9. ASSUME ~overrun'
      PROVE  Holds(cs', w)
  <2>1. m + k < MAX
    <3>1. m + k <= MAX /\ m + k # MAX
      BY <1>1, <1>2, <1>9 DEF k
    <3> QED
      BY <1>2, <1>3, <1>4, <3>1
  <2>2. ASSUME NEW j \in 1..m + k
        PROVE  cs'[j] = w[j]
    <3>1. j \in 1..MAX /\ j # m + k + 1
      BY <1>2, <1>3, <1>4, <2>1
    <3>2. CASE j <= m
      <4>1. j \in 1..m /\ ~(j - m \in 1..k)
        BY <1>3, <1>4, <3>2
      <4>2. cs'[j] = cs[j]
        BY <1>6, <3>1, <4>1
      <4> QED
        BY <1>3, <1>5, <3>2, <4>1, <4>2
    <3>3. CASE ~(j <= m)
      <4>1. j - m \in 1..k
        BY <1>3, <1>4, <3>3
      <4>2. cs'[j] = s[j - m]
        BY <1>6, <3>1, <4>1
      <4> QED
        BY <1>5, <3>3, <4>2
    <3> QED
      BY <3>2, <3>3
  <2>3. cs'[m + k + 1] = NUL
    <3>1. m + k + 1 \in 1..MAX /\ ~((m + k + 1) - m \in 1..k)
      BY <1>2, <1>3, <1>4, <2>1
    <3> QED
      BY <1>6, <3>1
  <2> QED
    BY <1>5, <1>8, <2>1, <2>2, <2>3 DEF Holds
<1>10. overrun' \in BOOLEAN
  BY <1>1
<1> QED
  BY <1>1, <1>5, <1>7, <1>9, <1>10 DEF CSInd, CSTypeOK, CSChars

\* Every step of a CS keeps the invariant.
LEMMA CSIndNext == CSInd /\ [CSNext]_csVars => CSInd'
<1> SUFFICES ASSUME CSInd, [CSNext]_csVars PROVE CSInd'
  OBVIOUS
<1>1. CASE UNCHANGED csVars
  BY <1>1 DEF CSInd, CSTypeOK, Holds, csVars
<1>2. CASE CSNext
  BY <1>2, CopyHolds, AppendHolds, SetHolds DEF CSNext, CSChars
<1> QED
  BY <1>1, <1>2

\* string + CS reads as the two together.
LEMMA ConcatReads ==
    ASSUME CSInd, ~overrun, NEW s \in Strings(MAX), Len(s) + length(cs) + 1 <= MAX
    PROVE  str(StringConcat(s, cs)) = s \o str(cs)
<1> DEFINE w == s \o wanted
           n == Len(cs) + 1 - Len(s) - length(cs)
<1>1. cs \in [1..MAX -> CSChars] /\ wanted \in Seq(Codes) /\ Holds(cs, wanted) /\ MAX \in Nat
  BY CStringAssumption DEF CSInd, CSTypeOK, CSChars
<1>2. /\ cs \in Seq(CSChars) /\ Len(cs) = MAX /\ length(cs) = Len(wanted) /\ str(cs) = wanted
      /\ Len(wanted) \in Nat
  BY <1>1, ArrayIsSeq, HoldsReads, LenProperties
<1>3. s \in Seq(Codes) /\ Len(s) \in Nat
  BY <1>1, StringsAre
<1>4. n \in Nat \ {0}
  BY <1>1, <1>2, <1>3
<1>5. w \in Seq(Codes)
  BY <1>1, <1>3, ConcatProperties
<1>6. StringConcat(s, cs) = w \o fill_null(n)
  BY <1>2 DEF StringConcat
<1> HIDE DEF w, n
<1>7. w \o fill_null(n) \in Seq(CSChars) /\ Holds(w \o fill_null(n), w)
  BY <1>4, <1>5, FilledHolds
<1> DEFINE d == w \o fill_null(n)
<1>8. d \in Seq(CSChars) /\ Holds(d, w)
  BY <1>7
<1> HIDE DEF d
<1>9. str(d) = w
  BY <1>5, <1>8, HoldsReads
<1> QED
  BY <1>2, <1>6, <1>9 DEF d, w

\* For strings of any size, and any mix of copies, appends and writes through
\* operator[]: a CS reads as what was put into it, alone and behind a
\* string, and ends with a null, until an append fills it to the last
\* element.
THEOREM StringsCorrect == CSSpec => []StringsExact
<1>1. CSInit => CSInd
  BY CSIndInit
<1>2. CSInd /\ [CSNext]_csVars => CSInd'
  BY CSIndNext
<1>3. ASSUME CSInd
      PROVE  StringsExact
  <2>1. CSTypeOK
    BY <1>3 DEF CSInd
  <2>2. ReadsAsWritten
    <3> SUFFICES ASSUME ~overrun
                 PROVE  length(cs) < MAX /\ str(cs) = wanted
      BY DEF ReadsAsWritten
    <3>1. cs \in [1..MAX -> CSChars] /\ wanted \in Seq(Codes) /\ Holds(cs, wanted)
      BY <1>3 DEF CSInd, CSTypeOK, CSChars
    <3>2. cs \in Seq(CSChars) /\ Len(cs) = MAX
      BY <3>1, ArrayIsSeq
    <3> QED
      BY <3>1, <3>2, HoldsReads DEF Holds
  <2>3. ConcatExact
    BY <1>3, ConcatReads DEF ConcatExact
  <2> QED
    BY <2>1, <2>2, <2>3 DEF StringsExact
<1> QED
  BY <1>1, <1>2, <1>3, PTL DEF CSSpec

\* What is compared is a number, and 0 for the null only.
LEMMA FoldedIs ==
    ASSUME NEW c \in CSChars
    PROVE  Folded(c) \in Int /\ (Folded(c) = 0 <=> c = NUL)
<1>1. /\ Codes \subseteq Int \ {0}
      /\ \A x \in Codes : tolower[x] \in Int \ {0} /\ copy_remove_accent[x] \in Codes
  BY CStringAssumption DEF NUL
<1>2. CASE c = NUL
  BY <1>2 DEF Folded, NUL
<1>3. CASE c # NUL
  <2> DEFINE base == IF Accent_sensitive \/ c = NUL THEN c ELSE copy_remove_accent[c]
  <2>1. c \in Codes
    BY <1>3 DEF CSChars
  <2>2. base \in Codes
    BY <1>1, <2>1
  <2>3. Folded(c) = IF Case_sensitive \/ c = NUL THEN base ELSE tolower[base]
    BY DEF Folded
  <2> HIDE DEF base
  <2>4. Folded(c) \in Int \ {0}
    BY <1>1, <2>2, <2>3
  <2> QED
    BY <1>1, <1>3, <2>4
<1> QED
  BY <1>2, <1>3

\* An array that copy has filled: characters up to its length, then nulls.
IsArray(d) ==
    /\ length(d) \in Nat /\ length(d) < MAX
    /\ \A i \in 1..length(d) : d[i] \in Codes
    /\ \A i \in 1..MAX : d[i] \in CSChars /\ (i > length(d) => d[i] = NUL)

\* The arrays are those.
LEMMA ArraysAre ==
    ASSUME NEW d \in Arrays
    PROVE  IsArray(d)
<1>1. MAX \in Nat /\ MAX - 1 \in Nat
  BY CStringAssumption
<1>2. PICK w \in Strings(MAX - 1) : d = Copied(w)
  BY DEF Arrays
<1>3. w \in Seq(Codes) /\ Len(w) \in Nat /\ \A i \in 1..Len(w) : w[i] \in Codes
  <2> DEFINE n == MAX - 1
  <2>1. n \in Nat /\ w \in Strings(n)
    BY <1>1
  <2> HIDE DEF n
  <2> QED
    BY <2>1, StringsAre
<1>4. Len(w) <= MAX - 1
  <2>1. PICK k \in 0..MAX - 1 : w \in [1..k -> Codes]
    BY DEF Strings
  <2>2. Len(w) = k
    BY <2>1
  <2> QED
    BY <1>1, <2>2
<1> DEFINE n == MAX - Len(w)
           z == fill_null(n)
<1>5. n \in Nat \ {0} /\ d = w \o z
  BY <1>1, <1>2, <1>3, <1>4 DEF Copied
<1> HIDE DEF n
<1>6. d \in Seq(CSChars) /\ Len(d) = Len(w) + n /\ Holds(d, w)
  BY <1>3, <1>5, FilledHolds
<1>7. length(d) = Len(w) /\ Len(d) = MAX
  <2>1. length(d) = Len(w)
    BY <1>3, <1>6, HoldsReads
  <2>2. Len(d) = MAX
    BY <1>1, <1>3, <1>6 DEF n
  <2> QED
    BY <2>1, <2>2
<1>8. \A i \in 1..Len(w) : d[i] \in Codes
  BY <1>3, <1>6 DEF Holds
<1>9. \A i \in 1..MAX : d[i] \in CSChars
  BY <1>6, <1>7, ElementOfSeq
<1>10. ASSUME NEW i \in 1..MAX, i > Len(w)
       PROVE  d[i] = NUL
  <2> DEFINE j == i - Len(w)
  <2>1. j \in 1..n /\ i = Len(w) + j
    BY <1>1, <1>3, <1>10 DEF n
  <2>2. z \in Seq(CSChars) /\ Len(z) = n /\ z[j] = NUL
    <3>1. z = [k \in 1..n |-> NUL]
      BY DEF fill_null
    <3>2. z \in [1..n -> CSChars] /\ z[j] = NUL
      BY <2>1, <3>1 DEF CSChars
    <3> QED
      BY <1>5, <3>2
  <2> HIDE DEF z, j
  <2>3. w \in Seq(CSChars)
    BY <1>3 DEF CSChars
  <2>4. (w \o z)[Len(w) + j] = z[j]
    BY <1>3, <1>5, <2>1, <2>2, <2>3
  <2> QED
    BY <1>5, <2>1, <2>2, <2>4
<1> QED
  BY <1>1, <1>3, <1>4, <1>7, <1>8, <1>9, <1>10 DEF IsArray

\* An array is less in each of its characters; if it is longer, one of these
\* is below the null.
LEMMA LessIsBelow ==
    ASSUME NEW d, NEW e, IsArray(d), IsArray(e), Less(d, e)
    PROVE  /\ less(d[1], e[1]) /\ \A i \in 1..length(d) : less(d[i], e[i])
           /\ length(d) > length(e) => \E i \in 1..length(d) : less(d[i], NUL)
<1> DEFINE n == length(d)
           m == length(e)
<1>1. /\ n \in Nat /\ m \in Nat /\ n < MAX /\ m < MAX /\ MAX \in Nat
      /\ \A i \in 1..MAX : i > m => e[i] = NUL
  BY CStringAssumption DEF IsArray
<1>2. less(d[1], e[1]) /\ \A i \in 2..n : less(d[i], e[i])
  BY DEF Less
<1> HIDE DEF n, m
<1>3. ASSUME NEW i \in 1..n
      PROVE  less(d[i], e[i])
  <2>1. i = 1 \/ i \in 2..n
    BY <1>1
  <2> QED
    BY <1>2, <2>1
<1>4. ASSUME n > m
      PROVE  \E i \in 1..n : less(d[i], NUL)
  <2> DEFINE i == m + 1
  <2>1. i \in 1..n /\ i \in 1..MAX /\ i > m
    BY <1>1, <1>4
  <2> HIDE DEF i
  <2>2. e[i] = NUL /\ less(d[i], e[i])
    BY <1>1, <1>3, <2>1
  <2> QED
    BY <2>1, <2>2
<1> QED
  BY <1>1, <1>2, <1>3, <1>4 DEF n, m

\* operator< of CS agrees with operator== and is irreflexive and asymmetric,
\* and transitive unless a string is less than a shorter one, for arrays of
\* every size, every alphabet, and each of the flags for case and accents.
THEOREM LessOrders == LessIsOrder
<1> DEFINE F(c) == Folded(c)
<1>0. MAX \in Nat /\ 1 \in 1..MAX
  BY CStringAssumption
<1>1. ASSUME NEW d \in Arrays, NEW e \in Arrays, Less(d, e)
      PROVE  ~Equal(d, e) /\ ~Less(e, d)
  <2>1. IsArray(d) /\ IsArray(e)
    BY ArraysAre
  <2>2. F(d[1]) \in Int /\ F(e[1]) \in Int /\ F(d[1]) < F(e[1])
    <3>1. d[1] \in CSChars /\ e[1] \in CSChars
      BY <1>0, <2>1 DEF IsArray
    <3>2. F(d[1]) \in Int /\ F(e[1]) \in Int
      BY <3>1, FoldedIs
    <3> QED
      BY <1>1, <3>2 DEF Less, less
  <2>3. ~Less(e, d)
    <3> HIDE DEF F
    <3>1. ~(F(e[1]) < F(d[1]))
      BY <2>2
    <3> QED
      BY <3>1 DEF Less, less, F
  <2>4. ASSUME Equal(d, e)
        PROVE  FALSE
    <3>1. length(d) = length(e) /\ \A i \in 1..length(d) : F(d[i]) = F(e[i])
      BY <2>4 DEF Equal, equal
    <3>2. length(d) \in Nat /\ \A i \in 1..MAX : /\ i > length(d) => d[i] = NUL
                                                 /\ i > length(e) => e[i] = NUL
      BY <2>1 DEF IsArray
    <3>3. CASE length(d) = 0
      <4>1. d[1] = NUL /\ e[1] = NUL
        BY <1>0, <3>1, <3>2, <3>3
      <4> QED
        BY <2>2, <4>1
    <3>4. CASE length(d) # 0
      <4>1. 1 \in 1..length(d)
        BY <3>2, <3>4
      <4>2. F(d[1]) = F(e[1])
        BY <3>1, <4>1
      <4> HIDE DEF F
      <4> QED
        BY <2>2, <4>2
    <3> QED
      BY <3>3, <3>4
  <2> QED
    BY <2>3, <2>4
<1>2. ASSUME NEW d \in Arrays, NEW e \in Arrays
      PROVE  Equal(d, e) = (\A i \in 1..MAX : equal(d[i], e[i]))
  <2> DEFINE n == length(d)
             m == length(e)
  <2>1. /\ n \in Nat /\ m \in Nat /\ n < MAX /\ m < MAX
        /\ \A i \in 1..MAX : /\ d[i] \in CSChars /\ e[i] \in CSChars
                             /\ i > n => d[i] = NUL
                             /\ i > m => e[i] = NUL
        /\ \A i \in 1..n : d[i] # NUL
        /\ \A i \in 1..m : e[i] # NUL
    <3>1. IsArray(d) /\ IsArray(e) /\ NUL \notin Codes
      BY ArraysAre, CStringAssumption
    <3> QED
      BY <3>1 DEF IsArray
  <2>2. Equal(d, e) <=> (n = m /\ \A i \in 1..n : equal(d[i], e[i]))
    BY DEF Equal
  <2> HIDE DEF n, m
  <2>3. ASSUME n = m, \A i \in 1..n : equal(d[i], e[i]), NEW i \in 1..MAX
        PROVE  equal(d[i], e[i])
    <3>1. CASE i \in 1..n
      BY <2>3, <3>1
    <3>2. CASE i > n
      BY <2>1, <2>3, <3>2 DEF equal
    <3> QED
      BY <2>1, <3>1, <3>2
  <2>4. ASSUME \A i \in 1..MAX : equal(d[i], e[i])
        PROVE  n = m /\ \A i \in 1..n : equal(d[i], e[i])
    <3>1. ASSUME NEW i \in 1..MAX
          PROVE  d[i] = NUL <=> e[i] = NUL
      <4>1. F(d[i]) = F(e[i])
        BY <2>4 DEF equal
      <4>2. (F(d[i]) = 0 <=> d[i] = NUL) /\ (F(e[i]) = 0 <=> e[i] = NUL)
        BY <2>1, FoldedIs
      <4> HIDE DEF F
      <4> QED
        BY <4>1, <4>2
    <3>2. ~(n < m)
      <4> SUFFICES ASSUME n < m
                   PROVE  FALSE
        OBVIOUS
      <4> DEFINE i == n + 1
      <4>1. i \in 1..MAX /\ i > n /\ i \in 1..m
        BY <1>0, <2>1
      <4> HIDE DEF i
      <4> QED
        BY <2>1, <3>1, <4>1
    <3>3. ~(m < n)
      <4> SUFFICES ASSUME m < n
                   PROVE  FALSE
        OBVIOUS
      <4> DEFINE i == m + 1
      <4>1. i \in 1..MAX /\ i > m /\ i \in 1..n
        BY <1>0, <2>1
      <4> HIDE DEF i
      <4> QED
        BY <2>1, <3>1, <4>1
    <3>4. n = m
      BY <2>1, <3>2, <3>3
    <3>5. 1..n \subseteq 1..MAX
      BY <1>0, <2>1
    <3> QED
      BY <2>4, <3>4, <3>5
  <2>5. Equal(d, e) \in BOOLEAN
    BY DEF Equal
  <2> DEFINE Same == \A i \in 1..MAX : equal(d[i], e[i])
  <2>6. Equal(d, e) <=> Same
    BY <2>2, <2>3, <2>4
  <2>7. Same \in BOOLEAN
    OBVIOUS
  <2> HIDE DEF Same
  <2>8. Equal(d, e) = Same
    BY <2>5, <2>6, <2>7
  <2> QED
    BY <2>8 DEF Same
<1>3. ASSUME NEW d \in Arrays, NEW e \in Arrays, NEW f \in Arrays, Less(d, e), Less(e, f),
             length(d) <= length(e)
      PROVE  Less(d, f)
  <2>1. IsArray(d) /\ IsArray(e) /\ IsArray(f)
    BY ArraysAre
  <2>2. less(d[1], e[1]) /\ \A i \in 1..length(d) : less(d[i], e[i])
    BY <1>3, <2>1, LessIsBelow
  <2>3. less(e[1], f[1]) /\ \A i \in 1..length(e) : less(e[i], f[i])
    BY <1>3, <2>1, LessIsBelow
  <2>4. length(d) \in Nat /\ length(e) \in Nat /\ length(d) < MAX
    BY <2>1 DEF IsArray
  <2>5. ASSUME NEW i \in 1..MAX, less(d[i], e[i]), less(e[i], f[i])
        PROVE  less(d[i], f[i])
    <3>1. d[i] \in CSChars /\ e[i] \in CSChars /\ f[i] \in CSChars
      BY <2>1 DEF IsArray
    <3>2. F(d[i]) \in Int /\ F(e[i]) \in Int /\ F(f[i]) \in Int
      BY <3>1, FoldedIs
    <3>3. F(d[i]) < F(e[i]) /\ F(e[i]) < F(f[i])
      BY <2>5 DEF less
    <3> HIDE DEF F
    <3>4. F(d[i]) < F(f[i])
      BY <3>2, <3>3
    <3> QED
      BY <3>4 DEF less, F
  <2>6. less(d[1], f[1])
    BY <1>0, <2>2, <2>3, <2>5
  <2>7. ASSUME NEW i \in 2..length(d)
        PROVE  less(d[i], f[i])
    <3>1. i \in 1..length(d) /\ i \in 1..length(e) /\ i \in 1..MAX
      BY <1>0, <1>3, <2>4
    <3> QED
      BY <2>2, <2>3, <2>5, <3>1
  <2> QED
    BY <2>6, <2>7 DEF Less
<1>4. ASSUME NEW d \in Arrays, NEW e \in Arrays, NEW f \in Arrays, Equal(d, e)
      PROVE  Less(d, f) = Less(e, f)
  <2>1. \A i \in 1..MAX : F(d[i]) = F(e[i])
    BY <1>2, <1>4 DEF equal
  <2>2. length(d) = length(e)
    BY <1>4 DEF Equal
  <2>3. length(d) \in Nat /\ length(d) < MAX
    BY ArraysAre DEF IsArray
  <2> DEFINE n == length(d)
  <2>4. \A i \in 2..n : i \in 1..MAX
    BY <1>0, <2>3
  <2>5. Less(d, f) <=> (F(d[1]) < F(f[1]) /\ \A i \in 2..n : F(d[i]) < F(f[i]))
    BY DEF Less, less
  <2>6. Less(e, f) <=> (F(e[1]) < F(f[1]) /\ \A i \in 2..n : F(e[i]) < F(f[i]))
    BY <2>2 DEF Less, less
  <2> HIDE DEF F, n
  <2>7. Less(d, f) <=> Less(e, f)
    BY <1>0, <2>1, <2>4, <2>5, <2>6
  <2>8. Less(d, f) \in BOOLEAN /\ Less(e, f) \in BOOLEAN
    BY DEF Less
  <2> QED
    BY <2>7, <2>8
<1>5. ASSUME NEW d \in Arrays, NEW e \in Arrays, Less(d, e)
      PROVE  ~Equal(d, e) /\ LessEqual(d, e) /\ ~LessEqual(e, d)
  BY <1>1, <1>5 DEF LessEqual
<1> HIDE DEF F
<1>6. ASSUME NEW d \in Arrays, NEW e \in Arrays
      PROVE  /\ Less(d, e) => ~Equal(d, e) /\ LessEqual(d, e) /\ ~LessEqual(e, d)
             /\ Less(d, e) /\ length(d) > length(e) => \E i \in 1..length(d) : less(d[i], NUL)
             /\ \A f \in Arrays :
                  /\ Less(d, e) /\ Less(e, f) /\ length(d) <= length(e) => Less(d, f)
                  /\ Equal(d, e) => (Less(d, f) = Less(e, f))
  <2>1. Less(d, e) => ~Equal(d, e) /\ LessEqual(d, e) /\ ~LessEqual(e, d)
    BY <1>5
  <2>2. ASSUME NEW f \in Arrays
        PROVE  Less(d, e) /\ Less(e, f) /\ length(d) <= length(e) => Less(d, f)
    BY <1>3
  <2>3. ASSUME NEW f \in Arrays
        PROVE  Equal(d, e) => (Less(d, f) = Less(e, f))
    BY <1>4
  <2>4. Less(d, e) /\ length(d) > length(e) => \E i \in 1..length(d) : less(d[i], NUL)
    BY ArraysAre, LessIsBelow
  <2> QED
    BY <2>1, <2>2, <2>3, <2>4
<1> QED
  BY <1>2, <1>6 DEF LessIsOrder
=============================================================================
