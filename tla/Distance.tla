------------------------------ MODULE Distance ------------------------------
(***************************************************************************)
(* distance.hpp: the number of insertions, deletions, substitutions and    *)
(* transpositions between two strings, computed row by row, and the        *)
(* nearest element of a container.                                         *)
(***************************************************************************)
EXTENDS Icu

CONSTANT NoMatch    \* the empty pair min_distance_map_key returns

\* Mutant: the row before the last instead of the one before that.
Swapped_WrongRow(row1, row2, j, best) == Min({best, row2[j - 1] + 1})

\* A transposition, from the row of i - 2.  (row[j] in the code is row[j + 1].)
Swapped(row1, row2, j, best) == Min({best, row1[j - 1] + 1})

\* One cell of the row of i.
Cell(s, t, i, j, row1, row2, row3) ==
    LET cost == IF s[i] = t[j] THEN 0 ELSE 1
        best == Min({row3[j] + 1, row2[j + 1] + 1, row2[j] + cost})
    IN  IF i > 1 /\ j > 1 /\ s[i] = t[j - 1] /\ t[j] = s[i - 1]
        THEN Swapped(row1, row2, j, best) ELSE best

\* The cells of row3 from left to right.
AddCell(s, t, i, j, row1, row2, row3) ==
    Append(row3, Cell(s, t, i, j, row1, row2, row3))

NextRow(s, t, i, row1, row2) ==
    LET row3[j \in 0..Len(t)] ==
          IF j = 0 THEN <<i>> ELSE AddCell(s, t, i, j, row1, row2, row3[j - 1])
    IN  row3[Len(t)]

\* row1 and row2 are rotated after every character of s.
Rotated(s, t, i, rows) == <<rows[2], NextRow(s, t, i, rows[1], rows[2])>>

distance(s, t) ==
    LET zeros == [j \in 1..Len(t) + 1 |-> 0]
        first == [j \in 1..Len(t) + 1 |-> j - 1]
        rows[i \in 0..Len(s)] ==
          IF i = 0 THEN <<zeros, first>> ELSE Rotated(s, t, i, rows[i - 1])
    IN  IF s = <<>> THEN Len(t)
        ELSE IF t = <<>> THEN Len(s)
        ELSE rows[Len(s)][2][Len(t) + 1]

\* icu_distance is the same computation on code points.
icu_distance(s, t) == distance(to_codepoints(s), to_codepoints(t))

\* min_distance: the first element with the least distance.
Nearer(s, min, x) == IF distance(x, s) < distance(min, s) THEN x ELSE min

min_distance(s, c) ==
    LET min[k \in 0..Len(c)] ==
          IF k = 0 THEN c[1] ELSE Nearer(s, min[k - 1], c[k])
    IN  min[Len(c)]

min_distance_map_key(s, c, max_distance) ==
    LET min == min_distance(s, c)
    IN  IF distance(min, s) <= max_distance THEN min ELSE NoMatch

-----------------------------------------------------------------------------
(***************************************************************************)
(* Correctness.                                                            *)
(***************************************************************************)

\* The strings one edit away from s, over the characters A.
Edits(s, A) ==
    {RemoveAt(s, i) : i \in DOMAIN s}
    \cup {InsertAt(s, i, a) : i \in 1..Len(s) + 1, a \in A}
    \cup {[s EXCEPT ![i] = a] : i \in DOMAIN s, a \in A}
    \cup {[s EXCEPT ![i] = s[i + 1], ![i + 1] = s[i]] : i \in 1..Len(s) - 1}

\* The distance is symmetric, 0 for equal strings only, 1 exactly for
\* strings one edit apart, at least the difference of the lengths, at most
\* the longer length, and a string appended to both adds nothing.  (It is
\* not a metric: two edits of the same place may count as three.)
\* icu_distance counts a character of two UTF-16 units as one edit.
DistanceExact(s, t, A) ==
    /\ distance(s, t) = distance(t, s)
    /\ (distance(s, t) = 0) = (s = t)
    /\ (distance(s, t) = 1) = (t \in Edits(s, A) \ {s})
    /\ distance(s, t) <= Max({Len(s), Len(t)})
    /\ distance(s, t) >= Max({Len(s) - Len(t), Len(t) - Len(s)})
    /\ \A a \in A : distance(Append(s, a), Append(t, a)) = distance(s, t)
    /\ \A a \in A :
         icu_distance(UnitsOf(s, {a}), UnitsOf(t, {a})) = distance(s, t)

\* min_distance gives the nearest element, the first one if several are; it
\* is what min_distance_map_key gives too, unless it is too far.
NearestExact(s, c) ==
    LET k == CHOOSE i \in DOMAIN c :
                 /\ \A j \in DOMAIN c : distance(c[i], s) <= distance(c[j], s)
                 /\ \A j \in 1..i - 1 : distance(c[j], s) > distance(c[i], s)
    IN  /\ min_distance(s, c) = c[k]
        /\ \A d \in 0..2 :
             (min_distance_map_key(s, c, d) = NoMatch)
                = (\A x \in ToSet(c) : distance(x, s) > d)
=============================================================================
