-------------------------------- MODULE Checks ------------------------------
(***************************************************************************)
(* Small value classes and algorithms: CArray, Result with its three-      *)
(* valued Bool, erase_if and constraints.  An array is a sequence of Size  *)
(* elements; index and count are size_t, which wraps at Wrap.              *)
(***************************************************************************)
EXTENDS Integers, Sequences, SequencesExt, FiniteSetsExt

CONSTANTS Size,  \* elements of an array
          Wrap   \* values of size_t (2^64)

ASSUME ChecksAssumption == Size \in Nat \ {0} /\ Wrap \in Nat /\ Wrap > Size

-----------------------------------------------------------------------------
(***************************************************************************)
(* CArray                                                                  *)
(***************************************************************************)

\* From an initializer list: the rest is zero, what is too much is dropped.
CArray(init) == [i \in 1..Size |-> IF i <= Len(init) THEN init[i] ELSE 0]

\* at throws, operator[] does not ask.
at_throws(index) == index >= Size

Clamped(count) == IF count > Size THEN Size ELSE count

\* The elements, from 0, that a comparison looks at, or None if it says
\* false before it looks.
None == {-1}

compare_first(count) == 0..Clamped(count) - 1

\* start + count may wrap.
compare_range(start, count) ==
    IF start >= Size \/ (start + count) % Wrap > Size THEN None
    ELSE start..start + count - 1

starts_with(pattern) == IF Len(pattern) > Size THEN None ELSE 0..Len(pattern) - 1

\* contains: the first index, or 0xffffffff and an error.
contains(a, element) ==
    LET at == {i \in 0..Size - 1 : a[i + 1] = element}
    IN  IF at = {} THEN [found |-> FALSE, index |-> Wrap - 1]
        ELSE [found |-> TRUE, index |-> Min(at)]

fill(a, value, count) ==
    [i \in 1..Size |-> IF i <= Clamped(count) THEN value ELSE a[i]]

-----------------------------------------------------------------------------
(***************************************************************************)
(* Result: what was assigned to it, one after the other.                   *)
(***************************************************************************)

Bools == {"T", "F", "UNKNOWN"}

\* Bool's conversion to bool.
AsBool(b) == b = "T"

Result(v) == [mresult |-> v, mok |-> "T", error |-> FALSE]

\* The operators = for a value, a Bool and an error message; [kind, v].
Assign(r, a) ==
    CASE a.kind = "value" -> [r EXCEPT !.mresult = a.v]
      [] a.kind = "bool"  -> [r EXCEPT !.mok = a.v]
      [] a.kind = "error" -> [r EXCEPT !.mok = "F", !.error = TRUE]

After(assigned) ==
    LET r[k \in 0..Len(assigned)] ==
            IF k = 0 THEN Result("first") ELSE Assign(r[k - 1], assigned[k])
    IN  r[Len(assigned)]

-----------------------------------------------------------------------------
(***************************************************************************)
(* algorithm_util: a walk is [left, at], a map in key order and the place  *)
(* of its iterator.                                                        *)
(***************************************************************************)

\* Mutant: the iterator is advanced after an erase, too.
erase_step_Skips(w, S) ==
    IF w.at > Len(w.left) THEN w
    ELSE IF w.left[w.at] \in S
         THEN [left |-> RemoveAt(w.left, w.at), at |-> w.at + 1]
         ELSE [w EXCEPT !.at = @ + 1]

\* One turn of the loop of erase_if for a map, if it is not over.
erase_step(w, S) ==
    IF w.at > Len(w.left) THEN w
    ELSE IF w.left[w.at] \in S THEN [w EXCEPT !.left = RemoveAt(w.left, w.at)]
    ELSE [w EXCEPT !.at = @ + 1]

erase_if_map(s, S) ==
    LET walk[k \in 0..Len(s)] ==
            IF k = 0 THEN [left |-> s, at |-> 1] ELSE erase_step(walk[k - 1], S)
    IN  walk[Len(s)]

\* The entries of s that are in S, in their order.
Those(s, S) ==
    LET those[k \in 0..Len(s)] ==
            IF k = 0 THEN <<>>
            ELSE IF s[k] \in S THEN Append(those[k - 1], s[k]) ELSE those[k - 1]
    IN  those[Len(s)]

\* erase_if of a container, erase after remove_if; copy_if to res.
erase_if(s, S)     == Those(s, Range(s) \ S)
copy_if(s, res, S) == res \o Those(s, S)

-----------------------------------------------------------------------------
(***************************************************************************)
(* Constraints over a value t.                                             *)
(***************************************************************************)

\* RangeConstraint::ok
RangeOk(r, t) == t >= r[1] /\ t <= r[2]

AndOperand(l, r) == l /\ r
OrOperand(l, r)  == l \/ r
XorOperand(l, r) == l # r

\* CompositeConstraint::ok
CompositeOk(op, l, r) ==
    CASE op = "AND" -> AndOperand(l, r)
      [] op = "OR"  -> OrOperand(l, r)
      [] op = "XOR" -> XorOperand(l, r)

-----------------------------------------------------------------------------
(***************************************************************************)
(* Correctness.                                                            *)
(***************************************************************************)

\* No comparison looks beyond the array, whatever start and count are, as
\* long as their sum does not wrap: then the check of compare_range lets it
\* through.
ComparesInside(start, count) ==
    /\ compare_first(count) \subseteq 0..Size - 1
    /\ start + count < Wrap =>
          LET seen == compare_range(start, count) IN
          seen # None => seen \subseteq 0..Size - 1 /\ ~at_throws(start)

\* contains finds the first element of an array that it is in, also the
\* zero of a part that was not given; after fill the value is the first.
ContainsExact(init, element, count) ==
    LET a == CArray(init)
        c == contains(a, element)
        f == contains(fill(a, element, count), element)
    IN  /\ c.found <=> element \in Range(a)
        /\ c.found => /\ a[c.index + 1] = element /\ ~at_throws(c.index)
                      /\ \A i \in 1..c.index : a[i] # element
        /\ count > 0 => f.found /\ f.index = 0
        /\ c.found => f.found /\ f.index <= c.index

\* Once an error has been assigned, values do not make the result good
\* again: only a Bool T does, and then the error's text is still there.
\* UNKNOWN is not good.
ResultExact(assigned) ==
    LET r == After(assigned)
        Decides(i) == /\ assigned[i].kind # "value"
                      /\ \A j \in i + 1..Len(assigned) : assigned[j].kind = "value"
    IN  /\ AsBool(r.mok) <=> \A i \in DOMAIN assigned :
                               Decides(i) => assigned[i].kind = "bool" /\ assigned[i].v = "T"
        /\ r.error <=> \E i \in DOMAIN assigned : assigned[i].kind = "error"

\* The walk that erases while it goes visits every entry: it is at the end
\* when it has made as many turns as there were entries, and what is left
\* is what erase_if leaves of a container, and with what copy_if takes,
\* all there was.
EraseExact(s, S) ==
    LET w == erase_if_map(s, S) IN
    /\ w.at = Len(w.left) + 1
    /\ w.left = erase_if(s, S)
    /\ ToBag(copy_if(s, w.left, S)) = ToBag(s)

\* A composite of two ranges holds for the intersection, the union and the
\* symmetric difference of the values.
ConstraintsExact(l, r, T) ==
    LET L == l[1]..l[2]
        R == r[1]..r[2]
        Holds(op) == {t \in T : CompositeOk(op, RangeOk(l, t), RangeOk(r, t))}
    IN  /\ Holds("AND") = L \cap R \cap T
        /\ Holds("OR")  = (L \cup R) \cap T
        /\ Holds("XOR") = ((L \cup R) \ (L \cap R)) \cap T
=============================================================================
