----------------------------- MODULE SortedList -----------------------------
(***************************************************************************)
(* SortedList<T, Compare> of sorted_list.hpp.  Elements are numbers, and   *)
(* Compare looks at Key only, so that different elements can be equivalent.*)
(***************************************************************************)
EXTENDS Integers, Sequences, SequencesExt, FiniteSets

CONSTANTS
    Elements,   \* numbers
    MaxList     \* bound: elements of the list

ASSUME ListAssumption == Elements \subseteq Int /\ MaxList \in Nat

Key(e)     == e \div 2
comp(a, b) == Key(a) < Key(b)

VARIABLES
    list,       \* data_
    unique,     \* unique_
    counts,     \* history: by key, how many there should be
    disturbed   \* history: was an element written to through at, [] or an
                \* iterator?

listVars == <<list, unique, counts, disturbed>>

Keys == {Key(e) : e \in Elements}

ListInit ==
    /\ list = <<>> /\ unique \in BOOLEAN
    /\ counts = [k \in Keys |-> 0] /\ disturbed = FALSE

\* std::lower_bound: a position with a lesser element before it and none
\* behind it.  There is one such position in a sorted list; in another one
\* it depends on the search.
LowerBounds(l, v) ==
    {i \in 1..Len(l) + 1 : /\ i > 1 => comp(l[i - 1], v)
                           /\ i <= Len(l) => ~comp(l[i], v)}

\* it != end() && !comp(*it, value) && !comp(value, *it)
Equivalent(l, i, v) == i <= Len(l) /\ ~comp(l[i], v) /\ ~comp(v, l[i])

\* Mutant: the place of the next element is taken.
Inserted_Over(l, i, v) ==
    IF i <= Len(l) THEN [l EXCEPT ![i] = v] ELSE Append(l, v)

Inserted(l, i, v) == InsertAt(l, i, v)

\* add, also of the constructors from lists and ranges.
add(v) ==
    \E i \in LowerBounds(list, v) :
        IF unique /\ Equivalent(list, i, v)
        THEN UNCHANGED listVars
        ELSE /\ Len(list) < MaxList
             /\ list' = Inserted(list, i, v)
             /\ counts' = [counts EXCEPT ![Key(v)] = @ + 1]
             /\ UNCHANGED <<unique, disturbed>>

\* find, contains: Len + 1 is end().
Found(l, v) ==
    {IF Equivalent(l, i, v) THEN i ELSE Len(l) + 1 : i \in LowerBounds(l, v)}

contains_value(l, v) == \E i \in Found(l, v) : i <= Len(l)

\* last, back: throws for an empty list.
has_last(l) == l # <<>>
last(l) == l[Len(l)]

\* Indices are one less in the code: index >= size throws.
validate_index(i) == i <= Len(list)

\* remove: the first one that is equivalent.
remove_value(v) ==
    \E i \in Found(list, v) :
        /\ i <= Len(list)
        /\ list' = RemoveAt(list, i)
        /\ counts' = [counts EXCEPT ![Key(v)] = @ - 1]
        /\ UNCHANGED <<unique, disturbed>>

remove_at(i) ==
    /\ validate_index(i)
    /\ list' = RemoveAt(list, i)
    /\ counts' = [counts EXCEPT ![Key(list[i])] = @ - 1]
    /\ UNCHANGED <<unique, disturbed>>

\* at, operator[], begin: the element can be assigned.
assign_at(i, v) ==
    /\ validate_index(i)
    /\ list' = [list EXCEPT ![i] = v]
    /\ counts' = [[counts EXCEPT ![Key(list[i])] = @ - 1] EXCEPT ![Key(v)] = @ + 1]
    /\ disturbed' = TRUE
    /\ UNCHANGED unique

set_unique(b) == unique' = b /\ UNCHANGED <<list, counts, disturbed>>

clear_list ==
    /\ list' = <<>> /\ counts' = [k \in Keys |-> 0]
    /\ UNCHANGED <<unique, disturbed>>

ListNext ==
    \/ \E v \in Elements : add(v) \/ remove_value(v)
    \/ \E i \in 1..MaxList : remove_at(i)
    \/ \E i \in 1..MaxList, v \in Elements : assign_at(i, v)
    \/ \E b \in BOOLEAN : set_unique(b)
    \/ clear_list

ListSpec == ListInit /\ [][ListNext]_listVars

-----------------------------------------------------------------------------
\* As long as nobody writes to an element the list is sorted, whatever is
\* added and removed and however often uniqueness is switched; find
\* finds a value exactly if an equivalent one was added and not removed; and
\* last is one of the greatest.
SortedKept ==
    ~disturbed =>
        /\ \A i, j \in 1..Len(list) : i < j => ~comp(list[j], list[i])
        /\ \A v \in Elements :
             contains_value(list, v) = (counts[Key(v)] > 0)
        /\ has_last(list) = (\E k \in Keys : counts[k] > 0)
        /\ has_last(list) =>
             \A k \in Keys : counts[k] > 0 => k <= Key(last(list))

\* Every element that add accepted and nothing took away is there, also in a
\* list whose order was broken by a write: searches may miss it, but nothing
\* is lost or doubled.
CountsExact ==
    \A k \in Keys :
        Cardinality({i \in 1..Len(list) : Key(list[i]) = k}) = counts[k]

\* Of equivalent elements the one added last comes first, and a list that
\* is unique takes no second one: add changes either nothing or one place.
AddIsExact ==
    ~disturbed =>
        \A v \in Elements : \A i \in LowerBounds(list, v) :
            /\ Inserted(list, i, v)
                 = SubSeq(list, 1, i - 1) \o <<v>> \o SubSeq(list, i, Len(list))
            /\ \A j \in 1..i - 1 : Key(list[j]) < Key(v)
            /\ Equivalent(list, i, v)
                 = (\E j \in 1..Len(list) : Key(list[j]) = Key(v))

\* SortedList keeps its order and its elements, and add changes one place.
ListExact == SortedKept /\ CountsExact /\ AddIsExact
=============================================================================
