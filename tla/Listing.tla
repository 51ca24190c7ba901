------------------------------- MODULE Listing ------------------------------
(***************************************************************************)
(* PersonDAO's lists.  name is a function from the ids of the rows of      *)
(* T_Person to names: to numbers in the order of the collation for         *)
(* list_all, to texts in lower case for find_by_last_name.                 *)
(***************************************************************************)
EXTENDS Text

\* ORDER BY last_name, first_name: equal names come in any order.
Orders(name) ==
    {s \in [1..Cardinality(DOMAIN name) -> DOMAIN name] :
        /\ \A m, n \in DOMAIN s : m # n => s[m] # s[n]
        /\ \A m, n \in DOMAIN s : m < n => name[s[m]] <= name[s[n]]}

\* LIMIT :lim OFFSET :off
Page(s, limit, offset) == SubSeq(s, offset + 1, Min({offset + limit, Len(s)}))

\* The results that list_all may have.
list_all(name, limit, offset) == {Page(s, limit, offset) : s \in Orders(name)}

\* like_pattern: what the pattern has of LIKE's own signs stays as it is.
LikePattern(pattern) == <<"%">> \o pattern \o <<"%">>

\* One more sign c of a pattern, last if it is the last one: reached has the
\* numbers of characters of s that the signs so far may stand for, escaped
\* says that a backslash came before.
LikeSign(s, st, c, last) ==
    LET literal == {k \in 1..Len(s) : k - 1 \in st.reached /\ c = s[k]}
        single  == {k \in 1..Len(s) : k - 1 \in st.reached /\ c \in {"_", s[k]}}
        any     == {k \in 0..Len(s) : \E i \in st.reached : i <= k}
    IN  IF st.escaped THEN [reached |-> literal, escaped |-> FALSE]
        ELSE IF c = "%" THEN [reached |-> any, escaped |-> FALSE]
        ELSE IF c = "\\" /\ ~last THEN [reached |-> st.reached, escaped |-> TRUE]
        ELSE [reached |-> single, escaped |-> FALSE]

\* LIKE: the signs of p may stand for all of s.
Like(s, p) ==
    LET match[j \in 0..Len(p)] ==
          IF j = 0 THEN [reached |-> {0}, escaped |-> FALSE]
          ELSE LikeSign(s, match[j - 1], p[j], j = Len(p))
    IN  Len(s) \in match[Len(p)].reached

find_by_last_name(name, pattern) ==
    {i \in DOMAIN name : Like(name[i], LikePattern(pattern))}

-----------------------------------------------------------------------------
\* The pages of list_all together hold every person once if no two persons
\* have the same name.  With equal names the order may change from call to
\* call: a person may be on two pages or on none, but each page is in order
\* and the pages have the right number of rows.
PagesExact(name) ==
    LET n == Cardinality(DOMAIN name) IN
    \A limit \in 1..n :
        \A first \in list_all(name, limit, 0), second \in list_all(name, limit, limit) :
            /\ Len(first) + Len(second) = Min({n, 2 * limit})
            /\ Cardinality({name[i] : i \in DOMAIN name}) = n =>
                  /\ ToSet(first) \cap ToSet(second) = {}
                  /\ \A i \in ToSet(first), j \in DOMAIN name \ ToSet(first) :
                        name[i] < name[j]

\* A pattern without percent sign, underscore and backslash finds the names
\* that contain it.  Percent signs and underscores only find more; after a
\* backslash a name that contains the pattern may be missed.
FindsContaining(s, pattern) ==
    LET found == find_by_last_name([i \in {1} |-> s], pattern) = {1}
        signs == ToSet(pattern)
    IN  /\ signs \cap {"%", "_", "\\"} = {} => found = Has(s, pattern)
        /\ "\\" \notin signs /\ Has(s, pattern) => found
=============================================================================
