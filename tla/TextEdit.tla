------------------------------ MODULE TextEdit ------------------------------
(***************************************************************************)
(* The functions of s.hpp that search a string again after every change:   *)
(* replace_substr finds o from the start, puts r in its place, and goes on *)
(* until o is not found.  remove and remove_substr, the case r = "", are   *)
(* operators of Text; remove_double_spaces repeats the loop for "  " and   *)
(* " " until it reports no change.                                         *)
(***************************************************************************)
EXTENDS Text

CONSTANTS
    Texts,     \* the strings the loop starts from
    Patterns,  \* the pairs <<o, r>>: what is replaced, and by what
    MaxText    \* bound: length the loop is followed to

VARIABLES
    text,      \* the string
    subst,     \* o and r
    replaced,  \* what the function will return
    looping    \* is it still in the loop?

textVars == <<text, subst, replaced, looping>>

\* The characters of the model: isalnum and isspace tell them apart.
TextChars == Alphanumeric \cup {Blank, ",", Dot}

ASSUME TextAssumption ==
    Texts \subseteq Seq(TextChars) /\ Patterns \subseteq Seq(TextChars) \X Seq(TextChars)

\* The empty string is turned away; an empty o is found in any other.
TextInit ==
    /\ text \in Texts /\ subst \in Patterns
    /\ replaced = FALSE /\ looping = (text # <<>>)

\* Mutant: s.insert(i, r).
Spliced_Inserts(s, i, n, r) == SubSeq(s, 1, i - 1) \o r \o SubSeq(s, i, Len(s))

\* s.replace(i, n, r)
Spliced(s, i, n, r) == SubSeq(s, 1, i - 1) \o r \o SubSeq(s, i + n, Len(s))

replace_substr ==
    LET o == subst[1]
        r == subst[2]
    IN  /\ looping /\ Has(text, o)
        /\ Len(text) + Len(r) - Len(o) <= MaxText
        /\ text' = Spliced(text, Min(Occurrences(text, o)), Len(o), r)
        /\ replaced' = TRUE
        /\ UNCHANGED <<subst, looping>>

\* Mutant: one replacement is enough.
replace_ends_Once ==
    /\ looping /\ (replaced \/ ~Has(text, subst[1]))
    /\ looping' = FALSE
    /\ UNCHANGED <<text, subst, replaced>>

replace_ends ==
    /\ looping /\ ~Has(text, subst[1])
    /\ looping' = FALSE
    /\ UNCHANGED <<text, subst, replaced>>

TextNext == replace_substr \/ replace_ends

TextSpec == TextInit /\ [][TextNext]_textVars

-----------------------------------------------------------------------------
(***************************************************************************)
(* Correctness.                                                            *)
(***************************************************************************)

\* A replacement that is shorter than what it replaces comes to an end:
\* remove_double_spaces and the removals return, whatever the text.  (With
\* r = "ab" and o = "b", or with an empty o, the loop never ends.)
ReplaceEnds == Len(subst[2]) < Len(subst[1]) ~> ~looping

\* When the loop is over the text is free of o, also of the occurrences
\* that a replacement has put together from what was left and right of it.
ReplaceExact ==
    ~looping /\ text # <<>> => ~Has(text, subst[1])

\* remove leaves no occurrence, and it does not matter that it searches from
\* the left: the reversed pattern removed from the reversed text gives the
\* same.  Taken off one at a time, the characters that are neither letters
\* nor digits leave what only_alpha_numeric leaves.
RemoveExact ==
    /\ \A o \in {<<"a">>, <<" ", " ">>, <<"a", ",">>, <<"a", ",", ".">>} :
         /\ ~Has(remove(o, text), o)
         /\ reverse(remove(reverse(o), reverse(text))) = remove(o, text)
    /\ only_alpha_numeric(text) =
         remove(<<" ">>, remove(<<",">>, remove(<<".">>, text)))

\* The strings of p put together with ch in between.
Join(p, ch) == Tail(FlattenSeq([k \in DOMAIN p |-> <<ch>> \o p[k]]))

\* The fields of split put together again with the separator are the
\* string and no field holds the separator; with the default arguments no
\* field is empty or has blanks around it, unless there was no separator,
\* and nothing but separators and blanks is lost.  remove_ext takes the
\* last of the fields between dots.  remove_delimiters takes one pair off
\* and no single delimiter; it throws only for text with one field before
\* and one after the delimiter, both empty.
SplitExact ==
    \A ch \in {",", Dot} :
        LET raw == split(text, ch, FALSE, TRUE)
            def == split(text, ch, TRUE, FALSE)
        IN  /\ Join(raw, ch) = text
            /\ \A k \in DOMAIN raw : ~Has(raw[k], <<ch>>)
            /\ Has(text, <<ch>>) =>
                 /\ \A k \in DOMAIN def : def[k] # <<>> /\ trim(def[k]) = def[k]
                 /\ ch = Dot => remove_ext(text) = Join(Front(raw), ch)
            /\ remove_blanks(FlattenSeq(def)) =
                 Without(text, {ch, Blank})
            /\ remove_delimiters(ch, <<ch>> \o text \o <<ch>>) = text
            /\ delimiters_throw(ch, text) <=> raw = <<<<>>, <<>>>>
            /\ LET inner == remove_delimiters(ch, text) IN
               inner # text /\ ~delimiters_throw(ch, text) =>
                 text = <<ch>> \o inner \o <<ch>>

\* Texts after replacement and removal, and texts split, hold just what they
\* should.
TextExact == ReplaceExact /\ RemoveExact /\ SplitExact
=============================================================================
