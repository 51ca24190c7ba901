------------------------------ MODULE CString -------------------------------
(***************************************************************************)
(* CS<MIN, MAX, CaseSensitive, AccentSensitive> of cs.hpp: a string in an  *)
(* array of MAX characters, which ends at the first null character.        *)
(* Characters are their codes: of a char, which is signed by default, the  *)
(* codes beyond ASCII are negative.  std::tolower, which is not defined    *)
(* for these, and ICU's removal of accents are given as functions.         *)
(***************************************************************************)
EXTENDS Integers, Sequences, SequencesExt

CONSTANTS
    MIN, MAX,                       \* template parameters of CS
    Case_sensitive, Accent_sensitive,
    Codes,                          \* codes of characters, without 0
    tolower, copy_remove_accent     \* functions on codes

NUL == 0

ASSUME CStringAssumption ==
    /\ MIN \in Nat /\ MAX \in Nat /\ MIN < MAX
    /\ Codes \subseteq Int \ {NUL}
    /\ Case_sensitive \in BOOLEAN /\ Accent_sensitive \in BOOLEAN
    /\ \A c \in Codes : tolower[c] \in Int \ {NUL} /\ copy_remove_accent[c] \in Codes

Strings(n) == UNION {[1..k -> Codes] : k \in 0..n}

-----------------------------------------------------------------------------
(***************************************************************************)
(* Characters.                                                             *)
(***************************************************************************)

\* What equal and less compare, by the two template flags.
Folded(c) ==
    LET base == IF Accent_sensitive \/ c = NUL THEN c ELSE copy_remove_accent[c]
    IN  IF Case_sensitive \/ c = NUL THEN base ELSE tolower[base]

equal(c, c2) == Folded(c) = Folded(c2)
less(c, c2)  == Folded(c) < Folded(c2)

-----------------------------------------------------------------------------
(***************************************************************************)
(* An array of characters, its length and its comparisons.                 *)
(***************************************************************************)

fill_null(n) == [i \in 1..n |-> NUL]

\* length(): up to the first null character.  Without one it would read
\* beyond the array; that is not followed.
length(d) ==
    CHOOSE n \in 0..Len(d) :
        /\ \A i \in 1..n : d[i] # NUL
        /\ n = Len(d) \/ d[n + 1] = NUL

str(d) == SubSeq(d, 1, length(d))

\* copy throws otherwise.
Fits(n) == n < MAX /\ n >= MIN

\* copy: the array is filled with nulls first.
Copied(s) == s \o fill_null(MAX - Len(s))

\* operator==
Equal(d, e) ==
    /\ length(d) = length(e)
    /\ \A i \in 1..length(d) : equal(d[i], e[i])

\* operator<: every character of d is less than the one of e, which is null
\* beyond the end of e.
Less(d, e) ==
    /\ less(d[1], e[1])
    /\ \A i \in 2..length(d) : less(d[i], e[i])

LessEqual(d, e) == ~Less(e, d)

-----------------------------------------------------------------------------
(***************************************************************************)
(* Concatenations.  The overloads for two CS of different sizes, arrays    *)
(* and characters cannot be called: they deduce int from a size_t.         *)
(***************************************************************************)

\* Mutant: the terminator is not written.
Appended_NoTerminator(d, s) ==
    [i \in 1..Len(d) |->
        IF i - length(d) \in 1..Len(s) THEN s[i - length(d)] ELSE d[i]]

\* operator+= and operator+: s goes over the terminator, a new one is set.
Appended(d, s) ==
    LET n == length(d) IN
    [i \in 1..Len(d) |-> IF i - n \in 1..Len(s) THEN s[i - n]
                         ELSE IF i = n + Len(s) + 1 THEN NUL ELSE d[i]]

\* string + CS: throws unless both, and a null, fit in N = Len(e).
StringConcat(s, e) == s \o str(e) \o fill_null(Len(e) + 1 - Len(s) - length(e))

-----------------------------------------------------------------------------
(***************************************************************************)
(* One CS object.                                                          *)
(***************************************************************************)
VARIABLES
    cs,       \* its array
    wanted,   \* history: what a std::string would hold
    overrun   \* history: has += written to data[MAX]?

csVars == <<cs, wanted, overrun>>

\* The type invariant.
CSTypeOK ==
    /\ cs \in [1..MAX -> Codes \cup {NUL}]
    /\ wanted \in Seq(Codes) /\ overrun \in BOOLEAN

\* The default constructor.
CSInit == cs = fill_null(MAX) /\ wanted = <<>> /\ overrun = FALSE

\* copy, the constructors from strings, operator= and read.
copy(s) ==
    /\ ~overrun /\ Fits(Len(s))
    /\ cs' = Copied(s)
    /\ wanted' = s
    /\ UNCHANGED overrun

\* operator[] and at give write access to every element.  A character
\* behind the end, or a null before it, is not a change of the string that
\* a std::string would make, so the index is one of a character.
set_at(i, c) ==
    /\ ~overrun /\ i \in 1..length(cs)
    /\ cs' = [cs EXCEPT ![i] = c]
    /\ wanted' = IF c = NUL THEN SubSeq(wanted, 1, i - 1)
                 ELSE [wanted EXCEPT ![i] = c]
    /\ UNCHANGED overrun

\* operator+= lets a sum of MAX pass, and the terminator is then written to
\* data[MAX], outside the array.
append(s) ==
    /\ ~overrun /\ length(cs) + Len(s) <= MAX
    /\ cs' = Appended(cs, s)
    /\ wanted' = wanted \o s
    /\ overrun' = (length(cs) + Len(s) = MAX)

CSNext ==
    \/ \E s \in Strings(MAX) : copy(s)
    \/ \E s \in Strings(MAX) : append(s)
    \/ \E i \in 1..MAX, c \in Codes \cup {NUL} : set_at(i, c)

CSSpec == CSInit /\ [][CSNext]_csVars

-----------------------------------------------------------------------------
(***************************************************************************)
(* Correctness.                                                            *)
(***************************************************************************)

\* Whatever sequence of copies, appends and writes through operator[], old
\* characters behind a null included: the array reads as the string that
\* was put together, and it is terminated, until an append fills it to the
\* last element.
ReadsAsWritten ==
    ~overrun => length(cs) < MAX /\ str(cs) = wanted

Arrays == {Copied(s) : s \in Strings(MAX - 1)}

\* operator< is not the lexicographic order, but it agrees with operator==:
\* it never holds both ways or of equal strings, and equal strings are less
\* than the same strings.  A string can be less than a shorter one only if it
\* has a character below the null, as a char beyond ASCII is; but for that
\* it is transitive.
LessIsOrder ==
    \A d, e \in Arrays :
        /\ Less(d, e) => ~Equal(d, e) /\ LessEqual(d, e) /\ ~LessEqual(e, d)
        /\ Equal(d, e) = (\A i \in 1..MAX : equal(d[i], e[i]))
        /\ Less(d, e) /\ length(d) > length(e) => \E i \in 1..length(d) : less(d[i], NUL)
        /\ \A f \in Arrays :
             /\ Less(d, e) /\ Less(e, f) /\ length(d) <= length(e) => Less(d, f)
             /\ Equal(d, e) => (Less(d, f) = Less(e, f))

\* string + CS reads as the two together, whatever is left behind the end
\* of the second one.
ConcatExact ==
    ~overrun =>
      \A s \in Strings(MAX) : Len(s) + length(cs) + 1 <= MAX =>
         str(StringConcat(s, cs)) = s \o str(cs)

\* A CS reads as what was put into it, alone and behind a string.
StringsExact == CSTypeOK /\ ReadsAsWritten /\ ConcatExact
=============================================================================
