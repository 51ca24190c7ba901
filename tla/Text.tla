-------------------------------- MODULE Text --------------------------------
(***************************************************************************)
(* The string functions of s.hpp as operators.  A string is a sequence of  *)
(* characters; find, substr and erase are those of std::string.  The       *)
(* functions that search again after every change are in TextEdit.         *)
(***************************************************************************)
EXTENDS Integers, Sequences, SequencesExt

Blank  == " "
Dot    == "."
Minus  == "-"
Digit  == <<"0", "1", "2", "3", "4", "5", "6", "7", "8", "9">>

-----------------------------------------------------------------------------
(***************************************************************************)
(* Searching, trimming, splitting.                                         *)
(***************************************************************************)

\* Where o occurs in s.
Occurrences(s, o) ==
    {i \in 1..Len(s) - Len(o) + 1 : SubSeq(s, i, i + Len(o) - 1) = o}

Has(s, o) == Occurrences(s, o) # {}

Inked(s) == {i \in 1..Len(s) : s[i] # Blank}

rtrim(s) == IF Inked(s) = {} THEN <<>> ELSE SubSeq(s, 1, Max(Inked(s)))
ltrim(s) == IF Inked(s) = {} THEN <<>> ELSE SubSeq(s, Min(Inked(s)), Len(s))
trim(s)  == ltrim(rtrim(s))

\* One more character: a separator begins the next piece.
PieceChar(ps, c, ch) ==
    IF c = ch THEN Append(ps, <<>>) ELSE [ps EXCEPT ![Len(ps)] = Append(@, c)]

\* The pieces of s between the separators ch.
Pieces(s, ch) ==
    LET p[n \in 0..Len(s)] ==
          IF n = 0 THEN <<<<>>>> ELSE PieceChar(p[n - 1], s[n], ch)
    IN  p[Len(s)]

\* s without the elements of D.
Without(s, D) ==
    LET w[n \in 0..Len(s)] ==
          IF n = 0 THEN <<>>
          ELSE IF s[n] \in D THEN w[n - 1] ELSE Append(w[n - 1], s[n])
    IN  w[Len(s)]

\* split: without a separator the string goes in as it is, untrimmed and
\* even if empty.
split(s, ch, trim_elements, include_empty_fields) ==
    LET piece == [k \in DOMAIN Pieces(s, ch) |->
                    IF trim_elements THEN trim(Pieces(s, ch)[k])
                    ELSE Pieces(s, ch)[k]]
    IN  IF ~Has(s, <<ch>>) THEN <<s>>
        ELSE Without(piece, IF include_empty_fields THEN {} ELSE {<<>>})

only_digits(s)   == Without(s, Range(s) \ Range(Digit))
remove_blanks(s) == Without(s, {Blank})

\* isalnum, for the characters of the model.
Alphanumeric == Range(Digit) \cup {"a", "b", "c"}
only_alpha_numeric(s) == Without(s, Range(s) \ Alphanumeric)

reverse(s) == [i \in 1..Len(s) |-> s[Len(s) + 1 - i]]

\* erase of the first occurrence of o, if there is one
Erased(s, o) ==
    IF ~Has(s, o) THEN s
    ELSE LET i == Min(Occurrences(s, o))
         IN  SubSeq(s, 1, i - 1) \o SubSeq(s, i + Len(o), Len(s))

\* remove, copy_remove and remove_substr: they erase and search from the
\* start, at most once per character.  (An empty o is found for ever.)
remove(o, target) ==
    LET r[k \in 0..Len(target)] == IF k = 0 THEN target ELSE Erased(r[k - 1], o)
    IN  r[Len(target)]

\* remove_ext: from the last dot on, wherever it is.
remove_ext(s) ==
    LET dots == Occurrences(s, <<Dot>>)
    IN  IF dots = {} THEN s ELSE SubSeq(s, 1, Max(dots) - 1)

\* remove_delimiters: a lone delimiter is its own pair, and the second
\* erase throws out_of_range.
delimiters_throw(d, s) == s = <<d>>
remove_delimiters(d, s) ==
    IF s # <<>> /\ s[1] = d /\ s[Len(s)] = d THEN SubSeq(s, 2, Len(s) - 1) ELSE s

-----------------------------------------------------------------------------
(***************************************************************************)
(* Numbers.                                                                *)
(***************************************************************************)

Times(c, n) == [i \in 1..n |-> c]

\* pad, pad_copy: to a length of n.
pad(s, c, n, left) ==
    IF n = 0 \/ n <= Len(s) THEN s
    ELSE IF left THEN Times(c, n - Len(s)) \o s ELSE s \o Times(c, n - Len(s))

Tens == <<1, 10, 100, 1000>>

\* ss << n for n >= 0, below 10000.
Decimal(n) ==
    LET size == IF n < 10 THEN 1 ELSE IF n < 100 THEN 2 ELSE IF n < 1000 THEN 3 ELSE 4
    IN  [i \in 1..size |-> Digit[((n \div Tens[size - i + 1]) % 10) + 1]]

\* to_string<int>: the stream has already written the sign of a negative
\* number when another one is inserted.
to_string(n) ==
    IF n < 0 THEN <<Minus, Minus>> \o Decimal(-n) ELSE Decimal(n)

\* The positions insert_grouping_char puts a separator after: primeiro + 1,
\* and every third one after it.
GroupEnds(s) ==
    LET primeiro == IF Len(s) % 3 = 0 THEN 2 ELSE (Len(s) % 3) - 1
    IN  {k \in 1..Len(s) - 1 : k > primeiro /\ (k - primeiro - 1) % 3 = 0}

insert_grouping_char(s, ch) ==
    FlattenSeq([k \in 1..Len(s) |->
                  IF k \in GroupEnds(s) THEN <<s[k], ch>> ELSE <<s[k]>>])

\* A double is a binary fraction: n stands for n / 1024.  setprecision(2)
\* gives its nearest hundredths, of two equally near ones the even.
Hundredths(n) ==
    LET down == (100 * n) \div 1024
        rest == (100 * n) % 1024
    IN  IF rest > 512 \/ (rest = 512 /\ down % 2 = 1) THEN down + 1 ELSE down

\* to_string(double) with two decimals: the integer part is truncated, the
\* decimals are those of the rounded number, and they are found only if the
\* stream's point is the decimal separator asked for.
to_string_double(n, separator) ==
    LET decimals == IF separator = Dot
                    THEN <<Dot>> \o Tail(Decimal(100 + (Hundredths(n) % 100)))
                    ELSE <<Dot, "0", "0">>
    IN  to_string(n \div 1024) \o decimals

pad_left0(n, width) == pad(to_string(n), "0", width, TRUE)

-----------------------------------------------------------------------------
\* For n >= 0: grouping loses no digit and puts a separator before every
\* third digit from the right and nowhere else; padding gives the width
\* and keeps the digits at its end; n / 1024 with two decimals and a point
\* reads as a number of hundredths that is at most half a hundredth away,
\* unless rounding carries into the integer part (1.999 is written as 1.00).
\* Nothing is said of another separator than the point, the default included.
NumberExact(n) ==
    LET s == to_string(n)
        g == insert_grouping_char(s, ",")
        Near(r)  == 1024 * r <= 100 * n + 512 /\ 100 * n <= 1024 * r + 512
        Reads(r) == Decimal(r \div 100) \o (<<Dot>> \o Tail(Decimal(100 + (r % 100))))
    IN  /\ only_digits(g) = s
        /\ \A i \in 1..Len(g) : (g[i] = ",") = ((Len(g) - i) % 4 = 3)
        /\ \A w \in 0..6 :
             /\ Len(pad_left0(n, w)) = Max({w, Len(s)})
             /\ IsSuffix(s, pad_left0(n, w))
             /\ Reverse(pad(Reverse(s), "0", w, FALSE)) = pad_left0(n, w)
        /\ \E r \in 0..n :
             Near(r) /\ (r \div 100 = n \div 1024 => to_string_double(n, Dot) = Reads(r))
=============================================================================
