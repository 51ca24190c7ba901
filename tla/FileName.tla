------------------------------ MODULE FileName ------------------------------
(***************************************************************************)
(* RandomFileNameGenerator of file.hpp.  What Random draws is a sequence   *)
(* d of characters of CHARS, of which a name takes as many as it needs;    *)
(* random_string has a Random of its own on every call, so any d may come. *)
(***************************************************************************)
EXTENDS Text

CONSTANTS
    MaxTries,      \* count: 1000 in the code
    NameLength,    \* DEFAULT_LENGTH: 8 in the code
    Extension,     \* mextension
    CustomExt      \* what mcustom_ext_function returns

\* The extensions that are given have no dot of their own.
ASSUME FileNameAssumption ==
    /\ MaxTries \in Nat /\ NameLength \in Nat \ {0}
    /\ Extension \in Seq(Range(Extension)) /\ Dot \notin Range(Extension)
    /\ CustomExt \in Seq(Range(CustomExt)) /\ Dot \notin Range(CustomExt)

ExtensionTypes ==
    {"FIXED", "RANDOM", "NONE", "NUMERIC_SEQUENCE", "CHAR_SEQUENCE", "FUNCTION"}

Letterlike(d) == {i \in DOMAIN d : d[i] \notin Range(Digit)}

\* random_string: the first character is drawn again while it is a digit.
\* The last of these draws is not looked at, letter or not: the count is
\* down to 0.
Refused(d) == Letterlike(d) \cap 1..MaxTries = {}
random_string(d, len) ==
    LET first == Min(Letterlike(d)) IN SubSeq(d, first, first + len - 1)

\* What is left to draw after a random_string.
Undrawn(d, len) == SubSeq(d, Min(Letterlike(d)) + len, Len(d))

\* get_extension: the two sequences are not implemented.
get_extension(type, d) ==
    CASE type = "FIXED"    -> Extension
      [] type = "RANDOM"   -> random_string(d, NameLength)
      [] type = "FUNCTION" -> CustomExt
      [] OTHER             -> <<>>

\* operator(): its parameter extension is not used, and an extension that is
\* empty has its dot all the same.  The extension is drawn after the name
\* here; the order of the two is the compiler's.
NameRefused(type, d) ==
    Refused(d) \/ (type = "RANDOM" /\ Refused(Undrawn(d, NameLength)))

random_name(prefix, suffix, type, d) ==
    prefix \o random_string(d, NameLength) \o suffix \o <<Dot>>
        \o get_extension(type, Undrawn(d, NameLength))

-----------------------------------------------------------------------------
\* For d long enough for two strings: a name that is not refused has one
\* dot, whatever the kind of extension, so that remove_ext gives back prefix,
\* random part and suffix; neither random part begins with a digit; and the
\* random part is what was drawn from one of the tries on.
FileNameExact(d) ==
    \A type \in ExtensionTypes, prefix \in {<<>>, <<"1">>}, suffix \in {<<>>, <<"b">>} :
        \/ NameRefused(type, d)
        \/ LET name == random_name(prefix, suffix, type, d)
               stem == remove_ext(name)
               ext  == Last(split(name, Dot, FALSE, TRUE))
           IN  /\ Len(stem) = Len(prefix) + NameLength + Len(suffix)
               /\ IsPrefix(prefix, stem) /\ IsSuffix(suffix, stem)
               /\ stem[Len(prefix) + 1] \notin Range(Digit)
               /\ stem \o <<Dot>> \o ext = name
               /\ type = "RANDOM" =>
                    Len(ext) = NameLength /\ ext[1] \notin Range(Digit)
               /\ \E i \in 1..MaxTries : SubSeq(d, i, i + NameLength - 1) =
                    SubSeq(stem, Len(prefix) + 1, Len(prefix) + NameLength)
=============================================================================
