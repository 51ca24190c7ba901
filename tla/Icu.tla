-------------------------------- MODULE Icu ---------------------------------
(***************************************************************************)
(* icu_util.hpp.  First the algorithms: byte order marks, code points, the *)
(* removal of accents.  Then the functions that call ICU as the sequences  *)
(* of their calls: what they open, what may fail, what an exit releases.   *)
(***************************************************************************)
EXTENDS Text

CONSTANTS
    MAX_BYTES,  \* size of detect_encoding's buffer
    NoName      \* a default-constructed Encoding

ASSUME IcuAssumption == MAX_BYTES \in Nat

\* encoding.hpp: the marks by encoding.
Mark ==
    [UTF_8_BOM     |-> <<239, 187, 191>>,
     UTF_16_BE_BOM |-> <<254, 255>>,
     UTF_16_LE_BOM |-> <<255, 254>>,
     UTF_32_BE_BOM |-> <<0, 0, 254, 255>>,
     UTF_32_LE_BOM |-> <<255, 254, 0, 0>>]

\* The marks check_bom looks for in a buffer of n bytes.
Sought(n) ==
    CASE n >= 4 -> {"UTF_32_BE_BOM", "UTF_32_LE_BOM"}
      [] n = 3 -> {"UTF_8_BOM"}
      [] n = 2 -> {"UTF_16_BE_BOM", "UTF_16_LE_BOM"}
      [] OTHER -> {}

\* check_bom: detected says only that the buffer had two bytes.
check_bom(buffer) ==
    LET found == {e \in Sought(Len(buffer)) : IsPrefix(Mark[e], buffer)} IN
    [encoding |-> IF found = {} THEN NoName ELSE CHOOSE e \in found : TRUE,
     detected |-> Len(buffer) >= 2]

\* A UTF-16 string is a sequence of units; a character outside the basic
\* plane is two of them, [c, 1] and [c, 2], the others are one, [c, 0].
char32At(u, i) == u[i].c

\* to_codepoints: i advances by the units of the character.
to_codepoints(u) ==
    LET cps[i \in 0..Len(u)] ==
          IF i = 0 THEN <<>>
          ELSE IF u[i].half = 2 THEN cps[i - 1] ELSE Append(cps[i - 1], char32At(u, i))
    IN  cps[Len(u)]

\* The loop of remove_accents: i advances by one unit; marks are dropped.
remove_marks(u, NonSpacing) ==
    LET all == [i \in DOMAIN u |-> char32At(u, i)]
    IN  Without(all, NonSpacing)

\* remove_accent_char of c with the normal form u: its first character that
\* is no mark.  Nothing is done for c < 128, compared as a CharT: as char is
\* signed, that is every char; only a wchar_t may lose its accent.
remove_accent_char(c, u, NonSpacing) ==
    LET base == {i \in DOMAIN u : char32At(u, i) \notin NonSpacing}
    IN  IF c < 128 \/ base = {} THEN c ELSE char32At(u, Min(base))

-----------------------------------------------------------------------------
(***************************************************************************)
(* The functions as sequences of calls.  Open, preflight and convert may   *)
(* fail and set the status; check throws if the status is an error, after  *)
(* releasing the resources it names; too_big throws for a string longer    *)
(* than INT32_MAX.                                                         *)
(***************************************************************************)
Call(op, res) == [op |-> op, res |-> res]

to_wstring ==
    <<Call("open", {"conv"}), Call("preflight", {}), Call("reset", {}),
      Call("new", {"dest"}), Call("convert", {}), Call("convert", {})>>

\* Mutant: a failed conversion forgets the first converter.
utf32_to_utf8_Leak ==
    <<Call("open", {"to8"}), Call("check", {}),
      Call("open", {"from32"}), Call("check", {}),
      Call("too_big", {}),
      Call("preflight", {}), Call("check", {"to8", "from32"}),
      Call("new", {"utf8"}), Call("reset", {}), Call("convert", {}),
      Call("check", {"utf8", "to8", "from32"}),
      Call("release", {"utf8", "to8", "from32"})>>

utf32_to_utf8 ==
    <<Call("open", {"to8"}), Call("check", {}),
      Call("open", {"from32"}), Call("check", {"to8"}),
      Call("too_big", {}),
      Call("preflight", {}), Call("check", {"to8", "from32"}),
      Call("new", {"utf8"}), Call("reset", {}), Call("convert", {}),
      Call("check", {"utf8", "to8", "from32"}),
      Call("release", {"utf8", "to8", "from32"})>>

utf16_to_utf8 ==
    <<Call("open", {"conv"}), Call("check", {}), Call("too_big", {}),
      Call("preflight", {}), Call("reset", {}), Call("new", {"dest"}),
      Call("convert", {}), Call("check", {}),
      Call("release", {"dest", "conv"})>>

remove_accents ==
    <<Call("convert", {}), Call("check", {}), Call("too_big", {}),
      Call("open", {"conv"}), Call("check", {}),
      Call("preflight", {}), Call("reset", {}), Call("new", {"uchars"}),
      Call("convert", {}), Call("release", {"conv"}),
      Call("check", {"uchars"}), Call("release", {"uchars"}),
      Call("convert", {}), Call("check", {})>>

\* After check_bom the function returns if it detected something, which is
\* a matter of the buffer's size.
detect_encoding ==
    <<Call("open", {"stream"}), Call("check", {}),
      Call("convert", {}), Call("check", {"stream"}),
      Call("release", {"stream"})>>
    \o IF check_bom([i \in 1..MAX_BYTES |-> 0]).detected THEN <<>>
       ELSE <<Call("reset", {}), Call("open", {"csd"}), Call("check", {}),
              Call("convert", {}), Call("check", {"csd"}),
              Call("convert", {}), Call("check", {"csd"}),
              Call("convert", {}), Call("check", {"csd"}),
              Call("release", {"csd"})>>

Program ==
    [to_wstring |-> to_wstring, utf32_to_utf8 |-> utf32_to_utf8,
     utf16_to_utf8 |-> utf16_to_utf8, remove_accents |-> remove_accents,
     detect_encoding |-> detect_encoding]

VARIABLES
    fn,       \* the function that runs
    nonempty, \* is its argument a string of at least one character?
    at,       \* the next call; 0 after the exit
    status,   \* UErrorCode: "ok" or "error"
    held,     \* what is open or allocated
    outcome,  \* "running", "returned" or "thrown"
    faulted   \* history: did a call fail, or was the string too long?

icuVars == <<fn, nonempty, at, status, held, outcome, faulted>>

IcuInit ==
    /\ fn \in DOMAIN Program /\ nonempty \in BOOLEAN
    /\ at = 1 /\ status = "ok" /\ held = {}
    /\ outcome = "running" /\ faulted = FALSE

Now == Program[fn][at]

\* The call at hand is op.
Doing(op) ==
    /\ outcome = "running" /\ at \in DOMAIN Program[fn]
    /\ Now.op = op
    /\ UNCHANGED <<fn, nonempty>>

\* ICU does nothing once the status is an error.
open_succeeds ==
    /\ Doing("open") /\ status = "ok"
    /\ held' = held \cup Now.res /\ at' = at + 1
    /\ UNCHANGED <<status, outcome, faulted>>

convert_succeeds ==
    /\ Doing("convert") /\ at' = at + 1
    /\ UNCHANGED <<status, held, outcome, faulted>>

call_fails ==
    /\ Doing("open") \/ Doing("convert")
    /\ status' = "error" /\ at' = at + 1
    /\ faulted' = (faulted \/ status = "ok")
    /\ UNCHANGED <<held, outcome>>

\* The size of a result that is not empty: U_BUFFER_OVERFLOW_ERROR.
preflight ==
    /\ Doing("preflight") /\ at' = at + 1
    /\ status' = IF nonempty THEN "error" ELSE status
    /\ UNCHANGED <<held, outcome, faulted>>

allocate_reset_release ==
    /\ Doing("new") \/ Doing("reset") \/ Doing("release")
    /\ status' = IF Now.op = "reset" THEN "ok" ELSE status
    /\ held' = CASE Now.op = "new" -> held \cup Now.res
                 [] Now.op = "release" -> held \ Now.res
                 [] OTHER -> held
    /\ at' = at + 1
    /\ UNCHANGED <<outcome, faulted>>

check ==
    /\ Doing("check")
    /\ IF status = "error"
       THEN outcome' = "thrown" /\ held' = held \ Now.res /\ at' = 0
       ELSE at' = at + 1 /\ UNCHANGED <<outcome, held>>
    /\ UNCHANGED <<status, faulted>>

too_big ==
    /\ Doing("too_big")
    /\ \/ at' = at + 1 /\ UNCHANGED <<outcome, faulted>>
       \/ nonempty /\ outcome' = "thrown" /\ faulted' = TRUE /\ at' = 0
    /\ UNCHANGED <<status, held>>

return ==
    /\ outcome = "running" /\ at = Len(Program[fn]) + 1
    /\ outcome' = "returned" /\ at' = 0
    /\ UNCHANGED <<fn, nonempty, status, held, faulted>>

IcuNext ==
    \/ open_succeeds \/ convert_succeeds \/ call_fails \/ preflight
    \/ allocate_reset_release \/ check \/ too_big \/ return

IcuSpec == IcuInit /\ [][IcuNext]_icuVars

-----------------------------------------------------------------------------
(***************************************************************************)
(* Correctness.                                                            *)
(***************************************************************************)

\* What check_bom names is the mark the buffer begins with, a longer mark
\* going before a shorter one it begins with.  It finds the marks of
\* UTF-32, and the shorter ones in a buffer of exactly their length only.
BomExact(buffer) ==
    LET marks   == {e \in DOMAIN Mark : IsPrefix(Mark[e], buffer)}
        longest == {e \in marks : \A f \in marks : Len(Mark[f]) <= Len(Mark[e])}
    IN  {check_bom(buffer).encoding} =
          IF \E e \in longest : Len(Mark[e]) \in {4, Len(buffer)}
          THEN longest ELSE {NoName}

\* The UTF-16 units of characters, two for each of Wide.
UnitsOf(cps, Wide) ==
    FlattenSeq([k \in DOMAIN cps |->
        IF cps[k] \in Wide
        THEN <<[c |-> cps[k], half |-> 1], [c |-> cps[k], half |-> 2]>>
        ELSE <<[c |-> cps[k], half |-> 0]>>])

\* to_codepoints gives every character once; remove_accents gives every
\* character that is not a mark once as long as all are of the basic plane.
\* For a single wchar_t beyond ASCII (128) remove_accent_char gives the first
\* of what remove_accents gives, and leaves a mark as it is; a char beyond
\* ASCII (-31) stays as it is, like those of ASCII (127).
CodepointsExact(cps, Wide, NonSpacing) ==
    LET u == UnitsOf(cps, Wide) IN
    /\ to_codepoints(u) = cps
    /\ ToSet(cps) \cap Wide = {} =>
         remove_marks(u, NonSpacing) = Without(cps, NonSpacing)
    /\ \A c \in {-31, 127, 128} :
         remove_accent_char(c, u, NonSpacing) =
           IF c # 128 THEN c ELSE Head(remove_marks(u, NonSpacing) \o <<c>>)

\* Whatever fails, and wherever: these functions leave nothing open.  Not
\* so the others: to_wstring never closes its converter, utf16_to_utf8 does
\* not when it throws, and utf32_to_utf8 not for a string that is too long.
NothingHeld ==
    /\ outcome # "running" /\ fn \in {"remove_accents", "detect_encoding"}
          => held = {}
    /\ outcome # "running" /\ fn = "utf32_to_utf8" /\ held # {} =>
          status = "ok" /\ outcome = "thrown"

\* These functions throw only if a call has failed or the string is too
\* long: the error that the question for the size leaves is cleared.  (For
\* a string that is not empty utf32_to_utf8 takes that error for a failure.)
ThrowsForCause ==
    outcome = "thrown" /\ fn # "utf32_to_utf8" => faulted

\* The two together: what the wrappers of ICU leave open, and when they throw.
IcuExact == NothingHeld /\ ThrowsForCause
=============================================================================
