----------------------------- MODULE MCValues -------------------------------
(***************************************************************************)
(* The text, number and layout functions of the library for TLC, in one    *)
(* run.  The initial state chooses a subject: one of the four machines,    *)
(* which then runs by itself, or an algorithm and the argument it is       *)
(* checked for.                                                            *)
(***************************************************************************)
EXTENDS TextEdit, CString, ContactValues, Listing, Distance, Layout, Wire, Icu,
        FileName, TLC

VARIABLES subject, arg

UpTo(n, A) == UNION {[1..k -> A] : k \in 0..n}

-----------------------------------------------------------------------------
\* Constants.  Texts with blanks and two separators; replacements that are
\* shorter, as long, longer, and that bring back what they replace.
MCTexts == UpTo(4, {"a", " ", ",", "."})
MCPatterns ==
    {<<<<"a">>, <<>>>>, <<<<" ", " ">>, <<" ">>>>, <<<<"a", ",">>, <<",">>>>,
     <<<<"a", ",">>, <<",", "a">>>>, <<<<"a">>, <<"a", "a">>>>, <<<<>>, <<>>>>}

\* A, a, b, and a with an accent as a wchar_t and as a char, where no accent
\* is found and tolower may leave what is out of its range as it is.
MCtolower == 65 :> 97 @@ 97 :> 97 @@ 98 :> 98 @@ 225 :> 225 @@ -31 :> -31
MCcopy_remove_accent == 65 :> 65 @@ 97 :> 97 @@ 98 :> 98 @@ 225 :> 97 @@ -31 :> -31
MCCodes == DOMAIN MCtolower

\* Addresses at the limits of local part, domain and label.
MCEmailTexts ==
    {l \o <<"@">> \o d : l \in UpTo(3, {"a", "."}),
                         d \in UpTo(5, {"a", ".", "-"})}
    \cup {l \o <<"@">> \o d : l \in {<<"a">>, <<"@">>, <<>>, <<"n">>, <<"N">>},
                              d \in UpTo(4, {"a", "1", ".", "@"}) \cup {<<"n">>}}
    \cup UpTo(2, {"a", "."})
MCNameParts == UpTo(2, {"a", " "}) \cup {<<"a", "b", "c">>}
MCExtension == <<"c">>
MCCustomExt == <<"b", "c">>
MCNullText  == <<"n">>
MCNullTexts == {<<"n">>, <<"N">>}

-----------------------------------------------------------------------------
Strings3 == UpTo(3, {"a", "b", "c"})
Strings2 == UpTo(2, {"a", "b"})

\* char, short, int, char[3] and float members, and structs of them.
Members ==
    {[size |-> 1, align |-> 1, floating |-> FALSE],
     [size |-> 2, align |-> 2, floating |-> FALSE],
     [size |-> 4, align |-> 4, floating |-> FALSE],
     [size |-> 3, align |-> 1, floating |-> FALSE],
     [size |-> 4, align |-> 4, floating |-> TRUE]}
Structs == UpTo(3, Members) \ {<<>>}

\* The empty pair of min_distance_map_key is no string.
ASSUME NoMatchAssumption == NoMatch \notin Strings2

\* The arguments of the algorithms.
Args ==
    [numbers   |-> (0..12) \cup {99, 100, 101, 128, 384, 999, 1000, 1023, 1234, 1664, 2047, 9999},
     names     |-> Names,
     order     |-> {0},
     draws     |-> [1..2 * (MaxTries + NameLength) -> {"0", "a"}],
     pages     |-> UNION {[1..n -> 1..3] : n \in 1..3},
     patterns  |-> UpTo(3, {"a", "_", "\\"}) \X UpTo(3, {"a", "_", "%", "\\"}),
     distances |-> Strings3 \X Strings3,
     nearest   |-> Strings2 \X (UpTo(3, Strings2) \ {<<>>}),
     layouts   |-> UNION {{<<T, a>> : a \in UpTo(4, DOMAIN T) \ {<<>>}} :
                              T \in Structs},
     wire      |-> WireValues,
     arrays    |-> UpTo(2, WireValues) \X
                     {rest \in {<<>>, <<1>>} : Len(rest) < Width},
     marks     |-> UpTo(4, {0, 187, 191, 239, 254, 255}),
     units     |-> UpTo(3, 1..4)]

Machines == {"text", "cs", "email", "icu"}

Init ==
    /\ subject \in Machines \cup DOMAIN Args
    /\ IF subject \in Machines THEN arg = 0 ELSE arg \in Args[subject]
    /\ IF subject = "text" THEN TextInit
       ELSE text = <<>> /\ subst = <<<<"a">>, <<>>>> /\ replaced = FALSE /\ looping = FALSE
    /\ CSInit
    /\ IF subject = "email" THEN EmailInit
       ELSE addr = <<"a">> /\ local = <<"n">> /\ domain = <<"n">> /\ unchecked = FALSE
    /\ IF subject = "icu" THEN IcuInit
       ELSE /\ fn = "to_wstring" /\ nonempty = FALSE /\ at = 1 /\ status = "ok"
            /\ held = {} /\ outcome = "running" /\ faulted = FALSE

TextMoves  == /\ subject = "text" /\ TextNext
              /\ UNCHANGED <<subject, arg, csVars, emailVars, icuVars>>
CSMoves    == /\ subject = "cs" /\ CSNext
              /\ UNCHANGED <<subject, arg, textVars, emailVars, icuVars>>
EmailMoves == /\ subject = "email" /\ EmailNext
              /\ UNCHANGED <<subject, arg, textVars, csVars, icuVars>>
IcuMoves   == /\ subject = "icu" /\ IcuNext
              /\ UNCHANGED <<subject, arg, textVars, csVars, emailVars>>

Next == TextMoves \/ CSMoves \/ EmailMoves \/ IcuMoves

allVars == <<subject, arg, textVars, csVars, emailVars, icuVars>>

\* A loop that can go on does.
Spec == Init /\ [][Next]_allVars /\ WF_allVars(TextMoves)

-----------------------------------------------------------------------------
\* Each algorithm agrees with its reference definition: numbers as text
\* (s.hpp), names as text (person.hpp), names of files (file.hpp), the pages and patterns of PersonDAO,
\* operator< of cs.hpp, the distance and the nearest element (distance.hpp),
\* the padding checks (data.hpp), numbers in a byte order (wire_int.hpp,
\* wire_double.hpp, byte_order.hpp), marks and code points (icu_util.hpp).
AlgorithmsExact ==
    /\ subject = "numbers" => NumberExact(arg)
    /\ subject = "names" => NameRoundTrip(arg) /\ FullNameExact(arg)
    /\ subject = "draws" => FileNameExact(arg)
    /\ subject = "pages" => PagesExact(arg)
    /\ subject = "patterns" => FindsContaining(arg[1], arg[2])
    /\ subject = "order" => LessIsOrder
    /\ subject = "distances" => DistanceExact(arg[1], arg[2], {"a", "b", "c"})
    /\ subject = "nearest" => NearestExact(arg[1], arg[2])
    /\ subject = "layouts" => VerifyExact(arg[1], arg[2])
    /\ subject = "wire" =>
         WirePortable(arg) /\ \A v \in WireValues : HashAgrees(arg, v)
    /\ subject = "arrays" =>
         \A from, to \in ByteOrders : ConvertExact(arg[1], arg[2], from, to)
    /\ subject = "marks" => BomExact(arg)
    /\ subject = "units" => CodepointsExact(arg, {3, 4}, {2, 4})
=============================================================================
