--------------------------- MODULE ContactValues ----------------------------
(***************************************************************************)
(* The value classes of the contact library: Email with its validation,    *)
(* its constructors and its stream operators (e-mail.hpp), and the text    *)
(* form of PersonName (person.hpp).  The limits 64, 255 and 63 are         *)
(* constants, so that they are within reach of small strings.              *)
(***************************************************************************)
EXTENDS Text

CONSTANTS
    Letters, DigitChars,    \* 'a'..'z' and 'A'..'Z'; '0'..'9'
    EmailTexts,             \* the texts e-mail addresses are made from
    NameParts,              \* the parts names are made from
    LocalMax, DomainMax,    \* CS<0, 64> and CS<0, 255>
    LabelMax, PartMax,      \* 63; CS<0, 20>
    NullText,               \* "null"
    NullTexts               \* the texts CS's operator== finds equal to it

At     == "@"
Hyphen == "-"

\* The characters of the texts, and @.
EmailChars == {At} \cup UNION {Range(t) : t \in EmailTexts \cup {NullText}}

\* The texts are strings.  @ is no letter and no digit; the null text fits
\* into both parts, and has no @.
ASSUME EmailAssumption ==
    /\ EmailTexts \cup {NullText} \subseteq Seq(EmailChars)
    /\ At \notin Letters \cup DigitChars
    /\ NullText \in NullTexts /\ ~Has(NullText, <<At>>)
    /\ \A t \in NullTexts : Len(t) < LocalMax /\ Len(t) < DomainMax

\* So are the parts of names.
ASSUME NameAssumption == NameParts \subseteq Seq(UNION {Range(p) : p \in NameParts})

is_valid_local_part(lp) ==
    /\ lp # <<>> /\ Len(lp) <= LocalMax
    /\ lp[1] # Dot /\ lp[Len(lp)] # Dot
    /\ ~Has(lp, <<Dot, Dot>>)
    /\ \A i \in 1..Len(lp) :
          lp[i] \in Letters \cup DigitChars \cup {Dot, "_", Hyphen, "+"}

ValidLabel(l) ==
    /\ Len(l) \in 1..LabelMax
    /\ l[1] # Hyphen /\ l[Len(l)] # Hyphen
    /\ \A i \in 1..Len(l) : l[i] \in Letters \cup DigitChars \cup {Hyphen}

is_valid_domain(d) ==
    LET labels == Pieces(d, Dot)
        tld    == labels[Len(labels)]
    IN  /\ d # <<>> /\ Len(d) <= DomainMax
        /\ \A k \in DOMAIN labels : ValidLabel(labels[k])
        /\ Len(labels) >= 2
        /\ Len(tld) >= 2 /\ \A i \in 1..Len(tld) : tld[i] \in Letters

\* The two sides of the first @, where there is one.
LocalSide(s)  == SubSeq(s, 1, Min(Occurrences(s, <<At>>)) - 1)

DomainSide(s) == SubSeq(s, Len(LocalSide(s)) + 2, Len(s))

is_valid_email_address(s) ==
    /\ Has(s, <<At>>) /\ s[1] # At /\ s[Len(s)] # At
    /\ ~Has(DomainSide(s), <<At>>)
    /\ is_valid_local_part(LocalSide(s)) /\ is_valid_domain(DomainSide(s))

-----------------------------------------------------------------------------
VARIABLES
    addr,           \* the text at hand: an argument, or a stream's content
    local, domain,  \* mlocal_part and mdomain
    unchecked       \* history: was it last set by operator>>?

emailVars == <<addr, local, domain, unchecked>>

IsNull(l, d) == l \in NullTexts /\ d \in NullTexts

\* The default constructor.
EmailInit ==
    /\ addr \in EmailTexts
    /\ local = NullText /\ domain = NullText /\ unchecked = FALSE

\* The conversions of the arguments to CS throw when they do not fit.
CSFit(l, d) == Len(l) < LocalMax /\ Len(d) < DomainMax

\* Mutant: the domain is not looked at.
Accepted_LocalOnly(l, d) == IsNull(l, d) \/ is_valid_local_part(l)

\* initialize: the null address is not validated.
Accepted(l, d) ==
    IsNull(l, d) \/ (is_valid_local_part(l) /\ is_valid_domain(d))

\* Email(s): throws, and there is no object, in every other case.
Constructs(s) ==
    /\ Has(s, <<At>>)
    /\ CSFit(LocalSide(s), DomainSide(s))
    /\ Accepted(LocalSide(s), DomainSide(s))

construct ==
    /\ Constructs(addr)
    /\ local' = LocalSide(addr) /\ domain' = DomainSide(addr)
    /\ unchecked' = FALSE
    /\ UNCHANGED addr

\* str(), and what operator<< writes.
EmailText == local \o <<At>> \o domain

write_email == addr' = EmailText /\ UNCHANGED <<local, domain, unchecked>>

\* operator>>: both parts are assigned as they come.  A part that does not
\* fit throws out of a noexcept operator and ends the program.
read_email ==
    /\ Has(addr, <<At>>)
    /\ CSFit(LocalSide(addr), DomainSide(addr))
    /\ local' = LocalSide(addr) /\ domain' = DomainSide(addr)
    /\ unchecked' = TRUE
    /\ UNCHANGED addr

EmailNext == construct \/ write_email \/ read_email

EmailSpec == EmailInit /\ [][EmailNext]_emailVars

-----------------------------------------------------------------------------
(***************************************************************************)
(* PersonName: first, middle and last name, each a CS of PartMax.          *)
(***************************************************************************)

Names == [first : NameParts, middle : NameParts, last : NameParts]

\* name(): middle and last name without a blank between them.
full_name(n) ==
    n.first \o <<Blank>> \o
        IF n.middle = <<>> THEN n.last ELSE n.middle \o n.last

\* The concatenation of middle and last name throws otherwise.
FullNameFits(n) ==
    n.middle # <<>> => Len(n.middle) + Len(n.last) + 1 <= PartMax

write_name(n) ==
    n.first \o <<Blank>>
    \o (IF n.middle = <<>> THEN <<>> ELSE n.middle \o <<Blank>>)
    \o n.last

\* is >> s: blanks are skipped, then the word up to the next blank.
Word(s) ==
    LET t == ltrim(s)
        blanks == Occurrences(t, <<Blank>>)
    IN  IF blanks = {} THEN t ELSE SubSeq(t, 1, Min(blanks) - 1)
AfterWord(s) == LET t == ltrim(s) IN SubSeq(t, Len(Word(s)) + 1, Len(t))

IgnoreBlank(s) == IF s # <<>> /\ Head(s) = Blank THEN Tail(s) ELSE s

\* read: a middle name is read unless another blank follows the first one.
read_name(s) ==
    LET s1 == IgnoreBlank(AfterWord(s))
        two == s1 # <<>> /\ Head(s1) = Blank
        s2 == IF two THEN s1 ELSE AfterWord(s1)
    IN  [first  |-> Word(s),
         middle |-> IF two THEN <<>> ELSE Word(s1),
         last   |-> Word(IgnoreBlank(s2))]

-----------------------------------------------------------------------------
(***************************************************************************)
(* Correctness.                                                            *)
(***************************************************************************)

\* An Email that was constructed holds a valid address or the null address,
\* also after it has been read from a stream and constructed again; and the
\* constructor, which looks at the parts, takes nothing but the null address
\* that is_valid_email_address, which looks at the whole, refuses, and takes
\* every valid address with parts shorter than the capacities of their CS.
EmailExact ==
    /\ ~unchecked => IsNull(local, domain) \/ is_valid_email_address(EmailText)
    /\ Constructs(addr) =>
          is_valid_email_address(addr) \/ IsNull(LocalSide(addr), DomainSide(addr))
    /\ is_valid_email_address(addr) /\ CSFit(LocalSide(addr), DomainSide(addr)) =>
          Constructs(addr)
    /\ Has(addr, <<At>>) /\ IsNull(LocalSide(addr), DomainSide(addr)) =>
          Constructs(addr)

\* A text that an address was written to reads back as the same address.
EmailRoundTrip ==
    LocalSide(EmailText) = local /\ DomainSide(EmailText) = domain

\* An Email is valid when it was constructed, and the same when it was read.
EmailsExact == EmailExact /\ EmailRoundTrip

Words(n) == \A p \in {n.first, n.middle, n.last} : ~Has(p, <<Blank>>)

\* A name of single words reads back as itself exactly if it has a first
\* name and no last name without a middle name: the last name of a person
\* without a middle name comes back as the middle name.
NameRoundTrip(n) ==
    Words(n) =>
        (read_name(write_name(n)) = n) =
            (n = [first |-> <<>>, middle |-> <<>>, last |-> <<>>]
             \/ (n.first # <<>> /\ (n.middle # <<>> \/ n.last = <<>>)))

\* The full name has the three parts in order and, when it can be made at
\* all, nothing is cut.
FullNameExact(n) ==
    Words(n) /\ FullNameFits(n) =>
        remove_blanks(full_name(n)) = n.first \o n.middle \o n.last
=============================================================================
