------------------------------- MODULE Layout -------------------------------
(***************************************************************************)
(* data.hpp: the compile-time checks that a struct has no padding, so that *)
(* its bytes can be written, compared and hashed as they are.  A struct is *)
(* the sequence of its members: the size of each, its alignment (smaller   *)
(* than the size for an array), and whether it is floating.                *)
(***************************************************************************)
EXTENDS Integers, Sequences, SequencesExt

\* The layout the compiler gives a struct of standard layout.
RoundUp(n, a) == ((n + a - 1) \div a) * a

\* Where each member ends, the one before the first at 0.
Ends(T) ==
    LET end[k \in 0..Len(T)] ==
            IF k = 0 THEN 0 ELSE RoundUp(end[k - 1], T[k].align) + T[k].size
    IN  end

MemberOffset(T, k) == RoundUp(Ends(T)[k - 1], T[k].align)

alignof(T) == Max({T[k].align : k \in DOMAIN T})

END_OF_MEMBER(T, k) == MemberOffset(T, k) + T[k].size

sizeof(T) == RoundUp(END_OF_MEMBER(T, Len(T)), alignof(T))

-----------------------------------------------------------------------------
\* The macros get the struct and the members as its user lists them: args
\* is a sequence of member numbers.

\* FOR_EACH_SIZEOF_n
EXPECTED_SIZE_OF_MEMBERS(T, args) ==
    LET sum[i \in 0..Len(args)] ==
            IF i = 0 THEN 0 ELSE sum[i - 1] + T[args[i]].size
    IN  sum[Len(args)]

\* VERIFY_NO_INTERNAL_PADDING_n: every member begins where the one listed
\* before it ends.
VERIFY_NO_INTERNAL_PADDING(T, args) ==
    \A i \in 1..Len(args) - 1 :
        MemberOffset(T, args[i + 1]) = END_OF_MEMBER(T, args[i])

TAIL_PAD_ONLY_N(T, k) ==
    (alignof(T) - (END_OF_MEMBER(T, k) % alignof(T))) % alignof(T)

\* ASSERT_NO_TAIL_PADDING_WRAPPER: after the last member listed.
ASSERT_NO_TAIL_PADDING(T, args) == TAIL_PAD_ONLY_N(T, args[Len(args)]) = 0

\* Every byte of T belongs to a member.
NoPadding(T) ==
    \A b \in 0..sizeof(T) - 1 :
        \E k \in DOMAIN T : b \in MemberOffset(T, k)..END_OF_MEMBER(T, k) - 1

\* std::has_unique_object_representations_v: no padding, and no member in
\* which different bytes may be the same value, as the floating ones are.
has_unique_object_representations(T) ==
    NoPadding(T) /\ \A k \in DOMAIN T : ~T[k].floating

\* The assertions of VERIFY_DATA_STRUCT about sizes and offsets.
LayoutChecks(T, args) ==
    /\ sizeof(T) = EXPECTED_SIZE_OF_MEMBERS(T, args)
    /\ VERIFY_NO_INTERNAL_PADDING(T, args)
    /\ ASSERT_NO_TAIL_PADDING(T, args)

\* The struct passes VERIFY_DATA_STRUCT: standard layout, trivial copies and
\* the stride of arrays are given for such members.
VERIFY_DATA_STRUCT(T, args) ==
    LayoutChecks(T, args) /\ has_unique_object_representations(T)

\* StructLayoutDumper: what it reports between and after the members.
Dumped(T, args) ==
    LET tail_delta == sizeof(T) - END_OF_MEMBER(T, args[Len(args)]) IN
    [internal |-> {i \in 1..Len(args) - 1 :
                      MemberOffset(T, args[i + 1]) # END_OF_MEMBER(T, args[i])},
     tail |-> TAIL_PAD_ONLY_N(T, args[Len(args)]) > 0 \/ tail_delta > 0]

-----------------------------------------------------------------------------
\* The checks of sizes and offsets by themselves accept a struct and a list
\* of members if and only if the list has all the members, each once and in
\* order, and no byte of the struct is padding: a list that leaves out,
\* repeats or swaps members never hides a padding byte.  VERIFY_DATA_STRUCT
\* accepts those of them without a floating member.  The dump of all members
\* reports no padding in just the structs that have none.
VerifyExact(T, args) ==
    LET all   == args = [k \in DOMAIN T |-> k]
        exact == all /\ NoPadding(T)
    IN  /\ LayoutChecks(T, args) = exact
        /\ VERIFY_DATA_STRUCT(T, args) = (exact /\ \A k \in DOMAIN T : ~T[k].floating)
        /\ all => (Dumped(T, args) = [internal |-> {}, tail |-> FALSE]) = NoPadding(T)
=============================================================================
