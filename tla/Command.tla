------------------------------ MODULE Command ------------------------------
(***************************************************************************)
(* Command and CompositeCommand: commands that run and undo, and a         *)
(* composite that runs a list of them.                                     *)
(*                                                                         *)
(* run() and undo() are not interrupted by other threads, so each is one   *)
(* step; what varies is which command throws.  The commands themselves are *)
(* the ones of the tests: they add to, subtract from or double one value.  *)
(***************************************************************************)
EXTENDS Integers, Sequences, SequencesExt

CONSTANTS
    Leaves,       \* command objects that are not composites
    Composites,   \* CompositeCommand objects
    Effect,       \* "Inc", "Dec" or "Double", for every leaf
    MAX_COMMANDS, \* room in mcommands
    Null,         \* an entry of mcommands that was never written
    MaxValue      \* bound: |value| of the states explored

Objects == Leaves \cup Composites

ASSUME CommandAssumption ==
    /\ Leaves \cap Composites = {}
    /\ Effect \in [Leaves -> {"Inc", "Dec", "Double"}]
    /\ MAX_COMMANDS \in Nat \ {0}
    /\ Null \notin Objects
    /\ MaxValue \in Nat

VARIABLES
    mcommands,  \* the commands of each composite, mindex being the length
    mok,        \* Command::Data::mok
    value,      \* what the commands work on
    ran,        \* history: the leaves that have run without throwing
    undone,     \* history: the leaves whose _undo has been called
    last        \* history: the last operation

vars == <<mcommands, mok, value, ran, undone, last>>

Idle == [op |-> "none", on |-> Null, before |-> 0]

\* The type invariant.
TypeOK ==
    /\ mcommands \in [Composites -> UNION {[1..n -> Objects] : n \in 0..MAX_COMMANDS}]
    /\ mok \in [Objects -> {"UNKNOWN", "T"}]
    /\ value \in Int
    /\ ran \subseteq Leaves /\ undone \subseteq Leaves
    /\ last.op \in {"none", "run", "failed", "undone"}

Init ==
    /\ mcommands = [c \in Composites |-> <<>>]
    /\ mok = [o \in Objects |-> "UNKNOWN"]
    /\ value = 0
    /\ ran = {} /\ undone = {}
    /\ last = Idle

-----------------------------------------------------------------------------
(***************************************************************************)
(* Adding commands.                                                        *)
(***************************************************************************)

Children(c) == Range(mcommands[c])
Owned == UNION {Children(c) : c \in Composites}

\* mindex < MAX_COMMANDS: otherwise add throws and nothing changes.
HasRoom(c) == Len(mcommands[c]) < MAX_COMMANDS

\* A composite takes ownership: an object has one owner, and composites in
\* use here are nested at most once.
add(c, o) ==
    /\ o \notin Owned /\ o # c
    /\ o \in Composites => c \notin Owned /\ Children(o) \cap Composites = {}
    /\ c \in Owned => o \in Leaves
    /\ HasRoom(c)
    /\ mcommands' = [mcommands EXCEPT ![c] = Append(@, o)]
    /\ last' = Idle
    /\ UNCHANGED <<mok, value, ran, undone>>

-----------------------------------------------------------------------------
(***************************************************************************)
(* run                                                                     *)
(***************************************************************************)

\* The order in which run() of o completes: children first to last, then o.
Completes(o) ==
    IF o \in Leaves THEN <<o>>
    ELSE Append(FlattenSeq([i \in DOMAIN mcommands[o] |->
                   LET k == mcommands[o][i] IN
                   IF k \in Leaves THEN <<k>> ELSE Append(mcommands[k], k)]),
                o)

\* _run() and _undo() of the commands in the tests; / 2 truncates.
_run(v, o) == IF o \notin Leaves THEN v
              ELSE CASE Effect[o] = "Inc"    -> v + 1
                     [] Effect[o] = "Dec"    -> v - 1
                     [] Effect[o] = "Double" -> 2 * v
_undo(v, o) == CASE Effect[o] = "Inc"    -> v - 1
                 [] Effect[o] = "Dec"    -> v + 1
                 [] Effect[o] = "Double" ->
                       IF v < 0 THEN -((-v) \div 2) ELSE v \div 2

\* The value after the commands of s have run, or are undone, one by one.
RunAll(v, s) ==
    LET after[n \in 0..Len(s)] == IF n = 0 THEN v ELSE _run(after[n - 1], s[n])
    IN  after[Len(s)]
UndoAll(v, s) ==
    LET after[n \in 0..Len(s)] == IF n = 0 THEN v ELSE _undo(after[n - 1], s[n])
    IN  after[Len(s)]

InBounds(v) == v \in -MaxValue..MaxValue

\* The first n completions happen: mok = true for each of them.
RunPrefix(order, n) ==
    LET done == Range(SubSeq(order, 1, n)) IN
    /\ value' = RunAll(value, SubSeq(order, 1, n))
    /\ InBounds(value')
    /\ mok' = [o \in Objects |-> IF o \in done THEN "T" ELSE mok[o]]
    /\ ran' = ran \cup (done \cap Leaves)
    /\ UNCHANGED <<mcommands, undone>>

run(o) ==
    /\ RunPrefix(Completes(o), Len(Completes(o)))
    /\ last' = [op |-> "run", on |-> o, before |-> value]

\* Some leaf throws: the exception leaves every run() above it, so nothing
\* after it runs and no mok above it changes.
run_throws(o) ==
    /\ \E n \in DOMAIN Completes(o) :
          /\ Completes(o)[n] \in Leaves
          /\ RunPrefix(Completes(o), n - 1)
    /\ last' = [op |-> "failed", on |-> o, before |-> value]

-----------------------------------------------------------------------------
(***************************************************************************)
(* undo                                                                    *)
(***************************************************************************)

\* Mutants: undo does not ask whether the command ran; the last command of
\* a composite is left out.
Undoes_Always(o) == TRUE
Entries_ButLast(c) == SubSeq(mcommands[c], 1, Len(mcommands[c]) - 1)

\* if (mdata.mok): the conversion of Bool, true for T only.
Undoes(o) == mok[o] = "T"

\* for (i = 0; i < mindex; ++i)
Entries(c) == mcommands[c]

LeafUndo(k) == IF Undoes(k) THEN <<k>> ELSE <<>>
SubUndo(c) == IF Undoes(c)
              THEN FlattenSeq([i \in DOMAIN Entries(c) |-> LeafUndo(Entries(c)[i])])
              ELSE <<>>

\* The leaves whose _undo is called by undo() of o: first to last.
UndoOrder(o) ==
    IF o \in Leaves THEN LeafUndo(o)
    ELSE IF ~Undoes(o) THEN <<>>
    ELSE FlattenSeq([i \in DOMAIN Entries(o) |->
            LET k == Entries(o)[i]
            IN  IF k \in Leaves THEN LeafUndo(k) ELSE SubUndo(k)])

\* undo is const: mok keeps its value, so it can be undone again.
undo(o) ==
    /\ value' = UndoAll(value, UndoOrder(o))
    /\ InBounds(value')
    /\ undone' = undone \cup Range(UndoOrder(o))
    /\ last' = IF last.op = "run" /\ last.on = o
               THEN [last EXCEPT !.op = "undone"] ELSE Idle
    /\ UNCHANGED <<mcommands, mok, ran>>

-----------------------------------------------------------------------------
Next ==
    \/ \E c \in Composites, o \in Objects : add(c, o)
    \/ \E o \in Objects : run(o) \/ run_throws(o) \/ undo(o)

Spec == Init /\ [][Next]_vars

-----------------------------------------------------------------------------
(***************************************************************************)
(* Correctness.                                                            *)
(***************************************************************************)

\* However runs, failures, later adds and undos of composites and of their
\* parts are mixed, _undo is never called for a command that has not once
\* run to its end.
UndoOnlyRun == undone \subseteq ran

\* Composites stay within MAX_COMMANDS, and undo touches only what ran.
UndoInv == TypeOK /\ UndoOnlyRun

\* A run without an exception, then undo, restores the value: "If the
\* command was executed successfully, undo it."
UndoRestores == last.op = "undone" => value = last.before

\* "If one of the commands fails, the entire transaction is rolled back."
RolledBack == last.op = "failed" => value = last.before
=============================================================================
