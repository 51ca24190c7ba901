--------------------------- MODULE CommandCopies ----------------------------
(***************************************************************************)
(* Copies of a CompositeCommand: written to a BinaryBuffer and read back,  *)
(* taken from every state of Command.                                      *)
(*                                                                         *)
(* NullCommand is the pattern of a class that can be read back: it writes  *)
(* its own ClassInfo first and is in the CommandRegistry.  The commands of *)
(* the tests are not like that, and neither is CompositeCommand: it writes *)
(* its ClassInfo but is not registered.                                    *)
(***************************************************************************)
EXTENDS Command, ObjectIo

CONSTANT Registered   \* the leaves whose class follows NullCommand

ASSUME CopiesAssumption == Registered \subseteq Leaves

\* The base part of a command, Object part included.
AsObject(o) == [class |-> "Command", id |-> o, data |-> <<<<"mok", mok[o]>>>>]

\* A new command; Null stands for an entry that was never written, too.
NewCommand(id) == [class |-> "Command", id |-> id, data |-> <<<<"mok", "UNKNOWN">>>>]

\* Command::write, which all but NullCommand and CompositeCommand inherit.
WriteCommand(o) == WriteObject(AsObject(o)) \o WriteData(AsObject(o))

\* NullCommand::write
WriteLeaf(o) ==
    IF o \in Registered THEN Info("NullCommand") \o WriteCommand(o)
    ELSE WriteCommand(o)

WriteEach(c) == FlattenSeq([i \in DOMAIN mcommands[c] |->
                               WriteLeaf(mcommands[c][i])])

WriteWith(c, each) ==
    Info("CompositeCommand") \o WriteCommand(c)
        \o <<<<"count", Len(mcommands[c])>>>> \o each

\* CompositeCommand::write
WriteComposite(c) ==
    WriteWith(c, FlattenSeq([i \in DOMAIN mcommands[c] |->
        LET k == mcommands[c][i] IN
        IF k \in Leaves THEN WriteLeaf(k) ELSE WriteWith(k, WriteEach(k))]))

-----------------------------------------------------------------------------
\* Command::size, of the Command and Object parts; NullCommand inherits it.
LeafSize == Sizes["Command"] + InfoSize + (InfoSize + 1)

\* CompositeCommand::size: of the count, a ClassInfo and the entries.
SizeWith(c, entry) ==
    LET total[i \in 0..Len(mcommands[c])] ==
          IF i = 0 THEN 0 ELSE total[i - 1] + entry[mcommands[c][i]]
    IN  1 + InfoSize + total[Len(mcommands[c])]
InnerSize(c) == SizeWith(c, [k \in Children(c) |-> LeafSize])
size(c) == SizeWith(c, [k \in Children(c) |-> IF k \in Leaves THEN LeafSize ELSE InnerSize(k)])

\* Mutant: the registry is not asked.
Creates_Any(r) == Enough(r, InfoSize)

\* CommandRegistry::create finds the class that the ClassInfo names.
Creates(r) == Verified(r, "NullCommand")

ReadCommand(r) == ReadData(ReadObject(r))

\* NullCommand::read: its ClassInfo has been read by the caller.
ReadLeaf(r) == ReadCommand(r)

\* One turn of the loop of CompositeCommand::read; it returns at a class
\* that is not known, and the entries that were to come stay null.
ReadEntry(r, i) ==
    IF r.stopped THEN r
    ELSE IF ~Creates(r) THEN [Past(r, InfoSize) EXCEPT !.stopped = TRUE]
    ELSE LET e == ReadLeaf([Past(r, InfoSize) EXCEPT !.o = NewCommand(Null)])
         IN  [e EXCEPT !.entries[i] = e.o, !.o = r.o]

\* CompositeCommand::read into a new composite, after the caller has read
\* the ClassInfo: mindex is the count before any entry is there.
ReadComposite(buf) ==
    LET base == ReadCommand([buf |-> buf, at |-> InfoSize, o |-> NewCommand(Null),
                             entries |-> <<>>, stopped |-> FALSE])
        n == Units(base, 1)[1][2]
        turn[i \in 0..n] ==
          IF i = 0
          THEN [Past(base, 1) EXCEPT !.entries = [k \in 1..n |-> NewCommand(Null)]]
          ELSE ReadEntry(turn[i - 1], i)
    IN  turn[n]

\* CompositeCommand::equals of c and a copy, entry for entry of c.
EqualsCopy(c, copy) ==
    /\ copy.o.id = c
    /\ \A i \in DOMAIN mcommands[c] : Equals(AsObject(mcommands[c][i]), copy.entries[i])

-----------------------------------------------------------------------------
(***************************************************************************)
(* Correctness.                                                            *)
(***************************************************************************)

\* The copy of a composite has its id and mok.  Its entries are the same
\* commands, with the same mok and so the same undo, up to the first that
\* does not follow NullCommand; from there on they are null although mindex
\* counts them, and what comes next in the buffer is not found either: the
\* reader is at the end of what was written only if all could be read.
\* size() leaves out the Command part of each composite and the ClassInfo
\* of each NullCommand: what is written is longer by just these.
CopyReadsBack ==
    \A c \in Composites :
        LET buf  == WriteComposite(c)
            copy == ReadComposite(buf)
            unreadable(i) == \E j \in 1..i : mcommands[c][j] \notin Registered
        IN  /\ copy.o = AsObject(c)
            /\ \A i \in DOMAIN mcommands[c] :
                  copy.entries[i] = IF unreadable(i) THEN NewCommand(Null)
                                    ELSE AsObject(mcommands[c][i])
            /\ copy.stopped <=> Children(c) \ Registered # {}
            /\ copy.at = Len(buf) <=> ~copy.stopped
            /\ EqualsCopy(c, copy) <=> ~copy.stopped
            /\ Len(buf) - size(c) =
                  Cardinality({i \in DOMAIN buf : buf[i] = <<"info", "CompositeCommand", 1>>})
                     * LeafSize
                + Cardinality({i \in DOMAIN buf : buf[i] = <<"info", "NullCommand", 1>>})
                     * InfoSize
=============================================================================
