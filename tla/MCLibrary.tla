----------------------------- MODULE MCLibrary ------------------------------
(***************************************************************************)
(* The objects, containers, files, buffers and small value classes of the  *)
(* library for TLC, in one run.  The initial state chooses a subject: one  *)
(* of eight machines, which then runs by itself, or an operation and the   *)
(* argument it is checked for.                                             *)
(***************************************************************************)
EXTENDS Files, PathTree, SortedList, Factory, Generator, StopWatch, ObjectIo,
        PlatformIo, Checks, BinaryBuffer, Log, TLC

VARIABLES subject, arg

UpTo(n, A) == UNION {[1..k -> A] : k \in 0..n}

-----------------------------------------------------------------------------
\* Constants.
MCFileTexts == {<<"b">>}
MCOldTexts  == {<<"a", "b">>}
MCTextModes == {{"in"}, {"out"}, {"ate"}, {"in", "out"}, {"in", "out", "app"}}
MCOpenModes == {{"in"}, {"in", "out", "app"}, {"binary", "in", "out", "ate"}}
MCUNITS     == <<12, 4, 1>>
Symmetry    == Permutations(Bytes)

-----------------------------------------------------------------------------
\* Two objects of every class, with ids and data that differ.
SomeObjects ==
    {[class |-> c, id |-> i, data |-> [k \in 1..Sizes[c] |-> <<"data", i * k>>]] :
        c \in Classes, i \in 1..2}

Bytes3 == UpTo(3, 0..1)

Assignments ==
    [kind : {"value"}, v : {"one", "two"}] \cup [kind : {"bool"}, v : Bools]
    \cup [kind : {"error"}, v : {"message"}]

\* What the system makes of a save.
SaveIo == [opens : BOOLEAN, written : 0..3, flushed : 0..3]

\* The arguments of the operations.
Args ==
    [objects     |-> SomeObjects \X SomeObjects \X SomeObjects \X SomeObjects,
     saves       |-> {a \in {Missing, <<1>>} \X Bytes3 \X (0..3) \X Bytes3 \X SaveIo \X (0..3) :
                          /\ a[3] <= Len(a[2])
                          /\ a[5].written <= Len(a[2]) - a[3]
                          /\ a[5].flushed <= a[5].written},
     files       |-> (UpTo(4, 0..1) \cup {Missing}) \X {<<>>, <<0>>},
     texts       |-> (UpTo(2, 0..3) \X {2}) \cup (Bytes3 \X {1}),
     comparisons |-> (0..Wrap - 1) \X (0..Wrap - 1),
     arrays      |-> UpTo(Size + 1, 0..1) \X (0..2) \X (0..Size + 1),
     results     |-> UpTo(3, Assignments),
     erased      |-> UpTo(4, 0..2) \X SUBSET (0..2),
     constraints |-> ((0..2) \X (0..2)) \X ((0..2) \X (0..2))]

Machines == {"file", "tree", "list", "factory", "generator", "watch", "buffer", "log"}

\* A machine that is not the subject rests in one of its initial states.
Init ==
    /\ subject \in Machines \cup DOMAIN Args
    /\ IF subject \in Machines THEN arg = 0 ELSE arg \in Args[subject]
    /\ TreeInit
    /\ FileInit    /\ (subject # "file" =>
                        tmp /\ fullpath = "p" /\ \A f \in Paths : disk[f] = Absent)
    /\ ListInit    /\ (subject # "list" => unique)
    /\ FactoryInit /\ (subject # "factory" => kind = "new")
    /\ GenInit     /\ (subject # "generator" => gen = Data(0, 1))
    /\ WatchInit   /\ (subject # "watch" => mrunning)
    /\ BufferInit  /\ LogInit

FileMoves == /\ subject = "file" /\ FileNext
             /\ UNCHANGED <<subject, arg, treeVars, listVars, factoryVars, genVars, watchVars,
                            bufferVars, logVars>>
TreeMoves == /\ subject = "tree" /\ TreeNext
             /\ UNCHANGED <<subject, arg, fileVars, listVars, factoryVars, genVars, watchVars,
                            bufferVars, logVars>>
ListMoves == /\ subject = "list" /\ ListNext
             /\ UNCHANGED <<subject, arg, fileVars, treeVars, factoryVars, genVars, watchVars,
                            bufferVars, logVars>>
FactoryMoves == /\ subject = "factory" /\ FactoryNext
                /\ UNCHANGED <<subject, arg, fileVars, treeVars, listVars, genVars, watchVars,
                               bufferVars, logVars>>
GeneratorMoves == /\ subject = "generator" /\ GenNext
                  /\ UNCHANGED <<subject, arg, fileVars, treeVars, listVars, factoryVars, watchVars,
                                 bufferVars, logVars>>
WatchMoves == /\ subject = "watch" /\ WatchNext
              /\ UNCHANGED <<subject, arg, fileVars, treeVars, listVars, factoryVars, genVars,
                             bufferVars, logVars>>
BufferMoves == /\ subject = "buffer" /\ BufferNext
               /\ UNCHANGED <<subject, arg, fileVars, treeVars, listVars, factoryVars, genVars,
                              watchVars, logVars>>
LogMoves == /\ subject = "log" /\ LogNext
            /\ UNCHANGED <<subject, arg, fileVars, treeVars, listVars, factoryVars, genVars,
                           watchVars, bufferVars>>

Next == FileMoves \/ TreeMoves \/ ListMoves \/ FactoryMoves \/ GeneratorMoves
        \/ WatchMoves \/ BufferMoves \/ LogMoves

allVars == <<subject, arg, fileVars, treeVars, listVars, factoryVars, genVars, watchVars,
             bufferVars, logVars>>

Spec == Init /\ [][Next]_allVars

-----------------------------------------------------------------------------
\* object.hpp, generator.hpp, person.hpp: two objects written one after the
\* other read back as they were by readers of their classes; a reader of
\* another class keeps its data and loses its id, and the reader after it is
\* not disturbed; an assigned object is equal and keeps its id, a copy has
\* the beginning of its data for an id, a clone has no data.
ObjectsExact ==
    subject = "objects" =>
        /\ ReadsBack(arg[1], arg[2], arg[3], arg[4])
        /\ KeepsOwnData(arg[1], arg[2], arg[3], arg[4])
        /\ CopiesExact(arg[1], arg[2])

\* Each operation of io_util.hpp and its versions for the platforms, and of
\* array.hpp, code_util.hpp, algorithm_util.hpp and constraint.hpp, agrees
\* with its reference definition: a save and a load that both report success
\* hand over the bytes that fclose did not lose, the platforms read the same
\* from a file, data made text are the same data again, compare_range stays
\* in the array unless start + count wraps around, contains gives the first
\* index, a Result with an error is not good again by a value, erasing while
\* iterating visits every entry, and composites of ranges are set operations.
OperationsExact ==
    /\ subject = "saves" =>
         SaveLoadExact(arg[1], arg[2], arg[3], arg[4], arg[5], arg[6])
    /\ subject = "files" =>
         ReadFilesAgree(arg[1], arg[2]) /\ CreatedExists(arg[1]) /\ LinesExact(arg[1])
    /\ subject = "texts" => BinaryTextExact(arg[1], arg[2])
    /\ subject = "comparisons" => ComparesInside(arg[1], arg[2])
    /\ subject = "arrays" => ContainsExact(arg[1], arg[2], arg[3])
    /\ subject = "results" => ResultExact(arg)
    /\ subject = "erased" => EraseExact(arg[1], arg[2])
    /\ subject = "constraints" => ConstraintsExact(arg[1], arg[2], 0..3)
=============================================================================
