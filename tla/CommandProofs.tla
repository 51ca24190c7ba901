--------------------------- MODULE CommandProofs ----------------------------
(***************************************************************************)
(* Proofs about commands and composites: undo touches only what ran, undo  *)
(* after run restores the value, and what a copy written to a buffer reads *)
(* back as.                                                                *)
(***************************************************************************)
EXTENDS CommandCopies, Induction

-----------------------------------------------------------------------------
(***************************************************************************)
(* undo touches only what ran.                                             *)
(***************************************************************************)

\* The leaves that undo would undo.
OkLeaves == {k \in Leaves : mok[k] = "T"}

\* A composite in a composite holds leaves only.
NestedOnce ==
    \A c, d \in Composites : d \in Children(c) => Children(d) \cap Composites = {}

\* The inductive invariant: mok of a leaf is set by a run that ended only.
CommandInd ==
    /\ TypeOK /\ UndoOnlyRun
    /\ OkLeaves \subseteq ran
    /\ NestedOnce
    /\ last \in [op : {"none", "run", "failed", "undone"}, on : Objects \cup {Null}, before : Int]

\* The entries of a composite are objects, MAX_COMMANDS at most.
LEMMA EntriesAre ==
    ASSUME TypeOK, NEW c \in Composites
    PROVE  /\ mcommands[c] \in Seq(Objects) /\ Len(mcommands[c]) \in 0..MAX_COMMANDS
           /\ DOMAIN mcommands[c] = 1..Len(mcommands[c])
           /\ \A i \in DOMAIN mcommands[c] : mcommands[c][i] \in Objects
           /\ Children(c) \subseteq Objects
<1>1. PICK n \in 0..MAX_COMMANDS : mcommands[c] \in [1..n -> Objects]
  BY DEF TypeOK
<1>2. n \in Nat
  BY CommandAssumption
<1>3. mcommands[c] \in Seq(Objects)
  BY <1>1, <1>2
<1>4. Len(mcommands[c]) = n
  BY <1>1, <1>2, <1>3
<1> QED
  BY <1>1, <1>3, <1>4 DEF Children, Range

\* No command has run, none is there.
LEMMA CommandIndInit == Init => CommandInd
<1> SUFFICES ASSUME Init
             PROVE  CommandInd
  OBVIOUS
<1> USE CommandAssumption
<1>1. \A c \in Composites : mcommands[c] = <<>> /\ mcommands[c] \in [1..0 -> Objects]
  <2>1. <<>> \in [1..0 -> Objects]
    OBVIOUS
  <2> QED
    BY <2>1 DEF Init
<1>2. mcommands \in [Composites -> UNION {[1..n -> Objects] : n \in 0..MAX_COMMANDS}]
  <2>1. 0 \in 0..MAX_COMMANDS
    OBVIOUS
  <2>2. \A c \in Composites : mcommands[c] \in UNION {[1..n -> Objects] : n \in 0..MAX_COMMANDS}
    BY <1>1, <2>1
  <2> QED
    BY <2>2 DEF Init
<1>3. last \in [op : {"none", "run", "failed", "undone"}, on : Objects \cup {Null}, before : Int]
  BY DEF Init, Idle
<1>4. TypeOK
  BY <1>2 DEF TypeOK, Init, Idle, Objects
<1>5. OkLeaves = {} /\ UndoOnlyRun
  BY DEF Init, OkLeaves, UndoOnlyRun, Objects
<1>6. NestedOnce
  <2>1. \A c \in Composites : Children(c) = {}
    BY <1>1 DEF Children, Range
  <2> QED
    BY <2>1 DEF NestedOnce
<1> QED
  BY <1>3, <1>4, <1>5, <1>6 DEF CommandInd

\* add makes no composite deeper than two.
LEMMA AddKeeps ==
    ASSUME CommandInd, NEW c \in Composites, NEW o \in Objects, add(c, o)
    PROVE  CommandInd'
<1> USE CommandAssumption
<1> DEFINE s == mcommands[c]
           t == Append(s, o)
           B == UNION {[1..n -> Objects] : n \in 0..MAX_COMMANDS}
<1>1. /\ s \in Seq(Objects) /\ Len(s) \in 0..MAX_COMMANDS /\ DOMAIN s = 1..Len(s)
      /\ TypeOK
  BY EntriesAre DEF CommandInd
<1>2. Len(s) < MAX_COMMANDS
  BY DEF add, HasRoom
<1>3. /\ t \in Seq(Objects) /\ Len(t) = Len(s) + 1 /\ DOMAIN t = 1..(Len(s) + 1)
      /\ t[Len(s) + 1] = o /\ \A i \in 1..Len(s) : t[i] = s[i]
  <2> HIDE DEF s
  <2>1. /\ t \in Seq(Objects) /\ Len(t) = Len(s) + 1
        /\ t[Len(s) + 1] = o /\ \A i \in 1..Len(s) : t[i] = s[i]
    BY <1>1, AppendProperties
  <2> QED
    BY <2>1, LenProperties
<1>4. mcommands' = [mcommands EXCEPT ![c] = t]
  BY DEF add
<1> HIDE DEF s, t
<1>5. t \in B
  <2>1. Len(s) + 1 \in 0..MAX_COMMANDS /\ t \in [1..(Len(s) + 1) -> Objects]
    BY <1>1, <1>2, <1>3, LenProperties
  <2> QED
    BY <2>1
<1>6. mcommands' \in [Composites -> B]
  <2> HIDE DEF B
  <2>1. mcommands \in [Composites -> B]
    BY DEF CommandInd, TypeOK, B
  <2> QED
    BY <1>4, <1>5, <2>1
<1>7. /\ last' = Idle /\ UNCHANGED <<mok, value, ran, undone>>
      /\ Idle \in [op : {"none", "run", "failed", "undone"}, on : Objects \cup {Null}, before : Int]
  BY DEF add, Idle
<1>8. TypeOK'
  BY <1>6, <1>7 DEF CommandInd, TypeOK, Idle
<1>9. mcommands'[c] = t /\ \A d \in Composites \ {c} : mcommands'[d] = mcommands[d]
  <2>1. DOMAIN mcommands = Composites
    BY DEF CommandInd, TypeOK
  <2> QED
    BY <1>4, <2>1
<1>10. /\ Children(c)' = Children(c) \cup {o}
       /\ \A d \in Composites \ {c} : Children(d)' = Children(d)
  <2>1. Range(t) = Range(s) \cup {o}
    <3>1. 1..(Len(s) + 1) = 1..Len(s) \cup {Len(s) + 1}
      BY <1>1
    <3> QED
      BY <1>1, <1>3, <3>1 DEF Range
  <2> QED
    BY <1>9, <2>1 DEF Children, s
<1>11. NestedOnce'
  <2> SUFFICES ASSUME NEW x \in Composites, NEW d \in Composites, d \in Children(x)'
               PROVE  Children(d)' \cap Composites = {}
    BY DEF NestedOnce
  <2>0. /\ o # c
        /\ o \in Composites => (\A y \in Composites : c \notin Children(y))
                               /\ Children(o) \cap Composites = {}
    BY DEF add, Owned
  <2>1. CASE d \in Children(x)
    <3>1. Children(d) \cap Composites = {}
      BY <2>1 DEF CommandInd, NestedOnce
    <3>2. CASE d # c
      BY <1>10, <3>1, <3>2
    <3>3. CASE d = c
      <4>1. o \notin Composites
        BY <2>0, <2>1, <3>3
      <4> QED
        BY <1>10, <3>1, <3>3, <4>1
    <3> QED
      BY <3>2, <3>3
  <2>2. CASE d \notin Children(x)
    <3>1. x = c /\ d = o
      BY <1>10, <2>2
    <3> QED
      BY <1>10, <2>0, <3>1
  <2> QED
    BY <2>1, <2>2
<1>12. OkLeaves' \subseteq ran' /\ UndoOnlyRun'
  BY <1>7 DEF CommandInd, OkLeaves, UndoOnlyRun
<1> QED
  BY <1>7, <1>8, <1>11, <1>12 DEF CommandInd

\* A run, up to its end or to an exception, marks what it adds to ran.
LEMMA RunKeeps ==
    ASSUME CommandInd, NEW order, NEW n, RunPrefix(order, n),
           NEW op \in {"run", "failed"}, NEW o \in Objects,
           last' = [op |-> op, on |-> o, before |-> value]
    PROVE  CommandInd'
<1> DEFINE done == Range(SubSeq(order, 1, n))
<1>1. /\ InBounds(value') /\ ran' = ran \cup (done \cap Leaves)
      /\ mok' = [x \in Objects |-> IF x \in done THEN "T" ELSE mok[x]]
      /\ UNCHANGED <<mcommands, undone>>
  BY DEF RunPrefix
<1> HIDE DEF done
<1>2. value' \in Int /\ value \in Int
  BY <1>1, CommandAssumption DEF InBounds, CommandInd, TypeOK
<1>3. last' \in [op : {"none", "run", "failed", "undone"}, on : Objects \cup {Null}, before : Int]
  BY <1>2
<1>4. TypeOK'
  BY <1>1, <1>2, <1>3 DEF CommandInd, TypeOK
<1>5. OkLeaves' \subseteq ran'
  BY <1>1 DEF CommandInd, OkLeaves, Objects
<1>6. UndoOnlyRun'
  BY <1>1 DEF CommandInd, UndoOnlyRun
<1>7. NestedOnce'
  BY <1>1 DEF CommandInd, NestedOnce, Children
<1> QED
  BY <1>3, <1>4, <1>5, <1>6, <1>7 DEF CommandInd

\* A leaf is undone if it is ok.
LEMMA LeafUndoes ==
    ASSUME NEW k \in Leaves
    PROVE  LeafUndo(k) \in Seq(OkLeaves)
<1>1. CASE Undoes(k)
  <2>1. k \in OkLeaves
    BY <1>1 DEF Undoes, OkLeaves
  <2>2. LeafUndo(k) = <<k>>
    BY <1>1 DEF LeafUndo
  <2> QED
    BY <2>1, <2>2
<1>2. CASE ~Undoes(k)
  <2>1. LeafUndo(k) = <<>>
    BY <1>2 DEF LeafUndo
  <2> QED
    BY <2>1, EmptySeq
<1> QED
  BY <1>1, <1>2

\* So is every leaf of a composite in a composite.
LEMMA SubUndoes ==
    ASSUME TypeOK, NEW c \in Composites, Children(c) \cap Composites = {}
    PROVE  SubUndo(c) \in Seq(OkLeaves)
<1> DEFINE A == [i \in DOMAIN Entries(c) |-> LeafUndo(Entries(c)[i])]
<1>1. /\ Entries(c) = mcommands[c] /\ Len(mcommands[c]) \in Nat
      /\ DOMAIN Entries(c) = 1..Len(mcommands[c])
      /\ \A i \in DOMAIN Entries(c) : Entries(c)[i] \in Leaves
  BY EntriesAre, CommandAssumption DEF Entries, Children, Range, Objects
<1>2. A \in [1..Len(mcommands[c]) -> Seq(OkLeaves)]
  BY <1>1, LeafUndoes
<1>3. A \in Seq(Seq(OkLeaves))
  BY <1>1, <1>2, SeqDef
<1>4. FlattenSeq(A) \in Seq(OkLeaves)
  BY <1>3, FlattenType
<1> QED
  BY <1>4, EmptySeq DEF SubUndo

\* undo of a command or a composite calls _undo for leaves that are ok only.
LEMMA UndoesOk ==
    ASSUME TypeOK, NestedOnce, NEW o \in Objects
    PROVE  UndoOrder(o) \in Seq(OkLeaves)
<1>1. CASE o \in Leaves
  BY <1>1, LeafUndoes DEF UndoOrder
<1>2. CASE o \in Composites /\ o \notin Leaves
  <2> DEFINE Each(k) == IF k \in Leaves THEN LeafUndo(k) ELSE SubUndo(k)
             A == [i \in DOMAIN Entries(o) |-> Each(Entries(o)[i])]
  <2>1. /\ Entries(o) = mcommands[o] /\ Len(mcommands[o]) \in Nat
        /\ DOMAIN Entries(o) = 1..Len(mcommands[o])
        /\ \A i \in DOMAIN Entries(o) : Entries(o)[i] \in Objects /\ Entries(o)[i] \in Children(o)
    BY <1>2, EntriesAre, CommandAssumption DEF Entries, Children, Range
  <2>2. ASSUME NEW k \in Objects, k \in Children(o)
        PROVE  Each(k) \in Seq(OkLeaves)
    <3>1. CASE k \in Leaves
      BY <3>1, LeafUndoes
    <3>2. CASE k \notin Leaves
      <4>1. k \in Composites /\ Children(k) \cap Composites = {}
        BY <1>2, <2>2, <3>2 DEF Objects, NestedOnce
      <4> QED
        BY <3>2, <4>1, SubUndoes
    <3> QED
      BY <3>1, <3>2
  <2> HIDE DEF Each
  <2>3. A \in [1..Len(mcommands[o]) -> Seq(OkLeaves)]
    BY <2>1, <2>2
  <2>4. A \in Seq(Seq(OkLeaves))
    BY <2>1, <2>3, SeqDef
  <2>5. FlattenSeq(A) \in Seq(OkLeaves)
    BY <2>4, FlattenType
  <2>6. UndoOrder(o) = IF ~Undoes(o) THEN <<>> ELSE FlattenSeq(A)
    BY <1>2 DEF UndoOrder, Each
  <2> QED
    BY <2>5, <2>6, EmptySeq
<1> QED
  BY <1>1, <1>2 DEF Objects

\* undo adds to undone what is ok, and so has run.
LEMMA UndoKeeps ==
    ASSUME CommandInd, NEW o \in Objects, undo(o)
    PROVE  CommandInd'
<1> DEFINE u == UndoOrder(o)
<1>1. u \in Seq(OkLeaves)
  BY UndoesOk DEF CommandInd
<1>2. Range(u) \subseteq OkLeaves
  <2> HIDE DEF u
  <2> QED
    BY <1>1, LenProperties, ElementOfSeq DEF Range
<1>3. /\ InBounds(value') /\ undone' = undone \cup Range(u)
      /\ last' = IF last.op = "run" /\ last.on = o
                 THEN [last EXCEPT !.op = "undone"] ELSE Idle
      /\ UNCHANGED <<mcommands, mok, ran>>
  BY DEF undo
<1> HIDE DEF u
<1>4. last' \in [op : {"none", "run", "failed", "undone"}, on : Objects \cup {Null}, before : Int]
  BY <1>3 DEF CommandInd, Idle
<1>5. TypeOK'
  <2>1. value' \in Int
    BY <1>3, CommandAssumption DEF InBounds
  <2>2. undone' \subseteq Leaves
    BY <1>2, <1>3 DEF CommandInd, TypeOK, OkLeaves
  <2> QED
    BY <1>3, <1>4, <2>1, <2>2 DEF CommandInd, TypeOK
<1>6. OkLeaves' = OkLeaves /\ UndoOnlyRun'
  BY <1>2, <1>3 DEF CommandInd, OkLeaves, UndoOnlyRun
<1>7. NestedOnce'
  BY <1>3 DEF CommandInd, NestedOnce, Children
<1> QED
  BY <1>3, <1>4, <1>5, <1>6, <1>7 DEF CommandInd

\* Every step keeps the invariant.
LEMMA CommandIndNext == CommandInd /\ [Next]_vars => CommandInd'
<1> SUFFICES ASSUME CommandInd, [Next]_vars
             PROVE  CommandInd'
  OBVIOUS
<1>1. CASE UNCHANGED vars
  BY <1>1 DEF vars, CommandInd, TypeOK, UndoOnlyRun, OkLeaves, NestedOnce, Children
<1>2. ASSUME NEW c \in Composites, NEW o \in Objects, add(c, o)
      PROVE  CommandInd'
  BY <1>2, AddKeeps
<1>3. ASSUME NEW o \in Objects, run(o)
      PROVE  CommandInd'
  BY <1>3, RunKeeps DEF run
<1>4. ASSUME NEW o \in Objects, run_throws(o)
      PROVE  CommandInd'
  BY <1>4, RunKeeps DEF run_throws
<1>5. ASSUME NEW o \in Objects, undo(o)
      PROVE  CommandInd'
  BY <1>5, UndoKeeps
<1> QED
  BY <1>1, <1>2, <1>3, <1>4, <1>5 DEF Next

\* However runs, exceptions, adds and undos are mixed, _undo is called only
\* for commands that have run to their end, and no composite holds more than
\* MAX_COMMANDS, whatever the commands are.
THEOREM UndoSafety == Spec => []UndoInv
<1>1. Init => CommandInd
  BY CommandIndInit
<1>2. CommandInd /\ [Next]_vars => CommandInd'
  BY CommandIndNext
<1>3. CommandInd => UndoInv
  BY DEF CommandInd, UndoInv
<1> QED
  BY <1>1, <1>2, <1>3, PTL DEF Spec

-----------------------------------------------------------------------------
(***************************************************************************)
(* What commands that add and subtract make of the value.                  *)
(***************************************************************************)

\* The commands add to and subtract from the value, as those of a composite
\* in the tests do.
Additive == \A l \in Leaves : Effect[l] \in {"Inc", "Dec"}

\* What a command adds to the value; a composite has no _run of its own.
Weight(o) == IF o \notin Leaves THEN 0 ELSE IF Effect[o] = "Inc" THEN 1 ELSE -1

\* g goes from v by the weights of s, forwards or backwards.
Goes(g, v, s) == g[0] = v /\ \A n \in 1..Len(s) : g[n] = g[n - 1] + Weight(s[n])
GoesBack(g, v, s) == g[0] = v /\ \A n \in 1..Len(s) : g[n] = g[n - 1] - Weight(s[n])

\* _run adds the weight and _undo takes it away.
LEMMA StepWeights ==
    ASSUME Additive, NEW v \in Int, NEW o \in Objects
    PROVE  /\ _run(v, o) = v + Weight(o) /\ Weight(o) \in Int
           /\ o \in Leaves => _undo(v, o) = v - Weight(o)
BY DEF Additive, Weight, _run, _undo, Objects

\* RunAll is where the weights lead from v.
LEMMA RunGoes ==
    ASSUME Additive, NEW v \in Int, NEW s \in Seq(Objects)
    PROVE  \E g \in [0..Len(s) -> Int] : Goes(g, v, s) /\ RunAll(v, s) = g[Len(s)]
<1> DEFINE m == Len(s)
           X == Int
           G == [p \in (1..m) \X X |-> _run(p[2], s[p[1]])]
<1>1. m \in Nat /\ \A n \in 1..m : s[n] \in Objects
  BY LenProperties, ElementOfSeq
<1>2. G \in [(1..m) \X X -> X]
  <2> SUFFICES ASSUME NEW p \in (1..m) \X X
               PROVE  _run(p[2], s[p[1]]) \in X
    OBVIOUS
  <2>1. p[2] \in Int /\ s[p[1]] \in Objects
    BY <1>1
  <2> QED
    BY <2>1, StepWeights
<1>3. \E g \in [0..m -> X] : RecursFrom(g, m, v, G)
  <2>1. v \in X
    OBVIOUS
  <2> HIDE DEF m, X, G
  <2> QED
    BY <1>1, <1>2, <2>1, IndexedRecursionExists
<1>4. PICK g \in [0..m -> X] : RecursFrom(g, m, v, G)
  BY <1>3
<1>5. ASSUME NEW n \in 1..m
      PROVE  n - 1 \in 0..m /\ g[n - 1] \in Int /\ g[n] = _run(g[n - 1], s[n])
  <2>1. n - 1 \in 0..m
    BY <1>1
  <2>2. <<n, g[n - 1]>> \in (1..m) \X X
    BY <2>1
  <2> QED
    BY <1>4, <2>1, <2>2 DEF RecursFrom
<1>6. g[0] = v
  BY <1>4 DEF RecursFrom
<1>7. Goes(g, v, s)
  BY <1>1, <1>5, <1>6, StepWeights DEF Goes
<1>8. g = [n \in 0..m |-> IF n = 0 THEN v ELSE _run(g[n - 1], s[n])]
  <2>1. \A n \in 0..m : g[n] = IF n = 0 THEN v ELSE _run(g[n - 1], s[n])
    BY <1>1, <1>5, <1>6
  <2> QED
    BY <2>1
<1> DEFINE f == CHOOSE f : f = [n \in 0..m |-> IF n = 0 THEN v ELSE _run(f[n - 1], s[n])]
<1>9. RunAll(v, s) = f[m]
  BY DEF RunAll
<1>10. f = [n \in 0..m |-> IF n = 0 THEN v ELSE _run(f[n - 1], s[n])]
  BY <1>8
<1> HIDE DEF f
<1> DEFINE T == {n \in Nat : n <= m => f[n] = g[n]}
<1>11. 0 \in T
  BY <1>1, <1>6, <1>10
<1>12. ASSUME NEW n \in Nat, n \in T
       PROVE  n + 1 \in T
  <2> SUFFICES ASSUME n + 1 <= m
               PROVE  f[n + 1] = g[n + 1]
    OBVIOUS
  <2>1. n + 1 \in 1..m /\ n + 1 \in 0..m /\ n + 1 # 0 /\ n + 1 - 1 = n /\ f[n] = g[n]
    BY <1>1, <1>12
  <2> DEFINE j == n + 1
  <2> HIDE DEF j
  <2>2. f[j] = _run(f[j - 1], s[j])
    BY <1>10, <2>1 DEF j
  <2>3. g[j] = _run(g[j - 1], s[j])
    BY <1>5, <2>1 DEF j
  <2>4. f[j - 1] = g[j - 1]
    BY <2>1 DEF j
  <2>5. f[j] = g[j]
    BY <2>2, <2>3, <2>4
  <2> QED
    BY <2>5 DEF j
<1>13. m \in T
  <2> HIDE DEF T, m
  <2> QED
    BY <1>1, <1>11, <1>12, NatInductive
<1> QED
  BY <1>1, <1>7, <1>9, <1>13

\* UndoAll is where the weights lead back to from v.
LEMMA UndoGoes ==
    ASSUME Additive, NEW v \in Int, NEW s \in Seq(Leaves)
    PROVE  \E g \in [0..Len(s) -> Int] : GoesBack(g, v, s) /\ UndoAll(v, s) = g[Len(s)]
<1> DEFINE m == Len(s)
           X == Int
           G == [p \in (1..m) \X X |-> _undo(p[2], s[p[1]])]
<1>1. m \in Nat /\ \A n \in 1..m : s[n] \in Leaves
  BY LenProperties, ElementOfSeq
<1>2. G \in [(1..m) \X X -> X]
  <2> SUFFICES ASSUME NEW p \in (1..m) \X X
               PROVE  _undo(p[2], s[p[1]]) \in X
    OBVIOUS
  <2>1. p[2] \in Int /\ s[p[1]] \in Leaves
    BY <1>1
  <2> QED
    BY <2>1, StepWeights DEF Objects
<1>3. \E g \in [0..m -> X] : RecursFrom(g, m, v, G)
  <2>1. v \in X
    OBVIOUS
  <2> HIDE DEF m, X, G
  <2> QED
    BY <1>1, <1>2, <2>1, IndexedRecursionExists
<1>4. PICK g \in [0..m -> X] : RecursFrom(g, m, v, G)
  BY <1>3
<1>5. ASSUME NEW n \in 1..m
      PROVE  n - 1 \in 0..m /\ g[n - 1] \in Int /\ g[n] = _undo(g[n - 1], s[n])
  <2>1. n - 1 \in 0..m
    BY <1>1
  <2>2. <<n, g[n - 1]>> \in (1..m) \X X
    BY <2>1
  <2> QED
    BY <1>4, <2>1, <2>2 DEF RecursFrom
<1>6. g[0] = v
  BY <1>4 DEF RecursFrom
<1>7. GoesBack(g, v, s)
  BY <1>1, <1>5, <1>6, StepWeights DEF GoesBack, Objects
<1>8. g = [n \in 0..m |-> IF n = 0 THEN v ELSE _undo(g[n - 1], s[n])]
  <2>1. \A n \in 0..m : g[n] = IF n = 0 THEN v ELSE _undo(g[n - 1], s[n])
    BY <1>1, <1>5, <1>6
  <2> QED
    BY <2>1
<1> DEFINE f == CHOOSE f : f = [n \in 0..m |-> IF n = 0 THEN v ELSE _undo(f[n - 1], s[n])]
<1>9. UndoAll(v, s) = f[m]
  BY DEF UndoAll
<1>10. f = [n \in 0..m |-> IF n = 0 THEN v ELSE _undo(f[n - 1], s[n])]
  BY <1>8
<1> HIDE DEF f
<1> DEFINE T == {n \in Nat : n <= m => f[n] = g[n]}
<1>11. 0 \in T
  BY <1>1, <1>6, <1>10
<1>12. ASSUME NEW n \in Nat, n \in T
       PROVE  n + 1 \in T
  <2> SUFFICES ASSUME n + 1 <= m
               PROVE  f[n + 1] = g[n + 1]
    OBVIOUS
  <2>1. n + 1 \in 1..m /\ n + 1 \in 0..m /\ n + 1 # 0 /\ n + 1 - 1 = n /\ f[n] = g[n]
    BY <1>1, <1>12
  <2> DEFINE j == n + 1
  <2> HIDE DEF j
  <2>2. f[j] = _undo(f[j - 1], s[j])
    BY <1>10, <2>1 DEF j
  <2>3. g[j] = _undo(g[j - 1], s[j])
    BY <1>5, <2>1 DEF j
  <2>4. f[j - 1] = g[j - 1]
    BY <2>1 DEF j
  <2>5. f[j] = g[j]
    BY <2>2, <2>3, <2>4
  <2> QED
    BY <2>5 DEF j
<1>13. m \in T
  <2> HIDE DEF T, m
  <2> QED
    BY <1>1, <1>11, <1>12, NatInductive
<1> QED
  BY <1>1, <1>7, <1>9, <1>13

\* Two ways by the same weights stay as far apart as they began.
LEMMA GoesParallel ==
    ASSUME Additive, NEW s \in Seq(Objects), NEW v \in Int, NEW w \in Int,
           NEW g \in [0..Len(s) -> Int], NEW h \in [0..Len(s) -> Int],
           Goes(g, v, s), Goes(h, w, s)
    PROVE  \A n \in 0..Len(s) : g[n] - v = h[n] - w
<1> DEFINE m == Len(s)
           T == {n \in Nat : n <= m => g[n] - v = h[n] - w}
<1>1. m \in Nat /\ \A n \in 1..m : Weight(s[n]) \in Int
  BY LenProperties, ElementOfSeq, StepWeights
<1>2. 0 \in T
  BY DEF Goes
<1>3. ASSUME NEW n \in Nat, n \in T
      PROVE  n + 1 \in T
  <2> SUFFICES ASSUME n + 1 <= m
               PROVE  g[n + 1] - v = h[n + 1] - w
    OBVIOUS
  <2>1. n + 1 \in 1..m /\ n + 1 - 1 = n /\ n \in 0..m /\ n + 1 \in 0..m
    BY <1>1
  <2>2. g[n] - v = h[n] - w
    BY <1>1, <1>3, <2>1
  <2>3. g[n + 1] = g[n] + Weight(s[n + 1]) /\ h[n + 1] = h[n] + Weight(s[n + 1])
    BY <2>1 DEF Goes
  <2>4. g[n] \in Int /\ h[n] \in Int /\ Weight(s[n + 1]) \in Int
    BY <1>1, <2>1
  <2> QED
    BY <2>2, <2>3, <2>4
<1>4. Nat \subseteq T
  <2> HIDE DEF T
  <2> QED
    BY <1>2, <1>3, NatInductive
<1> QED
  BY <1>1, <1>4

\* Backwards it goes as far as forwards.
LEMMA GoesOpposite ==
    ASSUME Additive, NEW s \in Seq(Objects), NEW v \in Int, NEW w \in Int,
           NEW g \in [0..Len(s) -> Int], NEW h \in [0..Len(s) -> Int],
           GoesBack(g, v, s), Goes(h, w, s)
    PROVE  \A n \in 0..Len(s) : v - g[n] = h[n] - w
<1> DEFINE m == Len(s)
           T == {n \in Nat : n <= m => v - g[n] = h[n] - w}
<1>1. m \in Nat /\ \A n \in 1..m : Weight(s[n]) \in Int
  BY LenProperties, ElementOfSeq, StepWeights
<1>2. 0 \in T
  BY DEF Goes, GoesBack
<1>3. ASSUME NEW n \in Nat, n \in T
      PROVE  n + 1 \in T
  <2> SUFFICES ASSUME n + 1 <= m
               PROVE  v - g[n + 1] = h[n + 1] - w
    OBVIOUS
  <2>1. n + 1 \in 1..m /\ n + 1 - 1 = n /\ n \in 0..m /\ n + 1 \in 0..m
    BY <1>1
  <2>2. v - g[n] = h[n] - w
    BY <1>1, <1>3, <2>1
  <2>3. g[n + 1] = g[n] - Weight(s[n + 1]) /\ h[n + 1] = h[n] + Weight(s[n + 1])
    BY <2>1 DEF Goes, GoesBack
  <2>4. g[n] \in Int /\ h[n] \in Int /\ Weight(s[n + 1]) \in Int
    BY <1>1, <2>1
  <2>5. \A a, b, x \in Int : v - a = b - w => v - (a - x) = (b + x) - w
    OBVIOUS
  <2>6. v - (g[n] - Weight(s[n + 1])) = (h[n] + Weight(s[n + 1])) - w
    BY <2>2, <2>4, <2>5, Zenon
  <2> QED
    BY <2>3, <2>6, Zenon
<1>4. Nat \subseteq T
  <2> HIDE DEF T
  <2> QED
    BY <1>2, <1>3, NatInductive
<1> QED
  BY <1>1, <1>4

\* What the commands of s add to a value.
Total(s) == RunAll(0, s)

\* Where the weights lead is given by the total.
LEMMA GoesTotal ==
    ASSUME Additive, NEW v \in Int, NEW s \in Seq(Objects)
    PROVE  /\ Total(s) \in Int
           /\ \A g \in [0..Len(s) -> Int] :
                 /\ Goes(g, v, s) => g[Len(s)] = v + Total(s)
                 /\ GoesBack(g, v, s) => g[Len(s)] = v - Total(s)
<1> DEFINE z == 0
<1>1. z \in Int
  OBVIOUS
<1>2. Total(s) = RunAll(z, s)
  BY DEF Total
<1>3. \A n \in Int : n - z = n
  OBVIOUS
<1> HIDE DEF z
<1>4. PICK h \in [0..Len(s) -> Int] : Goes(h, z, s) /\ RunAll(z, s) = h[Len(s)]
  BY <1>1, RunGoes
<1>5. Len(s) \in 0..Len(s)
  BY LenProperties
<1>6. h[Len(s)] - z = Total(s) /\ Total(s) \in Int
  BY <1>2, <1>3, <1>4, <1>5
<1>7. ASSUME NEW g \in [0..Len(s) -> Int], Goes(g, v, s)
      PROVE  g[Len(s)] = v + Total(s)
  <2>1. g[Len(s)] - v = h[Len(s)] - z
    BY <1>1, <1>4, <1>5, <1>7, GoesParallel
  <2> QED
    BY <1>5, <1>6, <2>1
<1>8. ASSUME NEW g \in [0..Len(s) -> Int], GoesBack(g, v, s)
      PROVE  g[Len(s)] = v - Total(s)
  <2>1. v - g[Len(s)] = h[Len(s)] - z
    BY <1>1, <1>4, <1>5, <1>8, GoesOpposite
  <2> QED
    BY <1>5, <1>6, <2>1
<1> QED
  BY <1>6, <1>7, <1>8

\* RunAll adds the total.
LEMMA RunTotal ==
    ASSUME Additive, NEW v \in Int, NEW s \in Seq(Objects)
    PROVE  RunAll(v, s) = v + Total(s)
<1>1. PICK g \in [0..Len(s) -> Int] : Goes(g, v, s) /\ RunAll(v, s) = g[Len(s)]
  BY RunGoes
<1> QED
  BY <1>1, GoesTotal

\* UndoAll takes the total away.
LEMMA UndoTotal ==
    ASSUME Additive, NEW v \in Int, NEW s \in Seq(Leaves)
    PROVE  UndoAll(v, s) = v - Total(s)
<1>1. s \in Seq(Objects)
  BY DEF Objects
<1>2. PICK g \in [0..Len(s) -> Int] : GoesBack(g, v, s) /\ UndoAll(v, s) = g[Len(s)]
  BY UndoGoes
<1> QED
  BY <1>1, <1>2, GoesTotal

\* The way of the total begins at 0.
LEMMA TotalGoes ==
    ASSUME Additive, NEW s \in Seq(Objects)
    PROVE  \E g \in [0..Len(s) -> Int] :
              g[0] = 0 /\ Goes(g, g[0], s) /\ Total(s) = g[Len(s)]
<1> DEFINE z == 0
<1>1. z \in Int
  OBVIOUS
<1> HIDE DEF z
<1>2. PICK h \in [0..Len(s) -> Int] : Goes(h, z, s) /\ RunAll(z, s) = h[Len(s)]
  BY <1>1, RunGoes
<1> QED
  BY <1>2 DEF Goes, Total, z

\* No command adds nothing, and one its weight.
LEMMA SmallTotals ==
    ASSUME Additive
    PROVE  Total(<<>>) = 0 /\ \A o \in Objects : Total(<<o>>) = Weight(o)
<1>1. Total(<<>>) = 0
  <2> DEFINE e == <<>>
  <2>1. e \in Seq(Objects) /\ Len(e) = 0
    BY EmptySeq
  <2> HIDE DEF e
  <2>2. PICK g \in [0..Len(e) -> Int] : g[0] = 0 /\ Goes(g, g[0], e) /\ Total(e) = g[Len(e)]
    BY <2>1, TotalGoes
  <2>3. Total(e) = 0
    BY <2>1, <2>2
  <2> QED
    BY <2>3 DEF e
<1>2. ASSUME NEW o \in Objects
      PROVE  Total(<<o>>) = Weight(o)
  <2> DEFINE e == <<o>>
  <2>1. e \in Seq(Objects) /\ Len(e) = 1 /\ e[1] = o
    OBVIOUS
  <2> HIDE DEF e
  <2>2. PICK g \in [0..Len(e) -> Int] : g[0] = 0 /\ Goes(g, g[0], e) /\ Total(e) = g[Len(e)]
    BY <2>1, TotalGoes
  <2>3. g[1] = g[1 - 1] + Weight(e[1]) /\ g[0] = 0
    BY <2>1, <2>2 DEF Goes
  <2>4. Weight(o) \in Int
    BY StepWeights
  <2>5. Total(e) = Weight(o)
    BY <2>1, <2>2, <2>3, <2>4
  <2> QED
    BY <2>5 DEF e
<1> QED
  BY <1>1, <1>2

\* One after the other, the totals add up.
LEMMA TotalsAdd ==
    ASSUME Additive, NEW s \in Seq(Objects), NEW t \in Seq(Objects)
    PROVE  Total(s \o t) = Total(s) + Total(t)
<1> DEFINE u == s \o t
<1>1. /\ u \in Seq(Objects) /\ Len(s) \in Nat /\ Len(t) \in Nat /\ Len(u) = Len(s) + Len(t)
      /\ \A i \in 1..Len(s) : u[i] = s[i]
      /\ \A i \in 1..Len(t) : u[Len(s) + i] = t[i]
  BY ConcatProperties, LenProperties
<1> HIDE DEF u
<1>2. PICK g \in [0..Len(u) -> Int] : g[0] = 0 /\ Goes(g, g[0], u) /\ Total(u) = g[Len(u)]
  BY <1>1, TotalGoes
<1> DEFINE gs == [n \in 0..Len(s) |-> g[n]]
           gt == [n \in 0..Len(t) |-> g[Len(s) + n]]
           k == g[Len(s)]
           z == g[0]
<1>5. gs \in [0..Len(s) -> Int] /\ gt \in [0..Len(t) -> Int] /\ k \in Int /\ z \in Int /\ z = 0
  BY <1>1, <1>2
<1>6. Goes(gs, z, s)
  <2>1. gs[0] = z
    BY <1>1, <1>2 DEF Goes
  <2>2. ASSUME NEW n \in 1..Len(s)
        PROVE  gs[n] = gs[n - 1] + Weight(s[n])
    <3>1. n \in 1..Len(u) /\ n \in 0..Len(s) /\ n - 1 \in 0..Len(s)
      BY <1>1
    <3> QED
      BY <1>1, <1>2, <3>1 DEF Goes
  <2> HIDE DEF gs, z
  <2> QED
    BY <2>1, <2>2 DEF Goes
<1>7. Goes(gt, k, t)
  <2>1. gt[0] = k
    BY <1>1
  <2>2. ASSUME NEW n \in 1..Len(t)
        PROVE  gt[n] = gt[n - 1] + Weight(t[n])
    <3>1. /\ Len(s) + n \in 1..Len(u) /\ n \in 0..Len(t) /\ n - 1 \in 0..Len(t)
          /\ Len(s) + n - 1 = Len(s) + (n - 1)
      BY <1>1
    <3>2. g[Len(s) + n] = g[Len(s) + n - 1] + Weight(u[Len(s) + n])
      BY <1>2, <3>1 DEF Goes
    <3>3. u[Len(s) + n] = t[n]
      BY <1>1
    <3>4. g[Len(s) + n] = g[Len(s) + (n - 1)] + Weight(t[n])
      BY <3>1, <3>2, <3>3
    <3> QED
      BY <3>1, <3>4
  <2> HIDE DEF gt, k
  <2> QED
    BY <2>1, <2>2 DEF Goes
<1>8. Len(s) \in 0..Len(s) /\ Len(t) \in 0..Len(t)
  BY <1>1
<1>9. gs[Len(s)] = k /\ gt[Len(t)] = g[Len(u)]
  BY <1>1
<1> HIDE DEF gs, gt, k, z
<1>10. gs[Len(s)] = z + Total(s) /\ Total(s) \in Int
  BY <1>5, <1>6, GoesTotal
<1>11. gt[Len(t)] = k + Total(t) /\ Total(t) \in Int
  BY <1>5, <1>7, GoesTotal
<1>12. Total(u) = Total(s) + Total(t)
  BY <1>2, <1>5, <1>9, <1>10, <1>11
<1> QED
  BY <1>12 DEF u

\* The parts of what is put together are in it.
LEMMA FlattenCovers ==
    ASSUME NEW S, NEW A \in Seq(Seq(S)), NEW i \in 1..Len(A)
    PROVE  Range(A[i]) \subseteq Range(FlattenSeq(A))
<1>1. PICK g \in [0..Len(A) -> Seq(S)] : Joins(g, A) /\ FlattenSeq(A) = g[Len(A)]
  BY FlattenJoins
<1> DEFINE m == Len(A)
           T == {n \in Nat : n <= m /\ i <= n => Range(A[i]) \subseteq Range(g[n])}
<1>2. m \in Nat /\ \A n \in 1..m : A[n] \in Seq(S)
  BY LenProperties, ElementOfSeq
<1>3. 0 \in T
  BY <1>2
<1>4. ASSUME NEW n \in Nat, n \in T
      PROVE  n + 1 \in T
  <2> SUFFICES ASSUME n + 1 <= m, i <= n + 1
               PROVE  Range(A[i]) \subseteq Range(g[n + 1])
    OBVIOUS
  <2> DEFINE j == n + 1
  <2>1. j \in 1..m /\ j - 1 = n /\ n \in 0..m
    BY <1>2
  <2>2. i = j \/ i <= n
    BY <1>2
  <2> HIDE DEF j
  <2>3. g[j] = g[n] \o A[j]
    BY <1>1, <2>1 DEF Joins
  <2>4. Range(g[n]) \subseteq Range(g[j]) /\ Range(A[j]) \subseteq Range(g[j])
    <3> DEFINE x == g[n]
               y == A[j]
    <3>1. x \in Seq(S) /\ y \in Seq(S)
      BY <1>2, <2>1
    <3> HIDE DEF x, y
    <3>2. Range(x) \subseteq Range(x \o y) /\ Range(y) \subseteq Range(x \o y)
      <4> DEFINE z == x \o y
      <4>1. /\ Len(z) = Len(x) + Len(y) /\ Len(x) \in Nat /\ Len(y) \in Nat
            /\ DOMAIN z = 1..Len(z) /\ DOMAIN x = 1..Len(x) /\ DOMAIN y = 1..Len(y)
            /\ \A k \in 1..Len(x) : z[k] = x[k]
            /\ \A k \in 1..Len(y) : z[Len(x) + k] = y[k]
        BY <3>1
      <4> HIDE DEF z
      <4>2. Range(x) \subseteq Range(z)
        BY <4>1 DEF Range
      <4>3. ASSUME NEW k \in 1..Len(y)
            PROVE  y[k] \in Range(z)
        <5>1. Len(x) + k \in DOMAIN z
          BY <4>1
        <5> QED
          BY <4>1, <5>1 DEF Range
      <4>4. Range(y) \subseteq Range(z)
        BY <4>1, <4>3 DEF Range
      <4> QED
        BY <4>2, <4>4 DEF z
    <3> QED
      BY <2>3, <3>2 DEF x, y
  <2>5. CASE i = j
    BY <2>4, <2>5 DEF j
  <2>6. CASE i <= n
    <3>1. Range(A[i]) \subseteq Range(g[n])
      BY <1>2, <1>4, <2>1, <2>6
    <3> QED
      BY <2>4, <3>1 DEF j
  <2> QED
    BY <2>2, <2>5, <2>6
<1>5. m \in T
  <2> HIDE DEF T, m
  <2> QED
    BY <1>2, <1>3, <1>4, NatInductive
<1> QED
  BY <1>1, <1>2, <1>5

\* If parts have the same totals, so has what is put together.
LEMMA FlattenTotals ==
    ASSUME Additive, NEW A \in Seq(Seq(Objects)), NEW B \in Seq(Seq(Objects)),
           Len(A) = Len(B), \A i \in 1..Len(A) : Total(A[i]) = Total(B[i])
    PROVE  Total(FlattenSeq(A)) = Total(FlattenSeq(B))
<1>1. PICK g \in [0..Len(A) -> Seq(Objects)] : Joins(g, A) /\ FlattenSeq(A) = g[Len(A)]
  BY FlattenJoins
<1>2. PICK h \in [0..Len(B) -> Seq(Objects)] : Joins(h, B) /\ FlattenSeq(B) = h[Len(B)]
  BY FlattenJoins
<1> DEFINE m == Len(A)
           T == {n \in Nat : n <= m => Total(g[n]) = Total(h[n])}
<1>3. m \in Nat /\ \A n \in 1..m : A[n] \in Seq(Objects) /\ B[n] \in Seq(Objects)
  BY LenProperties, ElementOfSeq
<1>4. 0 \in T
  BY <1>1, <1>2 DEF Joins
<1>5. ASSUME NEW n \in Nat, n \in T
      PROVE  n + 1 \in T
  <2> SUFFICES ASSUME n + 1 <= m
               PROVE  Total(g[n + 1]) = Total(h[n + 1])
    OBVIOUS
  <2> DEFINE j == n + 1
             ga == g[n]
             hb == h[n]
             a == A[j]
             b == B[j]
  <2>1. j \in 1..m /\ j - 1 = n /\ n \in 0..m /\ n <= m
    BY <1>3
  <2> HIDE DEF j
  <2>2. ga \in Seq(Objects) /\ hb \in Seq(Objects) /\ a \in Seq(Objects) /\ b \in Seq(Objects)
    BY <1>3, <2>1
  <2>3. g[j] = ga \o a /\ h[j] = hb \o b
    BY <1>1, <1>2, <2>1 DEF Joins
  <2>4. Total(ga) = Total(hb) /\ Total(a) = Total(b)
    BY <1>5, <2>1
  <2> HIDE DEF ga, hb, a, b
  <2>5. Total(ga \o a) = Total(ga) + Total(a) /\ Total(hb \o b) = Total(hb) + Total(b)
    BY <2>2, TotalsAdd
  <2>6. Total(g[j]) = Total(h[j])
    BY <2>3, <2>4, <2>5, Zenon
  <2> QED
    BY <2>6 DEF j
<1>6. m \in T
  <2> HIDE DEF T, m
  <2> QED
    BY <1>3, <1>4, <1>5, NatInductive
<1> QED
  BY <1>1, <1>2, <1>3, <1>6

\* Commands that are put together one by one have the total of them all.
LEMMA SinglesTotal ==
    ASSUME Additive, NEW s \in Seq(Objects), NEW A \in Seq(Seq(Objects)),
           Len(A) = Len(s), \A i \in 1..Len(s) : A[i] = <<s[i]>>
    PROVE  Total(FlattenSeq(A)) = Total(s)
<1>1. PICK g \in [0..Len(A) -> Seq(Objects)] : Joins(g, A) /\ FlattenSeq(A) = g[Len(A)]
  BY FlattenJoins
<1>2. PICK h \in [0..Len(s) -> Int] : h[0] = 0 /\ Goes(h, h[0], s) /\ Total(s) = h[Len(s)]
  BY TotalGoes
<1> DEFINE m == Len(s)
           T == {n \in Nat : n <= m => Total(g[n]) = h[n]}
<1>3. m \in Nat /\ \A n \in 1..m : A[n] \in Seq(Objects) /\ s[n] \in Objects
  BY LenProperties, ElementOfSeq
<1>4. 0 \in T
  BY <1>1, <1>2, SmallTotals DEF Joins
<1>5. ASSUME NEW n \in Nat, n \in T
      PROVE  n + 1 \in T
  <2> SUFFICES ASSUME n + 1 <= m
               PROVE  Total(g[n + 1]) = h[n + 1]
    OBVIOUS
  <2> DEFINE j == n + 1
             ga == g[n]
             a == A[j]
  <2>1. j \in 1..m /\ j - 1 = n /\ n \in 0..m /\ n <= m
    BY <1>3
  <2> HIDE DEF j
  <2>2. ga \in Seq(Objects) /\ a \in Seq(Objects) /\ a = <<s[j]>> /\ s[j] \in Objects
    BY <1>3, <2>1
  <2>3. g[j] = ga \o a /\ h[j] = h[n] + Weight(s[j])
    BY <1>1, <1>2, <2>1 DEF Joins, Goes
  <2>4. Total(ga) = h[n]
    BY <1>5, <2>1
  <2>5. Total(a) = Weight(s[j])
    BY <2>2, SmallTotals
  <2> HIDE DEF ga, a
  <2>6. Total(ga \o a) = Total(ga) + Total(a)
    BY <2>2, TotalsAdd
  <2>7. Total(g[j]) = h[j]
    BY <2>3, <2>4, <2>5, <2>6, Zenon
  <2> QED
    BY <2>7 DEF j
<1>6. m \in T
  <2> HIDE DEF T, m
  <2> QED
    BY <1>3, <1>4, <1>5, NatInductive
<1> QED
  BY <1>1, <1>2, <1>3, <1>6

\* A composite adds nothing to its commands.
LEMMA CompositeTotal ==
    ASSUME Additive, NEW s \in Seq(Objects), NEW c \in Composites
    PROVE  Append(s, c) \in Seq(Objects) /\ Total(Append(s, c)) = Total(s)
<1> DEFINE t == <<c>>
<1>1. c \in Objects /\ c \notin Leaves /\ t \in Seq(Objects)
  BY CommandAssumption DEF Objects
<1>2. Append(s, c) = s \o t /\ Append(s, c) \in Seq(Objects)
  BY <1>1, AppendIsConcat, AppendProperties
<1>3. Total(t) = 0
  BY <1>1, SmallTotals DEF Weight
<1> HIDE DEF t
<1>4. Total(s \o t) = Total(s) + Total(t)
  BY <1>1, TotalsAdd
<1>5. Total(s) \in Int
  <2>1. 0 \in Int
    OBVIOUS
  <2> QED
    BY <2>1, GoesTotal
<1> QED
  BY <1>2, <1>3, <1>4, <1>5

-----------------------------------------------------------------------------
(***************************************************************************)
(* undo after run restores the value.                                      *)
(***************************************************************************)

\* What an entry of a composite completes, and what undo of it calls.
EntryCompletes(k) == IF k \in Leaves THEN <<k>> ELSE Append(mcommands[k], k)
EntryUndo(k) == IF k \in Leaves THEN LeafUndo(k) ELSE SubUndo(k)
CompletesOf(c) == [i \in DOMAIN mcommands[c] |-> EntryCompletes(mcommands[c][i])]
UndoOf(c) == [i \in DOMAIN Entries(c) |-> EntryUndo(Entries(c)[i])]

\* A run of a composite completes what its entries do, then the composite.
LEMMA CompositeCompletes ==
    ASSUME TypeOK, NEW c \in Composites
    PROVE  /\ CompletesOf(c) \in Seq(Seq(Objects))
           /\ Len(CompletesOf(c)) = Len(mcommands[c])
           /\ \A i \in 1..Len(mcommands[c]) : CompletesOf(c)[i] = EntryCompletes(mcommands[c][i])
           /\ FlattenSeq(CompletesOf(c)) \in Seq(Objects)
           /\ Completes(c) = Append(FlattenSeq(CompletesOf(c)), c)
           /\ Completes(c) \in Seq(Objects)
           /\ Range(Completes(c)) = Range(FlattenSeq(CompletesOf(c))) \cup {c}
<1> DEFINE A == CompletesOf(c)
           m == Len(mcommands[c])
<1>1. /\ m \in Nat /\ DOMAIN mcommands[c] = 1..m
      /\ \A i \in 1..m : mcommands[c][i] \in Objects
  BY EntriesAre, CommandAssumption
<1>2. ASSUME NEW k \in Objects
      PROVE  EntryCompletes(k) \in Seq(Objects)
  <2>1. CASE k \in Leaves
    BY <2>1 DEF EntryCompletes
  <2>2. CASE k \notin Leaves
    <3>1. k \in Composites /\ mcommands[k] \in Seq(Objects)
      BY <2>2, EntriesAre DEF Objects
    <3> QED
      BY <2>2, <3>1, AppendProperties DEF EntryCompletes
  <2> QED
    BY <2>1, <2>2
<1>3. /\ A \in [1..m -> Seq(Objects)]
      /\ \A i \in 1..m : A[i] = EntryCompletes(mcommands[c][i])
  BY <1>1, <1>2 DEF CompletesOf
<1>4. A \in Seq(Seq(Objects)) /\ Len(A) = m
  <2> HIDE DEF A, m
  <2>1. A \in Seq(Seq(Objects)) /\ DOMAIN A = 1..m
    BY <1>1, <1>3, SeqDef
  <2> QED
    BY <1>1, <2>1, LenProperties
<1>5. FlattenSeq(A) \in Seq(Objects)
  <2> HIDE DEF A
  <2> QED
    BY <1>4, FlattenType
<1>6. Completes(c) = Append(FlattenSeq(A), c)
  <2>1. c \notin Leaves
    BY CommandAssumption
  <2> QED
    BY <2>1 DEF Completes, CompletesOf, EntryCompletes
<1> DEFINE s == FlattenSeq(A)
<1>7. c \in Objects /\ Append(s, c) \in Seq(Objects) /\ Range(Append(s, c)) = Range(s) \cup {c}
  <2>1. c \in Objects /\ s \in Seq(Objects)
    BY <1>5 DEF Objects
  <2> HIDE DEF s
  <2> DEFINE t == Append(s, c)
  <2>2. /\ t \in Seq(Objects) /\ Len(t) = Len(s) + 1 /\ Len(s) \in Nat
        /\ t[Len(s) + 1] = c /\ \A i \in 1..Len(s) : t[i] = s[i]
    BY <2>1, AppendProperties, LenProperties
  <2> HIDE DEF t
  <2>3. DOMAIN t = 1..(Len(s) + 1) /\ DOMAIN s = 1..Len(s)
    BY <2>1, <2>2, LenProperties
  <2>4. 1..(Len(s) + 1) = 1..Len(s) \cup {Len(s) + 1}
    BY <2>2
  <2>5. Range(t) = Range(s) \cup {c}
    BY <2>2, <2>3, <2>4 DEF Range
  <2> QED
    BY <2>1, <2>2, <2>5 DEF t
<1> QED
  BY <1>3, <1>4, <1>5, <1>6, <1>7

\* What a run completes are objects.
LEMMA CompletesType ==
    ASSUME TypeOK, NEW o \in Objects
    PROVE  Completes(o) \in Seq(Objects)
<1>1. CASE o \in Leaves
  <2>1. Completes(o) = <<o>>
    BY <1>1 DEF Completes
  <2> QED
    BY <2>1
<1>2. CASE o \in Composites
  BY <1>2, CompositeCompletes
<1> QED
  BY <1>1, <1>2 DEF Objects

\* If a leaf is ok, undo calls _undo of it.
LEMMA OkLeafUndo ==
    ASSUME NEW k, mok[k] = "T"
    PROVE  LeafUndo(k) = <<k>>
BY DEF LeafUndo, Undoes

\* undo of a composite in a composite, of which all is ok, is the total of
\* its entries.
LEMMA SubTotal ==
    ASSUME Additive, TypeOK, NEW k \in Composites, Children(k) \cap Composites = {},
           mok[k] = "T", \A x \in Children(k) : mok[x] = "T"
    PROVE  Total(SubUndo(k)) = Total(mcommands[k])
<1> DEFINE s == mcommands[k]
           A == [i \in DOMAIN Entries(k) |-> LeafUndo(Entries(k)[i])]
<1>1. /\ s \in Seq(Objects) /\ Len(s) \in Nat /\ DOMAIN s = 1..Len(s) /\ Entries(k) = s
      /\ \A i \in 1..Len(s) : s[i] \in Objects /\ mok[s[i]] = "T"
  BY EntriesAre, CommandAssumption DEF Entries, Children, Range
<1>2. SubUndo(k) = FlattenSeq(A)
  BY DEF SubUndo, Undoes
<1>3. /\ A \in [1..Len(s) -> Seq(Objects)]
      /\ \A i \in 1..Len(s) : A[i] = <<s[i]>>
  <2>1. \A i \in 1..Len(s) : LeafUndo(s[i]) = <<s[i]>>
    BY <1>1, OkLeafUndo
  <2>2. \A i \in 1..Len(s) : <<s[i]>> \in Seq(Objects)
    BY <1>1
  <2>3. A = [i \in 1..Len(s) |-> LeafUndo(s[i])]
    BY <1>1
  <2> HIDE DEF s, A
  <2> QED
    BY <2>1, <2>2, <2>3
<1> HIDE DEF s, A
<1>4. A \in Seq(Seq(Objects)) /\ Len(A) = Len(s)
  <2>1. A \in Seq(Seq(Objects)) /\ DOMAIN A = 1..Len(s)
    BY <1>1, <1>3, SeqDef
  <2> QED
    BY <1>1, <2>1, LenProperties
<1>5. Total(FlattenSeq(A)) = Total(s)
  BY <1>1, <1>3, <1>4, SinglesTotal
<1> QED
  BY <1>2, <1>5 DEF s

\* Every part of an object that completed.
AllOk(o) == \A x \in Range(Completes(o)) : mok[x] = "T"

\* undo of an object of which all is ok takes away what its run adds.
LEMMA UndoMatchesRun ==
    ASSUME Additive, TypeOK, NestedOnce, NEW o \in Objects, AllOk(o)
    PROVE  Total(UndoOrder(o)) = Total(Completes(o))
<1>1. CASE o \in Leaves
  <2>1. Completes(o) = <<o>> /\ UndoOrder(o) = LeafUndo(o)
    BY <1>1 DEF Completes, UndoOrder
  <2>2. o \in Range(Completes(o))
    BY <2>1 DEF Range
  <2>3. LeafUndo(o) = <<o>>
    BY <2>2, OkLeafUndo DEF AllOk
  <2> QED
    BY <2>1, <2>3
<1>2. CASE o \in Composites
  <2> DEFINE A == CompletesOf(o)
             B == UndoOf(o)
             m == Len(mcommands[o])
  <2>1. /\ A \in Seq(Seq(Objects)) /\ Len(A) = m /\ FlattenSeq(A) \in Seq(Objects)
        /\ \A i \in 1..m : A[i] = EntryCompletes(mcommands[o][i])
        /\ Completes(o) = Append(FlattenSeq(A), o)
        /\ Range(Completes(o)) = Range(FlattenSeq(A)) \cup {o}
    BY <1>2, CompositeCompletes
  <2>2. /\ m \in Nat /\ DOMAIN mcommands[o] = 1..m
        /\ \A i \in 1..m : mcommands[o][i] \in Objects /\ mcommands[o][i] \in Children(o)
    BY <1>2, EntriesAre, CommandAssumption DEF Children, Range
  <2>3. UndoOrder(o) = FlattenSeq(B)
    <3>1. o \notin Leaves /\ Undoes(o)
      BY <1>2, <2>1, CommandAssumption DEF AllOk, Undoes
    <3> QED
      BY <3>1 DEF UndoOrder, UndoOf, EntryUndo
  <2>4. ASSUME NEW i \in 1..m
        PROVE  /\ EntryUndo(mcommands[o][i]) \in Seq(Objects)
               /\ Total(A[i]) = Total(EntryUndo(mcommands[o][i]))
    <3> DEFINE k == mcommands[o][i]
    <3>1. k \in Objects /\ k \in Children(o) /\ A[i] = EntryCompletes(k)
      BY <2>1, <2>2
    <3>2. \A x \in Range(EntryCompletes(k)) : mok[x] = "T"
      <4>1. i \in 1..Len(A)
        BY <2>1
      <4> HIDE DEF A
      <4>2. Range(A[i]) \subseteq Range(FlattenSeq(A))
        BY <2>1, <4>1, FlattenCovers
      <4> QED
        BY <2>1, <3>1, <4>2 DEF AllOk
    <3> HIDE DEF k, A
    <3>3. CASE k \in Leaves
      <4>1. EntryCompletes(k) = <<k>> /\ EntryUndo(k) = LeafUndo(k)
        BY <3>3 DEF EntryCompletes, EntryUndo
      <4>2. k \in Range(<<k>>)
        BY DEF Range
      <4>3. LeafUndo(k) = <<k>>
        BY <3>2, <4>1, <4>2, OkLeafUndo
      <4>4. <<k>> \in Seq(Objects)
        BY <3>1
      <4> QED
        BY <3>1, <4>1, <4>3, <4>4 DEF k
    <3>4. CASE k \notin Leaves
      <4>1. k \in Composites /\ Children(k) \cap Composites = {}
        BY <1>2, <3>1, <3>4 DEF Objects, NestedOnce
      <4>2. EntryCompletes(k) = Append(mcommands[k], k) /\ EntryUndo(k) = SubUndo(k)
        BY <3>4 DEF EntryCompletes, EntryUndo
      <4> DEFINE s == mcommands[k]
                 t == Append(s, k)
      <4>3. s \in Seq(Objects)
        BY <4>1, EntriesAre
      <4> HIDE DEF s
      <4>4. /\ t \in Seq(Objects) /\ Len(t) = Len(s) + 1 /\ Len(s) \in Nat
            /\ t[Len(s) + 1] = k /\ \A j \in 1..Len(s) : t[j] = s[j]
        BY <3>1, <4>3, AppendProperties, LenProperties
      <4>5. DOMAIN t = 1..(Len(s) + 1) /\ DOMAIN s = 1..Len(s)
        BY <4>3, <4>4, LenProperties
      <4> HIDE DEF t
      <4>6. k \in Range(t) /\ Range(s) \subseteq Range(t)
        BY <4>4, <4>5 DEF Range
      <4>7. mok[k] = "T" /\ \A x \in Children(k) : mok[x] = "T"
        BY <3>2, <4>2, <4>6 DEF Children, s, t
      <4>8. Total(SubUndo(k)) = Total(s)
        BY <4>1, <4>7, SubTotal DEF s
      <4>9. Total(t) = Total(s)
        BY <4>1, <4>3, CompositeTotal DEF t
      <4>10. SubUndo(k) \in Seq(Objects)
        <5>1. SubUndo(k) \in Seq(OkLeaves)
          BY <4>1, SubUndoes
        <5>2. OkLeaves \subseteq Objects
          BY DEF OkLeaves, Objects
        <5> QED
          BY <5>1, <5>2
      <4> QED
        BY <3>1, <4>2, <4>8, <4>9, <4>10 DEF k, s, t
    <3> QED
      BY <3>3, <3>4
  <2>5. /\ B \in [1..m -> Seq(Objects)]
        /\ \A i \in 1..m : B[i] = EntryUndo(mcommands[o][i])
    BY <2>2, <2>4 DEF UndoOf, Entries
  <2> HIDE DEF A, B, m
  <2>6. B \in Seq(Seq(Objects)) /\ Len(B) = m
    <3>1. B \in Seq(Seq(Objects)) /\ DOMAIN B = 1..m
      BY <2>2, <2>5, SeqDef
    <3> QED
      BY <2>2, <3>1, LenProperties
  <2>7. Total(FlattenSeq(A)) = Total(FlattenSeq(B))
    <3>1. \A i \in 1..Len(A) : Total(A[i]) = Total(B[i])
      BY <2>1, <2>4, <2>5
    <3> QED
      BY <2>1, <2>6, <3>1, FlattenTotals
  <2>8. Total(Append(FlattenSeq(A), o)) = Total(FlattenSeq(A))
    <3> DEFINE s == FlattenSeq(A)
    <3>1. s \in Seq(Objects)
      BY <2>1
    <3> HIDE DEF s
    <3>2. Total(Append(s, o)) = Total(s)
      BY <1>2, <3>1, CompositeTotal
    <3> QED
      BY <3>2 DEF s
  <2> QED
    BY <2>1, <2>3, <2>7, <2>8
<1> QED
  BY <1>1, <1>2 DEF Objects

\* The inductive invariant: after a run all that completed is ok, and the
\* value is what the run makes of the value before.
JustRun ==
    last.op = "run" =>
        /\ last.on \in Objects /\ AllOk(last.on)
        /\ value = RunAll(last.before, Completes(last.on))
RestoreInd == CommandInd /\ JustRun /\ UndoRestores

\* The order of completion depends on the entries only.
LEMMA CompletesStay ==
    ASSUME mcommands' = mcommands, NEW o
    PROVE  Completes(o)' = Completes(o)
BY DEF Completes

\* A run to the end makes the value, and mok, what the order says.
LEMMA RunRestores ==
    ASSUME RestoreInd, NEW o \in Objects, run(o)
    PROVE  (JustRun /\ UndoRestores)'
<1> DEFINE s == Completes(o)
<1>1. s \in Seq(Objects) /\ TypeOK
  BY CompletesType DEF RestoreInd, CommandInd
<1>2. RunPrefix(s, Len(s)) /\ last' = [op |-> "run", on |-> o, before |-> value]
  BY DEF run
<1>3. Completes(o)' = s
  BY <1>2, CompletesStay DEF RunPrefix
<1>4. SubSeq(s, 1, Len(s)) = s /\ Range(s) \subseteq Objects
  <2> HIDE DEF s
  <2>1. SubSeq(s, 1, Len(s)) = s
    BY <1>1, SubSeqFull
  <2> QED
    BY <1>1, <2>1, LenProperties, ElementOfSeq DEF Range
<1> HIDE DEF s
<1>5. value' = RunAll(value, s) /\ mok' = [x \in Objects |-> IF x \in Range(s) THEN "T" ELSE mok[x]]
  BY <1>2, <1>4 DEF RunPrefix
<1>6. AllOk(o)'
  BY <1>3, <1>4, <1>5 DEF AllOk
<1>7. last'.op = "run" /\ last'.on = o /\ last'.before = value
  BY <1>2
<1> QED
  BY <1>3, <1>5, <1>6, <1>7 DEF JustRun, UndoRestores

\* undo after the run takes away what the run added.
LEMMA UndoComesBack ==
    ASSUME Additive, RestoreInd, NEW o \in Objects, undo(o)
    PROVE  (JustRun /\ UndoRestores)'
<1>1. /\ value' = UndoAll(value, UndoOrder(o))
      /\ last' = IF last.op = "run" /\ last.on = o
                 THEN [last EXCEPT !.op = "undone"] ELSE Idle
  BY DEF undo
<1>2. /\ last \in [op : {"none", "run", "failed", "undone"}, on : Objects \cup {Null}, before : Int]
      /\ TypeOK /\ NestedOnce /\ value \in Int
  BY DEF RestoreInd, CommandInd, TypeOK
<1>3. CASE last.op = "run" /\ last.on = o
  <2> DEFINE v == last.before
             s == Completes(o)
             u == UndoOrder(o)
  <2>1. v \in Int /\ s \in Seq(Objects) /\ AllOk(o) /\ value = RunAll(v, s)
    BY <1>2, <1>3, CompletesType DEF RestoreInd, JustRun
  <2>2. u \in Seq(Leaves)
    <3>1. u \in Seq(OkLeaves) /\ OkLeaves \subseteq Leaves
      BY <1>2, UndoesOk DEF OkLeaves
    <3> QED
      BY <3>1
  <2>3. Total(u) = Total(s)
    BY <1>2, <2>1, UndoMatchesRun
  <2>4. last'.op = "undone" /\ last'.before = v
    BY <1>1, <1>2, <1>3
  <2>5. value' = UndoAll(value, u)
    BY <1>1
  <2> HIDE DEF v, s, u
  <2>6. value = v + Total(s) /\ Total(s) \in Int
    BY <2>1, RunTotal, GoesTotal
  <2>7. UndoAll(value, u) = value - Total(u)
    BY <1>2, <2>2, UndoTotal
  <2>8. value' = v
    BY <2>1, <2>3, <2>5, <2>6, <2>7
  <2> QED
    BY <2>4, <2>8 DEF JustRun, UndoRestores
<1>4. CASE ~(last.op = "run" /\ last.on = o)
  <2>1. last'.op = "none"
    BY <1>1, <1>4 DEF Idle
  <2> QED
    BY <2>1 DEF JustRun, UndoRestores
<1> QED
  BY <1>3, <1>4

\* A command or a composite, nested or not, that has run without an
\* exception is undone by undo, for commands that add and subtract: the
\* order, which is the same for run and undo, does not matter for these.
THEOREM UndoIsInverse ==
    ASSUME Additive
    PROVE  Spec => []UndoRestores
<1>1. Init => RestoreInd
  <2>1. Init => JustRun /\ UndoRestores
    BY DEF Init, Idle, JustRun, UndoRestores
  <2> QED
    BY <2>1, CommandIndInit DEF RestoreInd
<1>2. RestoreInd /\ [Next]_vars => RestoreInd'
  <2> SUFFICES ASSUME RestoreInd, [Next]_vars
               PROVE  (JustRun /\ UndoRestores)'
    BY CommandIndNext DEF RestoreInd
  <2>1. CASE UNCHANGED vars
    BY <2>1 DEF vars, RestoreInd, JustRun, UndoRestores, AllOk, Completes
  <2>2. ASSUME NEW c \in Composites, NEW o \in Objects, add(c, o)
        PROVE  (JustRun /\ UndoRestores)'
    BY <2>2 DEF add, Idle, JustRun, UndoRestores
  <2>3. ASSUME NEW o \in Objects, run(o)
        PROVE  (JustRun /\ UndoRestores)'
    BY <2>3, RunRestores
  <2>4. ASSUME NEW o \in Objects, run_throws(o)
        PROVE  (JustRun /\ UndoRestores)'
    BY <2>4 DEF run_throws, JustRun, UndoRestores
  <2>5. ASSUME NEW o \in Objects, undo(o)
        PROVE  (JustRun /\ UndoRestores)'
    BY <2>5, UndoComesBack
  <2> QED
    BY <2>1, <2>2, <2>3, <2>4, <2>5 DEF Next
<1>3. RestoreInd => UndoRestores
  BY DEF RestoreInd
<1> QED
  BY <1>1, <1>2, <1>3, PTL DEF Spec

-----------------------------------------------------------------------------
(***************************************************************************)
(* Reading what was written.                                               *)
(***************************************************************************)

\* A reader, field by field; and an object.
Rd(b, a, o, e, s) == [buf |-> b, at |-> a, o |-> o, entries |-> e, stopped |-> s]
Obj(c, i, d) == [class |-> c, id |-> i, data |-> d]

\* read of the units that lie where a reader is.
LEMMA UnitsThere ==
    ASSUME NEW S, NEW b \in Seq(S), NEW a \in Nat, NEW x \in Seq(S), LiesAt(b, a, x),
           NEW r, r.buf = b, r.at = a, NEW n, Len(x) = n
    PROVE  Enough(r, n) /\ Units(r, n) = x /\ Past(r, n) = [r EXCEPT !.at = a + n]
<1>1. n \in Nat /\ Len(b) \in Nat /\ a + n <= Len(b)
  BY DEF LiesAt
<1>2. Enough(r, n)
  BY <1>1 DEF Enough
<1>3. SubSeq(b, a + 1, a + n) = x
  BY PartThere
<1>4. Units(r, n) = x
  BY <1>2, <1>3 DEF Units
<1>5. Past(r, n) = [r EXCEPT !.at = a + n]
  BY <1>2 DEF Past
<1> QED
  BY <1>2, <1>4, <1>5

\* The same for the reader of a composite.
LEMMA UnitsLie ==
    ASSUME NEW S, NEW b \in Seq(S), NEW a \in Nat, NEW x \in Seq(S), LiesAt(b, a, x),
           NEW o, NEW e, NEW s, NEW n, Len(x) = n
    PROVE  /\ Enough(Rd(b, a, o, e, s), n) /\ Units(Rd(b, a, o, e, s), n) = x
           /\ Past(Rd(b, a, o, e, s), n) = Rd(b, a + n, o, e, s)
<1> DEFINE r == Rd(b, a, o, e, s)
<1>1. r.buf = b /\ r.at = a
  BY DEF Rd
<1>2. [r EXCEPT !.at = a + n] = Rd(b, a + n, o, e, s)
  BY DEF Rd
<1> HIDE DEF r
<1>3. Enough(r, n) /\ Units(r, n) = x /\ Past(r, n) = [r EXCEPT !.at = a + n]
  BY <1>1, UnitsThere
<1> QED
  BY <1>2, <1>3 DEF r

\* The fields of a reader.
LEMMA RdFields ==
    ASSUME NEW b, NEW a, NEW o, NEW e, NEW s
    PROVE  /\ Rd(b, a, o, e, s).o = o /\ Rd(b, a, o, e, s).stopped = s
           /\ Rd(b, a, o, e, s).buf = b /\ Rd(b, a, o, e, s).at = a
           /\ Rd(b, a, o, e, s).entries = e
  BY DEF Rd

\* A reader that changes in one field.
LEMMA RdChanges ==
    ASSUME NEW b, NEW a, NEW o, NEW e, NEW s, NEW z
    PROVE  /\ [Rd(b, a, o, e, s) EXCEPT !.o = z] = Rd(b, a, z, e, s)
           /\ [Rd(b, a, o, e, s) EXCEPT !.stopped = z] = Rd(b, a, o, e, z)
           /\ [Rd(b, a, o, e, s) EXCEPT !.entries = z] = Rd(b, a, o, z, s)
<1>1. [Rd(b, a, o, e, s) EXCEPT !.o = z] = Rd(b, a, z, e, s)
  BY DEF Rd
<1>2. [Rd(b, a, o, e, s) EXCEPT !.stopped = z] = Rd(b, a, o, e, z)
  BY DEF Rd
<1>3. [Rd(b, a, o, e, s) EXCEPT !.entries = z] = Rd(b, a, o, z, s)
  BY DEF Rd
<1> QED
  BY <1>1, <1>2, <1>3

\* The units that are written.
Named == {"Object", "Command", "CompositeCommand", "NullCommand"}
UnitSet ==
    ({"info"} \X Named \X (1..InfoSize)) \cup ({"id"} \X Objects)
        \cup ({"mok"} \X {"UNKNOWN", "T"}) \cup ({"count"} \X Nat)

\* A ClassInfo names its class.
LEMMA InfoIs ==
    ASSUME NEW d \in Named
    PROVE  /\ Info(d) \in Seq(UnitSet) /\ Len(Info(d)) = InfoSize
           /\ \A i \in 1..InfoSize : Info(d)[i] = <<"info", d, i>>
           /\ \A f \in Named : Info(d) = Info(f) => d = f
<1>1. InfoSize = 4
  BY DEF InfoSize
<1>2. \A f : Info(f) = [i \in 1..InfoSize |-> <<"info", f, i>>]
  BY DEF Info
<1>3. \A i \in 1..InfoSize : <<"info", d, i>> \in UnitSet
  BY DEF UnitSet
<1>4. Info(d) \in [1..InfoSize -> UnitSet] /\ InfoSize \in Nat
  BY <1>1, <1>2, <1>3
<1>5. Info(d) \in Seq(UnitSet) /\ Len(Info(d)) = InfoSize
  <2> DEFINE x == Info(d)
             S == UnitSet
             n == InfoSize
  <2> HIDE DEF x, S, n
  <2>1. x \in [1..n -> S] /\ n \in Nat
    BY <1>4 DEF x, S, n
  <2>2. x \in Seq(S) /\ Len(x) = n
    BY <2>1
  <2> QED
    BY <2>2 DEF x, S, n
<1>6. ASSUME NEW f \in Named, Info(d) = Info(f)
      PROVE  d = f
  <2>1. <<"info", d, 1>> = <<"info", f, 1>>
    <3>1. Info(d)[1] = <<"info", d, 1>> /\ Info(f)[1] = <<"info", f, 1>>
      BY <1>1, <1>2
    <3> QED
      BY <1>6, <3>1
  <2> QED
    BY <2>1
<1> QED
  BY <1>2, <1>5, <1>6

\* read of a ClassInfo that is there.
LEMMA InfoLies ==
    ASSUME NEW d \in Named, NEW b \in Seq(UnitSet), NEW a \in Nat, LiesAt(b, a, Info(d)),
           NEW o, NEW e, NEW s
    PROVE  /\ Units(Rd(b, a, o, e, s), InfoSize) = Info(d)
           /\ Past(Rd(b, a, o, e, s), InfoSize) = Rd(b, a + 4, o, e, s)
<1> DEFINE S == UnitSet
           x == Info(d)
           n == InfoSize
<1>1. x \in Seq(S) /\ Len(x) = n /\ b \in Seq(S) /\ LiesAt(b, a, x)
  BY InfoIs
<1>2. n = 4
  BY DEF InfoSize
<1> HIDE DEF S, x, n
<1>3. /\ Units(Rd(b, a, o, e, s), n) = x
      /\ Past(Rd(b, a, o, e, s), n) = Rd(b, a + n, o, e, s)
  BY <1>1, UnitsLie
<1> QED
  BY <1>2, <1>3 DEF x, n

\* read of a unit that is there.
LEMMA UnitLies ==
    ASSUME NEW u \in UnitSet, NEW b \in Seq(UnitSet), NEW a \in Nat, LiesAt(b, a, <<u>>),
           NEW o, NEW e, NEW s
    PROVE  /\ Enough(Rd(b, a, o, e, s), 1) /\ Units(Rd(b, a, o, e, s), 1) = <<u>>
           /\ Past(Rd(b, a, o, e, s), 1) = Rd(b, a + 1, o, e, s)
<1> DEFINE S == UnitSet
           x == <<u>>
           n == 1
<1>1. x \in Seq(S) /\ Len(x) = n /\ b \in Seq(S) /\ LiesAt(b, a, x)
  BY UnitIs
<1> HIDE DEF S, x, n
<1>3. /\ Enough(Rd(b, a, o, e, s), n) /\ Units(Rd(b, a, o, e, s), n) = x
      /\ Past(Rd(b, a, o, e, s), n) = Rd(b, a + n, o, e, s)
  BY <1>1, UnitsLie
<1> QED
  BY <1>3 DEF x, n

\* The units of the Object part and of the Command part.
ObjectUnits(o) == Info("Object") \o <<<<"id", o>>>>
MokUnits(o) == Info("Command") \o <<<<"mok", mok[o]>>>>

\* What a command writes.
LEMMA CommandUnits ==
    ASSUME TypeOK, NEW o \in Objects
    PROVE  /\ WriteCommand(o) = ObjectUnits(o) \o MokUnits(o)
           /\ <<"id", o>> \in UnitSet /\ <<"mok", mok[o]>> \in UnitSet
           /\ ObjectUnits(o) \in Seq(UnitSet) /\ Len(ObjectUnits(o)) = 5
           /\ MokUnits(o) \in Seq(UnitSet) /\ Len(MokUnits(o)) = 5
           /\ WriteCommand(o) \in Seq(UnitSet) /\ Len(WriteCommand(o)) = 10
<1>1. WriteCommand(o) = ObjectUnits(o) \o MokUnits(o)
  BY DEF WriteCommand, WriteObject, WriteData, AsObject, ObjectUnits, MokUnits
<1>2. <<"id", o>> \in UnitSet /\ <<"mok", mok[o]>> \in UnitSet
  <2>1. mok[o] \in {"UNKNOWN", "T"}
    BY DEF TypeOK
  <2> QED
    BY <2>1 DEF UnitSet
<1>3. ASSUME NEW d \in Named, NEW u \in UnitSet
      PROVE  Info(d) \o <<u>> \in Seq(UnitSet) /\ Len(Info(d) \o <<u>>) = 5
  <2> DEFINE x == Info(d)
             S == UnitSet
  <2>1. x \in Seq(S) /\ Len(x) = 4
    BY InfoIs DEF InfoSize
  <2> HIDE DEF x, S
  <2>2. <<u>> \in Seq(S) /\ Len(<<u>>) = 1
    BY UnitIs DEF S
  <2>3. x \o <<u>> \in Seq(S) /\ Len(x \o <<u>>) = Len(x) + Len(<<u>>)
    BY <2>1, <2>2, ConcatProperties
  <2>4. Len(x) + Len(<<u>>) = 5
    BY <2>1, <2>2
  <2> QED
    BY <2>3, <2>4 DEF x, S
<1>4. /\ ObjectUnits(o) \in Seq(UnitSet) /\ Len(ObjectUnits(o)) = 5
      /\ MokUnits(o) \in Seq(UnitSet) /\ Len(MokUnits(o)) = 5
  BY <1>2, <1>3 DEF ObjectUnits, MokUnits, Named
<1>5. WriteCommand(o) \in Seq(UnitSet) /\ Len(WriteCommand(o)) = 10
  <2> DEFINE S == UnitSet
             x == ObjectUnits(o)
             y == MokUnits(o)
  <2> HIDE DEF S, x, y
  <2>1. x \in Seq(S) /\ y \in Seq(S) /\ Len(x) = 5 /\ Len(y) = 5 /\ WriteCommand(o) = x \o y
    BY <1>1, <1>4 DEF S, x, y
  <2>2. x \o y \in Seq(S) /\ Len(x \o y) = Len(x) + Len(y)
    BY <2>1, ConcatProperties
  <2> QED
    BY <2>1, <2>2 DEF S
<1> QED
  BY <1>1, <1>2, <1>4, <1>5

\* Object::read of an object that was written.
LEMMA ObjectReadBack ==
    ASSUME TypeOK, NEW o \in Objects, NEW b \in Seq(UnitSet), NEW a \in Nat,
           LiesAt(b, a, ObjectUnits(o)), NEW c, NEW i, NEW d, NEW e, NEW s
    PROVE  ReadObject(Rd(b, a, Obj(c, i, d), e, s)) = Rd(b, a + 5, Obj(c, o, d), e, s)
<1> DEFINE S == UnitSet
           u == <<"id", o>>
           f == "Object"
           x == Info(f)
           y == <<u>>
           h == a + 4
           q == Obj(c, i, d)
           r == Rd(b, a, q, e, s)
           t == Rd(b, h, q, e, s)
           v == Rd(b, h + 1, q, e, s)
<1>1. /\ f \in Named /\ x \in Seq(S) /\ Len(x) = 4
      /\ u \in S /\ y \in Seq(S) /\ y[1][2] = o
  BY InfoIs, CommandUnits, UnitIs DEF InfoSize, Named
<1>2. b \in Seq(S) /\ LiesAt(b, a, x \o y) /\ h \in Nat /\ h + 1 = a + 5
  BY DEF ObjectUnits
<1>3. Verified(r, f) <=> Units(r, InfoSize) = x
  BY DEF Verified
<1> HIDE DEF S, x, y, u, f, q, h
<1>4. LiesAt(b, a, x) /\ LiesAt(b, h, y)
  BY <1>1, <1>2, LiesParts DEF h
<1>5. Units(r, InfoSize) = x /\ Past(r, InfoSize) = t
  BY <1>1, <1>2, <1>4, InfoLies DEF S, x, h
<1>6. Enough(t, 1) /\ Units(t, 1) = y /\ Past(t, 1) = v
  BY <1>1, <1>2, <1>4, UnitLies DEF S, y
<1> HIDE DEF r, t, v
<1>7. ReadObject(r) = [v EXCEPT !.o.id = y[1][2]]
  BY <1>3, <1>5, <1>6 DEF ReadObject, f
<1>8. [v EXCEPT !.o.id = o] = Rd(b, h + 1, Obj(c, o, d), e, s)
  BY DEF Rd, Obj, q, v
<1> QED
  BY <1>1, <1>2, <1>7, <1>8 DEF q, r

\* The rest of Command::read.
LEMMA MokReadBack ==
    ASSUME TypeOK, NEW o \in Objects, NEW b \in Seq(UnitSet), NEW a \in Nat,
           LiesAt(b, a, MokUnits(o)), NEW i, NEW d, NEW e, NEW s
    PROVE  ReadData(Rd(b, a, Obj("Command", i, d), e, s)) =
              Rd(b, a + 5, Obj("Command", i, <<<<"mok", mok[o]>>>>), e, s)
<1> DEFINE S == UnitSet
           u == <<"mok", mok[o]>>
           f == "Command"
           x == Info(f)
           y == <<u>>
           h == a + 4
           q == Obj(f, i, d)
           r == Rd(b, a, q, e, s)
           t == Rd(b, h, q, e, s)
           v == Rd(b, h + 1, q, e, s)
<1>1. /\ f \in Named /\ x \in Seq(S) /\ Len(x) = 4
      /\ u \in S /\ y \in Seq(S)
  BY InfoIs, CommandUnits, UnitIs DEF InfoSize, Named
<1>2. b \in Seq(S) /\ LiesAt(b, a, x \o y) /\ h \in Nat /\ h + 1 = a + 5
  BY DEF MokUnits
<1>3. Verified(r, f) <=> Units(r, InfoSize) = x
  BY DEF Verified
<1>9. r.o.class = f /\ Sizes[f] = 1
  BY DEF Rd, Obj, Sizes
<1> HIDE DEF S, x, y, u, f, q, h
<1>4. LiesAt(b, a, x) /\ LiesAt(b, h, y)
  BY <1>1, <1>2, LiesParts DEF h
<1>5. Units(r, InfoSize) = x /\ Past(r, InfoSize) = t
  BY <1>1, <1>2, <1>4, InfoLies DEF S, x, h
<1>6. Enough(t, 1) /\ Units(t, 1) = y /\ Past(t, 1) = v
  BY <1>1, <1>2, <1>4, UnitLies DEF S, y
<1> HIDE DEF r, t, v
<1>7. ReadData(r) = [v EXCEPT !.o.data = y]
  BY <1>3, <1>5, <1>6, <1>9 DEF ReadData
<1>8. [v EXCEPT !.o.data = y] = Rd(b, h + 1, Obj(f, i, y), e, s)
  BY DEF Rd, Obj, q, v
<1> QED
  BY <1>2, <1>7, <1>8 DEF q, r, f, y, u

\* Command::read of a command that was written.
LEMMA CommandReadBack ==
    ASSUME TypeOK, NEW o \in Objects, NEW b \in Seq(UnitSet), NEW a \in Nat,
           LiesAt(b, a, WriteCommand(o)), NEW i, NEW e, NEW s
    PROVE  ReadCommand(Rd(b, a, NewCommand(i), e, s)) = Rd(b, a + 10, AsObject(o), e, s)
<1> DEFINE S == UnitSet
           x == ObjectUnits(o)
           y == MokUnits(o)
           h == a + 5
           f == "Command"
           d == <<<<"mok", "UNKNOWN">>>>
           g == <<<<"mok", mok[o]>>>>
<1>1. x \in Seq(S) /\ Len(x) = 5 /\ y \in Seq(S) /\ LiesAt(b, a, x \o y) /\ b \in Seq(S)
  BY CommandUnits
<1>6. AsObject(o) = Obj(f, o, g) /\ NewCommand(i) = Obj(f, i, d)
  BY DEF AsObject, Obj, NewCommand
<1> HIDE DEF S, x, y, d
<1>2. LiesAt(b, a, x) /\ LiesAt(b, a + 5, y)
  BY <1>1, LiesParts
<1>3. h \in Nat /\ h + 5 = a + 10 /\ LiesAt(b, h, y)
  BY <1>2
<1> HIDE DEF h
<1>5. ReadData(Rd(b, h, Obj(f, o, d), e, s)) = Rd(b, h + 5, Obj(f, o, g), e, s)
  BY <1>3, MokReadBack DEF y
<1> HIDE DEF f, g
<1>4. ReadObject(Rd(b, a, Obj(f, i, d), e, s)) = Rd(b, h, Obj(f, o, d), e, s)
  BY <1>2, ObjectReadBack DEF x, h
<1> QED
  BY <1>3, <1>4, <1>5, <1>6 DEF ReadCommand

\* The units of a command of a registered class, and the entry it becomes.
NullUnits(k) == Info("NullCommand") \o WriteCommand(k)
Entered(e, i, k) == [e EXCEPT ![i] = AsObject(k)]

\* The reader has not stopped.
Going(s) == s = FALSE

\* One turn of CompositeCommand::read at such a command.
LEMMA EntryReadBack ==
    ASSUME TypeOK, NEW k \in Objects, NEW b \in Seq(UnitSet), NEW a \in Nat,
           LiesAt(b, a, NullUnits(k)), NEW o, NEW e, NEW i, NEW s, Going(s)
    PROVE  ReadEntry(Rd(b, a, o, e, s), i) = Rd(b, a + 14, o, Entered(e, i, k), s)
<1> DEFINE S == UnitSet
           f == "NullCommand"
           x == Info(f)
           y == WriteCommand(k)
           h == a + 4
           m == h + 10
           p == NewCommand(Null)
           g == AsObject(k)
           r == Rd(b, a, o, e, s)
           t == Rd(b, h, o, e, s)
           u == Rd(b, h, p, e, s)
           w == Rd(b, m, g, e, s)
<1>1. f \in Named /\ x \in Seq(S) /\ Len(x) = 4 /\ y \in Seq(S) /\ b \in Seq(S) /\ LiesAt(b, a, x \o y)
  BY InfoIs, CommandUnits DEF InfoSize, Named, NullUnits
<1>2. ~r.stopped /\ r.o = o /\ w.o = g
  <2>1. s = FALSE
    BY DEF Going
  <2> QED
    BY <2>1, RdFields
<1>3. Creates(r) <=> Units(r, InfoSize) = x
  BY DEF Creates, Verified
<1>4. h \in Nat /\ m = a + 14
  OBVIOUS
<1> HIDE DEF S, x, y, h, f, p, g
<1>5. LiesAt(b, a, x) /\ LiesAt(b, h, y)
  BY <1>1, LiesParts DEF h
<1>6. Units(r, InfoSize) = x /\ Past(r, InfoSize) = t
  BY <1>1, <1>5, InfoLies DEF S, x, h
<1>7. [t EXCEPT !.o = p] = u
  BY RdChanges
<1>8. ReadCommand(u) = w
  BY <1>4, <1>5, CommandReadBack DEF y, p, g
<1> HIDE DEF m
<1>10. [w EXCEPT !.entries[i] = g, !.o = o] = Rd(b, m, o, [e EXCEPT ![i] = g], s)
  <2> DEFINE q == [w EXCEPT !.entries[i] = g]
  <2>1. [w EXCEPT !.entries[i] = g, !.o = o] = [q EXCEPT !.o = o]
    OBVIOUS
  <2>2. q = Rd(b, m, g, [e EXCEPT ![i] = g], s)
    BY DEF Rd
  <2> HIDE DEF q
  <2>3. [q EXCEPT !.o = o] = Rd(b, m, o, [e EXCEPT ![i] = g], s)
    BY <2>2 DEF Rd
  <2> QED
    BY <2>1, <2>3
<1> HIDE DEF r, t, u, w
<1>9. ReadEntry(r, i) = [w EXCEPT !.entries[i] = w.o, !.o = r.o]
  <2>1. Creates(r)
    BY <1>3, <1>6
  <2>2. ReadLeaf([Past(r, InfoSize) EXCEPT !.o = NewCommand(Null)]) = w
    BY <1>6, <1>7, <1>8 DEF ReadLeaf, p
  <2> QED
    BY <1>2, <2>1, <2>2 DEF ReadEntry
<1> QED
  BY <1>2, <1>4, <1>9, <1>10 DEF r, g, Entered

\* One turn at anything else.
LEMMA EntryStops ==
    ASSUME NEW d \in Named \ {"NullCommand"}, NEW b \in Seq(UnitSet), NEW a \in Nat,
           LiesAt(b, a, Info(d)), NEW o, NEW e, NEW i, NEW s, s = FALSE
    PROVE  ReadEntry(Rd(b, a, o, e, s), i) = Rd(b, a + 4, o, e, TRUE)
<1> DEFINE r == Rd(b, a, o, e, s)
           h == a + 4
           t == Rd(b, h, o, e, s)
           T == TRUE
<1>1. d \in Named /\ Info(d) # Info("NullCommand")
  BY InfoIs DEF Named
<1>2. ~r.stopped
  BY RdFields
<1>3. Creates(r) <=> Units(r, InfoSize) = Info("NullCommand")
  BY DEF Creates, Verified
<1>4. Units(r, InfoSize) = Info(d) /\ Past(r, InfoSize) = t
  BY <1>1, InfoLies
<1> HIDE DEF T, h
<1>5. [t EXCEPT !.stopped = T] = Rd(b, h, o, e, T)
  BY DEF Rd
<1> HIDE DEF r, t
<1>6. ReadEntry(r, i) = [t EXCEPT !.stopped = T]
  BY <1>1, <1>2, <1>3, <1>4 DEF ReadEntry, T
<1> QED
  BY <1>5, <1>6 DEF r, T, h

\* A turn after that.
LEMMA EntryStopped ==
    ASSUME NEW b, NEW a, NEW o, NEW e, NEW i, NEW s, s = TRUE
    PROVE  ReadEntry(Rd(b, a, o, e, s), i) = Rd(b, a, o, e, s)
<1> DEFINE r == Rd(b, a, o, e, s)
<1>1. r.stopped
  <2>1. r.stopped = s
    BY ONLY RdFields
  <2> QED
    BY <2>1
<1> HIDE DEF r
<1>2. ReadEntry(r, i) = r
  BY <1>1 DEF ReadEntry
<1> QED
  BY <1>2 DEF r

-----------------------------------------------------------------------------
(***************************************************************************)
(* How often a unit occurs.                                                *)
(***************************************************************************)

Places(s, u) == {i \in DOMAIN s : s[i] = u}
Times(s, u) == Cardinality(Places(s, u))

\* The places of a unit are finitely many.
LEMMA TimesType ==
    ASSUME NEW S, NEW s \in Seq(S), NEW u
    PROVE  IsFiniteSet(Places(s, u)) /\ Times(s, u) \in Nat
<1>1. Places(s, u) \subseteq 1..Len(s)
  BY DEF Places
<1>2. IsFiniteSet(1..Len(s))
  <2>1. 1 \in Int /\ Len(s) \in Int
    OBVIOUS
  <2> QED
    BY <2>1, FS_Interval
<1>3. IsFiniteSet(Places(s, u))
  BY <1>1, <1>2, FS_Subset
<1> QED
  BY <1>3, FS_CardinalityType DEF Times

\* One unit more.
LEMMA TimesAppend ==
    ASSUME NEW S, NEW s \in Seq(S), NEW c \in S, NEW u
    PROVE  Times(Append(s, c), u) = Times(s, u) + (IF c = u THEN 1 ELSE 0)
<1> DEFINE n == Len(s)
           t == Append(s, c)
           D == Places(s, u)
           E == Places(t, u)
<1>1. /\ n \in Nat /\ t \in Seq(S) /\ DOMAIN s = 1..n /\ DOMAIN t = 1..(n + 1)
      /\ t[n + 1] = c /\ \A i \in 1..n : t[i] = s[i]
  BY LenProperties, AppendProperties
<1>2. IsFiniteSet(D) /\ Times(s, u) \in Nat
  BY TimesType
<1> HIDE DEF n, t
<1>3. \A i : i \in D <=> i \in 1..n /\ s[i] = u
  BY <1>1 DEF Places
<1>4. \A i : i \in E <=> i \in 1..(n + 1) /\ t[i] = u
  BY <1>1 DEF Places
<1>5. CASE c = u
  <2>1. E = D \cup {n + 1} /\ n + 1 \notin D
    <3> HIDE DEF D, E
    <3>1. \A i \in 1..(n + 1) : i \in 1..n \/ i = n + 1
      BY <1>1
    <3>2. n + 1 \notin 1..n /\ n + 1 \in 1..(n + 1) /\ \A i \in 1..n : i \in 1..(n + 1)
      BY <1>1
    <3> QED
      BY <1>1, <1>3, <1>4, <1>5, <3>1, <3>2, Zenon
  <2>2. Cardinality(E) = Cardinality(D) + 1
    <3> HIDE DEF D, E
    <3> QED
      BY <1>2, <2>1, FS_AddElement
  <2> QED
    BY <1>5, <2>2 DEF Times, t
<1>6. CASE c # u
  <2>1. E = D
    <3> HIDE DEF D, E
    <3>1. \A i \in 1..(n + 1) : i \in 1..n \/ i = n + 1
      BY <1>1
    <3>2. \A i \in 1..n : i \in 1..(n + 1)
      BY <1>1
    <3> QED
      BY <1>1, <1>3, <1>4, <1>6, <3>1, <3>2, Zenon
  <2> QED
    BY <1>2, <1>6, <2>1 DEF Times, t
<1> QED
  BY <1>5, <1>6

\* Two sequences one after the other.
LEMMA TimesConcat ==
    ASSUME NEW S, NEW s \in Seq(S), NEW t \in Seq(S), NEW u
    PROVE  Times(s \o t, u) = Times(s, u) + Times(t, u)
<1> DEFINE P == {x \in Seq(S) : Times(s \o x, u) = Times(s, u) + Times(x, u)}
           e == <<>>
<1>1. e \in P
  <2>1. e \in Seq(S) /\ s \o e = s /\ DOMAIN e = {}
    OBVIOUS
  <2> HIDE DEF e
  <2>2. Places(e, u) = {}
    BY <2>1 DEF Places
  <2>3. Times(e, u) = 0
    BY <2>2, FS_EmptySet DEF Times
  <2>4. Times(s, u) \in Nat
    BY TimesType
  <2>5. Times(s \o e, u) = Times(s, u) + Times(e, u)
    BY <2>1, <2>3, <2>4
  <2> QED
    BY <2>1, <2>5
<1>2. ASSUME NEW x \in Seq(S), NEW c \in S, x \in P
      PROVE  Append(x, c) \in P
  <2> DEFINE y == Append(x, c)
             k == IF c = u THEN 1 ELSE 0
  <2>1. y \in Seq(S) /\ s \o x \in Seq(S) /\ s \o y = Append(s \o x, c)
    BY AppendLast
  <2>2. Times(s \o y, u) = Times(s \o x, u) + k
    <3> DEFINE w == s \o x
    <3> HIDE DEF w
    <3>1. w \in Seq(S)
      BY <2>1 DEF w
    <3>2. Times(Append(w, c), u) = Times(w, u) + k
      BY <3>1, TimesAppend
    <3> QED
      BY <2>1, <3>2 DEF w
  <2>3. Times(y, u) = Times(x, u) + k
    BY TimesAppend
  <2>4. Times(s \o x, u) = Times(s, u) + Times(x, u)
    BY <1>2
  <2>5. Times(s, u) \in Nat /\ Times(x, u) \in Nat /\ k \in Nat
    BY TimesType
  <2> HIDE DEF y, k
  <2>6. Times(s \o y, u) = Times(s, u) + Times(y, u)
    BY <2>2, <2>3, <2>4, <2>5
  <2> QED
    BY <2>1, <2>6 DEF y
<1> HIDE DEF P
<1>3. Seq(S) \subseteq P
  BY <1>1, <1>2, SeqInductive DEF e
<1>4. t \in P
  BY <1>3
<1> QED
  BY <1>4 DEF P

\* What CompositeCommand::size leaves out of a buffer.
LeftOut(s) == Times(s, <<"info", "CompositeCommand", 1>>) * LeafSize
                 + Times(s, <<"info", "NullCommand", 1>>) * InfoSize

\* Two parts of a buffer.
LEMMA LeftOutConcat ==
    ASSUME NEW s \in Seq(UnitSet), NEW t \in Seq(UnitSet)
    PROVE  LeftOut(s) \in Nat /\ LeftOut(t) \in Nat /\ LeftOut(s \o t) = LeftOut(s) + LeftOut(t)
<1> DEFINE S == UnitSet
           u == <<"info", "CompositeCommand", 1>>
           v == <<"info", "NullCommand", 1>>
<1>1. /\ LeftOut(s) = Times(s, u) * LeafSize + Times(s, v) * InfoSize
      /\ LeftOut(t) = Times(t, u) * LeafSize + Times(t, v) * InfoSize
      /\ LeftOut(s \o t) = Times(s \o t, u) * LeafSize + Times(s \o t, v) * InfoSize
  BY DEF LeftOut
<1>2. LeafSize = 10 /\ InfoSize = 4
  BY DEF LeafSize, InfoSize, Sizes
<1> HIDE DEF u, v, S
<1>3. s \in Seq(S) /\ t \in Seq(S)
  BY DEF S
<1>4. /\ Times(s, u) \in Nat /\ Times(t, u) \in Nat
      /\ Times(s, v) \in Nat /\ Times(t, v) \in Nat
  BY <1>3, TimesType
<1>5. Times(s \o t, u) = Times(s, u) + Times(t, u)
  BY <1>3, TimesConcat
<1>6. Times(s \o t, v) = Times(s, v) + Times(t, v)
  BY <1>3, TimesConcat
<1> DEFINE a == Times(s, u)
           b == Times(s, v)
           c == Times(t, u)
           d == Times(t, v)
<1>7. /\ LeftOut(s) = a * 10 + b * 4 /\ LeftOut(t) = c * 10 + d * 4
      /\ LeftOut(s \o t) = (a + c) * 10 + (b + d) * 4
  BY <1>1, <1>2, <1>5, <1>6
<1>8. a \in Nat /\ b \in Nat /\ c \in Nat /\ d \in Nat
  BY <1>4
<1> HIDE DEF a, b, c, d
<1> QED
  BY <1>7, <1>8

\* What it leaves out of a ClassInfo, and of a unit.
LEMMA LeftOutInfo ==
    ASSUME NEW d \in Named
    PROVE  LeftOut(Info(d)) = CASE d = "CompositeCommand" -> 10
                                [] d = "NullCommand" -> 4
                                [] OTHER -> 0
<1>1. LeafSize = 10 /\ InfoSize = 4
  BY DEF LeafSize, InfoSize, Sizes
<1>2. ASSUME NEW f \in Named
      PROVE  Times(Info(d), <<"info", f, 1>>) = IF d = f THEN 1 ELSE 0
  <2>1. DOMAIN Info(d) = 1..4 /\ \A i \in 1..4 : Info(d)[i] = <<"info", d, i>>
    BY <1>1 DEF Info
  <2>2. \A i \in 1..4 : Info(d)[i] = <<"info", f, 1>> <=> d = f /\ i = 1
    BY <2>1
  <2>3. Places(Info(d), <<"info", f, 1>>) = IF d = f THEN {1} ELSE {}
    <3>1. \A i : i \in Places(Info(d), <<"info", f, 1>>) <=> i \in 1..4 /\ d = f /\ i = 1
      BY <2>1, <2>2 DEF Places
    <3>2. 1 \in 1..4
      OBVIOUS
    <3> QED
      BY <3>1, <3>2
  <2>4. Cardinality({1}) = 1 /\ Cardinality({}) = 0
    BY FS_Singleton, FS_EmptySet
  <2> QED
    BY <2>3, <2>4 DEF Times
<1>3. "CompositeCommand" \in Named /\ "NullCommand" \in Named
  BY DEF Named
<1>4. LeftOut(Info(d)) = (IF d = "CompositeCommand" THEN 1 ELSE 0) * 10
                            + (IF d = "NullCommand" THEN 1 ELSE 0) * 4
  BY <1>1, <1>2, <1>3 DEF LeftOut
<1> QED
  BY <1>4

\* A unit that is not of a ClassInfo counts in full.
LEMMA LeftOutUnit ==
    ASSUME NEW u, u[1] # "info"
    PROVE  LeftOut(<<u>>) = 0
<1>1. ASSUME NEW f \in Named
      PROVE  Times(<<u>>, <<"info", f, 1>>) = 0
  <2>1. u # <<"info", f, 1>>
    OBVIOUS
  <2>2. Places(<<u>>, <<"info", f, 1>>) = {}
    BY <2>1 DEF Places
  <2> QED
    BY <2>2, FS_EmptySet DEF Times
<1>2. "CompositeCommand" \in Named /\ "NullCommand" \in Named
  BY DEF Named
<1> QED
  BY <1>1, <1>2 DEF LeftOut, LeafSize, InfoSize, Sizes

-----------------------------------------------------------------------------
(***************************************************************************)
(* What is written for a command, and for a composite.                     *)
(***************************************************************************)

\* A command's own units count in full.
LEMMA CommandLeftOut ==
    ASSUME TypeOK, NEW o \in Objects
    PROVE  LeftOut(WriteCommand(o)) = 0
<1> DEFINE S == UnitSet
           a == Info("Object")
           b == <<<<"id", o>>>>
           d == Info("Command")
           e == <<<<"mok", mok[o]>>>>
<1>1. a \in Seq(S) /\ b \in Seq(S) /\ d \in Seq(S) /\ e \in Seq(S)
  BY CommandUnits, InfoIs, UnitIs DEF Named
<1>2. LeftOut(a) = 0 /\ LeftOut(d) = 0
  BY LeftOutInfo DEF Named
<1>3. LeftOut(b) = 0
  BY LeftOutUnit
<1>4. LeftOut(e) = 0
  BY LeftOutUnit
<1>5. ObjectUnits(o) = a \o b /\ MokUnits(o) = d \o e
  BY DEF ObjectUnits, MokUnits
<1> HIDE DEF a, b, d, e, S
<1>6. a \o b \in Seq(S) /\ d \o e \in Seq(S)
  BY <1>1, ConcatProperties
<1>7. LeftOut(a \o b) = 0
  BY <1>1, <1>2, <1>3, LeftOutConcat DEF S
<1>8. LeftOut(d \o e) = 0
  BY <1>1, <1>2, <1>4, LeftOutConcat DEF S
<1> DEFINE x == a \o b
           y == d \o e
<1> HIDE DEF x, y
<1>9. x \in Seq(S) /\ y \in Seq(S) /\ LeftOut(x) = 0 /\ LeftOut(y) = 0
  BY <1>6, <1>7, <1>8 DEF x, y
<1>10. LeftOut(x \o y) = 0
  BY <1>9, LeftOutConcat DEF S
<1> QED
  BY <1>5, <1>10, CommandUnits DEF x, y

\* NullCommand::write and Command::write.
LEMMA LeafIs ==
    ASSUME TypeOK, NEW k \in Objects
    PROVE  /\ WriteLeaf(k) \in Seq(UnitSet)
           /\ Len(WriteLeaf(k)) = IF k \in Registered THEN 14 ELSE 10
           /\ Len(WriteLeaf(k)) = LeafSize + LeftOut(WriteLeaf(k))
<1> DEFINE S == UnitSet
           x == Info("NullCommand")
           y == WriteCommand(k)
<1>0. LeafSize = 10
  BY DEF LeafSize, InfoSize, Sizes
<1>1. x \in Seq(S) /\ Len(x) = 4 /\ y \in Seq(S) /\ Len(y) = 10
  BY InfoIs, CommandUnits DEF Named, InfoSize
<1>2. LeftOut(x) = 4 /\ LeftOut(y) = 0
  BY LeftOutInfo, CommandLeftOut DEF Named
<1>3. WriteLeaf(k) = IF k \in Registered THEN x \o y ELSE y
  BY DEF WriteLeaf
<1> HIDE DEF S, x, y
<1>4. x \o y \in Seq(S) /\ Len(x \o y) = Len(x) + Len(y)
  BY <1>1, ConcatProperties
<1>5. LeftOut(x \o y) = LeftOut(x) + LeftOut(y)
  BY <1>1, LeftOutConcat DEF S
<1>6. CASE k \in Registered
  BY <1>0, <1>1, <1>2, <1>3, <1>4, <1>5, <1>6 DEF S
<1>7. CASE k \notin Registered
  BY <1>0, <1>1, <1>2, <1>3, <1>7 DEF S
<1> QED
  BY <1>6, <1>7

\* The units of a composite before those of its entries.
Head15(c) == Info("CompositeCommand") \o WriteCommand(c) \o <<<<"count", Len(mcommands[c])>>>>

\* Its length, and what size leaves out of it.
LEMMA HeadIs ==
    ASSUME TypeOK, NEW c \in Composites, NEW each \in Seq(UnitSet)
    PROVE  /\ WriteWith(c, each) = Head15(c) \o each
           /\ Head15(c) \in Seq(UnitSet) /\ Len(Head15(c)) = 15 /\ LeftOut(Head15(c)) = 10
           /\ Len(mcommands[c]) \in Nat
<1> DEFINE S == UnitSet
           u == <<"count", Len(mcommands[c])>>
           x == Info("CompositeCommand")
           y == WriteCommand(c)
           z == <<u>>
<1>1. c \in Objects
  BY DEF Objects
<1>2. Len(mcommands[c]) \in Nat
  BY EntriesAre
<1>3. u \in S
  BY <1>2 DEF UnitSet
<1>4. /\ x \in Seq(S) /\ Len(x) = 4 /\ y \in Seq(S) /\ Len(y) = 10
      /\ z \in Seq(S) /\ Len(z) = 1
  BY <1>1, <1>3, InfoIs, CommandUnits, UnitIs DEF Named, InfoSize
<1>5. LeftOut(x) = 10 /\ LeftOut(y) = 0
  BY <1>1, LeftOutInfo, CommandLeftOut DEF Named
<1>6. LeftOut(z) = 0
  BY LeftOutUnit
<1>7. Head15(c) = (x \o y) \o z /\ WriteWith(c, each) = Head15(c) \o each
  BY DEF Head15, WriteWith
<1> HIDE DEF S, u, x, y, z
<1> DEFINE w == x \o y
<1>8. w \in Seq(S) /\ Len(w) = Len(x) + Len(y)
  BY <1>4, ConcatProperties
<1>9. LeftOut(w) = 10
  BY <1>4, <1>5, LeftOutConcat DEF S
<1>10. Len(w) = 14
  BY <1>4, <1>8
<1> HIDE DEF w
<1>11. w \o z \in Seq(S) /\ Len(w \o z) = Len(w) + Len(z)
  BY <1>4, <1>8, ConcatProperties
<1>12. LeftOut(w \o z) = 10
  BY <1>4, <1>6, <1>8, <1>9, LeftOutConcat DEF S
<1>13. Len(w \o z) = 15
  BY <1>4, <1>10, <1>11
<1> QED
  BY <1>2, <1>7, <1>11, <1>12, <1>13 DEF S, w

\* CompositeCommand::size, if h adds up the sizes of the entries.
LEMMA SizeTotals ==
    ASSUME TypeOK, NEW c \in Composites, NEW entry,
           NEW h \in [0..Len(mcommands[c]) -> Int], h[0] = 0,
           \A i \in 1..Len(mcommands[c]) : h[i] = h[i - 1] + entry[mcommands[c][i]]
    PROVE  SizeWith(c, entry) = 1 + InfoSize + h[Len(mcommands[c])]
<1> DEFINE s == mcommands[c]
           m == Len(s)
           f == CHOOSE f : f = [i \in 0..m |-> IF i = 0 THEN 0 ELSE f[i - 1] + entry[s[i]]]
<1>1. m \in Nat
  BY EntriesAre
<1>2. SizeWith(c, entry) = 1 + InfoSize + f[m]
  BY DEF SizeWith
<1>3. h = [i \in 0..m |-> IF i = 0 THEN 0 ELSE h[i - 1] + entry[s[i]]]
  <2>1. \A i \in 0..m : i = 0 \/ i \in 1..m
    BY <1>1
  <2>2. \A i \in 0..m : h[i] = IF i = 0 THEN 0 ELSE h[i - 1] + entry[s[i]]
    BY <2>1
  <2> QED
    BY <2>2
<1>4. f = [i \in 0..m |-> IF i = 0 THEN 0 ELSE f[i - 1] + entry[s[i]]]
  BY <1>3
<1> HIDE DEF f, m
<1> DEFINE T == {n \in Nat : n <= m => f[n] = h[n]}
<1>5. 0 \in T
  BY <1>1, <1>4
<1>6. ASSUME NEW n \in Nat, n \in T
      PROVE  n + 1 \in T
  <2> SUFFICES ASSUME n + 1 <= m
               PROVE  f[n + 1] = h[n + 1]
    OBVIOUS
  <2> DEFINE j == n + 1
  <2>1. j \in 1..m /\ j \in 0..m /\ j # 0 /\ j - 1 = n /\ f[n] = h[n]
    BY <1>1, <1>6
  <2> HIDE DEF j
  <2>2. f[j] = f[j - 1] + entry[s[j]]
    BY <1>4, <2>1
  <2>3. h[j] = h[j - 1] + entry[s[j]]
    BY <2>1 DEF m
  <2>4. f[j] = h[j]
    BY <2>1, <2>2, <2>3
  <2> QED
    BY <2>4 DEF j
<1>7. m \in T
  <2> HIDE DEF T
  <2> QED
    BY <1>1, <1>5, <1>6, NatInductive
<1> QED
  BY <1>1, <1>2, <1>7 DEF m

\* What size leaves out of a composite is what it leaves out of its entries
\* and of its own units.
LEMMA SizeLeavesOut ==
    ASSUME TypeOK, NEW c \in Composites, NEW entry,
           NEW A \in [1..Len(mcommands[c]) -> Seq(UnitSet)],
           \A i \in 1..Len(mcommands[c]) :
              /\ entry[mcommands[c][i]] \in Int
              /\ Len(A[i]) = entry[mcommands[c][i]] + LeftOut(A[i])
    PROVE  /\ FlattenSeq(A) \in Seq(UnitSet) /\ SizeWith(c, entry) \in Int
           /\ WriteWith(c, FlattenSeq(A)) \in Seq(UnitSet)
           /\ Len(WriteWith(c, FlattenSeq(A))) =
                 SizeWith(c, entry) + LeftOut(WriteWith(c, FlattenSeq(A)))
<1> DEFINE S == UnitSet
           X == Seq(S)
           s == mcommands[c]
           m == Len(s)
           F == FlattenSeq(A)
<1>1. m \in Nat
  BY EntriesAre
<1> HIDE DEF m
<1>2. A \in Seq(Seq(S)) /\ Len(A) = m
  <2>1. A \in [1..m -> X]
    BY DEF m
  <2> HIDE DEF X
  <2>2. A \in Seq(X) /\ Len(A) = m
    BY <1>1, <2>1
  <2> QED
    BY <2>2 DEF X
<1> HIDE DEF S, X, F
<1>3. PICK g \in [0..Len(A) -> Seq(S)] : Joins(g, A) /\ FlattenSeq(A) = g[Len(A)]
  BY <1>2, FlattenJoins
<1>4. /\ g \in [0..m -> Seq(S)] /\ g[0] = <<>> /\ F = g[m]
      /\ \A n \in 1..m : g[n] = g[n - 1] \o A[n]
  BY <1>2, <1>3 DEF Joins, F
<1> DEFINE h == [i \in 0..m |-> Len(g[i]) - LeftOut(g[i])]
<1>5. ASSUME NEW x \in Seq(S)
      PROVE  Len(x) \in Nat /\ LeftOut(x) \in Nat
  BY LeftOutConcat DEF S
<1>6. ASSUME NEW n \in 1..m
      PROVE  h[n] = h[n - 1] + entry[s[n]]
  <2> DEFINE x == g[n - 1]
             y == A[n]
             e == entry[s[n]]
  <2>0. n - 1 \in 0..m /\ n \in 0..m
    BY <1>1
  <2>1. x \in Seq(S) /\ g[n] = x \o y
    BY <1>4, <2>0
  <2>2. y \in Seq(S)
    BY DEF m, S
  <2>3. e \in Int /\ Len(y) = e + LeftOut(y)
    BY DEF m
  <2> HIDE DEF x, y, e
  <2>4. Len(x \o y) = Len(x) + Len(y)
    BY <2>1, <2>2, ConcatProperties
  <2>5. LeftOut(x \o y) = LeftOut(x) + LeftOut(y)
    BY <2>1, <2>2, LeftOutConcat DEF S
  <2>6. Len(x) \in Nat /\ LeftOut(x) \in Nat /\ LeftOut(y) \in Nat
    BY <1>5, <2>1, <2>2
  <2>7. Len(x \o y) - LeftOut(x \o y) = (Len(x) - LeftOut(x)) + e
    BY <2>3, <2>4, <2>5, <2>6
  <2>8. h[n] = Len(g[n]) - LeftOut(g[n]) /\ h[n - 1] = Len(x) - LeftOut(x)
    BY <2>0 DEF x
  <2> QED
    BY <2>1, <2>7, <2>8 DEF e
<1>7. h[0] = 0
  <2>1. 0 \in 0..m /\ g[0] = <<>> /\ Len(<<>>) = 0
    BY <1>1, <1>4
  <2>2. LeftOut(<<>>) = 0
    <3> DEFINE e == <<>>
    <3>1. e \in Seq(S) /\ e \o e = e
      OBVIOUS
    <3> HIDE DEF e
    <3>2. LeftOut(e) \in Nat /\ LeftOut(e \o e) = LeftOut(e) + LeftOut(e)
      BY <3>1, LeftOutConcat DEF S
    <3>3. LeftOut(e) = 0
      BY <3>1, <3>2
    <3> QED
      BY <3>3 DEF e
  <2> QED
    BY <2>1, <2>2
<1>8. h \in [0..m -> Int]
  <2>1. ASSUME NEW i \in 0..m
        PROVE  Len(g[i]) - LeftOut(g[i]) \in Int
    <3>1. g[i] \in Seq(S)
      BY <1>4
    <3>2. Len(g[i]) \in Nat /\ LeftOut(g[i]) \in Nat
      BY <1>5, <3>1
    <3> QED
      BY <3>2
  <2> QED
    BY <2>1
<1>9. m \in 0..m /\ h[m] = Len(F) - LeftOut(F)
  BY <1>1, <1>4
<1> HIDE DEF h
<1>10. SizeWith(c, entry) = 1 + InfoSize + h[m]
  <2>1. /\ h \in [0..Len(mcommands[c]) -> Int]
        /\ \A i \in 1..Len(mcommands[c]) : h[i] = h[i - 1] + entry[mcommands[c][i]]
    BY <1>6, <1>8 DEF m
  <2> QED
    BY <1>7, <2>1, SizeTotals DEF m
<1>11. F \in Seq(S)
  BY <1>4, <1>9
<1> DEFINE H == Head15(c)
           W == WriteWith(c, F)
<1>12. W = H \o F /\ H \in Seq(S) /\ Len(H) = 15 /\ LeftOut(H) = 10
  BY <1>11, HeadIs DEF S
<1> HIDE DEF H, W
<1>13. W \in Seq(S) /\ Len(W) = Len(H) + Len(F)
  BY <1>11, <1>12, ConcatProperties
<1>14. LeftOut(W) = LeftOut(H) + LeftOut(F)
  BY <1>11, <1>12, LeftOutConcat DEF S
<1>15. Len(F) \in Nat /\ LeftOut(F) \in Nat /\ InfoSize = 4
  BY <1>5, <1>11 DEF InfoSize
<1>16. SizeWith(c, entry) = 5 + (Len(F) - LeftOut(F))
  BY <1>9, <1>10, <1>15
<1>17. SizeWith(c, entry) \in Int /\ Len(W) = SizeWith(c, entry) + LeftOut(W)
  BY <1>12, <1>13, <1>14, <1>15, <1>16
<1> QED
  BY <1>11, <1>13, <1>17 DEF S, W, F

\* What CompositeCommand::write writes for one entry.
Part(k) == IF k \in Leaves THEN WriteLeaf(k) ELSE WriteWith(k, WriteEach(k))
Entry(k) == IF k \in Leaves THEN LeafSize ELSE InnerSize(k)

\* What size leaves out of it.
LEMMA PartLeavesOut ==
    ASSUME TypeOK, NEW k \in Objects
    PROVE  /\ Part(k) \in Seq(UnitSet) /\ Entry(k) \in Int
           /\ Len(Part(k)) = Entry(k) + LeftOut(Part(k))
<1>1. CASE k \in Leaves
  <2>1. LeafSize \in Int
    BY DEF LeafSize, InfoSize, Sizes
  <2> QED
    BY <1>1, <2>1, LeafIs DEF Part, Entry
<1>2. CASE k \notin Leaves
  <2>0. k \in Composites
    BY <1>2 DEF Objects
  <2> DEFINE s == mcommands[k]
             A == [i \in DOMAIN s |-> WriteLeaf(s[i])]
             entry == [j \in Children(k) |-> LeafSize]
  <2>1. DOMAIN s = 1..Len(s) /\ \A i \in 1..Len(s) : s[i] \in Objects
    BY <2>0, EntriesAre
  <2>2. ASSUME NEW i \in 1..Len(s)
        PROVE  /\ entry[s[i]] \in Int /\ A[i] \in Seq(UnitSet)
               /\ Len(A[i]) = entry[s[i]] + LeftOut(A[i])
    <3>1. A[i] = WriteLeaf(s[i])
      BY <2>1
    <3>2. s[i] \in Children(k)
      BY <2>1 DEF Children, Range
    <3>3. entry[s[i]] = LeafSize /\ LeafSize \in Int
      BY <3>2 DEF LeafSize, InfoSize, Sizes
    <3>4. s[i] \in Objects
      BY <2>1
    <3> QED
      BY <3>1, <3>3, <3>4, LeafIs
  <2>3. A = [i \in 1..Len(s) |-> A[i]]
    BY <2>1
  <2>4. Part(k) = WriteWith(k, FlattenSeq(A)) /\ Entry(k) = SizeWith(k, entry)
    BY <1>2 DEF Part, Entry, WriteEach, InnerSize
  <2> HIDE DEF A, entry
  <2>5. A \in [1..Len(s) -> Seq(UnitSet)]
    BY <2>2, <2>3
  <2> QED
    BY <2>0, <2>2, <2>4, <2>5, SizeLeavesOut
<1> QED
  BY <1>1, <1>2

\* An entry that can be read back, and one that cannot.
LEMMA PartBegins ==
    ASSUME TypeOK, NEW k \in Objects
    PROVE  /\ k \in Registered =>
                 Part(k) = Info("NullCommand") \o WriteCommand(k) /\ Len(Part(k)) = 14
           /\ k \notin Registered =>
                 /\ Len(Part(k)) >= 10
                 /\ \E d \in Named \ {"NullCommand"} : LiesAt(Part(k), 0, Info(d))
<1> DEFINE S == UnitSet
<1>1. ASSUME k \in Registered
      PROVE  Part(k) = Info("NullCommand") \o WriteCommand(k) /\ Len(Part(k)) = 14
  <2>1. Part(k) = WriteLeaf(k)
    BY <1>1, CopiesAssumption DEF Part
  <2> QED
    BY <1>1, <2>1, LeafIs DEF WriteLeaf
<1>2. ASSUME k \notin Registered, k \in Leaves
      PROVE  Len(Part(k)) >= 10 /\ LiesAt(Part(k), 0, Info("Object"))
  <2> DEFINE x == Info("Object")
             y == <<<<"id", k>>>>
             w == ObjectUnits(k)
             z == MokUnits(k)
             b == Part(k)
             n == 0
  <2>1. b = w \o z /\ w = x \o y /\ Len(b) = 10
    BY <1>2, CommandUnits DEF Part, WriteLeaf, ObjectUnits
  <2>2. x \in Seq(S) /\ y \in Seq(S) /\ w \in Seq(S) /\ z \in Seq(S) /\ b \in Seq(S)
    BY PartLeavesOut, CommandUnits, InfoIs, UnitIs DEF Named
  <2> HIDE DEF S, x, y, w, z, b
  <2>3. LiesAt(b, n, b)
    BY <2>2, LiesWhole
  <2>4. n \in Nat
    OBVIOUS
  <2> HIDE DEF n
  <2>5. LiesAt(b, n, w)
    BY <2>1, <2>2, <2>3, <2>4, LiesParts
  <2>6. LiesAt(b, n, x)
    BY <2>1, <2>2, <2>5, <2>4, LiesParts
  <2> QED
    BY <2>1, <2>6 DEF n, x, b
<1>3. ASSUME k \notin Leaves
      PROVE  Len(Part(k)) >= 10 /\ LiesAt(Part(k), 0, Info("CompositeCommand"))
  <2>0. k \in Composites /\ k \in Objects
    BY <1>3 DEF Objects
  <2> DEFINE x == Info("CompositeCommand")
             y == WriteCommand(k)
             u == <<<<"count", Len(mcommands[k])>>>>
             w == x \o y
             H == Head15(k)
             F == WriteEach(k)
             b == Part(k)
             n == 0
             s == mcommands[k]
             A == [i \in DOMAIN s |-> WriteLeaf(s[i])]
  <2>1. F \in Seq(S)
    <3>1. DOMAIN s = 1..Len(s) /\ Len(s) \in Nat /\ \A i \in 1..Len(s) : s[i] \in Objects
      BY <2>0, EntriesAre
    <3>2. A \in [1..Len(s) -> Seq(S)]
      BY <3>1, LeafIs
    <3> DEFINE X == Seq(S)
    <3> HIDE DEF S, X
    <3>3. A \in Seq(X)
      BY <3>1, <3>2 DEF X
    <3>4. FlattenSeq(A) \in Seq(S)
      BY <3>3, FlattenType DEF X
    <3> QED
      BY <3>4 DEF WriteEach
  <2>2. /\ b = H \o F /\ H = w \o u /\ H \in Seq(S) /\ Len(H) = 15
    BY <1>3, <2>0, <2>1, HeadIs DEF Part, Head15
  <2>3. <<"count", Len(mcommands[k])>> \in S
    BY <2>0, EntriesAre DEF UnitSet
  <2>4. x \in Seq(S) /\ y \in Seq(S) /\ u \in Seq(S) /\ b \in Seq(S)
    BY <2>3, PartLeavesOut, CommandUnits, InfoIs, UnitIs DEF Named
  <2> HIDE DEF S, x, y, u, H, F, b
  <2>5. LiesAt(b, n, b) /\ n \in Nat /\ w \in Seq(S)
    BY <2>4, LiesWhole, ConcatProperties
  <2>6. Len(b) = Len(H) + Len(F) /\ Len(F) \in Nat
    <3>1. Len(H \o F) = Len(H) + Len(F)
      BY <2>1, <2>2, ConcatProperties
    <3>2. Len(F) \in Nat
      BY <2>1, LenProperties
    <3> QED
      BY <2>2, <3>1, <3>2
  <2>7. Len(b) >= 10
    BY <2>2, <2>6
  <2> HIDE DEF n, w
  <2>8. LiesAt(b, n, H)
    BY <2>1, <2>2, <2>4, <2>5, LiesParts
  <2>9. LiesAt(b, n, w)
    BY <2>2, <2>4, <2>5, <2>8, LiesParts
  <2>10. LiesAt(b, n, x)
    BY <2>4, <2>5, <2>9, LiesParts DEF w
  <2> QED
    BY <2>7, <2>10 DEF n, x, b
<1> QED
  BY <1>1, <1>2, <1>3 DEF Named

\* The parts that are put together lie one after the other.
LEMMA JoinsLie ==
    ASSUME NEW S, NEW m \in Nat, NEW A \in [1..m -> Seq(S)], NEW g \in [0..m -> Seq(S)],
           \A n \in 1..m : g[n] = g[n - 1] \o A[n], NEW i \in 1..m
    PROVE  LiesAt(g[m], Len(g[i - 1]), A[i])
<1> DEFINE T == {k \in Nat : i + k <= m => LiesAt(g[i + k], 0, g[i])}
<1>0. i \in 0..m /\ i \in Nat /\ i - 1 \in 0..m /\ m - i \in Nat /\ i + (m - i) = m
  OBVIOUS
<1>1. 0 \in T
  <2>1. g[i] \in Seq(S) /\ i + 0 = i
    BY <1>0
  <2>2. LiesAt(g[i], 0, g[i])
    BY <2>1, LiesWhole
  <2> QED
    BY <2>1, <2>2
<1>2. ASSUME NEW k \in Nat, k \in T
      PROVE  k + 1 \in T
  <2> SUFFICES ASSUME i + (k + 1) <= m
               PROVE  LiesAt(g[i + (k + 1)], 0, g[i])
    OBVIOUS
  <2> DEFINE a == i + k
             b == i + (k + 1)
             x == g[a]
             y == A[b]
             z == g[b]
             n == 0
  <2>1. a \in 0..m /\ b \in 0..m /\ b \in 1..m /\ b - 1 = a /\ a <= m
    BY <1>0
  <2>2. LiesAt(x, n, g[i])
    BY <1>2, <2>1
  <2> HIDE DEF a, b
  <2>3. x \in Seq(S) /\ y \in Seq(S) /\ z \in Seq(S) /\ g[i] \in Seq(S) /\ z = x \o y
    BY <1>0, <2>1
  <2> HIDE DEF x, y, z
  <2>4. n \in Nat /\ n + n = n
    OBVIOUS
  <2>7. LiesAt(z, n, z)
    <3>1. z \in Seq(S)
      BY <2>3
    <3> QED
      BY ONLY <3>1, LiesWhole
  <2> HIDE DEF n
  <2>5. LiesAt(z, n, x)
    BY <2>3, <2>4, <2>7, LiesParts
  <2>6. LiesAt(z, n + n, g[i])
    BY <2>2, <2>3, <2>4, <2>5, LiesWithin
  <2> QED
    BY <2>4, <2>6 DEF n, z, b
<1>3. m - i \in T
  <2> HIDE DEF T
  <2> QED
    BY <1>0, <1>1, <1>2, NatInductive
<1> DEFINE b == g[m]
           x == g[i - 1]
           y == A[i]
           n == 0
<1>4. LiesAt(b, n, x \o y)
  <2>1. LiesAt(g[m], 0, g[i])
    BY <1>0, <1>3
  <2>2. g[i] = x \o y
    OBVIOUS
  <2> QED
    BY <2>1, <2>2
<1>5. b \in Seq(S) /\ x \in Seq(S) /\ y \in Seq(S) /\ n \in Nat /\ n + Len(x) = Len(x)
  BY <1>0
<1> HIDE DEF b, x, y, n
<1>6. LiesAt(b, n + Len(x), y)
  BY <1>4, <1>5, LiesParts
<1> QED
  BY <1>5, <1>6 DEF b, x, y

\* Parts that are 14 units long.
Long(A, i) == \A j \in 1..i : Len(A[j]) = 14

\* g puts the m parts of A together, of which the first i are that long.
JoinsOf(g, A, m, i, S) ==
    /\ m \in Nat /\ i \in 0..m
    /\ A \in [1..m -> Seq(S)] /\ g \in [0..m -> Seq(S)]
    /\ Joins(g, A) /\ Len(A) = m /\ Long(A, i)

\* Where they end.
LEMMA JoinsLong ==
    ASSUME NEW S, NEW m, NEW A, NEW g, NEW i, JoinsOf(g, A, m, i, S)
    PROVE  Len(g[i]) = 14 * i
<1> USE DEF JoinsOf
<1> DEFINE T == {k \in Nat : k <= i => Len(g[k]) = 14 * k}
<1>1. 0 \in T
  <2>1. Len(g[0]) = 0
    BY DEF Joins
  <2> QED
    BY <2>1
<1>2. ASSUME NEW k \in Nat, k \in T
      PROVE  k + 1 \in T
  <2> SUFFICES ASSUME k + 1 <= i
               PROVE  Len(g[k + 1]) = 14 * (k + 1)
    OBVIOUS
  <2> DEFINE b == k + 1
             x == g[k]
             y == A[b]
  <2>1. k \in 0..m /\ b \in 1..m /\ b \in 1..i /\ b - 1 = k /\ k <= i
    OBVIOUS
  <2>2. Len(x) = 14 * k
    BY <1>2, <2>1
  <2> HIDE DEF b
  <2>3. x \in Seq(S) /\ y \in Seq(S) /\ g[b] = x \o y /\ Len(y) = 14
    BY <2>1 DEF Joins, Long
  <2> HIDE DEF x, y
  <2>4. Len(g[b]) = Len(x) + Len(y)
    <3>1. Len(x \o y) = Len(x) + Len(y)
      BY <2>3, ConcatProperties
    <3> QED
      BY <2>3, <3>1
  <2>5. Len(g[b]) = 14 * k + 14
    BY <2>2, <2>3, <2>4
  <2> QED
    BY <2>5 DEF b
<1>3. i \in Nat
  OBVIOUS
<1>4. i \in T
  <2> HIDE DEF T
  <2> QED
    BY <1>1, <1>2, <1>3, NatInductive
<1> QED
  BY <1>3, <1>4

-----------------------------------------------------------------------------
(***************************************************************************)
(* A composite, written and read back.                                     *)
(***************************************************************************)

\* WriteComposite in terms of the parts.
Parts(c) == [i \in 1..Len(mcommands[c]) |-> Part(mcommands[c][i])]

\* The parts, the buffer and the size.
LEMMA CompositeWritten ==
    ASSUME TypeOK, NEW c \in Composites
    PROVE  /\ Parts(c) \in [1..Len(mcommands[c]) -> Seq(UnitSet)]
           /\ FlattenSeq(Parts(c)) \in Seq(UnitSet)
           /\ WriteComposite(c) = Head15(c) \o FlattenSeq(Parts(c))
           /\ WriteComposite(c) \in Seq(UnitSet) /\ size(c) \in Int
           /\ Len(WriteComposite(c)) = size(c) + LeftOut(WriteComposite(c))
<1> DEFINE s == mcommands[c]
           A == Parts(c)
           entry == [k \in Children(c) |-> Entry(k)]
<1>1. DOMAIN s = 1..Len(s) /\ \A i \in 1..Len(s) : s[i] \in Objects
  BY EntriesAre
<1>2. A = [i \in 1..Len(s) |-> Part(s[i])]
  BY DEF Parts
<1>3. ASSUME NEW i \in 1..Len(s)
      PROVE  /\ entry[s[i]] \in Int /\ A[i] \in Seq(UnitSet)
             /\ Len(A[i]) = entry[s[i]] + LeftOut(A[i])
  <2>1. A[i] = Part(s[i]) /\ s[i] \in Objects
    BY <1>1, <1>2
  <2>2. s[i] \in Children(c)
    BY <1>1 DEF Children, Range
  <2>3. entry[s[i]] = Entry(s[i])
    BY <2>2
  <2> HIDE DEF A, entry
  <2> QED
    BY <2>1, <2>3, PartLeavesOut
<1>4. WriteComposite(c) = WriteWith(c, FlattenSeq(A))
  <2>1. [i \in DOMAIN s |-> LET k == s[i] IN
            IF k \in Leaves THEN WriteLeaf(k) ELSE WriteWith(k, WriteEach(k))] = A
    BY <1>1 DEF Part, Parts
  <2> QED
    BY <2>1 DEF WriteComposite
<1>5. size(c) = SizeWith(c, entry)
  BY DEF size, Entry
<1> HIDE DEF A, entry
<1>6. A \in [1..Len(s) -> Seq(UnitSet)]
  BY <1>2, <1>3
<1>7. /\ FlattenSeq(A) \in Seq(UnitSet) /\ SizeWith(c, entry) \in Int
      /\ WriteWith(c, FlattenSeq(A)) \in Seq(UnitSet)
      /\ Len(WriteWith(c, FlattenSeq(A))) =
            SizeWith(c, entry) + LeftOut(WriteWith(c, FlattenSeq(A)))
  BY <1>3, <1>6, SizeLeavesOut
<1>8. WriteWith(c, FlattenSeq(A)) = Head15(c) \o FlattenSeq(A)
  BY <1>7, HeadIs
<1> QED
  BY <1>4, <1>5, <1>6, <1>7, <1>8 DEF A

\* Where the units of the composite are.
LEMMA HeadPlaced ==
    ASSUME TypeOK, NEW c \in Composites
    PROVE  /\ LiesAt(WriteComposite(c), 4, WriteCommand(c))
           /\ LiesAt(WriteComposite(c), 14, <<<<"count", Len(mcommands[c])>>>>)
           /\ LiesAt(WriteComposite(c), 15, FlattenSeq(Parts(c)))
<1> DEFINE S == UnitSet
           u == <<"count", Len(mcommands[c])>>
           x == Info("CompositeCommand")
           y == WriteCommand(c)
           z == <<u>>
           w == x \o y
           H == Head15(c)
           F == FlattenSeq(Parts(c))
           b == WriteComposite(c)
           n == 0
<1>1. c \in Objects /\ Len(mcommands[c]) \in Nat
  BY EntriesAre DEF Objects
<1>2. F \in Seq(S) /\ b = H \o F /\ b \in Seq(S)
  BY CompositeWritten
<1>3. H \in Seq(S) /\ Len(H) = 15 /\ H = w \o z
  BY <1>2, HeadIs DEF Head15
<1>4. u \in S
  BY <1>1 DEF UnitSet
<1>5. /\ x \in Seq(S) /\ Len(x) = 4 /\ y \in Seq(S) /\ Len(y) = 10
      /\ z \in Seq(S) /\ Len(z) = 1
  BY <1>1, <1>4, InfoIs, CommandUnits, UnitIs DEF Named, InfoSize
<1> HIDE DEF S, u, x, y, z, H, F, b
<1>6. w \in Seq(S) /\ Len(w) = Len(x) + Len(y)
  BY <1>5, ConcatProperties
<1>7. n \in Nat /\ n + 4 = 4 /\ n + 14 = 14 /\ n + 15 = 15 /\ Len(w) = 14
  BY <1>5, <1>6
<1> HIDE DEF w
<1>8. LiesAt(b, n, b)
  <2>1. b \in Seq(S)
    BY <1>2
  <2> QED
    BY ONLY <2>1, LiesWhole
<1> HIDE DEF n
<1>9. LiesAt(b, n, H) /\ LiesAt(b, n + Len(H), F)
  BY <1>2, <1>3, <1>7, <1>8, LiesParts
<1>10. LiesAt(b, n, w) /\ LiesAt(b, n + Len(w), z)
  BY <1>2, <1>3, <1>5, <1>6, <1>7, <1>9, LiesParts
<1>11. LiesAt(b, n + Len(x), y)
  BY <1>2, <1>5, <1>7, <1>10, LiesParts DEF w
<1> QED
  BY <1>3, <1>5, <1>7, <1>9, <1>10, <1>11 DEF b, F, y, z, u

\* Where the entries are, up to the first that cannot be read back.
LEMMA EntryPlaced ==
    ASSUME TypeOK, NEW c \in Composites, NEW i \in 1..Len(mcommands[c]),
           \A j \in 1..(i - 1) : mcommands[c][j] \in Registered
    PROVE  LiesAt(WriteComposite(c), 15 + 14 * (i - 1), Part(mcommands[c][i]))
<1> DEFINE S == UnitSet
           s == mcommands[c]
           m == Len(s)
           A == Parts(c)
           F == FlattenSeq(A)
           b == WriteComposite(c)
           h == i - 1
<1>1. m \in Nat /\ \A j \in 1..m : s[j] \in Objects
  BY EntriesAre
<1>2. /\ A \in [1..m -> Seq(S)] /\ F \in Seq(S) /\ b \in Seq(S)
      /\ \A j \in 1..m : A[j] = Part(s[j])
  BY CompositeWritten DEF Parts
<1>3. LiesAt(b, 15, F)
  BY HeadPlaced
<1> HIDE DEF S, m, A, b
<1>4. A \in Seq(Seq(S)) /\ Len(A) = m
  <2> DEFINE X == Seq(S)
  <2> HIDE DEF X
  <2>1. A \in [1..m -> X]
    BY <1>2 DEF X
  <2>2. A \in Seq(X) /\ Len(A) = m
    BY <1>1, <2>1
  <2> QED
    BY <2>2 DEF X
<1>5. PICK g \in [0..Len(A) -> Seq(S)] : Joins(g, A) /\ FlattenSeq(A) = g[Len(A)]
  BY <1>4, FlattenJoins
<1>6. /\ g \in [0..m -> Seq(S)] /\ g[0] = <<>> /\ F = g[m]
      /\ \A n \in 1..m : g[n] = g[n - 1] \o A[n]
  BY <1>4, <1>5 DEF Joins
<1> HIDE DEF F
<1>7. i \in 1..m /\ h \in 0..m /\ h \in Nat /\ \A j \in 1..h : j \in 1..m
  BY <1>1 DEF m
<1>8. ASSUME NEW j \in 1..h
      PROVE  Len(A[j]) = 14
  <2>1. j \in 1..m /\ s[j] \in Registered /\ s[j] \in Objects
    BY <1>1, <1>7
  <2> QED
    BY <1>2, <2>1, PartBegins
<1> HIDE DEF h
<1>9. Len(g[h]) = 14 * h
  <2>1. Long(A, h)
    BY <1>8 DEF Long
  <2>2. JoinsOf(g, A, m, h, S)
    BY <2>1, <1>1, <1>2, <1>4, <1>5, <1>6, <1>7, <1>8 DEF JoinsOf
  <2> QED
    BY ONLY <2>2, JoinsLong
<1>10. LiesAt(g[m], Len(g[i - 1]), A[i])
  BY <1>1, <1>2, <1>6, <1>7, JoinsLie
<1> DEFINE p == 15
           q == 14 * h
           x == A[i]
<1>11. p \in Nat /\ q \in Nat /\ LiesAt(b, p, F) /\ LiesAt(F, q, x) /\ x \in Seq(S)
  <2>1. p \in Nat /\ LiesAt(b, p, F)
    BY <1>3
  <2>2. q \in Nat
    BY <1>7
  <2>3. LiesAt(F, q, x)
    BY <1>6, <1>9, <1>10 DEF h
  <2>4. x \in Seq(S)
    BY <1>2, <1>7
  <2> QED
    BY <2>1, <2>2, <2>3, <2>4
<1> HIDE DEF p, q, x
<1>12. LiesAt(b, p + q, x)
  BY <1>2, <1>11, LiesWithin
<1> QED
  BY <1>2, <1>7, <1>12 DEF p, q, x, b, h

\* The length of the buffer, if every entry can be read back.
LEMMA ReadableLong ==
    ASSUME TypeOK, NEW c \in Composites,
           \A j \in 1..Len(mcommands[c]) : mcommands[c][j] \in Registered
    PROVE  Len(WriteComposite(c)) = 15 + 14 * Len(mcommands[c])
<1> DEFINE S == UnitSet
           s == mcommands[c]
           m == Len(s)
           A == Parts(c)
           F == FlattenSeq(A)
           b == WriteComposite(c)
           H == Head15(c)
<1>1. m \in Nat /\ \A j \in 1..m : s[j] \in Objects
  BY EntriesAre
<1>2. /\ A \in [1..m -> Seq(S)] /\ F \in Seq(S) /\ b = H \o F
      /\ \A j \in 1..m : A[j] = Part(s[j])
  BY CompositeWritten DEF Parts
<1>3. H \in Seq(S) /\ Len(H) = 15
  BY <1>2, HeadIs
<1> HIDE DEF S, A, b, H
<1>7. ASSUME NEW j \in 1..m
      PROVE  Len(A[j]) = 14
  <2>1. s[j] \in Registered /\ s[j] \in Objects
    BY <1>1
  <2> QED
    BY <1>2, <2>1, PartBegins
<1> HIDE DEF m
<1>4. A \in Seq(Seq(S)) /\ Len(A) = m
  <2> DEFINE X == Seq(S)
  <2> HIDE DEF X
  <2>1. A \in [1..m -> X]
    BY <1>2 DEF X
  <2>2. A \in Seq(X) /\ Len(A) = m
    BY <1>1, <2>1
  <2> QED
    BY <2>2 DEF X
<1>5. PICK g \in [0..Len(A) -> Seq(S)] : Joins(g, A) /\ FlattenSeq(A) = g[Len(A)]
  BY <1>4, FlattenJoins
<1>6. /\ g \in [0..m -> Seq(S)] /\ g[0] = <<>> /\ F = g[m]
      /\ \A n \in 1..m : g[n] = g[n - 1] \o A[n]
  BY <1>4, <1>5 DEF Joins
<1> HIDE DEF F
<1>8. m \in 0..m
  BY <1>1
<1>9. Len(g[m]) = 14 * m
  <2> DEFINE h == m
  <2>1. Long(A, h)
    BY <1>7 DEF Long
  <2>2. JoinsOf(g, A, m, h, S)
    BY <2>1, <1>1, <1>2, <1>4, <1>5, <1>6, <1>7, <1>8 DEF JoinsOf
  <2> HIDE DEF h
  <2>3. Len(g[h]) = 14 * h
    BY ONLY <2>2, JoinsLong
  <2> QED
    BY <2>3 DEF h
<1>10. Len(b) = Len(H) + Len(F)
  <2>1. Len(H \o F) = Len(H) + Len(F)
    BY <1>2, <1>3, ConcatProperties
  <2> QED
    BY <1>2, <2>1
<1> QED
  BY <1>1, <1>3, <1>6, <1>9, <1>10 DEF b, m

\* The entries of c before f can be read back, and the next one cannot.
ReadableTo(c, f) ==
    /\ f \in 0..Len(mcommands[c])
    /\ \A j \in 1..f : mcommands[c][j] \in Registered
    /\ f < Len(mcommands[c]) => mcommands[c][f + 1] \notin Registered

\* There is such a number.
LEMMA ReadableFirst ==
    ASSUME TypeOK, NEW c \in Composites
    PROVE  \E f : ReadableTo(c, f)
<1> DEFINE s == mcommands[c]
           m == Len(s)
           D == {j \in 1..m : s[j] \notin Registered}
<1>1. m \in Nat
  BY EntriesAre
<1>2. CASE D = {}
  <2>1. ReadableTo(c, m)
    BY <1>1, <1>2 DEF ReadableTo
  <2> QED
    BY <2>1
<1>3. CASE D # {}
  <2>1. D \in SUBSET Nat
    OBVIOUS
  <2>2. PICK x \in D : \A y \in D : x <= y
    <3> HIDE DEF D
    <3> QED
      BY <1>3, <2>1, LeastExists
  <2>3. x \in 1..m /\ s[x] \notin Registered
    OBVIOUS
  <2>4. x - 1 \in 0..m /\ (x - 1) + 1 = x
    BY <1>1, <2>3
  <2>5. ASSUME NEW j \in 1..(x - 1)
        PROVE  s[j] \in Registered
    <3>1. j \in 1..m /\ ~(x <= j)
      BY <1>1, <2>3
    <3> QED
      BY <2>2, <3>1
  <2>6. ReadableTo(c, x - 1)
    BY <2>3, <2>4, <2>5 DEF ReadableTo
  <2> QED
    BY <2>6
<1> QED
  BY <1>2, <1>3

\* The reader after i turns: it has the first i entries, or it has stopped
\* behind the ClassInfo of the first entry that cannot be read back.
Got(c, i) == [k \in 1..Len(mcommands[c]) |->
                 IF k <= i THEN AsObject(mcommands[c][k]) ELSE NewCommand(Null)]
Turn(c, f, i) ==
    IF i <= f THEN Rd(WriteComposite(c), 15 + 14 * i, AsObject(c), Got(c, i), FALSE)
    ELSE Rd(WriteComposite(c), 19 + 14 * f, AsObject(c), Got(c, f), TRUE)

\* One entry more.
LEMMA GotNext ==
    ASSUME TypeOK, NEW c \in Composites, NEW i \in 1..Len(mcommands[c])
    PROVE  [Got(c, i - 1) EXCEPT ![i] = AsObject(mcommands[c][i])] = Got(c, i)
<1> DEFINE m == Len(mcommands[c])
<1>1. m \in Nat
  BY EntriesAre
<1> HIDE DEF m
<1>2. i \in 1..m
  BY DEF m
<1>3. \A k \in 1..m : k # i => (k <= i - 1 <=> k <= i)
  BY <1>1, <1>2
<1>4. i <= i
  BY <1>1, <1>2
<1>5. /\ Got(c, i - 1) = [k \in 1..m |->
            IF k <= i - 1 THEN AsObject(mcommands[c][k]) ELSE NewCommand(Null)]
      /\ Got(c, i) = [k \in 1..m |->
            IF k <= i THEN AsObject(mcommands[c][k]) ELSE NewCommand(Null)]
  BY DEF Got, m
<1> DEFINE e == Got(c, i - 1)
           g == Got(c, i)
           a == AsObject(mcommands[c][i])
<1>6. ASSUME NEW k \in 1..m
      PROVE  g[k] = IF k = i THEN a ELSE e[k]
  BY <1>3, <1>4, <1>5
<1>7. /\ e = [k \in 1..m |-> e[k]]
      /\ g = [k \in 1..m |-> g[k]]
  BY <1>5
<1> HIDE DEF e, g, a
<1>8. [e EXCEPT ![i] = a] = [k \in 1..m |-> IF k = i THEN a ELSE e[k]]
  BY <1>7
<1>9. g = [k \in 1..m |-> IF k = i THEN a ELSE e[k]]
  BY <1>6, <1>7
<1> QED
  BY <1>8, <1>9 DEF e, g, a

\* One turn of CompositeCommand::read.
LEMMA TurnNext ==
    ASSUME TypeOK, NEW c \in Composites, NEW f, ReadableTo(c, f),
           NEW i \in 1..Len(mcommands[c])
    PROVE  ReadEntry(Turn(c, f, i - 1), i) = Turn(c, f, i)
<1> DEFINE s == mcommands[c]
           m == Len(s)
           b == WriteComposite(c)
           o == AsObject(c)
           a == 15 + 14 * (i - 1)
           F == FALSE
           T == TRUE
           k == s[i]
<1>1. m \in Nat /\ \A j \in 1..m : s[j] \in Objects
  BY EntriesAre
<1>2. f \in 0..m /\ i \in 1..m /\ f \in Int /\ i \in Int /\ k \in Objects
  BY <1>1 DEF ReadableTo
<1>3. b \in Seq(UnitSet)
  BY CompositeWritten
<1>4. CASE i <= f
  <2>1. i - 1 <= f /\ a \in Nat /\ a + 14 = 15 + 14 * i
    BY <1>2, <1>4
  <2>2. \A j \in 1..i : j \in 1..f
    BY <1>2, <1>4
  <2>3. k \in Registered /\ \A j \in 1..(i - 1) : s[j] \in Registered
    BY <1>2, <2>2 DEF ReadableTo
  <2>4. LiesAt(b, a, Part(k))
    BY <2>3, EntryPlaced
  <2>5. LiesAt(b, a, NullUnits(k))
    BY <1>2, <2>3, <2>4, PartBegins DEF NullUnits
  <2>6. /\ Turn(c, f, i - 1) = Rd(b, a, o, Got(c, i - 1), F)
        /\ Turn(c, f, i) = Rd(b, a + 14, o, Got(c, i), F)
    BY <1>4, <2>1 DEF Turn
  <2> DEFINE e == Got(c, i - 1)
  <2>7. Entered(e, i, k) = Got(c, i)
    BY GotNext DEF Entered
  <2>8. F = FALSE
    OBVIOUS
  <2> HIDE DEF b, o, a, F, k, e
  <2>9. ReadEntry(Rd(b, a, o, e, F), i) = Rd(b, a + 14, o, Entered(e, i, k), F)
    <3>1. /\ TypeOK /\ k \in Objects /\ b \in Seq(UnitSet) /\ a \in Nat
          /\ LiesAt(b, a, NullUnits(k)) /\ Going(F)
      BY <1>2, <1>3, <2>1, <2>5, <2>8 DEF Going
    <3> QED
      BY ONLY <3>1, EntryReadBack
  <2> QED
    BY <2>6, <2>7, <2>9 DEF e
<1>5. CASE i = f + 1
  <2>1. i - 1 = f /\ ~(i <= f) /\ i - 1 <= f /\ a \in Nat /\ a + 4 = 19 + 14 * f /\ f < m
    BY <1>1, <1>2, <1>5
  <2>2. k \notin Registered /\ \A j \in 1..(i - 1) : s[j] \in Registered
    BY <1>5, <2>1 DEF ReadableTo
  <2> DEFINE x == Part(k)
             n == 0
  <2>3. LiesAt(b, a, x)
    BY <2>2, EntryPlaced
  <2>4. PICK d \in Named \ {"NullCommand"} : LiesAt(x, n, Info(d))
    BY <1>2, <2>2, PartBegins
  <2>5. x \in Seq(UnitSet) /\ Info(d) \in Seq(UnitSet) /\ n \in Nat /\ a + n = a
    BY <1>2, <2>1, InfoIs, PartLeavesOut
  <2>6. /\ Turn(c, f, i - 1) = Rd(b, a, o, Got(c, f), F)
        /\ Turn(c, f, i) = Rd(b, a + 4, o, Got(c, f), T)
    BY <2>1 DEF Turn
  <2>7. F = FALSE /\ T = TRUE
    OBVIOUS
  <2> HIDE DEF x, n, a, b, o, F, T
  <2>8. LiesAt(b, a + n, Info(d))
    <3> DEFINE S == UnitSet
               y == Info(d)
    <3>1. /\ b \in Seq(S) /\ x \in Seq(S) /\ y \in Seq(S) /\ a \in Nat /\ n \in Nat
          /\ LiesAt(b, a, x) /\ LiesAt(x, n, y)
      BY <1>3, <2>1, <2>3, <2>4, <2>5
    <3> HIDE DEF S, y
    <3>2. LiesAt(b, a + n, y)
      BY <3>1, LiesWithin
    <3> QED
      BY <3>2 DEF y
  <2> DEFINE e == Got(c, f)
  <2> HIDE DEF e
  <2>9. LiesAt(b, a, Info(d))
    BY <2>5, <2>8
  <2>10. ReadEntry(Rd(b, a, o, e, F), i) = Rd(b, a + 4, o, e, T)
    <3>1. /\ d \in Named \ {"NullCommand"} /\ b \in Seq(UnitSet) /\ a \in Nat /\ F = FALSE
          /\ LiesAt(b, a, Info(d))
      BY <1>3, <2>1, <2>7, <2>9
    <3>2. ReadEntry(Rd(b, a, o, e, F), i) = Rd(b, a + 4, o, e, TRUE)
      BY ONLY <3>1, EntryStops
    <3> QED
      BY <3>2 DEF T
  <2> QED
    BY <2>6, <2>10 DEF e
<1>6. CASE i > f + 1
  <2>1. ~(i - 1 <= f) /\ ~(i <= f)
    BY <1>2, <1>6
  <2> DEFINE h == 19 + 14 * f
             e == Got(c, f)
  <2>2. Turn(c, f, i - 1) = Rd(b, h, o, e, T) /\ Turn(c, f, i) = Rd(b, h, o, e, T)
    BY <2>1 DEF Turn
  <2>3. T = TRUE
    OBVIOUS
  <2> HIDE DEF T, b, h, o, e
  <2>4. ReadEntry(Rd(b, h, o, e, T), i) = Rd(b, h, o, e, T)
    BY <2>3, EntryStopped
  <2> QED
    BY <2>2, <2>4
<1> QED
  BY <1>2, <1>4, <1>5, <1>6

\* The composite's own part of CompositeCommand::read.
Base(c) == Rd(WriteComposite(c), 14, AsObject(c), <<>>, FALSE)

\* It is read back, and the count behind it.
LEMMA BaseRead ==
    ASSUME TypeOK, NEW c \in Composites
    PROVE  /\ ReadCommand([buf |-> WriteComposite(c), at |-> InfoSize, o |-> NewCommand(Null),
                           entries |-> <<>>, stopped |-> FALSE]) = Base(c)
           /\ Units(Base(c), 1)[1][2] = Len(mcommands[c])
           /\ Past(Base(c), 1) = Rd(WriteComposite(c), 15, AsObject(c), <<>>, FALSE)
<1> DEFINE b == WriteComposite(c)
           e == <<>>
           F == FALSE
           o == AsObject(c)
           a == 4
           h == 14
           u == <<"count", Len(mcommands[c])>>
<1>1. c \in Objects /\ b \in Seq(UnitSet) /\ Len(mcommands[c]) \in Nat
  BY CompositeWritten, EntriesAre DEF Objects
<1>2. u \in UnitSet /\ u[2] = Len(mcommands[c])
  BY <1>1 DEF UnitSet
<1>3. LiesAt(b, a, WriteCommand(c)) /\ LiesAt(b, h, <<u>>)
  BY HeadPlaced
<1>4. /\ [buf |-> b, at |-> InfoSize, o |-> NewCommand(Null), entries |-> e, stopped |-> F] =
            Rd(b, a, NewCommand(Null), e, F)
      /\ Base(c) = Rd(b, h, o, e, F)
  BY DEF Rd, InfoSize, Base
<1>5. a \in Nat /\ a + 10 = h /\ h \in Nat /\ h + 1 = 15
  OBVIOUS
<1> HIDE DEF a, h, b, e, F, u
<1>6. ReadCommand(Rd(b, a, NewCommand(Null), e, F)) = Rd(b, a + 10, AsObject(c), e, F)
  BY <1>1, <1>3, <1>5, CommandReadBack
<1> HIDE DEF o
<1>7. Units(Rd(b, h, o, e, F), 1) = <<u>> /\ Past(Rd(b, h, o, e, F), 1) = Rd(b, h + 1, o, e, F)
  BY <1>1, <1>2, <1>3, <1>5, UnitLies
<1>8. <<u>>[1] = u
  OBVIOUS
<1>9. Units(Base(c), 1)[1][2] = Len(mcommands[c])
  BY <1>2, <1>4, <1>7, <1>8
<1>10. Past(Base(c), 1) = Rd(b, 15, o, e, F)
  BY <1>4, <1>5, <1>7
<1>11. ReadCommand([buf |-> b, at |-> InfoSize, o |-> NewCommand(Null), entries |-> e,
                    stopped |-> F]) = Base(c)
  BY <1>4, <1>5, <1>6 DEF o
<1> QED
  BY <1>9, <1>10, <1>11 DEF b, e, F, o

\* CompositeCommand::read gives the reader of the last turn.
LEMMA CopyIs ==
    ASSUME TypeOK, NEW c \in Composites, NEW f, ReadableTo(c, f)
    PROVE  ReadComposite(WriteComposite(c)) = Turn(c, f, Len(mcommands[c]))
<1> DEFINE m == Len(mcommands[c])
           B == Base(c)
           r == [Past(B, 1) EXCEPT !.entries = [k \in 1..m |-> NewCommand(Null)]]
           g == CHOOSE g : g = [i \in 0..m |-> IF i = 0 THEN r ELSE ReadEntry(g[i - 1], i)]
           t == [i \in 0..m |-> Turn(c, f, i)]
<1>1. m \in Nat
  BY EntriesAre
<1>2. ReadComposite(WriteComposite(c)) = g[m]
  <2> DEFINE b == WriteComposite(c)
             z == [buf |-> b, at |-> InfoSize, o |-> NewCommand(Null),
                   entries |-> <<>>, stopped |-> FALSE]
             n == Units(ReadCommand(z), 1)[1][2]
             p == [Past(ReadCommand(z), 1) EXCEPT !.entries = [k \in 1..n |-> NewCommand(Null)]]
             q == CHOOSE q : q = [i \in 0..n |-> IF i = 0 THEN p ELSE ReadEntry(q[i - 1], i)]
  <2>1. ReadComposite(b) = q[n]
    BY DEF ReadComposite
  <2>2. ReadCommand(z) = B
    BY BaseRead
  <2>3. n = m
    BY <2>2, BaseRead
  <2>4. p = r
    BY <2>2, <2>3
  <2> HIDE DEF p, n, r, m
  <2>5. q = g
    BY <2>3, <2>4
  <2> QED
    BY <2>1, <2>3, <2>5
<1>3. Turn(c, f, 0) = r
  <2> DEFINE b == WriteComposite(c)
             o == AsObject(c)
             e == <<>>
             F == FALSE
             N == [k \in 1..m |-> NewCommand(Null)]
  <2>1. 0 <= f /\ 15 + 14 * 0 = 15
    BY <1>1 DEF ReadableTo
  <2>2. Turn(c, f, 0) = Rd(b, 15, o, Got(c, 0), F)
    BY <2>1 DEF Turn
  <2>3. Got(c, 0) = N
    <3>1. \A k \in 1..m : ~(k <= 0)
      BY <1>1
    <3>2. Got(c, 0) = [k \in 1..m |->
               IF k <= 0 THEN AsObject(mcommands[c][k]) ELSE NewCommand(Null)]
      BY DEF Got
    <3> QED
      BY <3>1, <3>2
  <2>4. Past(B, 1) = Rd(b, 15, o, e, F)
    BY BaseRead
  <2> HIDE DEF N, b, o, e, F
  <2>5. [Rd(b, 15, o, e, F) EXCEPT !.entries = N] = Rd(b, 15, o, N, F)
    BY DEF Rd
  <2>6. r = [Past(B, 1) EXCEPT !.entries = N]
    BY DEF N
  <2> QED
    BY <2>2, <2>3, <2>4, <2>5, <2>6
<1> HIDE DEF r
<1>4. t = [i \in 0..m |-> IF i = 0 THEN r ELSE ReadEntry(t[i - 1], i)]
  <2>1. ASSUME NEW i \in 0..m
        PROVE  t[i] = IF i = 0 THEN r ELSE ReadEntry(t[i - 1], i)
    <3>1. CASE i = 0
      BY <1>3, <3>1
    <3>2. CASE i # 0
      <4>1. i \in 1..m /\ i - 1 \in 0..m
        BY <1>1, <3>2
      <4>2. ReadEntry(Turn(c, f, i - 1), i) = Turn(c, f, i)
        BY <4>1, TurnNext
      <4> QED
        BY <3>2, <4>1, <4>2
    <3> QED
      BY <3>1, <3>2
  <2>2. t = [i \in 0..m |-> t[i]]
    OBVIOUS
  <2> HIDE DEF t
  <2> QED
    BY <2>1, <2>2
<1>5. g = [i \in 0..m |-> IF i = 0 THEN r ELSE ReadEntry(g[i - 1], i)]
  <2> HIDE DEF t
  <2> QED
    BY <1>4
<1>6. m \in 0..m
  BY <1>1
<1> HIDE DEF g, m, t
<1> DEFINE T == {n \in Nat : n <= m => g[n] = t[n]}
<1>7. 0 \in T
  BY <1>1, <1>4, <1>5
<1>8. ASSUME NEW n \in Nat, n \in T
      PROVE  n + 1 \in T
  <2> SUFFICES ASSUME n + 1 <= m
               PROVE  g[n + 1] = t[n + 1]
    OBVIOUS
  <2> DEFINE j == n + 1
  <2>1. j \in 0..m /\ j # 0 /\ j - 1 = n /\ g[n] = t[n]
    BY <1>1, <1>8
  <2> HIDE DEF j
  <2>2. g[j] = ReadEntry(g[j - 1], j)
    BY <1>5, <2>1
  <2>3. t[j] = ReadEntry(t[j - 1], j)
    BY <1>4, <2>1
  <2>4. g[j] = t[j]
    BY <2>1, <2>2, <2>3
  <2> QED
    BY <2>4 DEF j
<1>9. m \in T
  <2> HIDE DEF T
  <2> QED
    BY <1>1, <1>7, <1>8, NatInductive
<1>10. t[m] = Turn(c, f, m)
  BY <1>6 DEF t
<1> QED
  BY <1>1, <1>2, <1>9, <1>10 DEF m

\* The copy of one composite.
LEMMA CopyOf ==
    ASSUME TypeOK, NEW c \in Composites
    PROVE  LET buf  == WriteComposite(c)
               copy == ReadComposite(buf)
               unreadable(i) == \E j \in 1..i : mcommands[c][j] \notin Registered
           IN  /\ copy.o = AsObject(c)
               /\ \A i \in DOMAIN mcommands[c] :
                     copy.entries[i] = IF unreadable(i) THEN NewCommand(Null)
                                       ELSE AsObject(mcommands[c][i])
               /\ copy.stopped <=> Children(c) \ Registered # {}
               /\ copy.at = Len(buf) <=> ~copy.stopped
               /\ EqualsCopy(c, copy) <=> ~copy.stopped
               /\ Len(buf) - size(c) =
                     Cardinality({i \in DOMAIN buf : buf[i] = <<"info", "CompositeCommand", 1>>})
                        * LeafSize
                   + Cardinality({i \in DOMAIN buf : buf[i] = <<"info", "NullCommand", 1>>})
                        * InfoSize
<1> DEFINE s == mcommands[c]
           m == Len(s)
           b == WriteComposite(c)
           copy == ReadComposite(b)
           unreadable(i) == \E j \in 1..i : s[j] \notin Registered
<1>1. m \in Nat /\ DOMAIN s = 1..m /\ \A i \in 1..m : s[i] \in Objects
  BY EntriesAre
<1>2. PICK f : ReadableTo(c, f)
  BY ReadableFirst
<1>3. /\ f \in 0..m /\ f \in Nat /\ \A j \in 1..f : s[j] \in Registered
      /\ f < m => s[f + 1] \notin Registered
  BY <1>1, <1>2 DEF ReadableTo
<1>4. copy = Turn(c, f, m)
  BY <1>2, CopyIs
<1>5. /\ b \in Seq(UnitSet) /\ size(c) \in Int /\ Len(b) = size(c) + LeftOut(b) /\ Len(b) \in Nat
  BY CompositeWritten
<1>6. LeftOut(b) \in Nat
  BY <1>5, LeftOutConcat
<1>7. Len(b) - size(c) =
         Cardinality({i \in DOMAIN b : b[i] = <<"info", "CompositeCommand", 1>>}) * LeafSize
       + Cardinality({i \in DOMAIN b : b[i] = <<"info", "NullCommand", 1>>}) * InfoSize
  <2>1. LeftOut(b) =
           Cardinality({i \in DOMAIN b : b[i] = <<"info", "CompositeCommand", 1>>}) * LeafSize
         + Cardinality({i \in DOMAIN b : b[i] = <<"info", "NullCommand", 1>>}) * InfoSize
    BY DEF LeftOut, Times, Places
  <2>2. Len(b) - size(c) = LeftOut(b)
    BY <1>5, <1>6
  <2> QED
    BY <2>1, <2>2
<1>8. ASSUME NEW i \in 1..m
      PROVE  unreadable(i) <=> ~(i <= f)
  <2>1. CASE i <= f
    <3>1. \A j \in 1..i : j \in 1..f
      BY <1>3, <2>1
    <3> QED
      BY <1>3, <2>1, <3>1
  <2>2. CASE ~(i <= f)
    <3>1. f < m /\ f + 1 \in 1..i
      BY <1>1, <1>3, <2>2
    <3> QED
      BY <1>3, <2>2, <3>1
  <2> QED
    BY <2>1, <2>2
<1>9. Children(c) \ Registered # {} <=> f < m
  <2>1. \A x : x \in Children(c) <=> \E i \in 1..m : x = s[i]
    BY <1>1 DEF Children, Range
  <2>2. CASE f < m
    <3>1. f + 1 \in 1..m
      BY <1>1, <1>3, <2>2
    <3> QED
      BY <1>3, <2>1, <2>2, <3>1
  <2>3. CASE ~(f < m)
    <3>1. f = m
      BY <1>1, <1>3, <2>3
    <3> QED
      BY <1>3, <2>1, <2>3, <3>1
  <2> QED
    BY <2>2, <2>3
<1>10. /\ copy.o = AsObject(c) /\ copy.entries = Got(c, f) /\ (copy.stopped <=> f < m)
       /\ f < m => copy.at = 19 + 14 * f
       /\ ~(f < m) => copy.at = 15 + 14 * m
  <2>1. CASE f < m
    <3> DEFINE a == 19 + 14 * f
               o == AsObject(c)
               e == Got(c, f)
               T == TRUE
    <3>1. ~(m <= f)
      BY <1>1, <1>3, <2>1
    <3>2. copy = Rd(b, a, o, e, T)
      BY <1>4, <3>1 DEF Turn
    <3> HIDE DEF a, o, e, T, b
    <3>3. copy.o = o /\ copy.entries = e /\ copy.stopped = T /\ copy.at = a
      BY <3>2, RdFields
    <3> QED
      BY <2>1, <3>3 DEF a, o, e, T
  <2>2. CASE ~(f < m)
    <3> DEFINE a == 15 + 14 * m
               o == AsObject(c)
               e == Got(c, m)
               F == FALSE
    <3>1. m <= f /\ f = m
      BY <1>1, <1>3, <2>2
    <3>2. copy = Rd(b, a, o, e, F)
      BY <1>4, <3>1 DEF Turn
    <3> HIDE DEF a, o, e, F, b
    <3>3. copy.o = o /\ copy.entries = e /\ copy.stopped = F /\ copy.at = a
      BY <3>2, RdFields
    <3> QED
      BY <2>2, <3>1, <3>3 DEF a, o, e, F
  <2> QED
    BY <2>1, <2>2
<1>11. ASSUME NEW i \in 1..m
       PROVE  copy.entries[i] = IF i <= f THEN AsObject(s[i]) ELSE NewCommand(Null)
  <2>1. Got(c, f) = [k \in 1..m |-> IF k <= f THEN AsObject(s[k]) ELSE NewCommand(Null)]
    BY DEF Got
  <2> QED
    BY <1>10, <2>1
<1>12. copy.at = Len(b) <=> ~(f < m)
  <2>1. CASE f < m
    <3> DEFINE i == f + 1
    <3>1. i \in 1..m /\ i - 1 = f
      BY <1>1, <1>3, <2>1
    <3> HIDE DEF i
    <3>2. LiesAt(b, 15 + 14 * (i - 1), Part(s[i]))
      BY <1>3, <3>1, EntryPlaced
    <3>3. Len(Part(s[i])) >= 10 /\ Part(s[i]) \in Seq(UnitSet)
      BY <1>1, <1>3, <2>1, <3>1, PartBegins, PartLeavesOut DEF i
    <3>4. 15 + 14 * f + Len(Part(s[i])) <= Len(b) /\ Len(Part(s[i])) \in Nat
      BY <3>1, <3>2, <3>3 DEF LiesAt
    <3>5. 19 + 14 * f # Len(b)
      BY <1>3, <1>5, <3>3, <3>4
    <3> QED
      BY <1>10, <2>1, <3>5
  <2>2. CASE ~(f < m)
    <3>1. f = m
      BY <1>1, <1>3, <2>2
    <3>2. Len(b) = 15 + 14 * m
      BY <1>3, <3>1, ReadableLong
    <3> QED
      BY <1>10, <2>2, <3>2
  <2> QED
    BY <2>1, <2>2
<1> HIDE DEF copy, b
<1>13. EqualsCopy(c, copy) <=> ~(f < m)
  <2>1. copy.o.id = c
    BY <1>10 DEF AsObject
  <2>2. CASE f < m
    <3> DEFINE i == f + 1
    <3>1. i \in 1..m /\ ~(i <= f)
      BY <1>1, <1>3, <2>2
    <3> HIDE DEF i
    <3>2. copy.entries[i].id = Null /\ AsObject(s[i]).id = s[i] /\ s[i] \in Objects
      <4>1. copy.entries[i] = NewCommand(Null)
        BY <1>11, <3>1
      <4>2. NewCommand(Null).id = Null /\ AsObject(s[i]).id = s[i]
        BY DEF NewCommand, AsObject
      <4> QED
        BY <1>1, <3>1, <4>1, <4>2
    <3>3. ~Equals(AsObject(s[i]), copy.entries[i])
      BY <3>2, CommandAssumption DEF Equals
    <3> QED
      BY <1>1, <2>2, <3>1, <3>3 DEF EqualsCopy
  <2>3. CASE ~(f < m)
    <3>1. \A i \in 1..m : i <= f
      BY <1>1, <1>3, <2>3
    <3>2. \A i \in 1..m : Equals(AsObject(s[i]), copy.entries[i])
      BY <1>11, <3>1 DEF Equals
    <3> QED
      BY <1>1, <2>1, <2>3, <3>2 DEF EqualsCopy
  <2> QED
    BY <2>2, <2>3
<1>14. ASSUME NEW i \in DOMAIN s
       PROVE  copy.entries[i] = IF unreadable(i) THEN NewCommand(Null) ELSE AsObject(s[i])
  <2>1. i \in 1..m
    BY <1>1
  <2>2. unreadable(i) <=> ~(i <= f)
    BY <1>8, <2>1
  <2>3. copy.entries[i] = IF i <= f THEN AsObject(s[i]) ELSE NewCommand(Null)
    BY <1>11, <2>1
  <2> HIDE DEF unreadable
  <2> QED
    BY <2>2, <2>3
<1>15. /\ copy.o = AsObject(c)
       /\ copy.stopped <=> Children(c) \ Registered # {}
       /\ copy.at = Len(b) <=> ~copy.stopped
       /\ EqualsCopy(c, copy) <=> ~copy.stopped
  BY <1>9, <1>10, <1>12, <1>13
<1> QED
  BY <1>7, <1>14, <1>15 DEF b, copy

\* A composite is read back up to its first command of a class that is not
\* registered, and not at all from there on; what size() leaves out of what
\* is written is known.
THEOREM CopiesReadBack == Spec => []CopyReadsBack
<1>1. CommandInd => CopyReadsBack
  BY CopyOf DEF CommandInd, CopyReadsBack
<1> QED
  BY <1>1, CommandIndInit, CommandIndNext, PTL DEF Spec
=============================================================================
