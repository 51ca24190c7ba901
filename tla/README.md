# Verification of pensar

TLA+ models of the parts of pensar that carry its logic: the contact database
(`contact/`: connection pool, data access objects, PostgreSQL schema with its
triggers, value classes) and the C++ library under it (`cpp/src/`: commands,
objects, buffers, factories, containers, files, text, encodings). TLC checks the
models on small instances; TLAPS proves, for every value of the constants, the
safety properties of the connection pool, the audit log, the store and its
queries, the commands, the classes of the library that keep state, and of its
pure functions.

## 1. Inventory

| Part | State | Operations | Hard to get right |
|---|---|---|---|
| Connection pool, `db_connection.hpp` | a flag and a server connection per slot; `app.current_user` and `app.locale` live on the connection | `session`, constructor (lease, SET, SET), destructor (RESET, RESET, give_back) | threads race for slots; a statement may fail between any two steps; variables outlive a session |
| Audit log, `contact_ddl.sql`, `audit_dao.hpp` | `T_LOG_x`: action, who, `NOW()`, old and new row | trigger `fn_audit_log`; search, purge, entity_timestamps | `NOW()` is when the transaction began, not when the row changed |
| Data access objects, `*_dao.hpp` | none of their own | one statement in one session each | full-column updates from stale DTOs; 0 for NULL; equal ids of persons and units |
| Schema, `contact_ddl.sql` | 13 tables, foreign keys with CASCADE and SET NULL, search vectors, a materialized view per locale | triggers, recursive hierarchy query, searches, refresh | one DELETE changes many tables; derived columns depend on other tables; parents may form cycles |
| Commands, `command.hpp` | `mok` per command, `mcommands` and `mindex` per composite, registry | add, run, undo, clone, read, write | exceptions in the middle; undo of a part, twice, or after a failed second run; copies with null entries |
| Objects, `object.hpp`, `class_info.hpp`, `person.hpp` | id and data of each class | write, read, assignment, copy, clone | readers of another class; virtual calls in constructors |
| Binary buffer, `binary_buffer.hpp` | vector, write and read position, file | write, read, clear, save, load | clear keeps the bytes; short reads and writes |
| Factories, `factory.hpp` | shared pointers of a pool, of clients and on the heap | get, reset, refill | reuse by `use_count` |
| Id generator, `generator.hpp` | value, initial value and step | get_id, set_value, initialize, read, clone | uniqueness after a reset, overflow |
| Sorted list, `sorted_list.hpp` | elements, unique flag | add, remove, find, writable access | order kept whatever is added; equivalent elements |
| Files and paths, `file.hpp`, `path.hpp` | stream with mode, position and error; names; the tree on disk | open, read, write, append, remove, close, destructors; create_dir, remove | errors that stay in the stream; exceptions out of `noexcept`; size and content from two sources |
| Log, `log.hpp` | a switch and a stream in each translation unit | LOG, enable, disable | one file behind many streams |
| Stop watch, `stop_watch.hpp` | start, last, mark, running | start, stop, reset, mark, elapsed | mixing two measurements |
| Text, `s.hpp`, `cs.hpp` | array of a fixed size | replace, split, trim, number formats; copy, append, compare | loops that search again; the null at the end |
| Encodings, `icu_util.hpp`, `encoding.hpp` | ICU status and open converters during a call | conversions, accents, detection | status left from the question for the size; exits between open and close |
| Contact values, `e-mail.hpp`, `person.hpp` | parts of an address, of a name | construct, write, read | what reads back; what fits |
| Pure algorithms: `distance.hpp`, `data.hpp`, `wire_*.hpp`, `byte_order.hpp`, `array.hpp`, `code_util.hpp`, `algorithm_util.hpp`, `statistic.hpp`, `constraint.hpp`, `io_util*.hpp` | none | | rows two back; padding; byte order; `start + count` wraps; short files |
| Locale data, system information, errors | tables of constants | | |

Interactions. A DAO method opens a `ScopedSession` on the pool, sends one
statement and lets the session go out of scope. The statement fires the triggers
of the schema; `fn_audit_log` reads `app.current_user` of the connection, so what
the log says depends on what the constructor set and on what earlier destructors
left. The `fn_mv_*` accessors read `app.locale` in the same way. Commands and
other objects are written to and read from a `BinaryBuffer`; persons take their
ids from a `Generator`; addresses and names are made of fixed strings.

What makes each part correct:

* pool: a connection belongs to one session; no session acts for another one's
  user or locale; slots come back;
* audit log: it replays to the tables, misses no change, names who did it, is
  found by who asks;
* store: references and constraints survive every cascade; derived columns are
  fresh; queries answer for the rows as they are;
* commands: undo takes back what ran, and only that; a failed composite leaves
  nothing behind; a copy is the same command;
* library: what was put in comes out, failures are reported and not disguised,
  loops end, and pure functions agree with a definition that is not their code.

## 2. Modules

| Module | Models | Uses |
|---|---|---|
| `SessionContract` | what the pool promises: bounded sessions, correct user, correct locale | |
| `DbConnection` | `db_connection.hpp` step by step, with lost connections and failing statements | refines `SessionContract` |
| `AuditTrail` | concurrent DAO calls on `T_Person`, audit trigger, search, purge, timestamps | extends `DbConnection` |
| `AuditTrailProofs` | theorems on the pool and on the log | extends `AuditTrail` |
| `ContactStore` | tables, keys, triggers, the writing methods of all DAOs, the hierarchy query | |
| `ContactQueries` | finders, lists, searches, `can_view`, locales, refresh of the views | extends `ContactStore` |
| `ContactProofs` | theorems on the tables and on what is read from them | extends `ContactQueries`, `Induction` |
| `Listing` | paging and `ILIKE` patterns of `PersonDAO` | extends `Text` |
| `Command`, `CommandCopies` | add, run, undo; write, read, size, equality, registry | `CommandCopies` extends `Command` and `ObjectIo` |
| `CommandProofs` | theorems on run, undo and written copies | extends `CommandCopies`, `Induction` |
| `ObjectIo` | objects in a buffer, assignment, copies, clones | |
| `BinaryBuffer` | `BinaryBuffer` with its file | |
| `Factory`, `Generator`, `SortedList`, `StopWatch`, `Log` | the classes of these names | |
| `Files`, `PathTree` | `TextFile` and `TmpTextFile` with the files they name; `Path` on a tree | |
| `LibraryProofs` | theorems on `BinaryBuffer`, `Factory`, `Generator`, `SortedList`, `StopWatch`, `Log`, `ObjectIo`, `Checks` | extends these and `Induction` |
| `FileProofs` | theorems on files, paths, platform files, and on the operations of `MCLibrary` | extends `Files`, `PathTree`, `PlatformIo`, `LibraryProofs`, `MCLibrary` |
| `TextProofs` | theorems on text, fixed strings, e-mail, names, numbers as text and file names | extends `ContactValues`, `TextEdit`, `CString`, `FileName`, `Induction` |
| `AlgorithmProofs` | theorems on ICU calls, code points, marks, pages, patterns, layouts, wire values and distances, and on the comparisons of `MCValues` | extends `MCValues`, `TextProofs` |
| `Induction` | induction and recursion over naturals and sequences, for the proofs | |
| `PlatformIo` | whole files and binary values, and where the platforms differ | |
| `Checks` | arrays, results, constraints, erase_if | |
| `Text`, `TextEdit` | functions of `s.hpp`; its loops | `TextEdit` extends `Text` |
| `FileName` | `RandomFileNameGenerator` of `file.hpp` | extends `Text` |
| `CString` | `CS<MIN, MAX, ...>` of `cs.hpp` | |
| `ContactValues` | `Email`, `PersonName` | extends `Text` |
| `Icu`, `Distance` | wrappers of ICU, marks, code points; string distances | `Distance` extends `Icu` |
| `Layout`, `Wire` | padding checks of `data.hpp`; numbers in a byte order | |
| `MCDbConnection`, `MCAuditTrail`, `MCContactStore`, `MCCommand` | instances for TLC | |
| `MCLibrary`, `MCValues` | instances of the library modules | |

### DbConnection

`used` is the pool's flag of a slot, `alive` whether its connection is up,
`appUser` and `appLocale` the variables on the server side. A thread's `pc` walks
through the constructor (`lease`, `set_user`, `set_locale`), the `body` and the
destructor (`reset_user`, `reset_locale`, `give_back`). Every statement is a step;
on a lost connection it throws, and with `"transient" \in Faults` it may also
throw on a live one. A throw in the constructor ends the session without a
destructor; a throw in the destructor is swallowed and the slot goes back.
`audit` and `served` record, for every write and localized read, what was asked
for and what the server used. `soci::connection_pool` and the server are external,
modelled from how this code uses them. A user name is an atom: the escaping of
`quote_literal` is left out.

### AuditTrail

Extends the pool with `T_Person`, its log and the server's clock. A statement has
two steps, `BeginStatement` (fixes `NOW()`) and its execution, which changes the
row and writes the log entry atomically; other sessions may do anything between
the two. `trail` holds every entry ever written, `purged` the ones a purge
removed. A DAO call is one statement, after which the session ends. `search` is
the conjunction of the filters that are given.

### ContactStore and ContactQueries

`rows` maps table and id to a row; a row has its foreign keys (0 for NULL), the
value its unique index compares, the rest of its content, and the set of lexemes
of its search vector. `RefsOf` gives the foreign keys of each table with their ON
DELETE rule. `Insert`, `Update` and `Delete` are the statements with all
they set off: constraints, cascades, SET NULL, vectors, audit entries. A DAO
method is one action on top of them. Statements are atomic here; the interleaving
of statements is `AuditTrail`'s subject. A call the DAO or a constraint refuses
changes nothing and is no step. `log` holds only the entries of the last statement.
`T_SocialMedia` and `T_Website` have no DAO and stay empty.

The reading methods are functions of `rows` that give DTOs, with 0 where the row
has NULL; the reverse conversion is `StoredPerson` and `StoredOrg`.
`fn_refresh_locale_mvs` is one step per locale and a commit: statements of others
come between, because each REFRESH takes its own snapshot.

### Command and CommandCopies

The commands are those of `command_test.cpp`: they add to, subtract from or
double one value. `run` and `run_throws` take the completion order of the nested
commands and execute all of it or a prefix of it (`RunAll`); `undo` calls `_undo` for the
commands whose `mok` is set, first to last, as the code does. Composites are
nested at most once, and an object has one owner. What `write` and `read` make of a
composite are functions of the state, looked at in every state. `clone` is not
modelled: Section 5 says what it does.

### The library in one run each

`MCLibrary` and `MCValues` hold many small subjects. The initial state picks one:
a machine (file, path tree, sorted list, factory, generator, stop watch, buffer,
log; text loop, fixed string, e-mail, ICU call), which then moves by itself while
the others rest, or an operation with an argument, which is checked in that state
against its reference definition. The machines share no state, so nothing is lost.

* `Files`: `disk` maps names to contents, `stream` has view, position, mode and
  error, `life` whether the object lives, is destroyed or has ended the program
  (an exception out of a `noexcept` function). `requested` is what should be there.
* `Factory`: a shared pointer is the set of its owners; `use_count` is their number.
* `Icu`: a function is the sequence of its calls; any call that may fail may do so,
  `status` and `held` are what the function goes on with.
* `PlatformIo`: a save has what `fopen`, `fwrite` and `fclose` did as an argument; bytes
  that are lost at `fclose`, whose result the code ignores, are among it.
* `CString`: a character is an integer, negative for a `char` beyond ASCII.
* `Layout`: a member has a size, an alignment, and may be floating; the size of an
  array is larger than its alignment. `Text`: a double is a multiple of 1/1024, which
  is not a decimal fraction in general, and is rounded as the stream does. `Wire`: what
  `convert` makes of bytes that are less than an element is `Overrun`, no bytes at all.
* `BinaryBuffer`: `written` and `got` are the history of what went in and came out
  since the last clear or load. `torn` says that a load has failed since: the code
  then leaves old positions on new bytes, and nothing is promised until the next
  clear or load.
* Limits of the code (64, 255, 63 characters; 2^64 ids; 256 byte values; `size_t`)
  are constants with small values, so that the boundary is reached.

## 3. Runs

| Run | Instance | Shows |
|---|---|---|
| `DbConnection_broken` | 3 threads, 2 slots, 1 user, 2 locales, connections may be lost | `SlotExclusive`, `LeakOnlyLost`, `AuditAttribution`, `LocaleServed`, and the refinement `ImplementsContract` |
| `DbConnection_healthy` | the same without failures, with fairness | no slot leaks; an exhausted pool always has a free slot again (`PoolRecovers`) |
| `DbConnection_leak` | 2 threads, lost connections | violates `NoLeak`: a SET that throws in the constructor loses its slot for good |
| `DbConnection_stale` | 2 threads, transient failures | violates `AuditAttribution`: after a failed RESET the next session without a user writes in the name of the one before |
| `AuditTrail` | 2 writers, 2 slots, 2 contents, 3 entries, 2 clock readings, lost connections | the log replays to the table (`TrailInv`), names and is found by who asked (`LogNamesUser`), a purge deletes what a search of the period finds (`PurgesTheFound`), deleted rows stay deleted (`NoResurrection`) |
| `AuditTrail_UpdatedByLastChange` | the same, no failures | violates: of two concurrent updates the last one may carry the earlier time, and `entity_timestamps` names the other |
| `ContactStore_forest` | 3 units, 3 names in 2 locales, any re-parenting, 2 refreshes | search vectors are fresh (`StoreInv`), the hierarchy query ends, is exact and agrees with `find_children` (`HierarchySound`), no view is older than the last refresh (`ViewsNotOlder`) |
| `ContactStore_deletions` | any 5 rows over all tables but localized unit names | `RefIntegrity`, complete logging of cascades (`AuditedChanges`), no entity goes with another (`EntitiesSurvive`), DTOs written back change nothing (`WriteBackNeutral`), lists and `can_view` answer for the owner only (`OwnerAnswers`), searches find what the rows say now (`SearchExact`) |
| `Command_additive` | 3 commuting commands, 2 composites, any may throw | undo touches only what ran (`UndoInv`), takes back a complete run (`UndoRestores`); what a written copy is (`CopyReadsBack`) |
| `Command_RolledBack` | with a command that doubles | violates: a failed composite keeps the effect of the commands before the failure |
| `Library` | see below | one property per class, and `ObjectsExact` and `OperationsExact` for the operations |
| `Values` | see below | `TextExact`, `ReplaceEnds`, `StringsExact`, `EmailsExact`, `IcuExact`, and `AlgorithmsExact` for the pure functions |

Each violation is a line of documentation that the code does not keep; the
`findings` of PROJECT.json quote it.

Properties that belong together are conjunctions of named parts, each with its
own comment: `FilesExact` is `AppendsInOrder`, `ReadsWhole`, `EndsForCause` and
`TmpGone`; `FactoryExact` is `AvailableExact` and `HeldAlone`; `ListExact` is
`SortedKept`, `CountsExact` and `AddIsExact`; and so on.

Why the bounds are enough. Three threads on two slots give a waiting thread, a
leaving one and a working one, which is all that the pool's steps can relate; one
user and the empty name are told apart by what the log must say, and the proofs
cover any number. Three log entries allow create, two competing changes of one
row, and delete followed by a late update. Two clock readings order two
statements either way. Three units make cycles of length 1, 2 and 3, a tail below
a cycle and a chain of full depth. Five rows reach the longest cascade (unit,
role, assignment with its person, and one more row) and every pair of
references. Two refreshes give one over old views; `MaxUnder` lets three rows come
into being around them.

In `Library` two names and three characters make a file that is renamed,
overwritten and appended to; paths of two names have a directory with something
below it; three elements of five with equivalent pairs have one to insert before,
between and behind; five objects are a pool of two, refilled and reset; eight ids
wrap; a clock of six readings has a start, a stop, a mark and a second start in
every order; two translation units and three messages have one unit switch off
between two messages of the other; four bytes in spans of two are overwritten in
part after a clear. In `Values` texts of up to six characters have two occurrences that
overlap, and a replacement that puts a third one together; fixed strings of three
characters are empty, full and over-full; local parts reach their limit and labels
pass theirs; characters are compared as `wchar_t` and as signed `char`; structs have three
members of five kinds, an array and a floating one among them, and lists of up to four;
distances are over all strings of three characters over three letters; file
names are made from every sequence of letters and digits that three tries and two
names of two characters can use up.

`MaxIds`, `MaxRows`, `MaxRefresh`, `MaxUnder`, `MaxClock`, `MaxEntries`, `MaxValue`,
`MaxFile`, `MaxDepth`, `MaxList`, `MaxObjects`, `MaxMessages`, `MaxSpan`, `MaxSize`
and `MaxText` are the only bounds; each is a conjunct of a guard.

Fairness. `PoolRecovers` assumes that a thread which holds a slot goes on: its
statements return or throw and its scope ends. Nothing is assumed about who wins
a free slot, since `lease` promises no order. `ReplaceEnds` assumes that a loop
that can go on does, which any running thread guarantees. Symmetry is used in
runs without liveness properties only.

Deadlock is checked in `DbConnection_healthy`. Elsewhere the system may stop: with
failures all slots may be lost (what `DbConnection_leak` shows), programs end, and
bounds end the others.

## 4. Proofs

The theorems about machines are of the form `Spec => []Inv`, `Spec => [][A]_vars`
or, for refinements, `Spec => AbstractSpec`; those about functions without state say
`Exact(x)` for every argument `x`, without the bounds of the runs. All hold for
every value of the constants that the named assumptions allow. TLC checked the inductive
invariants on the instances of Section 3 before they were proved, except `GenInd`,
which quantifies over all integers.

### The pool: `AuditTrailProofs`, first part

From `PoolAssumption` (slots are a finite non-empty set, the special values are
none of the ordinary ones):

* `PoolSafety`: `Spec => [](TypeOK /\ SlotExclusive)`, with every kind of failure.
  Not inductive alone: a thread that gives back must be known to hold a slot. The
  invariant is `PoolInv`, which adds `HeldByPc`: a thread has a slot exactly
  between lease and give_back. As it is proved, `TypeOK` is in no run.
* `Attribution`, `LocaleAttribution` and `LeaksOnlyLostSlots`: if statements fail
  only on lost connections. `AuditAttribution` and `LocaleServed` speak of the
  past; what makes them inductive is `VarInv`: a live connection that nobody holds
  carries no variable (`CleanWhenFree`), and one that is held carries exactly what
  its session has set so far (`SetSoFar`). The restriction is needed:
  `DbConnection_stale` is the counterexample with transient failures.
* `NothingLeaks`: without failures every used slot has a session.
* `Refinement`: under the restriction of `Attribution` the pool implements
  `SessionContract`. Every step maps to an opening, a write, a read, a closing or
  a stutter. That an opening respects the capacity is `FreeSlotMeansCapacity`:
  `pos_` maps the open sessions one-to-one into the slots that are used.

### The audit log: `AuditTrailProofs`, second part

From `PoolAssumption` and `TrailAssumption` (`NoRow` is no content; bounds are
naturals), for any number of concurrent writers:

* `TrailSafety` (`TrailInv`), with every kind of failure. `TrailInd` adds to
  `TrailReplays` what the sequences of the server give: log ids are unique and the
  next one is free (`LogIds`), no row has an id that was not given out
  (`IdsGivenOut`), an id is created once (`OneCreation`); and that the bound on
  entries leaves room for each running statement (`Reserved`).
* `DeletedStaysDeleted` (`NoResurrection`) and `PurgeMatchesSearch`
  (`PurgesTheFound`): action properties that follow from `TrailInd`.
* `LogAttribution` (`LogNamesUser`): under the restriction of `Attribution`. The
  steps of `AuditTrail` keep `VarInv`; the entries carry the name of the session's
  user (`NamedAsAsked`), and a search by that name finds these entries.

### The store: `ContactProofs`

From `StoreAssumption` (the bounds on ids are naturals, `NoRow` is no row) and
`QueriesAssumption` (the default locale is a locale; null and the empty text are
neither each other nor a content):

* `StoreSafety`, `ReferencesHold`, `ChangesAudited`, `EntitiesStay`. One inductive
  invariant carries all four: `StoreInd` is `WellFormed` (a row has the columns and
  the kind of content of its table, and an id below the next one), `RefIntegrity`
  and `Vectors`. They need each other: a cascade reaches all rows that would
  dangle only if references held before, and a unit's vector is fresh after a
  delete only if the names that go with it are those of units that go too. `Doomed`
  follows the cascades for two rounds; `DoomedClosed` proves that no third is needed.
* `QueriesImplement`: `QuerySpec => Spec` of the store, so that `StoreInd` holds
  beside all reading and refreshing.
* `WritesBack`, `OwnersAnswered`, `SearchIsExact` follow from `StoreInd` state by
  state.
* `HierarchyIsSound`: by induction over the depth, the rounds of the recursive
  query are the units at that distance from a root; a cycle is in no round.
* `ViewsAreNotOlder`: `RefreshInv`, what a running refresh has so far lists no
  unit that was gone before it, as ids are not given out twice.

### Commands: `CommandProofs`

From `CommandAssumption` and `CopiesAssumption`:

* `UndoSafety` (`UndoInv`), for any commands. `CommandInd` adds that a leaf whose
  `mok` is set has run, and that composites are nested once.
* `UndoIsInverse` (`UndoRestores`) under `Additive`, that every command adds or
  subtracts, as the composites of the tests do. With one that doubles it is false
  (Section 5). The invariant `RestoreInd` remembers the run (`JustRun`); what a run
  and an undo make of the value is the sum of the weights of the commands they
  reach (`RunTotal`, `UndoTotal`), and they reach the same ones (`UndoMatchesRun`).
* `CopiesReadBack` (`CopyReadsBack`): what a composite writes is the concatenation
  of what its entries write, and the reader takes exactly the words of one entry at
  a time, by induction over the entries; it stops at the first entry that the
  registry cannot create.

### Library: `LibraryProofs` and `FileProofs`

From `BufferAssumption`, `FactoryAssumption`, `ListAssumption`, `GenAssumption`,
`WatchAssumption`, `ChecksAssumption`, `PlatformAssumption`, `FilesAssumption` and
`PathTreeAssumption`.
These say that bounds, sizes, steps and readings are numbers, that the units of the watch are
multiples of each other, that texts are sequences of characters, and that a missing
file is no content.

* `BufferCorrect`: `BufferInd` relates the positions to the lengths of the history;
  what `FaithfulRead` says of the bytes is not enough to continue a read.
* `FactoryCorrect`: `FactoryInd`, each object of a pool is used by the pool and by
  the pointer that `get` never deletes, which makes `use_count` tell.
* `ListCorrect`: `ListInd`, order and number of each key; `std::lower_bound` (external)
  is exact on an ordered list, and an insertion moves the places behind it by one.
* `LogCorrect`: `LogInd`, switch and stream of a unit are what its calls say.
* `GeneratorCorrect`: `GenInd`, the n-th id is n steps from the initial value,
  modulo the range.
* `WatchCorrect`: `WatchInd`, the three times are those of the history; the fields
  of the text sum to the time by induction over the units.
* `FilesCorrect`: `FilesInd` adds where a stream stands, that what is on disk is no
  more than what it has (`OnDisk`), and that a stream in error refused something.
* `TreeCorrect`: `TreeExact` with its types is inductive.
* `ObjectsReadBack`, and with it `ObjectsCorrect` (`ObjectsExact`): the length that a
  ClassInfo announces is the length of what follows, so a reader of the right class
  consumes it and one of another class refuses it.
* `ComparisonsInside`, `ContainsFirst`, `ResultsExact`, `EraseVisitsAll`: the loops of
  `array.hpp`, `code_util.hpp` and `algorithm_util.hpp`, by induction over the place they
  have reached.
* `SavesLoad`, `LinesAreFile`, `BinaryTextRoundTrip`: `io_util*.hpp`, for files and
  numbers of any length. A save that reports success is loaded again if `fclose` lost
  nothing (`io.flushed = io.written`); the code cannot tell. Together with the ones
  before, `OperationsCorrect` (`OperationsExact`).

### Text and values: `TextProofs` and `AlgorithmProofs`

From `EmailAssumption` (addresses are sequences of the characters of addresses, `@`
is neither a letter nor a digit, the text for null has no `@` and is below the
limits), `TextAssumption` (texts and patterns are sequences of characters),
`CStringAssumption` (characters are integers other than the null, and so are their lower
case and plain forms), `NameAssumption` (so are the parts of names), `FileNameAssumption` (tries and
length are numbers, an extension that is given has no dot of its own), `IcuAssumption` (a
size is a number), `WireAssumption` (a base of at least two, at least one digit) and
`NoMatchAssumption` (the answer for no match is no string of the container):

* `TextCorrect` (`TextExact`): `TextInd` adds to what the loop promises that its text
  stays a sequence of characters; what the other functions make of it in each state
  rests on lemmas of their own, by induction over the length: the pieces between
  separators, each after the first led by one, are the text again (`LedPieces`,
  `PiecesFlat`), and a removal that erases the first occurrence gives what one that
  erases any other gives (`RemoveAny`), so that it may be done on the reversed text.
* `EmailsCorrect` (`EmailsExact`): `EmailInd` adds that the local part has no `@` and
  that what was checked is accepted. What is written has its first `@` between the
  parts, so a reader that looks for it takes them apart again. Of valid parts that have
  the full length of their CS nothing is said.
* `StringsCorrect`: `CSInd`, the array holds the string and a null behind it; what is
  behind the null is arbitrary.
* `LessOrders`: `operator<` of `CS`, which asks every character to be less, is irreflexive
  and asymmetric and agrees with `operator==`, for any folding of case and accents. With
  characters below the null it is transitive only if the first string is not longer than
  the second. It is no weak order: `ab` and `ba` are neither less nor equal.
* `FullNamesExact`, `NamesReadBack`: the blanks of what is written are those between the
  parts, since the parts are words, so the readers stop where the writer did.
* `NumbersExact`: by induction over the groups of three digits; padding from lengths; the
  two decimals are those of a hundredth that is at most half a hundredth away
  (`HundredthsNear`). The digits of `Decimal` are those of the number below 10000, where its
  table ends; grouping and padding are proved for any digits.
* `FilesNamed`: the tries are a recursive search, the dot is the only one because no
  part has one. The draws must be enough for two strings, as the comment of
  `FileNameExact` says.
* `IcuCorrect` (`IcuExact`): `IcuInd` says at each call of each function what is open,
  what the status is and whether a fault is behind it.
* `AccentsRemoved`, `CodepointsKept`, `MarksFound`: the units of a text are those of its
  characters one after the other, by induction over the text; the code points are
  read back in order, and what is left without marks is the text without marks. Byte
  order marks are compared byte by byte, for buffers of any length.
* `PagesCorrect`: every page of `list_all`, from the order of the rows.
* `PaddingFound`: offsets are sums of sizes exactly when there is no padding, by
  induction over the members; alignments need not divide sizes for it.
* `ValuesPortable`, `HashesAgree`, `ConvertsExactly`: a number below `Base ^ Width` is
  the sum of its digits; converting twice is the identity. The two zeros are left out of
  `HashesAgree`, bytes that are less than an element out of `ConvertsExactly`.
* `PatternsFind`: `Like` follows the set of places of the text that the pattern may have
  reached, one sign of the pattern at a time. After a plain prefix of a searched name
  these are the places where an occurrence of the prefix ends, so that the percent signs
  around it say that it is contained; other signs only add places.
* `DistancesCorrect`, `NearestFound`: the rows that `distance` keeps are the rows of
  the full table (`DistanceIs`), of which symmetry, the bounds, zero and one are proved by
  induction over the sum of the lengths. Each of the four edits changes a cell by at
  most one; that a distance of one is one edit follows backwards along the cell that
  gave the minimum.
* `NearestFound` assumes that the container is not empty and that the answer for none
  is not one of its elements.
* `AlgorithmsCorrect` (`AlgorithmsExact`): in `MCValues` the subject and its argument stay
  as they were chosen (`AlgorithmsInd`), and each of the thirteen comparisons is an
  instance of the theorems above.

`Induction` proves induction over the naturals as a fact about sets
(`NatInductive`), from the library's theorem that strict inclusion of
finite sets is well-founded, and from it that
recursive functions exist. What a recursive function of a model computes is then
proved by citing it with the set of the numbers for which the claim holds. The
models use recursive functions, not folds, where a proof is about them: the prover
does not instantiate the operator arguments of a fold.

### Only model-checked

* `PoolRecovers` and `ReplaceEnds`: liveness under fairness, which the prover
  cannot do.

Every other property of a passing run is stated by a theorem.

## 5. What the models and the reading showed

Behaviour that differs from what one expects or from what a comment of the repository
says. The properties leave these cases out, or say in their comment what is left of
them; none of them is a requirement.

* `CompositeCommand::_undo` goes first to last: commands that do not commute are
  not restored. `UndoRestores` is for commands that commute, as the tests' do.
* `CompositeCommand::clone` says "Clone all commands and add to the newly created
  composite." (`command.hpp:371`), but sets `mindex` to the number of entries before it
  adds their clones (`:369`): the clone has as many null entries first, and `add` takes
  raw pointers out of shared ones that delete the clones at once (`:374`). If the
  composite or one in it is more than half full, `add` throws in a `noexcept` function.
  Only classes that follow `NullCommand` can be read back (`CopyReadsBack`).
* The copy constructor of `Object` calls virtual functions of the base: the copy's
  id is the beginning of the data (`object.hpp:161`); `clone` has no data (`:225`).
  Reading an object of another class takes its id and keeps the data.
* `can_view` looks only at rules for the viewer as a person (`visibility_dao.hpp:142`).
* `list_all` orders by names only: persons with equal names may change places
  between two pages (`person_dao.hpp:178`). `%`, `_` and `\` in a name that is
  searched have their `ILIKE` meaning (`:206`).
* `write` and `append` open a closed file in the default binary mode and write over
  its beginning (`file.hpp:466`); `close` throws in a `noexcept` function (`:212`).
* `BinaryBuffer::read` is bounded by the vector, not by `size()`: after `clear` old
  bytes can be read (`binary_buffer.hpp:161`). A short load leaves the positions of
  the old content (`:148`).
* `PoolFactory::get` never deletes the pointer it allocates, and `available_count`
  is right only because of that (`factory.hpp:96`); each `get` of `MockupFactory`
  makes a new owner of one object (`:37`); a refill of 0 recurses for ever (`:100`).
* The clone of a generator starts at the initial value and repeats ids
  (`generator.hpp:150`).
* `compare_range` lets `start + count` wrap and then reads outside the array
  (`array.hpp:116`).
* `create_dir` "assumes it is a directory if the path ends with a path separator.
  Otherwise it assumes it is a file." (`path.hpp:225`), but makes a directory of a single
  name without a separator, as it has no parent path (`:231`). `CreateDirExact` is about
  the other paths.
* `save_to_file` ignores the result of `fclose` (`io_util.hpp:51`): bytes that are lost
  when the buffer of the stream is written are not reported.
* `create_empty_file`, "Create an empty file." (`io_util_ios.cpp:40`,
  `io_util_windows.hpp:204`), opens an input stream: an existing file keeps its content,
  and a missing one is not made but throws. On macOS the file is made empty.
* `VERIFY_DATA_STRUCT` shows a struct of two doubles and two ints as its example
  (`data.hpp:290`); the compiler refuses it, because a struct with a floating member has
  no unique object representations (`:303`).
* `convert` of data that are shorter than an element and longer than a byte runs far
  beyond them, because `data.size() - original_data_size` wraps (`byte_order.hpp:67`).
* `elapsed_since_mark` of a stopped watch may be negative (`stop_watch.hpp:57`).
* An append that fills a `CS` leaves no null (`cs.hpp:370`). `operator<` holds if
  every character is less, up to the length of the first string, and reads the second one
  behind its null (`:313`); as `char` is signed, a character beyond ASCII is less than
  the null, and a longer string may be less than a shorter one (`:94`).
* `remove_accent` "Handles all Unicode accented characters automatically." (`cs.hpp:48`),
  but `*c < 128` holds for every signed `char` (`icu_util.hpp:540`): without `WIDE_CHAR`
  no accent is removed.
* A replacement that contains what it replaces never ends (`s.hpp:387`);
  `remove_delimiters` throws for one delimiter alone (`:356`). `to_string` of 1.999
  with two decimals is 1.00, as only the decimals are rounded (`:486`, `:489`), and with
  the separator that is the default, a comma, the decimals are always `.00`, as the
  stream writes a point (`:484`, `:491`). An empty string removed from a string is found
  for ever (`:343`).
* `CompositeCommand::size` leaves out the command part that `write` puts first
  (`command.hpp:307`), and `NullCommand` inherits a size without its ClassInfo.
* A random file name is refused with its last draw unseen (`file.hpp:598`), ends
  with a dot if it has no extension, and ignores the extension asked for (`:648`);
  the second constructor of `TmpTextFile` leaves out the temporary directory.
* "The maximum length of the local part is 64 characters" (`e-mail.hpp:105`), and 255 for
  the domain (`:106`), and `is_valid_email_address` accepts these lengths; but the CS of
  that size has room for one character less, and the constructor throws. `operator>>`
  does not validate (`:214`). A name without middle name reads back with the last name as
  the middle one (`person.hpp:82`).
* `WireInt32` and `WireInt64` are in the host's order (`wire_int.hpp:110`); the two
  zeros are equal with different hashes (`wire_double.hpp:189`).
* `utf32_to_utf8` does not clear the status after asking for the size and throws
  for every string that is not empty (`icu_util.hpp:231`); `to_wstring` and
  `utf16_to_utf8` leave converters open (`:172`). `check_bom` says yes to any
  buffer long enough and may leave the encoding unset (`:491`).
* On Windows without `WIDE_CHAR` `read_file` leaves the caller's string as it was
  (`io_util_windows.hpp:73`); on macOS `binary_read` reads over the string object
  (`io_util_macos.hpp:177`).

Facts that need no state exploration:

* `fn_search_all_audit_logs` looks for tables `LIKE 'T_LOG_%'`, but
  `create_audit_log` names them in lower case; the search is always empty
  (`contact_ddl.sql:134`, `:235`).
* `T_LocalizedOrgUnit` and `T_LocalizedRole` have no audit log.
* `fn_person_search_vector` uses columns of `T_Person` only, no e-mail or phone.
* Two clients that read a person and update different fields: the second takes
  back the first, as updates write all columns (`person_dao.hpp:125`).
* `Error` and `Generator` write a text form that their readers do not accept
  (`error.hpp:76`, `generator.hpp:162`).
* `min_distance` with an output container leaves it empty (`distance.hpp:177`).
* A second `pos` hides the first in `file.hpp:354`: the position is lost; `read_line`
  opens the file anew at each call and always gives the first line (`:452`).
* An offset beyond the size in `save_to_file` makes `size() - offset` wrap
  (`io_util.hpp:50`).

## 6. Not modelled, and the plan

Not modelled:

* row locks and snapshots of the server: an update of a unit beside an uncommitted
  insert of its name (`contact_ddl.sql:352`); statements of `ContactStore` are atomic;
* grants, seed data, views of roles and qualifiers, `fn_search_all_audit_logs`;
* constraints by regular expressions, random numbers, paths of the executable, MAC
  addresses, system information, tables of locales and encoding names: they are
  calls of the standard library or of the operating system, or constants;
* text and JSON forms of objects, errors and generators; upper and lower case;
* `CompositeCommand::clone` (Section 5), and the standard deviation of `statistic.hpp`:
  its sums of doubles cancel, so that the variance of equal values may be a little off
  zero, or below it, which a model over integers cannot show;
* `BinaryFile`, which does not compile where it is used, and code for compilers that
  are not supported any more;
* threads that log at the same time: the log has no lock and promises nothing.

Left to do: two concurrent statements on the localized names of one unit, which need
the snapshots of the server in `ContactStore`; and a proof of the two liveness
properties with a prover for fairness.
