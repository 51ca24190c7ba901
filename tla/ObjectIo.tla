------------------------------ MODULE ObjectIo ------------------------------
(***************************************************************************)
(* Object, Generator, Person and Command in a BinaryBuffer, and their      *)
(* copies.  An object has the id of its Object part and the data of its    *)
(* own class.  A buffer is a sequence of units: InfoSize of them are a     *)
(* ClassInfo, one is an id, Sizes[c] are the Data of class c; like the     *)
(* real sizes, a ClassInfo is longer than Generator's Data and shorter     *)
(* than Person's.  A reader is [buf, at, o]: buffer, read_pos and the      *)
(* object that reads.                                                      *)
(***************************************************************************)
EXTENDS Integers, Sequences, SequencesExt

InfoSize == 4
Sizes == [Object |-> 0, Command |-> 1, Generator |-> 3, Person |-> 5]
Classes == DOMAIN Sizes

\* ClassInfo::bytes: namespace, name and versions.
Info(c) == [i \in 1..InfoSize |-> <<"info", c, i>>]

\* A class has Data of its own, or is Object.
HasData(o) == Sizes[o.class] > 0

-----------------------------------------------------------------------------
\* write of Object; of Generator, Person and Command.
WriteObject(o) == Info("Object") \o <<<<"id", o.id>>>>
WriteData(o) == Info(o.class) \o o.data
Write(o) == WriteObject(o) \o (IF HasData(o) THEN WriteData(o) ELSE <<>>)

\* BinaryBuffer::read of n units: beyond the buffer it only complains.
Enough(r, n) == r.at + n <= Len(r.buf)
Units(r, n)  == IF Enough(r, n) THEN SubSeq(r.buf, r.at + 1, r.at + n) ELSE <<>>
Past(r, n)   == IF Enough(r, n) THEN [r EXCEPT !.at = @ + n] ELSE r

\* Mutant: any ClassInfo will do.
Verified_Any(r, c) == Units(r, InfoSize) \in {Info(d) : d \in Classes}

\* info == INFO
Verified(r, c) == Units(r, InfoSize) = Info(c)

\* Object::read: after a mismatch the ClassInfo has been read, the id not.
ReadObject(r) ==
    LET next == Past(r, InfoSize) IN
    IF Verified(r, "Object") /\ Enough(next, 1)
    THEN [Past(next, 1) EXCEPT !.o.id = Units(next, 1)[1][2]]
    ELSE next

\* The rest of Generator::read, Person::read and Command::read.
ReadData(r) ==
    LET next == Past(r, InfoSize)
        n == Sizes[r.o.class]
    IN  IF Verified(r, r.o.class) /\ Enough(next, n)
        THEN [Past(next, n) EXCEPT !.o.data = Units(next, n)]
        ELSE next

Read(r) == IF HasData(r.o) THEN ReadData(ReadObject(r)) ELSE ReadObject(r)

-----------------------------------------------------------------------------
\* operator=, from one object to another of its class: assign copies what
\* the virtual data() gives, which is not the id if the class has its own.
Assigned(to, from) ==
    IF HasData(to) THEN [to EXCEPT !.data = from.data] ELSE from

\* The copy constructor: assign runs while the new object is an Object, so
\* the first bytes of from.data() are copied into its id.  (Command's Data
\* are shorter than an id: what follows them in memory is copied as well.)
CopyConstructed(from) ==
    IF HasData(from) THEN [from EXCEPT !.id = from.data[1][2]] ELSE from

\* Object::clone, not virtual: a new Object with the same id.  (Generator
\* and the commands have a clone of their own, Person has not.)
Cloned(o) == [class |-> "Object", id |-> o.id, data |-> <<>>]

\* equal: hash, then memcmp of data().  Person has an equals of its own.
Equals(a, b) == a.id = b.id /\ a.data = b.data
PersonEquals(a, b) == a.data = b.data

-----------------------------------------------------------------------------
(***************************************************************************)
(* Correctness: a and b are written one after the other; s and t read.     *)
(***************************************************************************)

Reader(a, b, s) == [buf |-> Write(a) \o Write(b), at |-> 0, o |-> s]
Second(a, b, s, t) == Read([Read(Reader(a, b, s)) EXCEPT !.o = t])

\* Readers of the classes that were written get the objects that were
\* written, ids included, and the buffer has been read to its end.
ReadsBack(a, b, s, t) ==
    s.class = a.class /\ t.class = b.class =>
        LET two == Second(a, b, s, t) IN
        /\ Equals(Read(Reader(a, b, s)).o, a) /\ Equals(two.o, b)
        /\ two.at = Len(two.buf)

\* A reader of another class keeps its own data, but has taken the id of
\* the object it met, so the two are half mixed; and the reader after it
\* does not find the next object: its data stay its own too.
KeepsOwnData(a, b, s, t) ==
    s.class # a.class /\ HasData(s) /\ HasData(a) =>
        LET one == Read(Reader(a, b, s)).o
            two == Second(a, b, s, t).o
        IN  one.data = s.data /\ one.id = a.id /\ two = t

\* An assignment makes two persons equal and leaves each its id, by which
\* it is stored; a copy is equal too, but what it has for an id is the
\* beginning of its data: an id that may be another object's.  A person's
\* clone has its id and no data: who reads it as a person finds none.
CopiesExact(a, b) ==
    a.class = b.class /\ a.class \in {"Generator", "Person"} =>
        /\ PersonEquals(Assigned(b, a), a) /\ Assigned(b, a).id = b.id
        /\ PersonEquals(CopyConstructed(a), a)
        /\ Equals(CopyConstructed(a), a) <=> a.data[1][2] = a.id
        /\ Cloned(a).id = a.id /\ ~HasData(Cloned(a))
        /\ Read([buf |-> Write(Cloned(a)), at |-> 0, o |-> b]).o.data = b.data
=============================================================================
