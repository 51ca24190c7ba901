--------------------------- MODULE LibraryProofs ----------------------------
(***************************************************************************)
(* Proofs about the containers, counters and buffers of the library: each  *)
(* of the machines below is proved correct by itself, for every value of   *)
(* its constants.  The last parts are about operations that keep no state: *)
(* searches and checks, results, and objects written and read back.        *)
(***************************************************************************)
EXTENDS BinaryBuffer, Factory, Generator, SortedList, StopWatch, Log,
        ObjectIo, Checks, Induction

-----------------------------------------------------------------------------
(***************************************************************************)
(* BinaryBuffer.                                                           *)
(***************************************************************************)

\* The bytes below write_pos are those of the history, wherever the writes
\* since the last clear or load put them.
WrittenIsThere ==
    ~torn => /\ write_pos <= Len(buffer)
             /\ Len(written) = write_pos
             /\ \A i \in 1..write_pos : written[i] = buffer[i]

\* A reader that stays below write_pos has read what was written, byte by
\* byte.
GotIsWritten ==
    ~torn /\ ~overread => /\ Len(got) = read_pos
                          /\ read_pos <= write_pos
                          /\ \A i \in 1..read_pos : got[i] = written[i]

\* The inductive invariant: FaithfulRead alone says nothing of where the
\* reader stands, and what is loaded must fit.
BufferInd ==
    /\ BufferTypeOK
    /\ Len(file) <= MaxSize
    /\ WrittenIsThere
    /\ GotIsWritten

\* vector::resize keeps what is there.
LEMMA ResizeKeeps ==
    ASSUME NEW s \in Seq(AnyByte), NEW n \in Nat
    PROVE  /\ Resize(s, n) \in Seq(AnyByte)
           /\ Len(Resize(s, n)) = n
           /\ \A i \in 1..n : i <= Len(s) => Resize(s, n)[i] = s[i]
<1>1. \A i \in 1..n : (IF i <= Len(s) THEN s[i] ELSE Zero) \in AnyByte
  BY ElementOfSeq DEF AnyByte
<1>2. Resize(s, n) \in [1..n -> AnyByte]
  BY <1>1 DEF Resize
<1> QED
  BY <1>2 DEF Resize

\* A span is a sequence of bytes.
LEMMA SpansAre ==
    ASSUME NEW s \in Spans
    PROVE  s \in Seq(AnyByte) /\ Len(s) \in Nat
<1>1. PICK n \in 0..MaxSpan : s \in [1..n -> Bytes]
  BY DEF Spans
<1>2. n \in Nat /\ s \in [1..n -> AnyByte]
  BY <1>1, BufferAssumption DEF AnyByte
<1> QED
  BY <1>2

\* Where a sequence agrees with another one, byte by byte, it is a part of it.
LEMMA SameBytes ==
    ASSUME NEW s \in Seq(AnyByte), NEW t \in Seq(AnyByte),
           Len(s) <= Len(t), \A i \in 1..Len(s) : s[i] = t[i]
    PROVE  s = SubSeq(t, 1, Len(s)) /\ IsPrefix(s, t)
<1>1. Len(s) \in Nat /\ Len(t) \in Nat
  BY LenProperties
<1>2. \A i \in 1..Len(s) : t[i] \in AnyByte
  BY <1>1, ElementOfSeq
<1>3. /\ SubSeq(t, 1, Len(s)) \in Seq(AnyByte)
      /\ Len(SubSeq(t, 1, Len(s))) = Len(s)
      /\ \A i \in 1..Len(s) : SubSeq(t, 1, Len(s))[i] = t[i]
  BY <1>1, <1>2
<1>4. s = SubSeq(t, 1, Len(s))
  BY <1>3, SeqEqual
<1>5. SubSeq(s, 1, Len(s)) = s
  BY SubSeqFull
<1> QED
  BY <1>4, <1>5 DEF IsPrefix

\* The empty buffer is correct.
LEMMA BufferIndInit == BufferInit => BufferInd
<1> SUFFICES ASSUME BufferInit
             PROVE  BufferInd
  OBVIOUS
<1>1. <<>> \in Seq(AnyByte) /\ Len(<<>>) = 0
  BY EmptySeq
<1>2. BufferTypeOK /\ Len(file) <= MaxSize
  <2>1. overread \in BOOLEAN /\ torn \in BOOLEAN
    BY Zenon DEF BufferInit
  <2>2. 0 \in 0..MaxSize /\ 0 <= MaxSize
    BY BufferAssumption
  <2> QED
    BY <1>1, <2>1, <2>2, Zenon DEF BufferInit, BufferTypeOK
<1>3. WrittenIsThere /\ GotIsWritten
  BY <1>1 DEF BufferInit, WrittenIsThere, GotIsWritten
<1> QED
  BY <1>2, <1>3 DEF BufferInd

\* write keeps the invariant: over old bytes, or behind them after a resize.
LEMMA WriteKeeps ==
    ASSUME BufferInd, NEW src \in Spans, write(src)
    PROVE  BufferInd'
<1> USE BufferAssumption
<1> DEFINE required == write_pos + Len(src)
           room == IF required > Len(buffer) THEN Resize(buffer, required) ELSE buffer
           after == [i \in 1..Len(room) |->
                       IF i - write_pos \in 1..Len(src) THEN src[i - write_pos] ELSE room[i]]
<1>1. /\ src \in Seq(AnyByte) /\ Len(src) \in Nat
      /\ buffer \in Seq(AnyByte) /\ written \in Seq(AnyByte) /\ got \in Seq(AnyByte)
      /\ write_pos \in Nat /\ read_pos \in Nat
      /\ Len(buffer) \in Nat /\ Len(written) \in Nat
  BY SpansAre DEF BufferInd, BufferTypeOK
<1>2. /\ required <= MaxSize /\ buffer' = after /\ write_pos' = required
      /\ written' = written \o src
      /\ UNCHANGED <<read_pos, file, got, overread, torn>>
  BY DEF write, WriteAt
<1>3. /\ room \in Seq(AnyByte) /\ Len(room) \in Nat
      /\ required <= Len(room) /\ Len(room) <= MaxSize
      /\ \A i \in 1..Len(buffer) : room[i] = buffer[i]
  <2>1. CASE required > Len(buffer)
    <3>1. room = Resize(buffer, required) /\ required \in Nat
      BY <1>1, <2>1
    <3>2. /\ Resize(buffer, required) \in Seq(AnyByte)
          /\ Len(Resize(buffer, required)) = required
          /\ \A i \in 1..required :
                i <= Len(buffer) => Resize(buffer, required)[i] = buffer[i]
      BY <1>1, <3>1, ResizeKeeps
    <3> HIDE DEF room
    <3> QED
      BY <1>1, <1>2, <2>1, <3>1, <3>2
  <2>2. CASE ~(required > Len(buffer))
    BY <1>1, <1>2, <2>2 DEF BufferInd, BufferTypeOK
  <2> QED
    BY <2>1, <2>2
<1> HIDE DEF room
<1>4. /\ after \in Seq(AnyByte) /\ Len(after) = Len(room)
      /\ \A i \in 1..Len(room) :
            after[i] = IF i - write_pos \in 1..Len(src) THEN src[i - write_pos] ELSE room[i]
  <2>1. \A i \in 1..Len(room) :
           (IF i - write_pos \in 1..Len(src) THEN src[i - write_pos] ELSE room[i]) \in AnyByte
    BY <1>1, <1>3, ElementOfSeq
  <2>2. after \in [1..Len(room) -> AnyByte]
    BY <2>1
  <2> QED
    BY <1>3, <2>2
<1> HIDE DEF after
<1>5. /\ written \o src \in Seq(AnyByte)
      /\ Len(written \o src) = Len(written) + Len(src)
      /\ \A i \in 1..Len(written) + Len(src) :
            (written \o src)[i] = IF i <= Len(written) THEN written[i] ELSE src[i - Len(written)]
  BY <1>1, ConcatProperties
<1>6. BufferTypeOK'
  BY <1>1, <1>2, <1>3, <1>4, <1>5 DEF BufferInd, BufferTypeOK
<1>7. (Len(file) <= MaxSize)'
  BY <1>2 DEF BufferInd
<1>8. WrittenIsThere'
  <2> SUFFICES ASSUME ~torn'
               PROVE  WrittenIsThere'
    BY DEF WrittenIsThere
  <2>1. /\ write_pos <= Len(buffer) /\ Len(written) = write_pos
        /\ \A i \in 1..write_pos : written[i] = buffer[i]
    BY <1>2 DEF BufferInd, WrittenIsThere
  <2>2. ASSUME NEW i \in 1..required
        PROVE  (written \o src)[i] = after[i]
    <3>1. CASE i <= write_pos
      BY <1>1, <1>3, <1>4, <1>5, <2>1, <2>2, <3>1
    <3>2. CASE i > write_pos
      <4>1. i - write_pos \in 1..Len(src) /\ i \in 1..Len(room)
        BY <1>1, <1>3, <2>2, <3>2
      <4> QED
        BY <1>1, <1>4, <1>5, <2>1, <2>2, <3>2, <4>1
    <3>3. i <= write_pos \/ i > write_pos
      BY <1>1, <2>2
    <3> QED
      BY <3>1, <3>2, <3>3, Zenon
  <2> QED
    BY <1>1, <1>2, <1>3, <1>4, <1>5, <2>1, <2>2 DEF WrittenIsThere
<1>9. GotIsWritten'
  BY <1>1, <1>2, <1>5 DEF BufferInd, WrittenIsThere, GotIsWritten
<1> QED
  BY <1>6, <1>7, <1>8, <1>9 DEF BufferInd

\* read keeps the invariant: a read that ends at write_pos at most hands out
\* bytes that were written.
LEMMA ReadKeeps ==
    ASSUME BufferInd, NEW n \in 0..MaxSpan, read(n)
    PROVE  BufferInd'
<1> USE BufferAssumption
<1> DEFINE more == SubSeq(buffer, read_pos + 1, read_pos + n)
<1>1. /\ buffer \in Seq(AnyByte) /\ written \in Seq(AnyByte) /\ got \in Seq(AnyByte)
      /\ write_pos \in Nat /\ read_pos \in Nat /\ n \in Nat
      /\ Len(buffer) \in Nat /\ Len(got) \in Nat /\ Len(buffer) <= MaxSize
  BY DEF BufferInd, BufferTypeOK
<1>2. /\ read_pos + n <= Len(buffer)
      /\ got' = got \o more
      /\ read_pos' = read_pos + n
      /\ overread' = (overread \/ read_pos + n > write_pos)
      /\ UNCHANGED <<buffer, write_pos, file, written, torn>>
  BY DEF read
<1>3. more \in Seq(AnyByte) /\ Len(more) = n /\ \A i \in 1..n : more[i] = buffer[read_pos + i]
  <2>1. \A i \in read_pos + 1..read_pos + n : buffer[i] \in AnyByte
    BY <1>1, <1>2, ElementOfSeq
  <2> DEFINE a == read_pos + 1
             b == read_pos + n
  <2>2. a \in Int /\ b \in Int /\ b - a + 1 = n /\ (a > b => n = 0)
        /\ \A i \in 1..n : a + i - 1 = read_pos + i
    BY <1>1
  <2>3. more = SubSeq(buffer, a, b)
    OBVIOUS
  <2> HIDE DEF a, b, more
  <2>4. \A i \in a..b : buffer[i] \in AnyByte
    BY <2>1 DEF a, b
  <2>5. /\ SubSeq(buffer, a, b) \in Seq(AnyByte)
        /\ Len(SubSeq(buffer, a, b)) = IF a <= b THEN b - a + 1 ELSE 0
        /\ \A i \in 1..b - a + 1 : SubSeq(buffer, a, b)[i] = buffer[a + i - 1]
    BY <2>2, <2>4, SubSeqProperties
  <2> QED
    BY <2>2, <2>3, <2>5
<1> HIDE DEF more
<1>4. /\ got \o more \in Seq(AnyByte) /\ Len(got \o more) = Len(got) + n
      /\ \A i \in 1..Len(got) + n :
            (got \o more)[i] = IF i <= Len(got) THEN got[i] ELSE more[i - Len(got)]
  BY <1>1, <1>3, ConcatProperties
<1>5. BufferTypeOK'
  <2>1. overread' \in BOOLEAN
    BY <1>2
  <2> QED
    BY <1>1, <1>2, <1>4, <2>1 DEF BufferInd, BufferTypeOK
<1>6. (Len(file) <= MaxSize)' /\ WrittenIsThere'
  BY <1>2 DEF BufferInd, WrittenIsThere
<1>7. GotIsWritten'
  <2> SUFFICES ASSUME ~torn', ~overread'
               PROVE  GotIsWritten'
    BY DEF GotIsWritten
  <2>1. ~overread /\ ~torn /\ read_pos + n <= write_pos
    <3>1. ~overread /\ ~(read_pos + n > write_pos) /\ ~torn
      BY <1>2, Zenon
    <3> QED
      BY <1>1, <3>1
  <2>2. /\ Len(got) = read_pos /\ \A i \in 1..read_pos : got[i] = written[i]
        /\ \A i \in 1..write_pos : written[i] = buffer[i]
    BY <2>1 DEF BufferInd, WrittenIsThere, GotIsWritten
  <2>3. \A i \in 1..read_pos + n : (got \o more)[i] = written[i]
    BY <1>1, <1>3, <1>4, <2>1, <2>2
  <2> QED
    BY <1>1, <1>2, <1>4, <2>1, <2>2, <2>3 DEF GotIsWritten
<1> QED
  BY <1>5, <1>6, <1>7 DEF BufferInd

\* What a save, whole or short, leaves in the file fits.
LEMMA SavesFit ==
    ASSUME BufferInd, write_pos <= Len(buffer), NEW n \in 0..write_pos
    PROVE  /\ ToSave \in Seq(AnyByte) /\ Len(ToSave) = write_pos
           /\ SubSeq(ToSave, 1, n) \in Seq(AnyByte) /\ Len(SubSeq(ToSave, 1, n)) = n
<1>1. buffer \in Seq(AnyByte) /\ write_pos \in Nat /\ n \in Nat /\ Len(buffer) \in Nat
  BY BufferAssumption DEF BufferInd, BufferTypeOK
<1>2. \A i \in 1..write_pos : buffer[i] \in AnyByte
  BY <1>1, ElementOfSeq
<1>3. ToSave \in Seq(AnyByte) /\ Len(ToSave) = write_pos
  BY <1>1, <1>2, SubSeqProperties DEF ToSave
<1>4. \A i \in 1..n : ToSave[i] \in AnyByte
  BY <1>1, <1>3, ElementOfSeq
<1> QED
  BY <1>1, <1>3, <1>4, SubSeqProperties

\* clear keeps the invariant: the positions are both set back.
LEMMA ClearKeeps == BufferInd /\ clear => BufferInd'
<1> SUFFICES ASSUME BufferInd, clear
             PROVE  BufferInd'
  OBVIOUS
<1>1. <<>> \in Seq(AnyByte) /\ Len(<<>>) = 0
  BY EmptySeq
<1>2. BufferTypeOK'
  <2>1. overread' \in BOOLEAN /\ torn' \in BOOLEAN
    BY Zenon DEF clear
  <2>2. 0 \in 0..MaxSize
    BY BufferAssumption
  <2> QED
    BY <1>1, <2>1, <2>2, Zenon DEF clear, BufferInd, BufferTypeOK
<1>3. (Len(file) <= MaxSize)' /\ WrittenIsThere' /\ GotIsWritten'
  BY <1>1 DEF clear, BufferInd, BufferTypeOK, WrittenIsThere, GotIsWritten
<1> QED
  BY <1>2, <1>3 DEF BufferInd

\* A save, whole or short, keeps the invariant: it changes the file only.
LEMMA SaveKeeps == BufferInd /\ (save_to_file \/ save_fails) => BufferInd'
<1> SUFFICES ASSUME BufferInd, save_to_file \/ save_fails
             PROVE  BufferInd'
  OBVIOUS
<1>1. /\ UNCHANGED <<buffer, write_pos, read_pos, written, got, overread, torn>>
      /\ write_pos <= Len(buffer)
  BY DEF save_to_file, save_fails, bufVars
<1>2. write_pos \in Nat /\ write_pos <= MaxSize
  BY BufferAssumption DEF BufferInd, BufferTypeOK
<1>3. file' \in Seq(AnyByte) /\ Len(file') <= MaxSize
  <2>1. CASE save_to_file
    <3>1. write_pos \in 0..write_pos
      BY <1>2
    <3> QED
      BY <1>1, <1>2, <2>1, <3>1, SavesFit DEF save_to_file
  <2>2. CASE save_fails
    <3>1. PICK n \in 0..write_pos - 1 : file' = SubSeq(ToSave, 1, n)
      BY <2>2 DEF save_fails
    <3>2. n \in 0..write_pos /\ n <= MaxSize
      BY <1>2, BufferAssumption
    <3> QED
      BY <1>1, <3>1, <3>2, SavesFit
  <2> QED
    BY <2>1, <2>2
<1>4. BufferTypeOK'
  BY <1>1, <1>3 DEF BufferInd, BufferTypeOK
<1>5. WrittenIsThere' /\ GotIsWritten'
  BY <1>1 DEF BufferInd, WrittenIsThere, GotIsWritten
<1> QED
  BY <1>3, <1>4, <1>5 DEF BufferInd

\* A load that succeeds makes the file the content, all of it to be read.
LEMMA LoadKeeps == BufferInd /\ load_from_file => BufferInd'
<1> SUFFICES ASSUME BufferInd, load_from_file
             PROVE  BufferInd'
  OBVIOUS
<1>1. <<>> \in Seq(AnyByte) /\ Len(<<>>) = 0
  BY EmptySeq
<1>2. file \in Seq(AnyByte) /\ Len(file) \in 0..MaxSize /\ 0 \in 0..MaxSize
  BY BufferAssumption, LenProperties DEF BufferInd, BufferTypeOK
<1>3. BufferTypeOK' /\ (Len(file) <= MaxSize)'
  <2>1. overread' \in BOOLEAN /\ torn' \in BOOLEAN
    BY Zenon DEF load_from_file
  <2> QED
    BY <1>1, <1>2, <2>1, Zenon DEF load_from_file, BufferInd, BufferTypeOK
<1>4. WrittenIsThere' /\ GotIsWritten'
  BY <1>1, <1>2 DEF load_from_file, WrittenIsThere, GotIsWritten
<1> QED
  BY <1>3, <1>4 DEF BufferInd

\* A load that stops short leaves a vector as long as the file, and nothing
\* is claimed of its bytes.
LEMMA LoadFailKeeps == BufferInd /\ load_fails => BufferInd'
<1> SUFFICES ASSUME BufferInd, load_fails
             PROVE  BufferInd'
  OBVIOUS
<1> DEFINE size == Len(file)
           old == Resize(buffer, size)
<1>1. /\ file \in Seq(AnyByte) /\ size \in Nat /\ buffer \in Seq(AnyByte)
      /\ size <= MaxSize
  BY LenProperties DEF BufferInd, BufferTypeOK
<1>2. old \in Seq(AnyByte) /\ Len(old) = size
  BY <1>1, ResizeKeeps
<1>3. PICK n \in 0..size - 1 : buffer' = SubSeq(file, 1, n) \o SubSeq(old, n + 1, size)
  BY DEF load_fails
<1> HIDE DEF size, old
<1>4. n \in Nat /\ n < size
  BY <1>1
<1>5. SubSeq(file, 1, n) \in Seq(AnyByte) /\ Len(SubSeq(file, 1, n)) = n
  <2>1. \A i \in 1..n : file[i] \in AnyByte
    BY <1>1, <1>4, ElementOfSeq DEF size
  <2> QED
    BY <1>4, <2>1, SubSeqProperties
<1>6. SubSeq(old, n + 1, size) \in Seq(AnyByte) /\ Len(SubSeq(old, n + 1, size)) = size - n
  <2>1. \A i \in n + 1..size : old[i] \in AnyByte
    BY <1>1, <1>2, <1>4, ElementOfSeq
  <2> QED
    BY <1>1, <1>4, <2>1
<1>7. buffer' \in Seq(AnyByte) /\ Len(buffer') <= MaxSize
  <2>1. n + (size - n) = size
    BY <1>1, <1>4
  <2> QED
    BY <1>1, <1>3, <1>5, <1>6, <2>1, ConcatProperties
<1>8. torn' = TRUE /\ UNCHANGED <<write_pos, read_pos, file, written, got, overread>>
  BY DEF load_fails
<1>9. BufferTypeOK' /\ (Len(file) <= MaxSize)'
  <2>1. torn' \in BOOLEAN /\ overread' \in BOOLEAN
    BY <1>8, Zenon DEF BufferInd, BufferTypeOK
  <2> QED
    BY <1>7, <1>8, <2>1, Zenon DEF BufferInd, BufferTypeOK
<1> QED
  BY <1>8, <1>9 DEF BufferInd, WrittenIsThere, GotIsWritten

\* Every step of the buffer keeps its invariant.
LEMMA BufferIndNext == BufferInd /\ [BufferNext]_bufferVars => BufferInd'
<1> SUFFICES ASSUME BufferInd, [BufferNext]_bufferVars
             PROVE  BufferInd'
  OBVIOUS
<1>1. CASE UNCHANGED bufferVars
  BY <1>1 DEF bufferVars, BufferInd, BufferTypeOK, WrittenIsThere, GotIsWritten
<1>2. CASE BufferNext
  BY <1>2, WriteKeeps, ReadKeeps, ClearKeeps, SaveKeeps, LoadKeeps, LoadFailKeeps
     DEF BufferNext
<1> QED
  BY <1>1, <1>2

\* The invariant says what BufferExact says.
LEMMA BufferIndImplies == BufferInd => BufferExact
<1> SUFFICES ASSUME BufferInd
             PROVE  BufferExact
  OBVIOUS
<1>1. /\ buffer \in Seq(AnyByte) /\ written \in Seq(AnyByte) /\ got \in Seq(AnyByte)
      /\ write_pos \in Nat /\ read_pos \in Nat
  BY BufferAssumption DEF BufferInd, BufferTypeOK
<1>2. DataExact
  BY <1>1, SameBytes DEF DataExact, BufferInd, WrittenIsThere, ToSave
<1>3. FaithfulRead
  BY <1>1, SameBytes DEF FaithfulRead, BufferInd, WrittenIsThere, GotIsWritten
<1> QED
  BY <1>2, <1>3 DEF BufferInd, BufferExact

\* BinaryBuffer holds, hands out and saves what was written to it, whatever
\* the spans, with clears, short writes and short reads of the disk in
\* between.
THEOREM BufferCorrect == BufferSpec => []BufferExact
<1>1. BufferInit => BufferInd
  BY BufferIndInit
<1>2. BufferInd /\ [BufferNext]_bufferVars => BufferInd'
  BY BufferIndNext
<1>3. BufferInd => BufferExact
  BY BufferIndImplies
<1> QED
  BY <1>1, <1>2, <1>3, PTL DEF BufferSpec

-----------------------------------------------------------------------------
(***************************************************************************)
(* The factories.                                                          *)
(***************************************************************************)

\* The places of a pool p whose object has never been handed out, when l and
\* c are the heap copies and the clients of every object.
Free(p, l, c) == {i \in DOMAIN p : l[p[i]] = 0 /\ c[p[i]] = 0}

FactoryTypeOK ==
    /\ kind \in {"new", "mockup", "pool", "singleton"}
    /\ made \in 0..MaxObjects /\ refill \in Nat
    /\ leaked \in [Objects -> Nat] /\ clients \in [Objects -> Nat]
    /\ dead \subseteq 1..made

\* The pool has each of its objects once, alive, and available_count is the
\* number of the objects that were never handed out.
PoolCounted ==
    /\ pool \in Seq(1..made)
    /\ \A i, j \in DOMAIN pool : pool[i] = pool[j] => i = j
    /\ \A i \in DOMAIN pool : pool[i] \notin dead
    /\ kind # "pool" => pool = <<>>
    /\ kind = "pool" => available = Cardinality(Free(pool, leaked, clients))

\* An object that a client of a pool holds has a copy of its pointer on the
\* heap; nobody holds what is not made yet.
HandedOut ==
    \A o \in Objects :
        /\ o > made => leaked[o] = 0 /\ clients[o] = 0
        /\ kind = "pool" /\ clients[o] > 0 => leaked[o] > 0
        /\ kind # "pool" => leaked[o] = 0
        /\ kind \in {"new", "pool"} => clients[o] <= 1
        /\ clients[o] > 0 /\ kind # "mockup" => o \notin dead

\* MockupFactory and SingletonFactory have one object, and the singleton
\* keeps its own.
OneObject ==
    /\ kind \in {"mockup", "singleton"} => made = 1
    /\ kind = "singleton" => dead = {}

\* The inductive invariant: available_count is right because an object in
\* the pool is in use from the first get on, for ever.
FactoryInd == FactoryTypeOK /\ PoolCounted /\ HandedOut /\ OneObject

\* A finite pool counts as finite sets do.
LEMMA CountsFinite ==
    ASSUME NEW S, NEW p \in Seq(S), NEW o
    PROVE  Cardinality({i \in DOMAIN p : p[i] = o}) \in Nat
<1>1. Len(p) \in Nat /\ DOMAIN p = 1..Len(p)
  BY LenProperties
<1>2. IsFiniteSet(1..Len(p))
  BY <1>1, FS_Interval
<1>3. {i \in DOMAIN p : p[i] = o} \subseteq 1..Len(p)
  BY <1>1
<1> QED
  BY <1>2, <1>3, FS_Subset, FS_CardinalityType

\* shared_ptr::use_count below 2: the pool's own pointer is the only one.
LEMMA FreeAre ==
    ASSUME NEW m \in 0..MaxObjects, NEW p \in Seq(1..m),
           \A i, j \in DOMAIN p : p[i] = p[j] => i = j,
           NEW l \in [Objects -> Nat], NEW c \in [Objects -> Nat]
    PROVE  {i \in DOMAIN p : Cardinality({j \in DOMAIN p : p[j] = p[i]})
                             + l[p[i]] + c[p[i]] < 2}
           = Free(p, l, c)
<1>1. \A i \in DOMAIN p : Cardinality({j \in DOMAIN p : p[j] = p[i]}) = 1
  <2> TAKE i \in DOMAIN p
  <2>1. {j \in DOMAIN p : p[j] = p[i]} = {i}
    OBVIOUS
  <2> QED
    BY <2>1, FS_Singleton
<1>2. \A i \in DOMAIN p : l[p[i]] \in Nat /\ c[p[i]] \in Nat
  <2>1. \A i \in DOMAIN p : p[i] \in Objects
    BY LenProperties, ElementOfSeq, FactoryAssumption DEF Objects
  <2> QED
    BY <2>1
<1> DEFINE K(i) == Cardinality({j \in DOMAIN p : p[j] = p[i]})
<1>3. \A i \in DOMAIN p : (K(i) + l[p[i]] + c[p[i]] < 2) <=> (l[p[i]] = 0 /\ c[p[i]] = 0)
  <2> TAKE i \in DOMAIN p
  <2>1. K(i) = 1 /\ l[p[i]] \in Nat /\ c[p[i]] \in Nat
    BY <1>1, <1>2
  <2> HIDE DEF K
  <2> QED
    BY <2>1
<1> QED
  BY <1>3, Zenon DEF Free

\* fill_pool: the new objects are behind the old ones, and free.
LEMMA AddedAre ==
    ASSUME FactoryTypeOK, HandedOut, NEW n \in Nat, made + n <= MaxObjects,
           NEW p \in Seq(1..made), \A i, j \in DOMAIN p : p[i] = p[j] => i = j
    PROVE  /\ Added(p, n) \in Seq(1..(made + n))
           /\ \A i, j \in DOMAIN Added(p, n) :
                 Added(p, n)[i] = Added(p, n)[j] => i = j
           /\ \A i \in DOMAIN Added(p, n) :
                 \/ i \in DOMAIN p /\ Added(p, n)[i] = p[i]
                 \/ i \in Len(p) + 1..Len(p) + n /\ Added(p, n)[i] > made
           /\ DOMAIN Added(p, n) = 1..(Len(p) + n)
           /\ Free(Added(p, n), leaked, clients)
                = Free(p, leaked, clients) \cup (Len(p) + 1..Len(p) + n)
<1> DEFINE new == [i \in 1..n |-> made + i]
           S == 1..(made + n)
<1>1. made \in Nat /\ Len(p) \in Nat /\ DOMAIN p = 1..Len(p)
  BY LenProperties DEF FactoryTypeOK
<1>2. new \in Seq(S) /\ Len(new) = n /\ \A i \in 1..n : new[i] = made + i
  <2>1. new \in [1..n -> S]
    BY <1>1
  <2> QED
    BY <2>1
<1>3. p \in Seq(S) /\ \A i \in 1..Len(p) : p[i] \in 1..made
  <2>1. 1..made \subseteq S
    BY <1>1
  <2> HIDE DEF S
  <2> QED
    BY <1>1, <2>1, SeqMonotonic, ElementOfSeq
<1>4. Added(p, n) = p \o new
  BY DEF Added
<1> HIDE DEF new, S
<1> DEFINE q == p \o new
<1>5. /\ q \in Seq(S) /\ Len(q) = Len(p) + n
      /\ \A i \in 1..Len(p) + n : q[i] = IF i <= Len(p) THEN p[i] ELSE new[i - Len(p)]
  BY <1>2, <1>3, ConcatProperties
<1>6. DOMAIN q = 1..(Len(p) + n)
  BY <1>5, LenProperties
<1> HIDE DEF q
<1>7. \A i \in 1..(Len(p) + n) :
         \/ i \in 1..Len(p) /\ q[i] = p[i] /\ q[i] \in 1..made
         \/ i \in Len(p) + 1..Len(p) + n /\ q[i] = made + (i - Len(p))
  BY <1>1, <1>2, <1>3, <1>5
<1>8. \A i, j \in DOMAIN q : q[i] = q[j] => i = j
  BY <1>1, <1>6, <1>7
<1>9. Free(q, leaked, clients) = Free(p, leaked, clients) \cup (Len(p) + 1..Len(p) + n)
  <2>1. \A i \in Len(p) + 1..Len(p) + n :
           i \in DOMAIN q /\ leaked[q[i]] = 0 /\ clients[q[i]] = 0
    <3> TAKE i \in Len(p) + 1..Len(p) + n
    <3>1. i \in 1..(Len(p) + n) /\ q[i] = made + (i - Len(p)) /\ i > Len(p)
      BY <1>1, <1>7
    <3>2. q[i] \in Objects /\ q[i] > made
      BY <1>1, <3>1, FactoryAssumption DEF Objects
    <3> QED
      BY <1>6, <3>1, <3>2 DEF HandedOut
  <2>2. \A i \in 1..Len(p) : i \in DOMAIN q /\ q[i] = p[i]
    BY <1>1, <1>6, <1>7
  <2>3. \A i \in DOMAIN q : i \in 1..Len(p) \/ i \in Len(p) + 1..Len(p) + n
    BY <1>6, <1>7
  <2> QED
    BY <1>1, <2>1, <2>2, <2>3, Zenon DEF Free
<1> QED
  <2>1. \A i \in DOMAIN q :
           \/ i \in DOMAIN p /\ q[i] = p[i]
           \/ i \in Len(p) + 1..Len(p) + n /\ q[i] > made
    BY <1>1, <1>6, <1>7
  <2>2. Added(p, n) = q
    BY <1>4 DEF q
  <2> QED
    BY <1>5, <1>6, <1>8, <1>9, <2>1, <2>2 DEF S

\* Every factory starts with what its constructor makes.
LEMMA FactoryIndInit == FactoryInit => FactoryInd
<1> SUFFICES ASSUME FactoryInit
             PROVE  FactoryInd
  OBVIOUS
<1> USE FactoryAssumption
<1>1. /\ kind \in {"new", "mockup", "pool", "singleton"}
      /\ available \in 0..MaxObjects /\ refill \in Nat
      /\ (kind # "pool" => available = 0)
  BY DEF FactoryInit
<1>2. /\ pool = [i \in 1..available |-> i]
      /\ made = IF kind \in {"mockup", "singleton"} THEN 1 ELSE available
      /\ leaked = [o \in Objects |-> 0] /\ clients = [o \in Objects |-> 0]
      /\ dead = {}
  BY DEF FactoryInit
<1>3. made \in 0..MaxObjects /\ available <= made
  BY <1>1, <1>2
<1>4. FactoryTypeOK
  BY <1>1, <1>2, <1>3 DEF FactoryTypeOK
<1>5. pool \in Seq(1..made) /\ DOMAIN pool = 1..available
  <2>1. pool \in [1..available -> 1..made]
    BY <1>1, <1>2, <1>3
  <2>2. available \in Nat
    BY <1>1
  <2> QED
    BY <2>1, <2>2, SeqDef
<1>6. kind # "pool" => pool = <<>>
  BY <1>1, <1>2, <1>5, EmptySeq, LenProperties
<1>7. available = Cardinality(Free(pool, leaked, clients))
  <2>1. \A i \in DOMAIN pool : leaked[pool[i]] = 0 /\ clients[pool[i]] = 0
    <3>1. \A i \in DOMAIN pool : pool[i] \in Objects
      BY <1>1, <1>2, <1>5 DEF Objects
    <3> QED
      BY <1>2, <3>1
  <2>2. Free(pool, leaked, clients) = 1..available
    BY <1>5, <2>1, Zenon DEF Free
  <2>3. Cardinality(1..available) = available
    BY <1>1, FS_Interval
  <2> QED
    BY <2>2, <2>3
<1>8. PoolCounted
  BY <1>2, <1>5, <1>6, <1>7 DEF PoolCounted
<1>9. HandedOut /\ OneObject
  BY <1>2 DEF HandedOut, OneObject
<1> QED
  BY <1>4, <1>8, <1>9 DEF FactoryInd

\* NewFactory::get: a new object for its one client.
LEMMA NewGetKeeps == FactoryInd /\ new_get => FactoryInd'
<1> SUFFICES ASSUME FactoryInd, new_get
             PROVE  FactoryInd'
  OBVIOUS
<1> USE FactoryAssumption
<1>1. /\ kind = "new" /\ made' = made + 1 /\ made \in Nat /\ made < MaxObjects
      /\ clients' = [clients EXCEPT ![made + 1] = 1]
      /\ UNCHANGED <<kind, pool, available, refill, leaked, dead>>
      /\ pool = <<>> /\ made + 1 \in Objects
      /\ clients \in [Objects -> Nat] /\ leaked \in [Objects -> Nat]
  BY DEF new_get, FactoryInd, FactoryTypeOK, PoolCounted, Objects
<1>2. FactoryTypeOK'
  BY <1>1 DEF FactoryInd, FactoryTypeOK
<1>3. PoolCounted'
  <2>1. pool' = <<>> /\ DOMAIN pool' = {} /\ pool' \in Seq(1..made')
    BY <1>1, EmptySeq, LenProperties
  <2> QED
    BY <1>1, <2>1 DEF PoolCounted
<1>4. HandedOut'
  <2> SUFFICES ASSUME NEW o \in Objects
               PROVE  /\ o > made' => leaked'[o] = 0 /\ clients'[o] = 0
                      /\ leaked'[o] = 0
                      /\ clients'[o] <= 1
                      /\ clients'[o] > 0 => o \notin dead'
    BY <1>1 DEF HandedOut
  <2>1. dead \subseteq 1..made /\ o \in Nat
    BY DEF FactoryInd, FactoryTypeOK, Objects
  <2>2. CASE o = made + 1
    BY <1>1, <2>1, <2>2 DEF FactoryInd, HandedOut
  <2>3. CASE o # made + 1
    BY <1>1, <2>1, <2>3 DEF FactoryInd, HandedOut
  <2> QED
    BY <2>2, <2>3
<1> QED
  BY <1>1, <1>2, <1>3, <1>4 DEF FactoryInd, OneObject

\* The other factories without a pool hand out their one object.
LEMMA SharedKeeps == FactoryInd /\ (mockup_get \/ singleton_get) => FactoryInd'
<1> SUFFICES ASSUME FactoryInd, mockup_get \/ singleton_get
             PROVE  FactoryInd'
  OBVIOUS
<1> USE FactoryAssumption
<1>1. /\ kind \in {"mockup", "singleton"} /\ 1 \in Objects
      /\ clients' = [clients EXCEPT ![1] = @ + 1]
      /\ UNCHANGED <<kind, made, pool, available, refill, leaked, dead>>
  BY DEF mockup_get, singleton_get, Shared, Objects
<1>2. /\ clients \in [Objects -> Nat] /\ made = 1
      /\ (kind = "singleton" => dead = {}) /\ pool = <<>>
  BY <1>1 DEF FactoryInd, FactoryTypeOK, PoolCounted, OneObject
<1>3. FactoryTypeOK' /\ OneObject'
  BY <1>1, <1>2 DEF FactoryInd, FactoryTypeOK, OneObject
<1>4. PoolCounted'
  BY <1>1 DEF FactoryInd, PoolCounted
<1>5. HandedOut'
  <2>1. \A o \in Objects : clients'[o] = IF o = 1 THEN clients[1] + 1 ELSE clients[o]
    BY <1>1, <1>2
  <2> QED
    BY <1>1, <1>2, <2>1 DEF FactoryInd, HandedOut, Objects
<1> QED
  BY <1>3, <1>4, <1>5 DEF FactoryInd

\* The free places of a pool are finitely many.
LEMMA FreeFinite ==
    ASSUME NEW S, NEW p \in Seq(S), NEW l, NEW c
    PROVE  IsFiniteSet(Free(p, l, c)) /\ Cardinality(Free(p, l, c)) \in Nat
<1>1. Len(p) \in Nat /\ DOMAIN p = 1..Len(p)
  BY LenProperties
<1>2. IsFiniteSet(1..Len(p)) /\ Free(p, l, c) \subseteq 1..Len(p)
  BY <1>1, FS_Interval DEF Free
<1> QED
  BY <1>2, FS_Subset, FS_CardinalityType

\* What a client and the heap hold after get took a free object of pool p,
\* which has the objects up to m.
LEMMA TakeIsOne ==
    ASSUME FactoryTypeOK, HandedOut, kind = "pool",
           NEW m \in 0..MaxObjects, made <= m,
           NEW p \in Seq(1..m), \A i, j \in DOMAIN p : p[i] = p[j] => i = j,
           \A i \in DOMAIN p : p[i] \notin dead,
           Available(p) # {},
           NEW n, n = Cardinality(Free(p, leaked, clients)),
           Take(p, n)
    PROVE  /\ available' = Cardinality(Free(p, leaked', clients'))
           /\ leaked' \in [Objects -> Nat] /\ clients' \in [Objects -> Nat]
           /\ \A o \in Objects :
                /\ o > m => leaked'[o] = 0 /\ clients'[o] = 0
                /\ clients'[o] > 0 => leaked'[o] > 0 /\ o \notin dead
                /\ clients'[o] <= 1
<1> USE FactoryAssumption
<1>1. /\ leaked \in [Objects -> Nat] /\ clients \in [Objects -> Nat]
      /\ made \in Nat /\ m \in Nat
  BY DEF FactoryTypeOK
<1>2. Available(p) = Free(p, leaked, clients)
  BY <1>1, FreeAre DEF Available, Uses
<1>3. Len(p) \in Nat /\ DOMAIN p = 1..Len(p) /\ \A i \in DOMAIN p : p[i] \in Objects /\ p[i] <= m
  BY LenProperties, ElementOfSeq DEF Objects
<1> DEFINE k == Min(Available(p))
           o == p[k]
<1>4. k \in Free(p, leaked, clients)
  <2>1. Available(p) \subseteq Nat
    BY <1>2, <1>3 DEF Free
  <2> QED
    BY <1>2, <2>1, MinIsIn
<1>5. k \in DOMAIN p /\ o \in Objects /\ leaked[o] = 0 /\ clients[o] = 0 /\ o <= m /\ o \notin dead
  BY <1>3, <1>4 DEF Free
<1>6. /\ available' = n - 1
      /\ leaked' = [leaked EXCEPT ![o] = @ + 1]
      /\ clients' = [clients EXCEPT ![o] = @ + 1]
  BY DEF Take, HeapCopies
<1> HIDE DEF k
<1>7. /\ leaked' \in [Objects -> Nat] /\ clients' \in [Objects -> Nat]
      /\ leaked'[o] = 1 /\ clients'[o] = 1
      /\ \A x \in Objects \ {o} : leaked'[x] = leaked[x] /\ clients'[x] = clients[x]
  BY <1>1, <1>5, <1>6
<1>8. Free(p, leaked', clients') = Free(p, leaked, clients) \ {k}
  <2>1. k \notin Free(p, leaked', clients')
    BY <1>7 DEF Free
  <2>2. \A i \in DOMAIN p \ {k} : p[i] \in Objects \ {o}
    BY <1>3, <1>5
  <2>3. \A i \in DOMAIN p \ {k} :
           i \in Free(p, leaked', clients') <=> i \in Free(p, leaked, clients)
    BY <1>7, <2>2 DEF Free
  <2> QED
    BY <2>1, <2>3 DEF Free
<1>9. available' = Cardinality(Free(p, leaked', clients'))
  <2> DEFINE F == Free(p, leaked, clients)
  <2>1. IsFiniteSet(F)
    BY FreeFinite
  <2>2. k \in F /\ n = Cardinality(F) /\ Free(p, leaked', clients') = F \ {k}
    BY <1>4, <1>8
  <2> HIDE DEF F
  <2>3. Cardinality(F \ {k}) = Cardinality(F) - 1
    BY <2>1, <2>2, FS_RemoveElement
  <2> QED
    BY <1>6, <2>2, <2>3
<1>10. \A x \in Objects :
          /\ x > m => leaked'[x] = 0 /\ clients'[x] = 0
          /\ clients'[x] > 0 => leaked'[x] > 0 /\ x \notin dead
          /\ clients'[x] <= 1
  <2> TAKE x \in Objects
  <2>1. x \in Nat
    BY DEF Objects
  <2>2. CASE x = o
    BY <1>1, <1>5, <1>7, <2>2
  <2>3. CASE x # o
    BY <1>1, <1>7, <2>1, <2>3 DEF HandedOut
  <2> QED
    BY <2>2, <2>3
<1> QED
  BY <1>7, <1>9, <1>10

\* PoolFactory::get, with and without a refill.
LEMMA PoolGetKeeps == FactoryInd /\ pool_get => FactoryInd'
<1> SUFFICES ASSUME FactoryInd, pool_get
             PROVE  FactoryInd'
  OBVIOUS
<1> USE FactoryAssumption
<1>1. /\ kind = "pool" /\ UNCHANGED <<kind, refill, dead>>
      /\ made \in 0..MaxObjects /\ refill \in Nat /\ dead \subseteq 1..made
      /\ pool \in Seq(1..made) /\ made <= made
      /\ \A i, j \in DOMAIN pool : pool[i] = pool[j] => i = j
      /\ \A i \in DOMAIN pool : pool[i] \notin dead
      /\ available = Cardinality(Free(pool, leaked, clients))
      /\ FactoryTypeOK /\ HandedOut
  BY DEF pool_get, FactoryInd, FactoryTypeOK, PoolCounted
<1>2. CASE Available(pool) # {}
  <2>1. Take(pool, available) /\ UNCHANGED <<made, pool>>
    BY <1>2 DEF pool_get
  <2>2. /\ available' = Cardinality(Free(pool, leaked', clients'))
        /\ leaked' \in [Objects -> Nat] /\ clients' \in [Objects -> Nat]
        /\ \A o \in Objects :
             /\ o > made => leaked'[o] = 0 /\ clients'[o] = 0
             /\ clients'[o] > 0 => leaked'[o] > 0 /\ o \notin dead
             /\ clients'[o] <= 1
    BY <1>1, <1>2, <2>1, TakeIsOne
  <2>3. FactoryTypeOK' /\ PoolCounted' /\ OneObject'
    BY <1>1, <2>1, <2>2 DEF FactoryTypeOK, PoolCounted, OneObject
  <2>4. HandedOut'
    BY <1>1, <2>1, <2>2 DEF HandedOut
  <2> QED
    BY <2>3, <2>4 DEF FactoryInd
<1>3. CASE Available(pool) = {} /\ refill = 0
  <2>1. UNCHANGED <<made, pool, available, leaked, clients>>
    BY <1>3 DEF pool_get
  <2> QED
    BY <1>1, <2>1 DEF FactoryInd, FactoryTypeOK, PoolCounted, HandedOut, OneObject
<1>4. CASE Available(pool) = {} /\ refill # 0
  <2> DEFINE p == Added(pool, refill)
             m == made + refill
             n == available + refill
  <2>1. /\ m <= MaxObjects /\ made' = m /\ pool' = p
        /\ Take(p, n)
    BY <1>4 DEF pool_get
  <2>2. /\ p \in Seq(1..m)
        /\ \A i, j \in DOMAIN p : p[i] = p[j] => i = j
        /\ \A i \in DOMAIN p :
              \/ i \in DOMAIN pool /\ p[i] = pool[i]
              \/ i \in Len(pool) + 1..Len(pool) + refill /\ p[i] > made
        /\ DOMAIN p = 1..(Len(pool) + refill)
        /\ Free(p, leaked, clients)
             = Free(pool, leaked, clients) \cup (Len(pool) + 1..Len(pool) + refill)
    BY <1>1, <2>1, AddedAre
  <2> HIDE DEF p
  <2>3. m \in 0..MaxObjects /\ made <= m /\ Len(pool) \in Nat /\ DOMAIN pool = 1..Len(pool)
    BY <1>1, <2>1, LenProperties
  <2> HIDE DEF m
  <2>4. \A i \in DOMAIN p : p[i] \notin dead
    <3>1. \A d \in dead : ~(d > made)
      BY <1>1
    <3> QED
      BY <1>1, <2>2, <3>1, Zenon
  <2>5. Free(pool, leaked, clients) = {} /\ available = 0
    <3>1. Available(pool) = Free(pool, leaked, clients)
      BY <1>1, FreeAre DEF Available, Uses, FactoryTypeOK
    <3> QED
      BY <1>1, <1>4, <3>1, FS_EmptySet
  <2>6. n = Cardinality(Free(p, leaked, clients)) /\ Free(p, leaked, clients) # {}
    <3>1. Cardinality(Len(pool) + 1..Len(pool) + refill) = refill
      BY <1>1, <2>3, FS_Interval
    <3>2. Len(pool) + 1 \in Len(pool) + 1..Len(pool) + refill
      BY <1>1, <1>4, <2>3
    <3> QED
      BY <1>1, <2>2, <2>5, <3>1, <3>2
  <2>7. Available(p) # {}
    BY <1>1, <2>2, <2>3, <2>6, FreeAre DEF Available, Uses, FactoryTypeOK
  <2> HIDE DEF n
  <2>8. /\ available' = Cardinality(Free(p, leaked', clients'))
        /\ leaked' \in [Objects -> Nat] /\ clients' \in [Objects -> Nat]
        /\ \A o \in Objects :
             /\ o > m => leaked'[o] = 0 /\ clients'[o] = 0
             /\ clients'[o] > 0 => leaked'[o] > 0 /\ o \notin dead
             /\ clients'[o] <= 1
    BY <1>1, <2>1, <2>2, <2>3, <2>4, <2>6, <2>7, TakeIsOne
  <2>9. FactoryTypeOK' /\ OneObject'
    BY <1>1, <2>1, <2>3, <2>8 DEF FactoryTypeOK, OneObject
  <2>10. PoolCounted'
    BY <1>1, <2>1, <2>2, <2>4, <2>8 DEF PoolCounted
  <2>11. HandedOut'
    BY <1>1, <2>1, <2>8 DEF HandedOut
  <2> QED
    BY <2>9, <2>10, <2>11 DEF FactoryInd
<1> QED
  BY <1>2, <1>3, <1>4

\* PoolFactory::reset: the objects of the old pool that nobody holds are
\* deleted, and the new ones are all free.
LEMMA PoolResetKeeps ==
    ASSUME FactoryInd, NEW n \in PoolSizes, NEW r \in RefillSizes, pool_reset(n, r)
    PROVE  FactoryInd'
<1> USE FactoryAssumption
<1>1. /\ kind = "pool" /\ made \in 0..MaxObjects /\ n \in Nat /\ r \in Nat
      /\ made + n <= MaxObjects
      /\ FactoryTypeOK /\ HandedOut /\ dead \subseteq 1..made
      /\ pool \in Seq(1..made)
  BY DEF pool_reset, FactoryInd, FactoryTypeOK, PoolCounted
<1> DEFINE p == Added(<<>>, n)
           unused == {pool[i] : i \in {j \in DOMAIN pool : Uses(<<>>, pool[j]) = 0}}
<1>2. /\ pool' = p /\ made' = made + n /\ available' = n /\ refill' = r
      /\ dead' = dead \cup unused
      /\ UNCHANGED <<kind, leaked, clients>>
  BY DEF pool_reset
<1>3. <<>> \in Seq(1..made) /\ Len(<<>>) = 0 /\ DOMAIN <<>> = {}
  BY EmptySeq, LenProperties
<1>4. /\ p \in Seq(1..(made + n))
      /\ \A i, j \in DOMAIN p : p[i] = p[j] => i = j
      /\ \A i \in DOMAIN p : p[i] > made
      /\ Free(p, leaked, clients) = 1..n
  <2> DEFINE e == <<>>
  <2>1. e \in Seq(1..made) /\ Len(e) = 0 /\ DOMAIN e = {}
    BY <1>3
  <2>2. Free(e, leaked, clients) = {}
    BY <2>1 DEF Free
  <2> HIDE DEF e
  <2>3. \A i, j \in DOMAIN e : e[i] = e[j] => i = j
    BY <2>1
  <2>4. /\ Added(e, n) \in Seq(1..(made + n))
        /\ \A i, j \in DOMAIN Added(e, n) : Added(e, n)[i] = Added(e, n)[j] => i = j
        /\ \A i \in DOMAIN Added(e, n) :
              \/ i \in DOMAIN e /\ Added(e, n)[i] = e[i]
              \/ i \in Len(e) + 1..Len(e) + n /\ Added(e, n)[i] > made
        /\ Free(Added(e, n), leaked, clients)
             = Free(e, leaked, clients) \cup (Len(e) + 1..Len(e) + n)
    BY <1>1, <2>1, <2>3, AddedAre
  <2>5. Len(e) + 1 = 1 /\ Len(e) + n = n
    BY <1>1, <2>1
  <2>6. p = Added(e, n)
    BY DEF e
  <2> HIDE DEF p
  <2> QED
    BY <2>1, <2>2, <2>4, <2>5, <2>6
<1>5. \A d \in unused : d \in 1..made /\ clients[d] = 0
  <2> SUFFICES ASSUME NEW j \in DOMAIN pool, Uses(<<>>, pool[j]) = 0
               PROVE  pool[j] \in 1..made /\ clients[pool[j]] = 0
    OBVIOUS
  <2>1. pool[j] \in 1..made /\ pool[j] \in Objects
    BY <1>1, LenProperties, ElementOfSeq DEF Objects
  <2>2. Uses(<<>>, pool[j]) = 0 + leaked[pool[j]] + clients[pool[j]]
    <3>1. {i \in DOMAIN <<>> : <<>>[i] = pool[j]} = {}
      BY <1>3
    <3>2. Cardinality({i \in DOMAIN <<>> : <<>>[i] = pool[j]}) = 0
      BY <3>1, FS_EmptySet
    <3> QED
      BY <3>2 DEF Uses
  <2>3. leaked[pool[j]] \in Nat /\ clients[pool[j]] \in Nat
    BY <1>1, <2>1 DEF FactoryTypeOK
  <2> QED
    BY <2>1, <2>2, <2>3
<1> HIDE DEF p, unused
<1>6. FactoryTypeOK' /\ OneObject'
  <2>1. dead' \subseteq 1..made'
    <3>1. 1..made \subseteq 1..(made + n)
      BY <1>1
    <3>2. unused \subseteq 1..made
      BY <1>5, Zenon
    <3> QED
      BY <1>1, <1>2, <3>1, <3>2, Zenon
  <2>2. made' \in 0..MaxObjects
    BY <1>1, <1>2
  <2> QED
    BY <1>1, <1>2, <2>1, <2>2 DEF FactoryTypeOK, OneObject
<1>7. PoolCounted'
  <2>1. \A d \in dead' : ~(d > made)
    BY <1>1, <1>2, <1>5
  <2>2. \A i \in DOMAIN p : p[i] \notin dead'
    BY <1>4, <2>1, Zenon
  <2>3. n = Cardinality(Free(p, leaked, clients))
    BY <1>1, <1>4, FS_Interval
  <2> QED
    BY <1>1, <1>2, <1>4, <2>2, <2>3 DEF PoolCounted
<1>8. HandedOut'
  <2> SUFFICES ASSUME NEW o \in Objects
               PROVE  /\ o > made' => leaked[o] = 0 /\ clients[o] = 0
                      /\ clients[o] > 0 => leaked[o] > 0
                      /\ clients[o] <= 1
                      /\ clients[o] > 0 => o \notin dead'
    BY <1>1, <1>2 DEF HandedOut
  <2>1. o \in Nat /\ clients[o] \in Nat
    BY <1>1 DEF Objects, FactoryTypeOK
  <2>2. clients[o] > 0 => o \notin unused
    BY <1>5, <2>1
  <2> QED
    BY <1>1, <1>2, <2>1, <2>2 DEF HandedOut
<1> QED
  BY <1>6, <1>7, <1>8 DEF FactoryInd

\* set_refill_size changes nothing that is counted.
LEMMA SetRefillKeeps ==
    ASSUME FactoryInd, NEW r \in RefillSizes, set_refill_size(r)
    PROVE  FactoryInd'
<1>1. /\ refill' \in Nat
      /\ UNCHANGED <<kind, made, pool, available, leaked, clients, dead>>
  BY FactoryAssumption DEF set_refill_size
<1> QED
  BY <1>1 DEF FactoryInd, FactoryTypeOK, PoolCounted, HandedOut, OneObject

\* A pointer goes out of scope: an object of a pool stays, the last pointer
\* to an object of a NewFactory takes it along.
LEMMA ReleaseKeeps ==
    ASSUME FactoryInd, NEW o \in Objects, release(o)
    PROVE  FactoryInd'
<1> USE FactoryAssumption
<1>1. /\ FactoryTypeOK /\ PoolCounted /\ HandedOut /\ OneObject
      /\ leaked \in [Objects -> Nat] /\ clients \in [Objects -> Nat]
      /\ made \in Nat /\ o \in Nat /\ clients[o] \in Nat /\ leaked[o] \in Nat
      /\ pool \in Seq(1..made)
  <2>1. o \in Nat
    BY DEF Objects
  <2> QED
    BY <2>1 DEF FactoryInd, FactoryTypeOK, PoolCounted
<1>2. /\ clients[o] > 0 /\ clients' = [clients EXCEPT ![o] = @ - 1]
      /\ UNCHANGED <<kind, made, pool, available, refill, leaked>>
      /\ dead' = IF kind = "mockup" \/ (kind # "singleton" /\ Uses(pool, o) = 1)
                 THEN dead \cup {o} ELSE dead
  BY DEF release
<1>3. o \in 1..made /\ clients'[o] = clients[o] - 1 /\ clients' \in [Objects -> Nat]
      /\ \A x \in Objects \ {o} : clients'[x] = clients[x]
  BY <1>1, <1>2 DEF HandedOut, Objects
<1>4. kind = "pool" => Uses(pool, o) # 1 /\ leaked[o] > 0
  <2>1. Cardinality({i \in DOMAIN pool : pool[i] = o}) \in Nat
    BY <1>1, CountsFinite
  <2>2. kind = "pool" => leaked[o] > 0
    BY <1>1, <1>2 DEF HandedOut
  <2>3. kind = "pool" => Uses(pool, o) # 1
    BY <1>1, <1>2, <2>1, <2>2 DEF Uses
  <2> QED
    BY <2>2, <2>3
<1>5. kind \in {"pool", "singleton"} => dead' = dead
  BY <1>2, <1>4
<1>6. dead' \subseteq dead \cup {o}
  BY <1>2
<1>7. FactoryTypeOK' /\ OneObject'
  BY <1>1, <1>2, <1>3, <1>5, <1>6 DEF FactoryTypeOK, OneObject
<1>8. PoolCounted'
  <2>1. kind = "pool" => Free(pool, leaked, clients') = Free(pool, leaked, clients)
    <3> SUFFICES ASSUME kind = "pool", NEW i \in DOMAIN pool
                 PROVE  i \in Free(pool, leaked, clients') <=> i \in Free(pool, leaked, clients)
      BY DEF Free
    <3>1. pool[i] \in Objects
      <4>1. pool[i] \in 1..made
        BY ONLY <1>1, LenProperties, ElementOfSeq, i \in DOMAIN pool
      <4>2. made \in 0..MaxObjects
        BY <1>1 DEF FactoryTypeOK
      <4> QED
        BY <4>1, <4>2 DEF Objects
    <3>2. CASE pool[i] = o
      <4>1. leaked[o] # 0
        BY <1>1, <1>4
      <4> QED
        BY <3>2, <4>1 DEF Free
    <3>3. CASE pool[i] # o
      BY <1>3, <3>1, <3>3 DEF Free
    <3> QED
      BY <3>2, <3>3
  <2>2. kind # "pool" => pool' = <<>> /\ DOMAIN pool' = {}
    BY <1>1, <1>2, EmptySeq, LenProperties DEF PoolCounted
  <2>3. \A i \in DOMAIN pool' : pool'[i] \notin dead'
    BY <1>1, <1>2, <1>5, <2>2 DEF PoolCounted
  <2> QED
    BY <1>1, <1>2, <2>1, <2>3 DEF PoolCounted
<1>9. HandedOut'
  <2> SUFFICES ASSUME NEW x \in Objects
               PROVE  /\ x > made => leaked[x] = 0 /\ clients'[x] = 0
                      /\ kind = "pool" /\ clients'[x] > 0 => leaked[x] > 0
                      /\ kind # "pool" => leaked[x] = 0
                      /\ kind \in {"new", "pool"} => clients'[x] <= 1
                      /\ clients'[x] > 0 /\ kind # "mockup" => x \notin dead'
    BY <1>2 DEF HandedOut
  <2>1. CASE x # o
    BY <1>1, <1>3, <1>6, <2>1 DEF HandedOut
  <2>2. CASE x = o
    <3>1. kind \in {"new", "pool"} => clients[o] = 1 /\ clients'[o] = 0
      BY <1>1, <1>2, <1>3 DEF HandedOut
    <3>2. ~(x > made)
      BY <1>1, <1>3, <2>2
    <3>3. kind = "singleton" => x \notin dead'
      BY <1>1, <1>5 DEF OneObject
    <3>4. kind \in {"new", "mockup", "pool", "singleton"}
      BY <1>1 DEF FactoryTypeOK
    <3> QED
      BY <1>1, <1>4, <2>2, <3>1, <3>2, <3>3, <3>4 DEF HandedOut
  <2> QED
    BY <2>1, <2>2
<1> QED
  BY <1>7, <1>8, <1>9 DEF FactoryInd

\* Every step of a factory keeps its invariant.
LEMMA FactoryIndNext == FactoryInd /\ [FactoryNext]_factoryVars => FactoryInd'
<1> SUFFICES ASSUME FactoryInd, [FactoryNext]_factoryVars
             PROVE  FactoryInd'
  OBVIOUS
<1>1. CASE UNCHANGED factoryVars
  BY <1>1 DEF factoryVars, FactoryInd, FactoryTypeOK, PoolCounted, HandedOut, OneObject
<1>2. CASE FactoryNext
  BY <1>2, NewGetKeeps, SharedKeeps, PoolGetKeeps, PoolResetKeeps, SetRefillKeeps,
     ReleaseKeeps DEF FactoryNext
<1> QED
  BY <1>1, <1>2

\* The invariant says what FactoryExact says.
LEMMA FactoryIndImplies == FactoryInd => FactoryExact
<1> SUFFICES ASSUME FactoryInd
             PROVE  FactoryExact
  OBVIOUS
<1>1. /\ FactoryTypeOK /\ PoolCounted /\ HandedOut
      /\ made \in 0..MaxObjects /\ pool \in Seq(1..made)
      /\ \A i, j \in DOMAIN pool : pool[i] = pool[j] => i = j
      /\ leaked \in [Objects -> Nat] /\ clients \in [Objects -> Nat]
  BY DEF FactoryInd, FactoryTypeOK, PoolCounted
<1>2. Available(pool) = Free(pool, leaked, clients)
  BY <1>1, FreeAre DEF Available, Uses
<1>3. \A i \in DOMAIN pool : pool[i] \in Objects
  BY <1>1, LenProperties, ElementOfSeq, FactoryAssumption DEF Objects
<1>4. AvailableExact
  BY <1>1, <1>2, <1>3 DEF AvailableExact, PoolCounted, HandedOut
<1>5. HeldAlone
  BY <1>1 DEF HeldAlone, HandedOut
<1> QED
  BY <1>4, <1>5 DEF FactoryExact

\* A factory's available_count is the number of objects get can hand out, no
\* object of a pool or a NewFactory has two holders and none that is held is
\* deleted, for every pool size and refill size.
THEOREM FactoryCorrect == FactorySpec => []FactoryExact
<1>1. FactoryInit => FactoryInd
  BY FactoryIndInit
<1>2. FactoryInd /\ [FactoryNext]_factoryVars => FactoryInd'
  BY FactoryIndNext
<1>3. FactoryInd => FactoryExact
  BY FactoryIndImplies
<1> QED
  BY <1>1, <1>2, <1>3, PTL DEF FactorySpec

-----------------------------------------------------------------------------
(***************************************************************************)
(* SortedList.                                                             *)
(***************************************************************************)

\* The places of the elements with key k.
OfKey(l, k) == {i \in 1..Len(l) : Key(l[i]) = k}

\* No element is less than one before it.
InOrder(l) == \A i, j \in 1..Len(l) : i < j => Key(l[i]) <= Key(l[j])

\* t is s with one more element, at place i.
OneMore(s, t, i) ==
    /\ Len(t) = Len(s) + 1 /\ i \in 1..Len(t)
    /\ \A j \in 1..Len(s) : s[j] = t[IF j < i THEN j ELSE j + 1]

ListTypeOK ==
    /\ list \in Seq(Elements) /\ counts \in [Keys -> Int]
    /\ unique \in BOOLEAN /\ disturbed \in BOOLEAN

\* The inductive invariant: what the searches find follows from the order and
\* the counts.
ListInd ==
    /\ ListTypeOK
    /\ \A k \in Keys : Cardinality(OfKey(list, k)) = counts[k]
    /\ ~disturbed => InOrder(list)

\* Keys are numbers.
LEMMA KeysAreNumbers ==
    ASSUME NEW e \in Elements
    PROVE  Key(e) \in Int /\ Key(e) \in Keys
<1>1. e \in Int
  BY ListAssumption
<1> QED
  BY <1>1 DEF Key, Keys

\* The places of a key are finitely many.
LEMMA OfKeyFinite ==
    ASSUME NEW l \in Seq(Elements), NEW k
    PROVE  IsFiniteSet(OfKey(l, k)) /\ Cardinality(OfKey(l, k)) \in Nat
<1>1. Len(l) \in Nat
  BY LenProperties
<1>2. IsFiniteSet(1..Len(l)) /\ OfKey(l, k) \subseteq 1..Len(l)
  BY <1>1, FS_Interval DEF OfKey
<1> QED
  BY <1>2, FS_Subset, FS_CardinalityType

\* One more element at any place counts once, for its own key.
LEMMA OneMoreCounts ==
    ASSUME NEW s \in Seq(Elements), NEW t \in Seq(Elements), NEW i, OneMore(s, t, i),
           NEW k
    PROVE  Cardinality(OfKey(t, k))
             = Cardinality(OfKey(s, k)) + (IF Key(t[i]) = k THEN 1 ELSE 0)
<1> DEFINE A == OfKey(s, k)
           B == OfKey(t, k) \ {i}
           f == [j \in A |-> IF j < i THEN j ELSE j + 1]
<1>1. /\ Len(s) \in Nat /\ Len(t) = Len(s) + 1 /\ i \in 1..Len(t)
      /\ \A j \in 1..Len(s) : s[j] = t[IF j < i THEN j ELSE j + 1]
  BY LenProperties DEF OneMore
<1>2. f \in [A -> B]
  <2> SUFFICES ASSUME NEW j \in A
               PROVE  (IF j < i THEN j ELSE j + 1) \in B
    OBVIOUS
  <2>1. j \in 1..Len(s) /\ Key(s[j]) = k /\ s[j] = t[IF j < i THEN j ELSE j + 1]
    BY <1>1 DEF OfKey
  <2>2. (IF j < i THEN j ELSE j + 1) \in 1..Len(t) \ {i}
    BY <1>1, <2>1
  <2> QED
    BY <2>1, <2>2 DEF OfKey
<1>3. \A x, y \in A : f[x] = f[y] => x = y
  <2> TAKE x, y \in A
  <2>1. x \in Nat /\ y \in Nat /\ i \in Nat
    BY <1>1 DEF OfKey
  <2> QED
    BY <2>1
<1>4. \A b \in B : \E a \in A : f[a] = b
  <2> TAKE b \in B
  <2>1. b \in 1..Len(t) /\ b # i /\ Key(t[b]) = k
    BY DEF OfKey
  <2>2. CASE b < i
    <3>1. b \in 1..Len(s) /\ s[b] = t[b]
      BY <1>1, <2>1, <2>2
    <3>2. b \in A
      BY <2>1, <3>1 DEF OfKey
    <3> QED
      BY <2>2, <3>2
  <2>3. CASE b > i
    <3>1. b - 1 \in 1..Len(s) /\ ~(b - 1 < i) /\ b - 1 + 1 = b
      BY <1>1, <2>1, <2>3
    <3>2. s[b - 1] = t[b]
      BY <1>1, <3>1
    <3>3. b - 1 \in A
      BY <2>1, <3>1, <3>2 DEF OfKey
    <3> QED
      BY <3>1, <3>3
  <2> QED
    BY <1>1, <2>1, <2>2, <2>3
<1>5. IsFiniteSet(A) /\ IsFiniteSet(OfKey(t, k)) /\ Cardinality(OfKey(t, k)) \in Nat
      /\ Cardinality(A) \in Nat
  BY OfKeyFinite
<1>6. Cardinality(B) = Cardinality(A)
  <2>1. f \in Bijection(A, B)
    BY <1>2, <1>3, <1>4 DEF Bijection, Injection, Surjection, IsInjective
  <2> HIDE DEF f, A, B
  <2>2. ExistsBijection(A, B)
    BY <2>1 DEF ExistsBijection
  <2> QED
    BY <1>5, <2>2, FS_Bijection
<1>7. Cardinality(B) = IF i \in OfKey(t, k) THEN Cardinality(OfKey(t, k)) - 1
                       ELSE Cardinality(OfKey(t, k))
  BY <1>5, FS_RemoveElement
<1>8. i \in OfKey(t, k) <=> Key(t[i]) = k
  BY <1>1 DEF OfKey
<1> DEFINE m == Cardinality(OfKey(s, k))
           n == Cardinality(OfKey(t, k))
<1>9. m \in Nat /\ n \in Nat /\ m = IF Key(t[i]) = k THEN n - 1 ELSE n
  BY <1>5, <1>6, <1>7, <1>8
<1> HIDE DEF m, n
<1>10. n = m + (IF Key(t[i]) = k THEN 1 ELSE 0)
  BY <1>9
<1> QED
  BY <1>10 DEF m, n

\* vector::insert makes one more.
LEMMA InsertIsOneMore ==
    ASSUME NEW l \in Seq(Elements), NEW v \in Elements, NEW i \in 1..Len(l) + 1
    PROVE  /\ Inserted(l, i, v) \in Seq(Elements)
           /\ OneMore(l, Inserted(l, i, v), i)
           /\ Inserted(l, i, v)[i] = v
<1> DEFINE a == SubSeq(l, 1, i - 1)
           b == SubSeq(l, i, Len(l))
           c == <<v>>
<1>1. Len(l) \in Nat /\ i \in Nat /\ i - 1 \in Nat /\ i <= Len(l) + 1 /\ i >= 1
  BY LenProperties
<1>2. \A j \in 1..Len(l) : l[j] \in Elements
  BY <1>1, ElementOfSeq
<1>3. a \in Seq(Elements) /\ Len(a) = i - 1 /\ \A j \in 1..i - 1 : a[j] = l[j]
  BY <1>1, <1>2
<1>4. b \in Seq(Elements) /\ Len(b) = Len(l) - i + 1
  BY <1>1, <1>2
<1>5. \A j \in 1..Len(l) - i + 1 : b[j] = l[i + j - 1]
  BY <1>1, <1>2
<1>6. c \in Seq(Elements) /\ Len(c) = 1 /\ c[1] = v
  OBVIOUS
<1>7. Inserted(l, i, v) = a \o c \o b
  BY DEF Inserted, InsertAt
<1> HIDE DEF a, b, c
<1> DEFINE ac == a \o c
<1>8. /\ ac \in Seq(Elements) /\ Len(ac) = Len(a) + Len(c)
      /\ \A j \in 1..Len(a) + Len(c) : ac[j] = IF j <= Len(a) THEN a[j] ELSE c[j - Len(a)]
  BY <1>3, <1>6, ConcatProperties
<1> HIDE DEF ac
<1>9. ac \in Seq(Elements) /\ Len(ac) = i /\ ac[i] = v /\ \A j \in 1..i - 1 : ac[j] = l[j]
  BY <1>1, <1>3, <1>6, <1>8
<1> DEFINE t == ac \o b
<1>10. /\ t \in Seq(Elements) /\ Len(t) = Len(ac) + Len(b)
       /\ \A j \in 1..Len(ac) + Len(b) : t[j] = IF j <= Len(ac) THEN ac[j] ELSE b[j - Len(ac)]
  BY <1>4, <1>9, ConcatProperties
<1>14. Inserted(l, i, v) = t
  BY <1>7 DEF ac
<1> HIDE DEF t
<1>11. /\ Len(t) = Len(l) + 1 /\ t[i] = v
       /\ \A j \in 1..Len(l) + 1 : t[j] = IF j <= i THEN ac[j] ELSE b[j - i]
  BY <1>1, <1>4, <1>9, <1>10
<1>12. \A j \in 1..Len(l) : l[j] = t[IF j < i THEN j ELSE j + 1]
  <2> TAKE j \in 1..Len(l)
  <2>1. CASE j < i
    BY <1>1, <1>9, <1>11, <2>1
  <2>2. CASE j >= i
    <3>1. j + 1 \in 1..Len(l) + 1 /\ ~(j + 1 <= i) /\ j + 1 - i \in 1..Len(l) - i + 1
      BY <1>1, <2>2
    <3>2. t[j + 1] = b[j + 1 - i]
      BY <1>11, <3>1
    <3>3. b[j + 1 - i] = l[i + (j + 1 - i) - 1] /\ i + (j + 1 - i) - 1 = j
      BY <1>1, <1>5, <3>1
    <3> QED
      BY <1>1, <2>2, <3>2, <3>3
  <2> QED
    BY <1>1, <2>1, <2>2
<1> QED
  BY <1>1, <1>10, <1>11, <1>12, <1>14 DEF OneMore

\* vector::erase leaves a list to which the erased element is one more.
LEMMA RemoveIsOneLess ==
    ASSUME NEW l \in Seq(Elements), NEW i \in 1..Len(l)
    PROVE  RemoveAt(l, i) \in Seq(Elements) /\ OneMore(RemoveAt(l, i), l, i)
<1> DEFINE a == SubSeq(l, 1, i - 1)
           b == SubSeq(l, i + 1, Len(l))
           s == a \o b
<1>1. Len(l) \in Nat /\ i \in Nat /\ i - 1 \in Nat /\ i <= Len(l) /\ i >= 1
  BY LenProperties
<1>2. \A j \in 1..Len(l) : l[j] \in Elements
  BY <1>1, ElementOfSeq
<1>3. a \in Seq(Elements) /\ Len(a) = i - 1 /\ \A j \in 1..i - 1 : a[j] = l[j]
  BY <1>1, <1>2
<1>4. b \in Seq(Elements) /\ Len(b) = Len(l) - i
  BY <1>1, <1>2
<1>5. \A j \in 1..Len(l) - i : b[j] = l[i + j]
  BY <1>1, <1>2
<1> HIDE DEF a, b
<1>6. /\ s \in Seq(Elements) /\ Len(s) = Len(a) + Len(b)
      /\ \A j \in 1..Len(a) + Len(b) : s[j] = IF j <= Len(a) THEN a[j] ELSE b[j - Len(a)]
  BY <1>3, <1>4, ConcatProperties
<1>7. RemoveAt(l, i) = s
  BY DEF RemoveAt, a, b
<1> HIDE DEF s
<1>8. /\ Len(l) = Len(s) + 1
      /\ \A j \in 1..Len(l) - 1 : s[j] = IF j <= i - 1 THEN a[j] ELSE b[j - (i - 1)]
  BY <1>1, <1>3, <1>4, <1>6
<1>9. \A j \in 1..Len(s) : s[j] = l[IF j < i THEN j ELSE j + 1]
  <2> TAKE j \in 1..Len(s)
  <2>0. j \in 1..Len(l) - 1
    BY <1>1, <1>8
  <2>1. CASE j < i
    BY <1>1, <1>3, <1>8, <2>0, <2>1
  <2>2. CASE j >= i
    <3>1. ~(j <= i - 1) /\ j - (i - 1) \in 1..Len(l) - i /\ i + (j - (i - 1)) = j + 1
      BY <1>1, <2>0, <2>2
    <3> QED
      BY <1>1, <1>5, <1>8, <2>0, <2>2, <3>1
  <2> QED
    BY <1>1, <2>0, <2>1, <2>2
<1> QED
  BY <1>6, <1>7, <1>8, <1>9 DEF OneMore

\* Taking an element out leaves the others in order.
LEMMA LessInOrder ==
    ASSUME NEW s \in Seq(Elements), NEW t \in Seq(Elements), NEW i, OneMore(s, t, i),
           InOrder(t)
    PROVE  InOrder(s)
<1> DEFINE at(j) == IF j < i THEN j ELSE j + 1
<1>1. /\ Len(s) \in Nat /\ Len(t) = Len(s) + 1 /\ i \in 1..Len(t)
      /\ \A j \in 1..Len(s) : s[j] = t[at(j)]
  BY LenProperties DEF OneMore
<1>2. ASSUME NEW x \in 1..Len(s), NEW y \in 1..Len(s), x < y
      PROVE  Key(s[x]) <= Key(s[y])
  <2>1. at(x) \in 1..Len(t) /\ at(y) \in 1..Len(t) /\ at(x) < at(y)
    BY <1>1, <1>2
  <2>2. s[x] = t[at(x)] /\ s[y] = t[at(y)]
    BY <1>1
  <2> HIDE DEF at
  <2> QED
    BY <2>1, <2>2 DEF InOrder
<1> QED
  BY <1>2 DEF InOrder

\* std::lower_bound in a list in order: all before are less, none behind is.
LEMMA LowerBoundSplits ==
    ASSUME NEW l \in Seq(Elements), InOrder(l), NEW v \in Elements,
           NEW i \in LowerBounds(l, v)
    PROVE  /\ i \in 1..Len(l) + 1
           /\ \A j \in 1..Len(l) : j < i => Key(l[j]) < Key(v)
           /\ \A j \in 1..Len(l) : j >= i => Key(v) <= Key(l[j])
<1>1. /\ i \in 1..Len(l) + 1 /\ Len(l) \in Nat
      /\ (i > 1 => Key(l[i - 1]) < Key(v))
      /\ (i <= Len(l) => ~(Key(l[i]) < Key(v)))
  BY LenProperties DEF LowerBounds, comp
<1>2. Key(v) \in Int /\ \A j \in 1..Len(l) : Key(l[j]) \in Int
  BY KeysAreNumbers, ElementOfSeq
<1>3. ASSUME NEW j \in 1..Len(l), j < i
      PROVE  Key(l[j]) < Key(v)
  <2>1. i - 1 \in 1..Len(l) /\ i > 1 /\ (j = i - 1 \/ j < i - 1)
    BY <1>1, <1>3
  <2>2. Key(l[j]) <= Key(l[i - 1])
    BY <1>2, <2>1 DEF InOrder
  <2> QED
    BY <1>1, <1>2, <2>1, <2>2
<1>4. ASSUME NEW j \in 1..Len(l), j >= i
      PROVE  Key(v) <= Key(l[j])
  <2>1. i \in 1..Len(l) /\ (i = j \/ i < j)
    BY <1>1, <1>4
  <2>2. Key(l[i]) <= Key(l[j])
    BY <1>2, <2>1 DEF InOrder
  <2> QED
    BY <1>1, <1>2, <2>1, <2>2
<1> QED
  BY <1>1, <1>3, <1>4

\* One more at its lower bound keeps the order.
LEMMA MoreInOrder ==
    ASSUME NEW s \in Seq(Elements), NEW t \in Seq(Elements), InOrder(s),
           NEW v \in Elements, NEW i \in LowerBounds(s, v), OneMore(s, t, i), t[i] = v
    PROVE  InOrder(t)
<1>1. /\ Len(s) \in Nat /\ Len(t) = Len(s) + 1 /\ i \in 1..Len(t)
      /\ \A j \in 1..Len(s) : s[j] = t[IF j < i THEN j ELSE j + 1]
  BY LenProperties DEF OneMore
<1>2. Key(v) \in Int /\ \A j \in 1..Len(s) : Key(s[j]) \in Int
  BY KeysAreNumbers, ElementOfSeq
<1>3. /\ \A j \in 1..Len(s) : j < i => Key(s[j]) < Key(v)
      /\ \A j \in 1..Len(s) : j >= i => Key(v) <= Key(s[j])
  BY LowerBoundSplits
<1>4. ASSUME NEW x \in 1..Len(t), x < i
      PROVE  x \in 1..Len(s) /\ t[x] = s[x] /\ Key(t[x]) < Key(v)
  BY <1>1, <1>3, <1>4
<1>5. ASSUME NEW x \in 1..Len(t), x > i
      PROVE  x - 1 \in 1..Len(s) /\ t[x] = s[x - 1] /\ Key(v) <= Key(t[x])
  <2>1. x - 1 \in 1..Len(s) /\ ~(x - 1 < i) /\ x - 1 + 1 = x
    BY <1>1, <1>5
  <2>2. s[x - 1] = t[x]
    BY <1>1, <2>1
  <2> QED
    BY <1>1, <1>3, <2>1, <2>2
<1>6. ASSUME NEW x \in 1..Len(t), NEW y \in 1..Len(t), x < y
      PROVE  Key(t[x]) <= Key(t[y])
  <2>1. CASE y < i
    BY <1>1, <1>4, <1>6, <2>1 DEF InOrder
  <2>2. CASE x < i /\ ~(y < i)
    <3>1. CASE y = i
      BY <1>2, <1>4, <2>2, <3>1
    <3>2. CASE y > i
      <4>1. Key(t[x]) < Key(v) /\ Key(v) <= Key(t[y])
        BY <1>4, <1>5, <2>2, <3>2
      <4>2. Key(t[x]) \in Int /\ Key(t[y]) \in Int
        BY <1>2, <1>4, <1>5, <2>2, <3>2
      <4> QED
        BY <1>2, <4>1, <4>2
    <3> QED
      BY <1>1, <2>2, <3>1, <3>2
  <2>3. CASE x = i
    BY <1>1, <1>5, <1>6, <2>3
  <2>4. CASE x > i
    <3>1. /\ x - 1 \in 1..Len(s) /\ t[x] = s[x - 1]
          /\ y - 1 \in 1..Len(s) /\ t[y] = s[y - 1] /\ x - 1 < y - 1
      BY <1>1, <1>5, <1>6, <2>4
    <3> QED
      BY <3>1 DEF InOrder
  <2>5. y < i \/ (x < i /\ ~(y < i)) \/ x = i \/ x > i
    BY <1>1
  <2> QED
    BY <2>1, <2>2, <2>3, <2>4, <2>5, Zenon
<1> QED
  BY <1>6 DEF InOrder

\* A new list is empty, in order, and counts nothing.
LEMMA ListIndInit ==
    ASSUME list = <<>>, unique \in BOOLEAN, disturbed \in BOOLEAN,
           counts = [k \in Keys |-> 0]
    PROVE  ListInd
<1>1. list \in Seq(Elements) /\ Len(list) = 0
  BY EmptySeq
<1>2. \A k : OfKey(list, k) = {}
  BY <1>1 DEF OfKey
<1>3. \A k \in Keys : Cardinality(OfKey(list, k)) = counts[k]
  BY <1>2, FS_EmptySet
<1>4. InOrder(list)
  BY <1>1 DEF InOrder
<1>5. ListTypeOK
  BY <1>1 DEF ListTypeOK
<1> QED
  BY <1>3, <1>4, <1>5 DEF ListInd

\* add puts the element at its lower bound, or leaves all as it is.
LEMMA AddKeeps ==
    ASSUME ListInd, NEW v \in Elements, add(v)
    PROVE  ListInd'
<1>1. PICK i \in LowerBounds(list, v) :
         IF unique /\ Equivalent(list, i, v)
         THEN UNCHANGED listVars
         ELSE /\ Len(list) < MaxList
              /\ list' = Inserted(list, i, v)
              /\ counts' = [counts EXCEPT ![Key(v)] = @ + 1]
              /\ UNCHANGED <<unique, disturbed>>
  BY DEF add
<1>2. CASE UNCHANGED listVars
  BY <1>2 DEF listVars, ListInd, ListTypeOK
<1>3. CASE /\ list' = Inserted(list, i, v)
           /\ counts' = [counts EXCEPT ![Key(v)] = @ + 1]
           /\ UNCHANGED <<unique, disturbed>>
  <2>1. list \in Seq(Elements) /\ counts \in [Keys -> Int] /\ Key(v) \in Keys
    BY KeysAreNumbers DEF ListInd, ListTypeOK
  <2>2. i \in 1..Len(list) + 1
    BY DEF LowerBounds
  <2>3. list' \in Seq(Elements) /\ OneMore(list, list', i) /\ list'[i] = v
    BY <1>3, <2>1, <2>2, InsertIsOneMore
  <2>4. ListTypeOK'
    <3>1. counts' \in [Keys -> Int]
      BY <1>3, <2>1
    <3> QED
      BY <1>3, <2>3, <3>1 DEF ListInd, ListTypeOK
  <2>5. ASSUME NEW k \in Keys
        PROVE  Cardinality(OfKey(list', k)) = counts'[k]
    <3>1. Cardinality(OfKey(list', k))
            = Cardinality(OfKey(list, k)) + (IF Key(list'[i]) = k THEN 1 ELSE 0)
      BY <2>1, <2>3, OneMoreCounts
    <3>2. Cardinality(OfKey(list, k)) = counts[k]
      BY DEF ListInd
    <3>3. counts'[k] = IF k = Key(v) THEN counts[k] + 1 ELSE counts[k]
      BY <1>3, <2>1
    <3>4. counts[k] \in Int
      BY <2>1
    <3> QED
      BY <2>3, <3>1, <3>2, <3>3, <3>4
  <2>6. ~disturbed' => InOrder(list')
    BY <1>3, <2>1, <2>3, MoreInOrder DEF ListInd
  <2> QED
    BY <2>4, <2>5, <2>6 DEF ListInd
<1> QED
  BY <1>1, <1>2, <1>3

\* What remove and remove_at do when the place is i and the key is counted
\* down.
LEMMA RemoveKeeps ==
    ASSUME ListInd, NEW i \in 1..Len(list),
           list' = RemoveAt(list, i),
           counts' = [counts EXCEPT ![Key(list[i])] = @ - 1],
           UNCHANGED <<unique, disturbed>>
    PROVE  ListInd'
<1>1. list \in Seq(Elements) /\ counts \in [Keys -> Int] /\ Key(list[i]) \in Keys
  BY KeysAreNumbers, ElementOfSeq DEF ListInd, ListTypeOK
<1>2. list' \in Seq(Elements) /\ OneMore(list', list, i)
  BY <1>1, RemoveIsOneLess
<1>3. ListTypeOK'
  <2>1. counts' \in [Keys -> Int]
    BY <1>1
  <2> QED
    BY <1>2, <2>1 DEF ListInd, ListTypeOK
<1>4. ASSUME NEW k \in Keys
      PROVE  Cardinality(OfKey(list', k)) = counts'[k]
  <2>1. Cardinality(OfKey(list, k))
          = Cardinality(OfKey(list', k)) + (IF Key(list[i]) = k THEN 1 ELSE 0)
    BY <1>1, <1>2, OneMoreCounts
  <2>2. Cardinality(OfKey(list, k)) = counts[k]
    BY DEF ListInd
  <2>3. counts'[k] = IF k = Key(list[i]) THEN counts[k] - 1 ELSE counts[k]
    BY <1>1
  <2>4. Cardinality(OfKey(list', k)) \in Nat
    BY <1>2, OfKeyFinite
  <2> QED
    BY <2>1, <2>2, <2>3, <2>4
<1>5. ~disturbed' => InOrder(list')
  BY <1>1, <1>2, LessInOrder DEF ListInd
<1> QED
  BY <1>3, <1>4, <1>5 DEF ListInd

\* remove takes an equivalent element, found at its lower bound.
LEMMA RemoveValueKeeps ==
    ASSUME ListInd, NEW v \in Elements, remove_value(v)
    PROVE  ListInd'
<1>1. PICK i \in Found(list, v) :
         /\ i <= Len(list) /\ list' = RemoveAt(list, i)
         /\ counts' = [counts EXCEPT ![Key(v)] = @ - 1]
         /\ UNCHANGED <<unique, disturbed>>
  BY DEF remove_value
<1>2. list \in Seq(Elements) /\ Len(list) \in Nat
  BY LenProperties DEF ListInd, ListTypeOK
<1>3. PICK j \in LowerBounds(list, v) : i = IF Equivalent(list, j, v) THEN j ELSE Len(list) + 1
  BY <1>1 DEF Found
<1>4. i = j /\ Equivalent(list, i, v)
  BY <1>1, <1>2, <1>3
<1>5. i \in 1..Len(list) /\ Key(list[i]) = Key(v)
  <2>1. i \in 1..Len(list)
    BY <1>1, <1>2, <1>3, <1>4 DEF LowerBounds
  <2>2. Key(list[i]) \in Int /\ Key(v) \in Int
    BY <1>2, <2>1, KeysAreNumbers, ElementOfSeq
  <2> QED
    BY <1>4, <2>1, <2>2 DEF Equivalent, comp
<1> QED
  BY <1>1, <1>5, RemoveKeeps

\* A write through at or an iterator counts the old element out and the new
\* one in.
LEMMA AssignKeeps ==
    ASSUME ListInd, NEW i \in 1..MaxList, NEW v \in Elements, assign_at(i, v)
    PROVE  ListInd'
<1>1. /\ list \in Seq(Elements) /\ counts \in [Keys -> Int] /\ Len(list) \in Nat
      /\ i \in 1..Len(list)
  BY LenProperties, ListAssumption DEF ListInd, ListTypeOK, assign_at, validate_index
<1> DEFINE old == Key(list[i])
           new == Key(v)
<1>2. old \in Keys /\ new \in Keys /\ list[i] \in Elements
  BY <1>1, KeysAreNumbers, ElementOfSeq
<1>3. /\ list' = [list EXCEPT ![i] = v]
      /\ counts' = [[counts EXCEPT ![old] = @ - 1] EXCEPT ![new] = @ + 1]
      /\ disturbed' = TRUE /\ unique' = unique
  BY DEF assign_at
<1>4. /\ list' \in Seq(Elements) /\ Len(list') = Len(list) /\ list'[i] = v
      /\ \A j \in 1..Len(list) : j # i => list'[j] = list[j]
  BY <1>1, <1>3, ExceptSeq
<1> HIDE DEF old, new
<1>5. /\ counts' \in [Keys -> Int]
      /\ \A k \in Keys : counts'[k] = counts[k] - (IF k = old THEN 1 ELSE 0)
                                                + (IF k = new THEN 1 ELSE 0)
  <2> DEFINE c1 == [counts EXCEPT ![old] = @ - 1]
  <2>1. c1 \in [Keys -> Int] /\ \A k \in Keys : c1[k] = counts[k] - (IF k = old THEN 1 ELSE 0)
    BY <1>1, <1>2
  <2>2. counts' = [c1 EXCEPT ![new] = @ + 1]
    BY <1>3
  <2> HIDE DEF c1
  <2> QED
    BY <1>1, <1>2, <2>1, <2>2
<1>6. ASSUME NEW k \in Keys
      PROVE  Cardinality(OfKey(list', k)) = counts'[k]
  <2> DEFINE A == OfKey(list, k)
             B == A \ {i}
  <2>1. IsFiniteSet(A) /\ Cardinality(A) = counts[k] /\ counts[k] \in Int
    BY <1>1, OfKeyFinite DEF ListInd
  <2>2. (i \in A <=> k = old) /\ (i \in OfKey(list', k) <=> k = new)
    BY <1>1, <1>4 DEF OfKey, old, new
  <2>3. OfKey(list', k) = IF k = new THEN B \cup {i} ELSE B
    <3>1. \A j \in 1..Len(list) : j # i => (j \in OfKey(list', k) <=> j \in A)
      BY <1>4 DEF OfKey
    <3>2. OfKey(list', k) \subseteq 1..Len(list) /\ A \subseteq 1..Len(list)
      BY <1>4 DEF OfKey
    <3> HIDE DEF A
    <3> QED
      BY <2>2, <3>1, <3>2
  <2> HIDE DEF A
  <2>4. IsFiniteSet(B) /\ Cardinality(B) = counts[k] - (IF k = old THEN 1 ELSE 0)
    BY <2>1, <2>2, FS_RemoveElement
  <2>5. i \notin B
    OBVIOUS
  <2> HIDE DEF B
  <2>6. Cardinality(B \cup {i}) = Cardinality(B) + 1
    BY <2>4, <2>5, FS_AddElement
  <2>7. CASE k = new
    BY <1>5, <2>1, <2>3, <2>4, <2>6, <2>7
  <2>8. CASE k # new
    BY <1>5, <2>1, <2>3, <2>4, <2>8
  <2> QED
    BY <2>7, <2>8
<1>7. ListTypeOK'
  <2>1. disturbed' \in BOOLEAN /\ unique' \in BOOLEAN
    BY <1>3, Zenon DEF ListInd, ListTypeOK
  <2> QED
    BY <1>4, <1>5, <2>1 DEF ListTypeOK
<1> QED
  BY <1>3, <1>6, <1>7 DEF ListInd

\* Every step of the list keeps its invariant.
LEMMA ListIndNext == ListInd /\ [ListNext]_listVars => ListInd'
<1> SUFFICES ASSUME ListInd, [ListNext]_listVars
             PROVE  ListInd'
  OBVIOUS
<1>1. CASE UNCHANGED listVars
  BY <1>1 DEF listVars, ListInd, ListTypeOK
<1>2. ASSUME NEW v \in Elements, add(v) \/ remove_value(v)
      PROVE  ListInd'
  BY <1>2, AddKeeps, RemoveValueKeeps
<1>3. ASSUME NEW i \in 1..MaxList, remove_at(i)
      PROVE  ListInd'
  <2>1. Len(list) \in Nat
    BY LenProperties DEF ListInd, ListTypeOK
  <2>2. i \in 1..Len(list)
    BY <1>3, <2>1, ListAssumption DEF remove_at, validate_index
  <2> QED
    BY <1>3, <2>2, RemoveKeeps DEF remove_at
<1>4. ASSUME NEW i \in 1..MaxList, NEW v \in Elements, assign_at(i, v)
      PROVE  ListInd'
  BY <1>4, AssignKeeps
<1>5. ASSUME NEW b \in BOOLEAN, set_unique(b)
      PROVE  ListInd'
  BY <1>5 DEF set_unique, ListInd, ListTypeOK
<1>6. CASE clear_list
  <2>1. list' = <<>> /\ counts' = [k \in Keys |-> 0] /\ UNCHANGED <<unique, disturbed>>
    BY <1>6 DEF clear_list
  <2>2. list' \in Seq(Elements) /\ Len(list') = 0
    BY <2>1, EmptySeq
  <2>3. \A k : OfKey(list', k) = {}
    BY <2>2 DEF OfKey
  <2>4. \A k \in Keys : Cardinality(OfKey(list', k)) = counts'[k]
    BY <2>1, <2>3, FS_EmptySet
  <2>5. InOrder(list')
    BY <2>2 DEF InOrder
  <2> QED
    BY <2>1, <2>2, <2>4, <2>5 DEF ListInd, ListTypeOK
<1> QED
  BY <1>1, <1>2, <1>3, <1>4, <1>5, <1>6 DEF ListNext

\* A key that is counted is the key of some element, and the other way round.
LEMMA CountedIsThere ==
    ASSUME ListInd, NEW k \in Keys
    PROVE  counts[k] > 0 <=> \E i \in 1..Len(list) : Key(list[i]) = k
<1>1. /\ Cardinality(OfKey(list, k)) = counts[k]
      /\ IsFiniteSet(OfKey(list, k)) /\ Cardinality(OfKey(list, k)) \in Nat
  BY OfKeyFinite DEF ListInd, ListTypeOK
<1>2. Cardinality(OfKey(list, k)) = 0 <=> OfKey(list, k) = {}
  BY <1>1, FS_EmptySet
<1> QED
  BY <1>1, <1>2 DEF OfKey

\* In a list in order the lower bound of a value that is there is the first
\* equivalent element.
LEMMA LowerBoundExists ==
    ASSUME NEW l \in Seq(Elements), InOrder(l), NEW v \in Elements,
           NEW j \in 1..Len(l), Key(l[j]) = Key(v)
    PROVE  \E i \in LowerBounds(l, v) : Equivalent(l, i, v)
<1> DEFINE S == OfKey(l, Key(v))
           i == Min(S)
<1>1. Len(l) \in Nat /\ S \subseteq 1..Len(l) /\ S \subseteq Nat /\ j \in S
  BY LenProperties DEF OfKey
<1>2. i \in S /\ \A y \in S : i <= y
  BY <1>1, MinIsIn
<1>3. i \in 1..Len(l) /\ Key(l[i]) = Key(v)
  BY <1>2 DEF OfKey
<1> HIDE DEF i
<1>4. Key(v) \in Int /\ \A x \in 1..Len(l) : Key(l[x]) \in Int
  BY KeysAreNumbers, ElementOfSeq
<1>5. i > 1 => Key(l[i - 1]) < Key(v)
  <2> SUFFICES ASSUME i > 1
               PROVE  Key(l[i - 1]) < Key(v)
    OBVIOUS
  <2>1. i - 1 \in 1..Len(l) /\ i - 1 < i /\ ~(i <= i - 1)
    BY <1>1, <1>3
  <2>2. i - 1 \notin S
    BY <1>2, <2>1
  <2>3. Key(l[i - 1]) # Key(v)
    BY <2>1, <2>2 DEF OfKey
  <2>4. Key(l[i - 1]) <= Key(v)
    BY <1>3, <2>1 DEF InOrder
  <2> QED
    BY <1>4, <2>1, <2>3, <2>4
<1>6. i \in LowerBounds(l, v)
  BY <1>1, <1>3, <1>4, <1>5 DEF LowerBounds, comp
<1>7. Equivalent(l, i, v)
  BY <1>1, <1>3, <1>4 DEF Equivalent, comp
<1> QED
  BY <1>6, <1>7

\* At a lower bound in a list in order there is an equivalent element if
\* there is one at all.
LEMMA EquivalentAtBound ==
    ASSUME NEW l \in Seq(Elements), InOrder(l), NEW v \in Elements,
           NEW i \in LowerBounds(l, v)
    PROVE  Equivalent(l, i, v) <=> \E j \in 1..Len(l) : Key(l[j]) = Key(v)
<1>1. Len(l) \in Nat /\ Key(v) \in Int /\ \A x \in 1..Len(l) : Key(l[x]) \in Int
  BY LenProperties, KeysAreNumbers, ElementOfSeq
<1>2. /\ i \in 1..Len(l) + 1
      /\ \A j \in 1..Len(l) : j < i => Key(l[j]) < Key(v)
      /\ \A j \in 1..Len(l) : j >= i => Key(v) <= Key(l[j])
  BY LowerBoundSplits
<1>3. ASSUME Equivalent(l, i, v)
      PROVE  \E j \in 1..Len(l) : Key(l[j]) = Key(v)
  <2>1. i \in 1..Len(l) /\ ~(Key(l[i]) < Key(v)) /\ ~(Key(v) < Key(l[i]))
    BY <1>1, <1>2, <1>3 DEF Equivalent, comp
  <2> QED
    BY <1>1, <2>1
<1>4. ASSUME NEW j \in 1..Len(l), Key(l[j]) = Key(v)
      PROVE  Equivalent(l, i, v)
  <2>1. ~(j < i)
    BY <1>1, <1>2, <1>4
  <2>2. i \in 1..Len(l) /\ (i = j \/ i < j)
    BY <1>1, <1>2, <2>1
  <2>3. Key(l[i]) <= Key(v)
    BY <1>1, <1>4, <2>2 DEF InOrder
  <2>4. Key(v) <= Key(l[i])
    BY <1>1, <1>2, <2>2
  <2> QED
    BY <1>1, <2>2, <2>3, <2>4 DEF Equivalent, comp
<1> QED
  BY <1>3, <1>4

\* The invariant says what ListExact says.
LEMMA ListIndImplies == ListInd => ListExact
<1> SUFFICES ASSUME ListInd
             PROVE  ListExact
  OBVIOUS
<1>1. list \in Seq(Elements) /\ Len(list) \in Nat
  BY LenProperties DEF ListInd, ListTypeOK
<1>2. \A x \in 1..Len(list) : Key(list[x]) \in Int /\ Key(list[x]) \in Keys
  BY <1>1, KeysAreNumbers, ElementOfSeq
<1>3. CountsExact
  BY DEF CountsExact, ListInd, OfKey
<1>4. ASSUME ~disturbed
      PROVE  /\ \A i, j \in 1..Len(list) : i < j => ~comp(list[j], list[i])
             /\ \A v \in Elements : contains_value(list, v) = (counts[Key(v)] > 0)
             /\ has_last(list) = (\E k \in Keys : counts[k] > 0)
             /\ has_last(list) =>
                  \A k \in Keys : counts[k] > 0 => k <= Key(last(list))
  <2>1. InOrder(list)
    BY <1>4 DEF ListInd
  <2>2. \A i, j \in 1..Len(list) : i < j => ~comp(list[j], list[i])
    BY <1>2, <2>1 DEF InOrder, comp
  <2>3. ASSUME NEW v \in Elements
        PROVE  contains_value(list, v) <=> counts[Key(v)] > 0
    <3>1. contains_value(list, v) <=> \E i \in LowerBounds(list, v) : Equivalent(list, i, v)
      <4>1. ~(Len(list) + 1 <= Len(list))
        BY <1>1
      <4>2. \A i : Equivalent(list, i, v) => i <= Len(list)
        BY DEF Equivalent
      <4> QED
        BY <4>1, <4>2 DEF contains_value, Found
    <3>2. (\E i \in LowerBounds(list, v) : Equivalent(list, i, v))
            <=> \E j \in 1..Len(list) : Key(list[j]) = Key(v)
      BY <1>1, <2>1, LowerBoundExists, EquivalentAtBound
    <3>3. Key(v) \in Keys
      BY KeysAreNumbers
    <3> QED
      BY <3>1, <3>2, <3>3, CountedIsThere
  <2>4. has_last(list) <=> \E k \in Keys : counts[k] > 0
    <3>1. has_last(list) <=> \E i \in 1..Len(list) : TRUE
      <4>1. list = <<>> <=> Len(list) = 0
        BY <1>1, EmptySeq
      <4>2. Len(list) # 0 => 1 \in 1..Len(list)
        BY <1>1
      <4>3. Len(list) = 0 => 1..Len(list) = {}
        OBVIOUS
      <4> QED
        BY <4>1, <4>2, <4>3 DEF has_last
    <3> QED
      BY <1>2, <3>1, CountedIsThere
  <2>5. ASSUME has_last(list), NEW k \in Keys, counts[k] > 0
        PROVE  k <= Key(last(list))
    <3>1. PICK i \in 1..Len(list) : Key(list[i]) = k
      BY <2>5, CountedIsThere
    <3>2. Len(list) \in 1..Len(list) /\ (i = Len(list) \/ i < Len(list))
      BY <1>1, <3>1
    <3>3. Key(list[i]) <= Key(list[Len(list)])
      BY <1>2, <2>1, <3>2 DEF InOrder
    <3> QED
      BY <3>1, <3>3 DEF last
  <2>6. \A v \in Elements : contains_value(list, v) = (counts[Key(v)] > 0)
    <3>1. \A v \in Elements : contains_value(list, v) \in BOOLEAN
      BY DEF contains_value
    <3> QED
      BY <2>3, <3>1
  <2>7. has_last(list) = (\E k \in Keys : counts[k] > 0)
    <3>1. has_last(list) \in BOOLEAN
      BY DEF has_last
    <3> QED
      BY <2>4, <3>1
  <2> QED
    BY <2>2, <2>5, <2>6, <2>7
<1>5. SortedKept
  BY <1>4 DEF SortedKept
<1>6. AddIsExact
  <2> SUFFICES ASSUME ~disturbed, NEW v \in Elements, NEW i \in LowerBounds(list, v)
               PROVE  /\ Inserted(list, i, v)
                           = SubSeq(list, 1, i - 1) \o <<v>> \o SubSeq(list, i, Len(list))
                      /\ \A j \in 1..i - 1 : Key(list[j]) < Key(v)
                      /\ Equivalent(list, i, v)
                           = (\E j \in 1..Len(list) : Key(list[j]) = Key(v))
    BY DEF AddIsExact
  <2>1. InOrder(list)
    BY DEF ListInd
  <2>2. Inserted(list, i, v) = SubSeq(list, 1, i - 1) \o <<v>> \o SubSeq(list, i, Len(list))
    BY DEF Inserted, InsertAt
  <2>3. \A j \in 1..i - 1 : Key(list[j]) < Key(v)
    <3>1. /\ i \in 1..Len(list) + 1
          /\ \A j \in 1..Len(list) : j < i => Key(list[j]) < Key(v)
      BY <1>1, <2>1, LowerBoundSplits
    <3> QED
      BY <1>1, <3>1
  <2>4. Equivalent(list, i, v) <=> \E j \in 1..Len(list) : Key(list[j]) = Key(v)
    BY <1>1, <2>1, EquivalentAtBound
  <2>5. Equivalent(list, i, v) \in BOOLEAN
    BY DEF Equivalent
  <2> QED
    BY <2>2, <2>3, <2>4, <2>5
<1> QED
  BY <1>3, <1>5, <1>6 DEF ListExact

\* SortedList keeps its order as long as nobody writes to an element, finds
\* what was added and not removed, and never loses or doubles an element,
\* for lists of every length.
THEOREM ListCorrect == ListSpec => []ListExact
<1>1. ListInit => ListInd
  BY ListIndInit DEF ListInit
<1>2. ListInd /\ [ListNext]_listVars => ListInd'
  BY ListIndNext
<1>3. ListInd => ListExact
  BY ListIndImplies
<1> QED
  BY <1>1, <1>2, <1>3, PTL DEF ListSpec

-----------------------------------------------------------------------------
(***************************************************************************)
(* The log.                                                                *)
(***************************************************************************)

LogTypeOK ==
    /\ log_on \in [LogUnits -> BOOLEAN] /\ log_open \in [LogUnits -> BOOLEAN]
    /\ log_error \in [LogUnits -> BOOLEAN] /\ reached \in [LogUnits -> BOOLEAN]
    /\ initialized \in [LogUnits -> BOOLEAN]
    /\ asked \in [LogUnits -> {"none", "enable", "disable"}]
    /\ messages \in Seq(LogUnits \X BOOLEAN) /\ log_file \in Seq(Nat)

\* A unit's switch and stream say what was asked for and reached; a stream
\* that is open is not in error.
StreamsSay ==
    \A u \in LogUnits :
        /\ log_on[u] <=> asked[u] # "disable"
        /\ log_open[u] <=> reached[u]
        /\ log_open[u] => ~log_error[u]

\* The inductive invariant of the log.
LogInd == LogTypeOK /\ StreamsSay /\ LogComplete

\* The log starts on, with every stream closed.
LEMMA LogIndInit == LogInit => LogInd
<1> SUFFICES ASSUME LogInit
             PROVE  LogInd
  OBVIOUS
<1>1. /\ messages = <<>> /\ log_file = <<>>
      /\ <<>> \in Seq(LogUnits \X BOOLEAN) /\ <<>> \in Seq(Nat) /\ DOMAIN <<>> = {}
  BY EmptySeq, LenProperties DEF LogInit
<1>2. LogTypeOK
  BY <1>1 DEF LogInit, LogTypeOK
<1>3. StreamsSay
  BY DEF LogInit, StreamsSay
<1>4. LogComplete
  BY <1>1 DEF LogComplete, Range
<1> QED
  BY <1>2, <1>3, <1>4 DEF LogInd

\* open_log_file opens a stream without error, or leaves it in error.
LEMMA OpenedKeeps ==
    ASSUME LogInd, NEW u \in LogUnits, NEW opens \in BOOLEAN, Opened(u, opens)
    PROVE  /\ initialized' \in [LogUnits -> BOOLEAN] /\ log_open' \in [LogUnits -> BOOLEAN]
           /\ log_error' \in [LogUnits -> BOOLEAN] /\ reached' \in [LogUnits -> BOOLEAN]
           /\ \A w \in LogUnits : /\ log_open'[w] <=> reached'[w]
                                  /\ log_open'[w] => ~log_error'[w]
<1>1. CASE UNCHANGED <<initialized, log_open, log_error, reached>>
  BY <1>1 DEF LogInd, LogTypeOK, StreamsSay
<1>2. CASE /\ initialized' = [initialized EXCEPT ![u] = TRUE]
           /\ log_open' = [log_open EXCEPT ![u] = opens]
           /\ log_error' = [log_error EXCEPT ![u] = ~opens]
           /\ reached' = [reached EXCEPT ![u] = opens]
  <2>1. /\ initialized' \in [LogUnits -> BOOLEAN] /\ log_open' \in [LogUnits -> BOOLEAN]
        /\ log_error' \in [LogUnits -> BOOLEAN] /\ reached' \in [LogUnits -> BOOLEAN]
    BY <1>2 DEF LogInd, LogTypeOK
  <2>2. ASSUME NEW w \in LogUnits
        PROVE  (log_open'[w] <=> reached'[w]) /\ (log_open'[w] => ~log_error'[w])
    <3>1. CASE w = u
      BY <1>2, <3>1 DEF LogInd, LogTypeOK
    <3>2. CASE w # u
      BY <1>2, <3>2 DEF LogInd, LogTypeOK, StreamsSay
    <3> QED
      BY <3>1, <3>2
  <2> QED
    BY <2>1, <2>2
<1> QED
  BY <1>1, <1>2 DEF Opened

\* A message that is heard goes to the file, behind all others.
LEMMA LogKeeps ==
    ASSUME LogInd, NEW u \in LogUnits, LOG(u)
    PROVE  LogInd'
<1> DEFINE heard == asked[u] # "disable" /\ reached[u]
           n == Len(messages)
<1>1. /\ messages \in Seq(LogUnits \X BOOLEAN) /\ log_file \in Seq(Nat) /\ n \in Nat
      /\ DOMAIN messages = 1..n /\ DOMAIN log_file = 1..Len(log_file) /\ Len(log_file) \in Nat
  BY LenProperties DEF LogInd, LogTypeOK
<1>2. /\ messages' = Append(messages, <<u, heard>>)
      /\ log_error' = [log_error EXCEPT ![u] = @ \/ (log_on[u] /\ ~log_open[u])]
      /\ log_file' = IF log_on[u] /\ log_open[u] /\ ~log_error[u]
                     THEN Append(log_file, n + 1) ELSE log_file
      /\ UNCHANGED <<log_on, initialized, log_open, asked, reached>>
  BY DEF LOG
<1>3. heard <=> log_on[u] /\ log_open[u] /\ ~log_error[u]
  BY DEF LogInd, StreamsSay
<1>4. <<u, heard>> \in LogUnits \X BOOLEAN
  OBVIOUS
<1>5. /\ messages' \in Seq(LogUnits \X BOOLEAN) /\ Len(messages') = n + 1
      /\ DOMAIN messages' = 1..(n + 1)
      /\ messages'[n + 1] = <<u, heard>>
      /\ \A i \in 1..n : messages'[i] = messages[i]
  <2> DEFINE e == <<u, heard>>
             S == LogUnits \X BOOLEAN
  <2>1. e \in S /\ messages \in Seq(S) /\ messages' = Append(messages, e)
    BY <1>1, <1>2, <1>4
  <2> HIDE DEF e, S
  <2>2. /\ messages' \in Seq(S) /\ Len(messages') = n + 1
        /\ messages'[n + 1] = e
        /\ \A i \in 1..n : messages'[i] = messages[i]
    BY <2>1, AppendProperties
  <2> QED
    BY <2>2, LenProperties DEF e, S
<1>6. messages'[n + 1][2] <=> heard
  BY <1>5
<1> HIDE DEF heard
<1>7. \A i \in DOMAIN log_file : log_file[i] \in 1..n
  BY <1>1 DEF LogInd, LogComplete, Range
<1>8. LogComplete'
  <2>1. CASE heard
    <3>1. /\ log_file' = Append(log_file, n + 1)
          /\ DOMAIN log_file' = 1..(Len(log_file) + 1)
          /\ log_file'[Len(log_file) + 1] = n + 1
          /\ \A i \in 1..Len(log_file) : log_file'[i] = log_file[i]
      <4>1. log_file' = Append(log_file, n + 1) /\ n + 1 \in Nat
        BY <1>1, <1>2, <1>3, <2>1
      <4>2. /\ log_file' \in Seq(Nat) /\ Len(log_file') = Len(log_file) + 1
            /\ log_file'[Len(log_file) + 1] = n + 1
            /\ \A i \in 1..Len(log_file) : log_file'[i] = log_file[i]
        BY <1>1, <4>1, AppendProperties
      <4> QED
        BY <4>1, <4>2, LenProperties
    <3>2. Range(log_file') = Range(log_file) \cup {n + 1}
      <4>1. 1..(Len(log_file) + 1) = 1..Len(log_file) \cup {Len(log_file) + 1}
        BY <1>1
      <4> QED
        BY <1>1, <3>1, <4>1 DEF Range
    <3>3. {i \in DOMAIN messages' : messages'[i][2]}
            = {i \in DOMAIN messages : messages[i][2]} \cup {n + 1}
      <4>1. 1..(n + 1) = 1..n \cup {n + 1}
        BY <1>1
      <4> QED
        BY <1>1, <1>5, <1>6, <2>1, <4>1
    <3>4. \A i, j \in DOMAIN log_file' : i < j => log_file'[i] < log_file'[j]
      <4> SUFFICES ASSUME NEW i \in 1..(Len(log_file) + 1), NEW j \in 1..(Len(log_file) + 1),
                          i < j
                   PROVE  log_file'[i] < log_file'[j]
        BY <3>1
      <4>1. i \in 1..Len(log_file) /\ log_file'[i] = log_file[i] /\ log_file[i] \in 1..n
        BY <1>1, <1>7, <3>1
      <4>2. CASE j = Len(log_file) + 1
        BY <1>1, <3>1, <4>1, <4>2
      <4>3. CASE j \in 1..Len(log_file)
        BY <1>1, <3>1, <4>1, <4>3 DEF LogInd, LogComplete
      <4>4. j = Len(log_file) + 1 \/ j \in 1..Len(log_file)
        BY <1>1
      <4> QED
        BY <4>2, <4>3, <4>4, Zenon
    <3> QED
      BY <3>2, <3>3, <3>4 DEF LogInd, LogComplete
  <2>2. CASE ~heard
    <3>1. log_file' = log_file
      BY <1>2, <1>3, <2>2
    <3>2. {i \in DOMAIN messages' : messages'[i][2]} = {i \in DOMAIN messages : messages[i][2]}
      <4>1. 1..(n + 1) = 1..n \cup {n + 1} /\ n + 1 \notin 1..n
        BY <1>1
      <4> QED
        BY <1>1, <1>5, <1>6, <2>2, <4>1
    <3> QED
      BY <3>1, <3>2 DEF LogInd, LogComplete
  <2> QED
    BY <2>1, <2>2
<1>9. LogTypeOK'
  <2>1. log_file' \in Seq(Nat)
    <3>1. n + 1 \in Nat
      BY <1>1
    <3> QED
      BY <1>1, <1>2, <3>1, AppendProperties
  <2>2. log_error' \in [LogUnits -> BOOLEAN]
    BY <1>2 DEF LogInd, LogTypeOK
  <2> QED
    BY <1>2, <1>5, <2>1, <2>2 DEF LogInd, LogTypeOK
<1>10. StreamsSay'
  <2> SUFFICES ASSUME NEW w \in LogUnits
               PROVE  log_open[w] => ~log_error'[w]
    BY <1>2 DEF StreamsSay, LogInd
  <2>1. CASE w = u
    BY <1>2, <2>1 DEF LogInd, LogTypeOK, StreamsSay
  <2>2. CASE w # u
    BY <1>2, <2>2 DEF LogInd, LogTypeOK, StreamsSay
  <2> QED
    BY <2>1, <2>2
<1> QED
  BY <1>8, <1>9, <1>10 DEF LogInd

\* Every step of the log keeps its invariant.
LEMMA LogIndNext == LogInd /\ [LogNext]_logVars => LogInd'
<1> SUFFICES ASSUME LogInd, [LogNext]_logVars
             PROVE  LogInd'
  OBVIOUS
<1>1. CASE UNCHANGED logVars
  BY <1>1 DEF logVars, LogInd, LogTypeOK, StreamsSay, LogComplete
<1>2. ASSUME NEW u \in LogUnits, NEW opens \in BOOLEAN, open_log_file(u, opens)
      PROVE  LogInd'
  <2>1. Opened(u, opens) /\ UNCHANGED <<log_on, log_file, messages, asked>>
    BY <1>2 DEF open_log_file
  <2> QED
    BY <2>1, OpenedKeeps DEF LogInd, LogTypeOK, StreamsSay, LogComplete
<1>3. ASSUME NEW u \in LogUnits, NEW opens \in BOOLEAN, enable_log(u, opens)
      PROVE  LogInd'
  <2>1. /\ Opened(u, opens) /\ UNCHANGED <<log_file, messages>>
        /\ log_on' = [log_on EXCEPT ![u] = TRUE]
        /\ asked' = [asked EXCEPT ![u] = "enable"]
    BY <1>3 DEF enable_log
  <2>2. /\ log_on' \in [LogUnits -> BOOLEAN]
        /\ asked' \in [LogUnits -> {"none", "enable", "disable"}]
        /\ \A w \in LogUnits : log_on'[w] <=> asked'[w] # "disable"
    BY <2>1 DEF LogInd, LogTypeOK, StreamsSay
  <2> QED
    BY <2>1, <2>2, OpenedKeeps DEF LogInd, LogTypeOK, StreamsSay, LogComplete
<1>4. ASSUME NEW u \in LogUnits, disable_log(u)
      PROVE  LogInd'
  <2>1. /\ log_open' = [log_open EXCEPT ![u] = FALSE]
        /\ log_error' = [log_error EXCEPT ![u] = @ \/ ~log_open[u]]
        /\ log_on' = [log_on EXCEPT ![u] = FALSE]
        /\ initialized' = [initialized EXCEPT ![u] = FALSE]
        /\ asked' = [asked EXCEPT ![u] = "disable"]
        /\ reached' = [reached EXCEPT ![u] = FALSE]
        /\ UNCHANGED <<log_file, messages>>
    BY <1>4 DEF disable_log
  <2>2. LogTypeOK'
    BY <2>1 DEF LogInd, LogTypeOK
  <2>3. StreamsSay'
    <3> SUFFICES ASSUME NEW w \in LogUnits
                 PROVE  /\ log_on'[w] <=> asked'[w] # "disable"
                        /\ log_open'[w] <=> reached'[w]
                        /\ log_open'[w] => ~log_error'[w]
      BY DEF StreamsSay
    <3>1. CASE w = u
      BY <2>1, <3>1 DEF LogInd, LogTypeOK
    <3>2. CASE w # u
      BY <2>1, <3>2 DEF LogInd, LogTypeOK, StreamsSay
    <3> QED
      BY <3>1, <3>2
  <2> QED
    BY <2>1, <2>2, <2>3 DEF LogInd, LogComplete
<1> QED
  BY <1>1, <1>2, <1>3, <1>4, LogKeeps DEF LogNext

\* log.txt has exactly the messages of the units that had reached it, in the
\* order of the calls, for any number of translation units and messages.
THEOREM LogCorrect == LogSpec => []LogComplete
<1>1. LogInit => LogInd
  BY LogIndInit
<1>2. LogInd /\ [LogNext]_logVars => LogInd'
  BY LogIndNext
<1>3. LogInd => LogComplete
  BY DEF LogInd
<1> QED
  BY <1>1, <1>2, <1>3, PTL DEF LogSpec

-----------------------------------------------------------------------------
(***************************************************************************)
(* Division.                                                               *)
(***************************************************************************)

\* What \div and % leave is the number, and less than the divisor.
LEMMA DivMod ==
    ASSUME NEW a \in Int, NEW b \in Nat \ {0}
    PROVE  a = b * (a \div b) + (a % b) /\ a % b \in 0..b - 1 /\ a \div b \in Int
OBVIOUS

\* The quotient and the rest are determined by that.
LEMMA ModUnique ==
    ASSUME NEW a \in Int, NEW b \in Nat \ {0}, NEW q \in Int, NEW r \in 0..b - 1,
           a = b * q + r
    PROVE  a % b = r
BY DivMod

-----------------------------------------------------------------------------
(***************************************************************************)
(* The generator.                                                          *)
(***************************************************************************)

GenData == [minitial_value : Nat, mvalue : Nat, mstep : Nat]

\* x is n steps from the initial value, some times around.
Reached(g, x, n) ==
    \E q \in Int : x = g.minitial_value + n * g.mstep - IdRange * q

\* The inductive invariant: as long as nobody rewinds, the ids and the
\* value lie one step apart, modulo 2^64.
GenInd ==
    /\ gen \in GenData /\ copied \in GenData /\ issued \in Seq(Nat)
    /\ ~rewound => /\ Reached(gen, gen.mvalue, Len(issued))
                   /\ \A i \in 1..Len(issued) : Reached(gen, issued[i], i)

\* A generator starts at its initial value.
LEMMA GenIndInit == GenInit => GenInd
<1> SUFFICES ASSUME GenInit
             PROVE  GenInd
  OBVIOUS
<1>1. PICK v \in Starts, s \in Steps : gen = Data(v, s)
  BY DEF GenInit
<1>2. v \in Nat /\ s \in Nat /\ gen \in GenData /\ gen.mvalue = gen.minitial_value
      /\ gen.mvalue \in Nat /\ gen.mstep \in Nat
  BY <1>1, GenAssumption DEF Data, GenData
<1>3. issued = <<>> /\ issued \in Seq(Nat) /\ Len(issued) = 0 /\ copied = gen
  BY EmptySeq DEF GenInit
<1>4. Reached(gen, gen.mvalue, 0)
  <2>1. gen.mvalue = gen.minitial_value + 0 * gen.mstep - IdRange * 0
    BY <1>2, GenAssumption
  <2> QED
    BY <2>1 DEF Reached
<1> QED
  BY <1>2, <1>3, <1>4 DEF GenInd

\* next() goes one step further.
LEMMA NextReached ==
    ASSUME NEW g \in GenData, NEW n \in Nat, Reached(g, g.mvalue, n)
    PROVE  Reached(g, NextValue(g), n + 1)
<1> DEFINE v == g.minitial_value
           s == g.mstep
           x == g.mvalue
<1>1. v \in Nat /\ s \in Nat /\ x \in Nat /\ IdRange \in Nat \ {0}
  BY GenAssumption DEF GenData
<1>2. PICK q \in Int : x = v + n * s - IdRange * q
  BY DEF Reached
<1>3. NextValue(g) = (x + s) % IdRange
  BY DEF NextValue
<1> HIDE DEF v, s, x
<1> DEFINE d == (x + s) \div IdRange
<1>4. d \in Int /\ x + s = IdRange * d + ((x + s) % IdRange)
  <2>1. x + s \in Int
    BY <1>1
  <2> QED
    BY <1>1, <2>1, DivMod
<1> HIDE DEF d
<1>5. (x + s) % IdRange \in Int
  BY <1>1
<1>6. (x + s) % IdRange = v + (n + 1) * s - IdRange * (q + d)
  <2>1. (n + 1) * s = n * s + s /\ IdRange * (q + d) = IdRange * q + IdRange * d
    BY <1>1, <1>4
  <2>2. n * s \in Int /\ IdRange * q \in Int /\ IdRange * d \in Int
    BY <1>1, <1>4
  <2> QED
    BY <1>1, <1>2, <1>4, <1>5, <2>1, <2>2
<1>7. q + d \in Int
  BY <1>4
<1> QED
  BY <1>3, <1>6, <1>7 DEF Reached, v, s

\* An id taken from the generator, by get_id or by clone.
LEMMA GetIdKeeps ==
    ASSUME GenInd,
           gen' = [gen EXCEPT !.mvalue = NextValue(gen)],
           issued' = Append(issued, NextValue(gen)),
           copied' \in GenData, rewound' = rewound
    PROVE  GenInd'
<1>1. gen \in GenData /\ issued \in Seq(Nat) /\ Len(issued) \in Nat
  BY LenProperties DEF GenInd
<1>2. NextValue(gen) \in Nat
  <2>1. gen.mvalue \in Nat /\ gen.mstep \in Nat
    BY <1>1 DEF GenData
  <2> QED
    BY <2>1, GenAssumption DEF NextValue
<1>3. /\ gen' \in GenData /\ gen'.mvalue = NextValue(gen)
      /\ gen'.minitial_value = gen.minitial_value /\ gen'.mstep = gen.mstep
  BY <1>1, <1>2 DEF GenData
<1>4. /\ issued' \in Seq(Nat) /\ Len(issued') = Len(issued) + 1
      /\ issued'[Len(issued) + 1] = NextValue(gen)
      /\ \A i \in 1..Len(issued) : issued'[i] = issued[i]
  BY <1>1, <1>2, AppendProperties
<1>5. \A x, n : Reached(gen', x, n) <=> Reached(gen, x, n)
  BY <1>3 DEF Reached
<1>6. ASSUME ~rewound'
      PROVE  /\ Reached(gen', gen'.mvalue, Len(issued'))
             /\ \A i \in 1..Len(issued') : Reached(gen', issued'[i], i)
  <2>1. Reached(gen, NextValue(gen), Len(issued) + 1)
    BY <1>1, <1>6, NextReached DEF GenInd
  <2>2. \A i \in 1..Len(issued) : Reached(gen, issued[i], i)
    BY <1>6 DEF GenInd
  <2>3. ASSUME NEW i \in 1..Len(issued')
        PROVE  Reached(gen', issued'[i], i)
    <3>1. i \in 1..Len(issued) \/ i = Len(issued) + 1
      BY <1>1, <1>4
    <3> QED
      BY <1>4, <1>5, <2>1, <2>2, <3>1
  <2> QED
    BY <1>3, <1>4, <1>5, <2>1, <2>3
<1> QED
  BY <1>3, <1>4, <1>6 DEF GenInd

\* Every step of the generator keeps its invariant.
LEMMA GenIndNext == GenInd /\ [GenNext]_genVars => GenInd'
<1> SUFFICES ASSUME GenInd, [GenNext]_genVars
             PROVE  GenInd'
  OBVIOUS
<1>0. /\ gen \in GenData /\ copied \in GenData /\ issued \in Seq(Nat)
      /\ gen.minitial_value \in Nat /\ gen.mstep \in Nat
      /\ copied.mvalue \in Nat /\ copied.mstep \in Nat
      /\ <<>> \in Seq(Nat)
  BY EmptySeq DEF GenInd, GenData
<1>1. CASE UNCHANGED genVars
  BY <1>1 DEF genVars, GenInd, Reached
<1>2. CASE get_id
  BY <1>0, <1>2, GetIdKeeps DEF get_id
<1>3. CASE clone
  <2>1. copied' \in GenData
    BY <1>0, <1>3 DEF clone, Data, GenData
  <2> QED
    BY <1>3, <2>1, GetIdKeeps DEF clone
<1>4. CASE clone_get_id
  <2>1. NextValue(copied) \in Nat
    BY <1>0, GenAssumption DEF NextValue
  <2>2. copied' \in GenData
    BY <1>0, <1>4, <2>1 DEF clone_get_id, GenData
  <2>3. issued' \in Seq(Nat)
    BY <1>0, <1>4, <2>1, AppendProperties DEF clone_get_id
  <2> QED
    BY <1>0, <1>4, <2>2, <2>3 DEF clone_get_id, GenInd
<1>5. ASSUME NEW v \in Starts, set_value(v)
      PROVE  GenInd'
  <2>1. gen' \in GenData
    BY <1>0, <1>5, GenAssumption DEF set_value, GenData
  <2> QED
    BY <1>0, <1>5, <2>1 DEF set_value, GenInd
<1>6. ASSUME NEW v \in Starts, NEW s \in Steps, gen_initialize(v, s)
      PROVE  GenInd'
  <2>1. gen' \in GenData
    BY <1>6, GenAssumption DEF gen_initialize, Data, GenData
  <2> QED
    BY <1>0, <1>6, <2>1 DEF gen_initialize, GenInd
<1> QED
  BY <1>1, <1>2, <1>3, <1>4, <1>5, <1>6 DEF GenNext

\* Equal ids are a whole number of times around apart.
LEMMA GenIndImplies == GenInd => IdsUnique
<1> SUFFICES ASSUME GenInd, ~rewound, NEW i \in 1..Len(issued), NEW j \in 1..Len(issued),
                    issued[i] = issued[j]
             PROVE  ((i - j) * gen.mstep) % IdRange = 0
  BY DEF IdsUnique
<1> DEFINE v == gen.minitial_value
           s == gen.mstep
<1>1. v \in Nat /\ s \in Nat /\ IdRange \in Nat \ {0} /\ i \in Nat /\ j \in Nat
  BY GenAssumption, LenProperties DEF GenInd, GenData
<1>2. PICK p \in Int : issued[i] = v + i * s - IdRange * p
  BY DEF GenInd, Reached
<1>3. PICK q \in Int : issued[j] = v + j * s - IdRange * q
  BY DEF GenInd, Reached
<1> HIDE DEF v, s
<1>4. (i - j) * s = IdRange * (p - q) + 0
  <2>1. (i - j) * s = i * s - j * s /\ IdRange * (p - q) = IdRange * p - IdRange * q
    BY <1>1
  <2>2. i * s \in Int /\ j * s \in Int /\ IdRange * p \in Int /\ IdRange * q \in Int
    BY <1>1
  <2>3. v + i * s - IdRange * p = v + j * s - IdRange * q
    BY <1>2, <1>3
  <2> QED
    BY <1>1, <2>1, <2>2, <2>3
<1>5. (i - j) * s \in Int /\ p - q \in Int /\ 0 \in 0..IdRange - 1
  BY <1>1
<1>6. ((i - j) * s) % IdRange = 0
  BY <1>1, <1>4, <1>5, ModUnique
<1> QED
  BY <1>6 DEF s

\* Two equal ids of a generator lie a whole number of times around 2^64
\* apart, whatever its step and its initial value, as long as its value is
\* not set and no clone is asked.
THEOREM GeneratorCorrect == GenSpec => []IdsUnique
<1>1. GenInit => GenInd
  BY GenIndInit
<1>2. GenInd /\ [GenNext]_genVars => GenInd'
  BY GenIndNext
<1>3. GenInd => IdsUnique
  BY GenIndImplies
<1> QED
  BY <1>1, <1>2, <1>3, PTL DEF GenSpec

-----------------------------------------------------------------------------
(***************************************************************************)
(* StopWatch.                                                              *)
(***************************************************************************)

WatchTypeOK ==
    /\ clock \in Nat /\ mrunning \in BOOLEAN
    /\ mstart \in Int /\ mlast \in Int /\ mmark \in Int
    /\ began \in 0..clock \cup {Never} /\ ended \in 0..clock \cup {Never}
    /\ marked \in 0..clock \cup {Never}

\* The inductive invariant: the watch's three times are those of the
\* history, and it runs if it was started and not stopped since.
WatchInd ==
    /\ WatchTypeOK
    /\ mrunning <=> began # Never /\ ended = Never
    /\ mstart = IF began = Never THEN ZERO ELSE began
    /\ ended # Never => mlast = ended
    /\ began = Never /\ ended = Never => mlast = ZERO
    /\ mmark = IF marked = Never THEN ZERO ELSE marked

\* A new watch, running or not, is at zero.
LEMMA WatchIndInit == WatchInit => WatchInd
BY WatchAssumption DEF WatchInit, WatchInd, WatchTypeOK, ZERO, Never

\* Every step of the watch keeps its invariant.
LEMMA WatchIndNext == WatchInd /\ [WatchNext]_watchVars => WatchInd'
<1> SUFFICES ASSUME WatchInd, [WatchNext]_watchVars
             PROVE  WatchInd'
  OBVIOUS
<1> USE DEF ZERO, Never
<1>1. CASE UNCHANGED watchVars
  BY <1>1 DEF watchVars, WatchInd, WatchTypeOK
<1>2. CASE start
  BY <1>2 DEF start, Runs, WatchInd, WatchTypeOK
<1>3. CASE reset
  BY <1>3 DEF reset, Runs, WatchInd, WatchTypeOK
<1>4. CASE stop
  <2>1. /\ mlast' = clock /\ ended' = clock /\ clock \in Nat /\ clock # Never
        /\ UNCHANGED <<clock, mstart, mmark, began, marked>>
    BY <1>4 DEF stop, WatchInd, WatchTypeOK
  <2>2. mrunning' = FALSE
    BY <1>4 DEF stop
  <2>3. WatchTypeOK'
    <3>1. mrunning' \in BOOLEAN
      BY <2>2
    <3> QED
      BY <2>1, <3>1 DEF WatchInd, WatchTypeOK
  <2>4. mrunning' <=> began' # Never /\ ended' = Never
    BY <2>1, <2>2, Zenon
  <2> QED
    BY <2>1, <2>3, <2>4 DEF WatchInd
<1>5. CASE mark
  BY <1>5 DEF mark, WatchInd, WatchTypeOK
<1>6. CASE tick
  BY <1>6 DEF tick, WatchInd, WatchTypeOK
<1> QED
  BY <1>1, <1>2, <1>3, <1>4, <1>5, <1>6 DEF WatchNext

\* A unit is a whole number of the next smaller ones, so what the larger
\* units leave of a time t is, modulo the unit, what t is.
LEMMA UnitsNest ==
    ASSUME NEW t \in Nat, NEW k \in 2..Len(UNITS)
    PROVE  /\ Field(t, k) * UNITS[k] = (t % UNITS[k - 1]) - (t % UNITS[k])
           /\ Field(t, k) * UNITS[k] < UNITS[k - 1]
<1> DEFINE b == UNITS[k - 1]
           c == UNITS[k]
           r == t % b
           f == r \div c
           s == r % c
           a == t \div b
           m == b \div c
<1>1. b \in Nat \ {0} /\ c \in Nat \ {0} /\ b % c = 0
  <2>1. Len(UNITS) \in Nat
    BY WatchAssumption, LenProperties
  <2>2. k - 1 \in 1..Len(UNITS) - 1 /\ k - 1 \in 1..Len(UNITS) /\ k \in 1..Len(UNITS)
        /\ k - 1 + 1 = k
    BY <2>1
  <2>3. b \in Nat \ {0} /\ c \in Nat \ {0}
    BY <2>2, WatchAssumption, ElementOfSeq
  <2>4. UNITS[k - 1] % UNITS[k - 1 + 1] = 0
    BY <2>2, WatchAssumption
  <2> QED
    BY <2>2, <2>3, <2>4
<1>2. Field(t, k) = f /\ t \in Int
  BY DEF Field
<1> HIDE DEF b, c
<1>3. t = b * a + r /\ r \in 0..b - 1 /\ a \in Int
  BY <1>1, <1>2, DivMod
<1>4. b = c * m + 0 /\ m \in Int
  BY <1>1, DivMod
<1> HIDE DEF r, a, m
<1>5. r = c * f + s /\ s \in 0..c - 1 /\ f \in Int
  <2>1. r \in Int
    BY <1>1, <1>3
  <2> QED
    BY <1>1, <2>1, DivMod
<1> HIDE DEF f, s
<1>6. t = c * (m * a + f) + s
  <2>1. b * a = c * (m * a)
    BY <1>1, <1>3, <1>4
  <2>2. c * (m * a + f) = c * (m * a) + c * f
    BY <1>1, <1>3, <1>4, <1>5
  <2>3. m * a \in Int /\ c * (m * a) \in Int /\ c * f \in Int
    BY <1>1, <1>3, <1>4, <1>5
  <2> QED
    BY <1>3, <1>5, <2>1, <2>2, <2>3
<1>7. t % c = s
  <2> DEFINE q == m * a + f
  <2>1. q \in Int
    BY <1>3, <1>4, <1>5
  <2>2. t = c * q + s
    BY <1>6
  <2> HIDE DEF q
  <2> QED
    BY <1>1, <1>2, <1>5, <2>1, <2>2, ModUnique
<1>8. f * c = r - s /\ f * c < b
  <2>1. c * f = f * c /\ f * c \in Int
    BY <1>1, <1>5
  <2> QED
    BY <1>1, <1>3, <1>5, <2>1
<1> QED
  BY <1>2, <1>7, <1>8 DEF b, c, r

\* What the first k fields tell: the time without what is less than a unit.
LEMMA ToldIs ==
    ASSUME NEW t \in Nat
    PROVE  \A k \in 1..Len(UNITS) : Told(elapsed_formatted(t))[k] = t - (t % UNITS[k])
<1> DEFINE n == Len(UNITS)
           f == elapsed_formatted(t)
           w == [k \in 0..n |-> IF k = 0 THEN 0 ELSE t - (t % UNITS[k])]
           g == Told(f)
<1>1. n \in Nat /\ \A k \in 1..n : UNITS[k] \in Nat \ {0}
  BY WatchAssumption, LenProperties, ElementOfSeq
<1>2. \A k \in 1..n : f[k] = Field(t, k)
  BY <1>1, WatchAssumption, LenProperties DEF elapsed_formatted
<1>3. \A k \in 1..n : w[k] = w[k - 1] + f[k] * UNITS[k]
  <2> SUFFICES ASSUME NEW k \in 1..n
               PROVE  w[k] = w[k - 1] + Field(t, k) * UNITS[k]
    BY <1>2
  <2>1. CASE k = 1
    <3>1. w[1] = t - (t % UNITS[1]) /\ w[0] = 0
      BY <1>1, <2>1
    <3>2. UNITS[1] \in Nat \ {0} /\ t \in Int
      BY <1>1, <2>1
    <3>3. t = UNITS[1] * (t \div UNITS[1]) + (t % UNITS[1])
          /\ t % UNITS[1] \in 0..UNITS[1] - 1 /\ t \div UNITS[1] \in Int
      BY <3>2, DivMod
    <3>4. Field(t, 1) = t \div UNITS[1]
      BY DEF Field
    <3> HIDE DEF w
    <3>5. t - (t % UNITS[1]) = 0 + (t \div UNITS[1]) * UNITS[1]
      BY <3>2, <3>3
    <3> QED
      BY <2>1, <3>1, <3>4, <3>5
  <2>2. CASE k # 1
    <3>1. k \in 2..n /\ k - 1 \in 1..n
      BY <1>1, <2>2
    <3>2. w[k] = t - (t % UNITS[k]) /\ w[k - 1] = t - (t % UNITS[k - 1])
      BY <1>1, <3>1
    <3>3. Field(t, k) * UNITS[k] = (t % UNITS[k - 1]) - (t % UNITS[k])
      BY <3>1, UnitsNest
    <3>4. t % UNITS[k - 1] \in Int /\ t % UNITS[k] \in Int
      BY <1>1, <3>1
    <3> HIDE DEF w
    <3> QED
      BY <3>2, <3>3, <3>4
  <2> QED
    BY <2>1, <2>2
<1> HIDE DEF f
<1>4. w = [k \in 0..n |-> IF k = 0 THEN 0 ELSE w[k - 1] + f[k] * UNITS[k]]
  <2>1. \A k \in 0..n : w[k] = IF k = 0 THEN 0 ELSE w[k - 1] + f[k] * UNITS[k]
    <3>1. w[0] = 0
      BY <1>1
    <3>2. \A k \in 0..n : k # 0 => k \in 1..n
      BY <1>1
    <3> HIDE DEF w
    <3> QED
      BY <1>3, <3>1, <3>2
  <2>2. DOMAIN w = 0..n /\ w = [k \in 0..n |-> w[k]]
    OBVIOUS
  <2> HIDE DEF w
  <2> QED
    BY <2>1, <2>2
<1>10. \A k \in 1..n : w[k] = t - (t % UNITS[k])
  BY <1>1
<1> HIDE DEF w
<1>5. g = [k \in 0..n |-> IF k = 0 THEN 0 ELSE g[k - 1] + f[k] * UNITS[k]]
  BY <1>4 DEF Told
<1> HIDE DEF g
<1> DEFINE S == {k \in Nat : k <= n => g[k] = w[k]}
<1>6. 0 \in S
  BY <1>1, <1>4, <1>5
<1>7. ASSUME NEW k \in Nat, k \in S
      PROVE  k + 1 \in S
  <2> SUFFICES ASSUME k + 1 <= n
               PROVE  g[k + 1] = w[k + 1]
    OBVIOUS
  <2>1. k + 1 \in 0..n /\ k + 1 # 0 /\ k + 1 - 1 = k /\ k <= n
    BY <1>1
  <2>2. g[k] = w[k]
    BY <1>7, <2>1
  <2>3. g[k + 1] = g[k] + f[k + 1] * UNITS[k + 1]
    BY <1>5, <2>1
  <2>4. w[k + 1] = w[k] + f[k + 1] * UNITS[k + 1]
    BY <1>4, <2>1
  <2> QED
    BY <2>2, <2>3, <2>4
<1>8. Nat \subseteq S
  <2> HIDE DEF S
  <2> QED
    BY <1>6, <1>7, NatInductive
<1>9. \A k \in 1..n : g[k] = w[k]
  BY <1>1, <1>8
<1> QED
  BY <1>9, <1>10 DEF g, f

\* The invariant says what WatchExact says.
LEMMA WatchIndImplies == WatchInd => WatchExact
<1> SUFFICES ASSUME WatchInd
             PROVE  WatchExact
  OBVIOUS
<1>1. ElapsedExact
  BY DEF WatchInd, WatchTypeOK, ElapsedExact, elapsed, ZERO, Never
<1>2. SinceMarkExact
  BY DEF WatchInd, WatchTypeOK, SinceMarkExact, elapsed_since_mark, ZERO, Never
<1>3. FormattedExact
  <2>1. Len(UNITS) \in Nat /\ DOMAIN UNITS = 1..Len(UNITS) /\ clock \in Nat
        /\ Len(UNITS) # 0 /\ UNITS[Len(UNITS)] = 1
    BY WatchAssumption, LenProperties, EmptySeq DEF WatchInd, WatchTypeOK
  <2>2. ASSUME NEW k \in DOMAIN UNITS, k > 1
        PROVE  elapsed_formatted(clock)[k] * UNITS[k] < UNITS[k - 1]
    <3>1. k \in 2..Len(UNITS)
      BY <2>1, <2>2
    <3> QED
      BY <2>1, <3>1, UnitsNest DEF elapsed_formatted
  <2>3. clock = Told(elapsed_formatted(clock))[Len(UNITS)]
    <3>1. Len(UNITS) \in 1..Len(UNITS)
      BY <2>1
    <3>2. Told(elapsed_formatted(clock))[Len(UNITS)] = clock - (clock % UNITS[Len(UNITS)])
      BY <2>1, <3>1, ToldIs
    <3>3. clock % 1 = 0
      BY <2>1
    <3> QED
      BY <2>1, <3>2, <3>3
  <2> QED
    BY <2>2, <2>3 DEF FormattedExact
<1> QED
  BY <1>1, <1>2, <1>3 DEF WatchExact

\* What the watch shows is what was measured between its start and its stop,
\* and the fields of its text say that time, whatever the clock shows and
\* whatever the units, if each is a multiple of the next.
THEOREM WatchCorrect == WatchSpec => []WatchExact
<1>1. WatchInit => WatchInd
  BY WatchIndInit
<1>2. WatchInd /\ [WatchNext]_watchVars => WatchInd'
  BY WatchIndNext
<1>3. WatchInd => WatchExact
  BY WatchIndImplies
<1> QED
  BY <1>1, <1>2, <1>3, PTL DEF WatchSpec

-----------------------------------------------------------------------------
(***************************************************************************)
(* Arrays and constraints.                                                 *)
(***************************************************************************)

\* compare_first and compare_range look at no element beyond the array, for
\* every index and count of size_t, unless their sum wraps around.
THEOREM ComparisonsInside ==
    ASSUME NEW index \in 0..Wrap - 1, NEW count \in 0..Wrap - 1
    PROVE  ComparesInside(index, count)
<1>1. Size \in Nat /\ Wrap \in Nat /\ Wrap > Size /\ Size > 0
  BY ChecksAssumption
<1>2. index \in Nat /\ count \in Nat /\ index + count \in Nat
  BY <1>1
<1>3. compare_first(count) \subseteq 0..Size - 1
  BY <1>1, <1>2 DEF compare_first, Clamped
<1>4. ASSUME index + count < Wrap, compare_range(index, count) # None
      PROVE  compare_range(index, count) \subseteq 0..Size - 1 /\ ~at_throws(index)
  <2>1. (index + count) % Wrap = index + count
    <3> DEFINE n == index + count
    <3>1. n \in 0..Wrap - 1
      BY <1>1, <1>2, <1>4
    <3> HIDE DEF n
    <3>2. n % Wrap = n
      BY <1>1, <3>1
    <3> QED
      BY <3>2 DEF n
  <2>2. index < Size /\ index + count <= Size
    BY <1>1, <1>2, <1>4, <2>1 DEF compare_range
  <2>3. compare_range(index, count) = index..index + count - 1
    BY <1>4 DEF compare_range
  <2>4. index..index + count - 1 \subseteq 0..Size - 1
    BY <1>1, <1>2, <2>2
  <2> QED
    BY <1>1, <1>2, <2>2, <2>3, <2>4 DEF at_throws
<1> QED
  BY <1>3, <1>4 DEF ComparesInside

\* c says whether element is in the array a, and where it is first.
IsFirst(c, a, element) ==
    /\ c.found <=> \E i \in 1..Size : a[i] = element
    /\ c.found => /\ c.index \in 0..Size - 1
                  /\ a[c.index + 1] = element
                  /\ \A i \in 1..c.index : a[i] # element
                  /\ \A i \in 1..Size : a[i] = element => c.index <= i - 1

\* contains of an array.
LEMMA ContainsIs ==
    ASSUME NEW a, NEW element
    PROVE  IsFirst(contains(a, element), a, element)
<1> DEFINE at == {i \in 0..Size - 1 : a[i + 1] = element}
           c == contains(a, element)
<1>1. Size \in Nat
  BY ChecksAssumption
<1>2. c = IF at = {} THEN [found |-> FALSE, index |-> Wrap - 1]
          ELSE [found |-> TRUE, index |-> Min(at)]
  BY DEF contains
<1>3. \A i \in 1..Size : a[i] = element => i - 1 \in at
  <2> SUFFICES ASSUME NEW i \in 1..Size, a[i] = element
               PROVE  i - 1 \in at
    OBVIOUS
  <2>1. i - 1 \in 0..Size - 1 /\ i - 1 + 1 = i
    BY <1>1
  <2> QED
    BY <2>1
<1>4. \A j \in at : j \in 0..Size - 1 /\ a[j + 1] = element /\ j + 1 \in 1..Size
  BY <1>1
<1>5. c.found <=> at # {}
  BY <1>2
<1>6. at \in SUBSET Nat
  BY <1>1
<1> HIDE DEF at, c
<1>7. c.found <=> \E i \in 1..Size : a[i] = element
  BY <1>3, <1>4, <1>5
<1>8. ASSUME c.found
      PROVE  /\ c.index \in 0..Size - 1 /\ a[c.index + 1] = element
             /\ \A i \in 1..c.index : a[i] # element
             /\ \A i \in 1..Size : a[i] = element => c.index <= i - 1
  <2> DEFINE m == c.index
  <2>1. m = Min(at) /\ at # {}
    BY <1>2, <1>5, <1>8
  <2>2. m \in at /\ \A j \in at : m <= j
    BY <1>6, <2>1, MinIsIn
  <2> HIDE DEF m
  <2>3. m \in 0..Size - 1 /\ a[m + 1] = element
    BY <1>4, <2>2
  <2>4. \A i \in 1..Size : a[i] = element => m <= i - 1
    BY <1>3, <2>2
  <2>5. ASSUME NEW i \in 1..m, a[i] = element
        PROVE  FALSE
    <3>1. i \in 1..Size /\ ~(m <= i - 1)
      BY <1>1, <2>3
    <3> QED
      BY <2>4, <2>5, <3>1
  <2> QED
    BY <2>3, <2>4, <2>5 DEF m
<1> QED
  BY <1>7, <1>8 DEF c, IsFirst

\* contains gives the first index of an array made from any list, and fill
\* brings the element to the front.
THEOREM ContainsFirst ==
    ASSUME NEW init \in Seq(Int), NEW element \in Int, NEW count \in Nat
    PROVE  ContainsExact(init, element, count)
<1> DEFINE a == CArray(init)
           b == fill(a, element, count)
           c == contains(a, element)
           f == contains(b, element)
<1>1. Size \in Nat /\ Size > 0 /\ 1 \in 1..Size
  BY ChecksAssumption
<1>2. DOMAIN a = 1..Size /\ DOMAIN b = 1..Size
  BY DEF CArray, fill
<1>3. \A i \in 1..Size : b[i] = IF i <= Clamped(count) THEN element ELSE a[i]
  BY DEF fill
<1>4. count > 0 => 1 <= Clamped(count)
  BY <1>1 DEF Clamped
<1>5. Range(a) = {a[i] : i \in 1..Size}
  BY <1>2 DEF Range
<1> HIDE DEF a, b
<1>6. /\ c.found <=> \E i \in 1..Size : a[i] = element
      /\ c.found => /\ c.index \in 0..Size - 1 /\ a[c.index + 1] = element
                    /\ \A i \in 1..c.index : a[i] # element
  BY ContainsIs DEF IsFirst
<1>7. /\ f.found <=> \E i \in 1..Size : b[i] = element
      /\ f.found => /\ f.index \in 0..Size - 1
                    /\ \A i \in 1..Size : b[i] = element => f.index <= i - 1
  BY ContainsIs DEF IsFirst
<1>8. ContainsExact(init, element, count) <=>
         /\ c.found <=> element \in Range(a)
         /\ c.found => /\ a[c.index + 1] = element /\ ~at_throws(c.index)
                       /\ \A i \in 1..c.index : a[i] # element
         /\ count > 0 => f.found /\ f.index = 0
         /\ c.found => f.found /\ f.index <= c.index
  BY DEF ContainsExact, a, b
<1> HIDE DEF c, f
<1>9. c.found <=> element \in Range(a)
  BY <1>5, <1>6
<1>10. c.found => ~at_throws(c.index)
  BY <1>1, <1>6 DEF at_throws
<1>11. ASSUME count > 0
       PROVE  f.found /\ f.index = 0
  <2>1. b[1] = element
    BY <1>1, <1>3, <1>4, <1>11
  <2> QED
    BY <1>1, <1>7, <2>1
<1>12. ASSUME c.found
       PROVE  f.found /\ f.index <= c.index
  <2> DEFINE i == c.index + 1
  <2>1. i \in 1..Size /\ a[i] = element /\ i - 1 = c.index
    BY <1>1, <1>6, <1>12
  <2> HIDE DEF i
  <2>2. b[i] = element
    BY <1>3, <2>1
  <2> QED
    BY <1>7, <2>1, <2>2
<1> QED
  BY <1>6, <1>8, <1>9, <1>10, <1>11, <1>12

\* A composite of two range constraints holds for the intersection, the union
\* and the symmetric difference of the ranges, for any bounds.
LEMMA CompositesAreSets ==
    ASSUME NEW l \in Int \X Int, NEW r \in Int \X Int, NEW T \in SUBSET Int
    PROVE  ConstraintsExact(l, r, T)
<1>1. l[1] \in Int /\ l[2] \in Int /\ r[1] \in Int /\ r[2] \in Int
  OBVIOUS
<1>2. \A t \in T : /\ RangeOk(l, t) <=> t \in l[1]..l[2]
                   /\ RangeOk(r, t) <=> t \in r[1]..r[2]
  BY <1>1 DEF RangeOk
<1>3. \A p, q \in BOOLEAN : /\ CompositeOk("AND", p, q) <=> p /\ q
                            /\ CompositeOk("OR", p, q) <=> p \/ q
                            /\ CompositeOk("XOR", p, q) <=> p # q
  BY DEF CompositeOk, AndOperand, OrOperand, XorOperand
<1>4. \A t \in T : RangeOk(l, t) \in BOOLEAN /\ RangeOk(r, t) \in BOOLEAN
  BY DEF RangeOk
<1> DEFINE L == l[1]..l[2]
           R == r[1]..r[2]
           Kept(op) == {t \in T : CompositeOk(op, RangeOk(l, t), RangeOk(r, t))}
<1> HIDE DEF L, R
<1>5. \A t \in T : /\ CompositeOk("AND", RangeOk(l, t), RangeOk(r, t)) <=> t \in L /\ t \in R
                   /\ CompositeOk("OR", RangeOk(l, t), RangeOk(r, t)) <=> t \in L \/ t \in R
                   /\ CompositeOk("XOR", RangeOk(l, t), RangeOk(r, t)) <=>
                         ~(t \in L <=> t \in R)
  BY <1>2, <1>3, <1>4 DEF L, R
<1>6. /\ Kept("AND") = L \cap R \cap T /\ Kept("OR") = (L \cup R) \cap T
      /\ Kept("XOR") = ((L \cup R) \ (L \cap R)) \cap T
  BY <1>5
<1> QED
  BY <1>6 DEF ConstraintsExact, L, R

-----------------------------------------------------------------------------
(***************************************************************************)
(* Result.                                                                 *)
(***************************************************************************)

\* What may be assigned to a Result: values of V, Bools, error messages of E.
AssignedOf(V, E) ==
    [kind : {"value"}, v : V] \cup [kind : {"bool"}, v : Bools] \cup [kind : {"error"}, v : E]

Results(V) == [mresult : V \cup {"first"}, mok : Bools, error : BOOLEAN]

\* An assignment.
LEMMA AssignIs ==
    ASSUME NEW V, NEW E, NEW r \in Results(V), NEW a \in AssignedOf(V, E)
    PROVE  /\ Assign(r, a) \in Results(V)
           /\ Assign(r, a).mok = IF a.kind = "value" THEN r.mok
                                 ELSE IF a.kind = "bool" THEN a.v ELSE "F"
           /\ Assign(r, a).error <=> r.error \/ a.kind = "error"
<1>1. r \in [mresult : V \cup {"first"}, mok : Bools, error : BOOLEAN] /\ "F" \in Bools
  BY DEF Results, Bools
<1>2. CASE a \in [kind : {"value"}, v : V]
  <2>1. Assign(r, a) = [r EXCEPT !.mresult = a.v]
    BY <1>2 DEF Assign
  <2> QED
    BY <1>1, <1>2, <2>1 DEF Results
<1>3. CASE a \in [kind : {"bool"}, v : Bools]
  <2>1. Assign(r, a) = [r EXCEPT !.mok = a.v]
    BY <1>3 DEF Assign
  <2> QED
    BY <1>1, <1>3, <2>1 DEF Results
<1>4. CASE a \in [kind : {"error"}, v : E]
  <2>1. Assign(r, a) = [r EXCEPT !.mok = "F", !.error = TRUE]
    BY <1>4 DEF Assign
  <2> DEFINE q == [r EXCEPT !.mok = "F", !.error = TRUE]
  <2>2. q \in [mresult : V \cup {"first"}, mok : Bools, error : BOOLEAN]
    BY <1>1
  <2>3. q.mok = "F" /\ q.error = TRUE
    BY <1>1
  <2> HIDE DEF q
  <2> QED
    BY <1>1, <1>4, <2>1, <2>2, <2>3 DEF Results, q
<1> QED
  BY <1>2, <1>3, <1>4 DEF AssignedOf

\* g has the result after each of the assignments.
Becomes(g, s, V) ==
    /\ g \in [0..Len(s) -> Results(V)] /\ g[0] = Result("first")
    /\ \A n \in 1..Len(s) : g[n] = Assign(g[n - 1], s[n])

\* After makes one assignment after the other.
LEMMA AfterBecomes ==
    ASSUME NEW V, NEW E, NEW s \in Seq(AssignedOf(V, E))
    PROVE  \E g : Becomes(g, s, V) /\ After(s) = g[Len(s)]
<1> DEFINE X == Results(V)
           m == Len(s)
           first == Result("first")
           Is(g) == g = [n \in 0..m |-> IF n = 0 THEN first ELSE Assign(g[n - 1], s[n])]
           w == CHOOSE g : Is(g)
           G == [x \in (1..m) \X X |-> Assign(x[2], s[x[1]])]
<1>1. m \in Nat /\ \A n \in 1..m : s[n] \in AssignedOf(V, E)
  OBVIOUS
<1>2. first \in X
  BY DEF Result, Results, Bools
<1>3. \A r \in X, a \in AssignedOf(V, E) : Assign(r, a) \in X
  BY AssignIs
<1>4. After(s) = w[Len(s)]
  BY DEF After
<1> HIDE DEF X, m, w, first
<1>5. ASSUME NEW n \in 1..m, NEW v \in X
      PROVE  G[<<n, v>>] = Assign(v, s[n])
  <2>1. <<n, v>> \in (1..m) \X X
    OBVIOUS
  <2> QED
    BY <2>1
<1>6. G \in [(1..m) \X X -> X]
  <2>1. ASSUME NEW x \in (1..m) \X X
        PROVE  Assign(x[2], s[x[1]]) \in X
    BY <1>1, <1>3
  <2> QED
    BY <2>1
<1> HIDE DEF G
<1>7. PICK g \in [0..m -> X] : RecursFrom(g, m, first, G)
  BY <1>1, <1>2, <1>6, IndexedRecursionExists
<1>8. Is(g)
  <2>1. g[0] = first
    BY <1>7 DEF RecursFrom
  <2>2. ASSUME NEW n \in 1..m
        PROVE  g[n] = Assign(g[n - 1], s[n])
    <3>1. n - 1 \in 0..m
      BY <1>1
    <3>2. g[n - 1] \in X
      BY <1>7, <3>1
    <3> QED
      BY <1>5, <1>7, <3>2 DEF RecursFrom
  <2>3. ASSUME NEW n \in 0..m
        PROVE  g[n] = IF n = 0 THEN first ELSE Assign(g[n - 1], s[n])
    <3>1. n = 0 \/ n \in 1..m
      BY <1>1
    <3>2. n \in 1..m => n # 0
      BY <1>1
    <3> QED
      BY <2>1, <2>2, <3>1, <3>2, Zenon
  <2> QED
    BY <1>7, <2>3
<1>9. Is(w)
  BY <1>8 DEF w
<1>10. w[0] = first /\ \A n \in 1..m : w[n] = Assign(w[n - 1], s[n])
  BY <1>1, <1>9
<1>11. \A n \in 0..m : w[n] \in X
  <2> DEFINE T == {n \in Nat : n <= m => w[n] \in X}
  <2>1. 0 \in T
    BY <1>2, <1>10
  <2>2. ASSUME NEW n \in Nat, n \in T
        PROVE  n + 1 \in T
    <3> SUFFICES ASSUME n + 1 <= m
                 PROVE  w[n + 1] \in X
      OBVIOUS
    <3> DEFINE k == n + 1
    <3>1. k \in 1..m /\ k - 1 = n /\ w[n] \in X
      BY <1>1, <2>2
    <3> HIDE DEF k
    <3>2. w[k] = Assign(w[n], s[k]) /\ s[k] \in AssignedOf(V, E)
      BY <1>1, <1>10, <3>1
    <3> QED
      BY <1>3, <3>1, <3>2 DEF k
  <2>3. Nat \subseteq T
    <3> HIDE DEF T
    <3> QED
      BY <2>1, <2>2, NatInductive
  <2> QED
    BY <1>1, <2>3
<1>12. w \in [0..m -> X]
  BY <1>9, <1>11
<1> QED
  BY <1>4, <1>10, <1>12 DEF X, m, first, Becomes

\* The i-th of the first n assignments is the last that is no value.
DecidesBy(s, i, n) == s[i].kind # "value" /\ \A j \in i + 1..n : s[j].kind = "value"

\* The result after n assignments is good unless what decides is no Bool T,
\* and has an error if one was assigned.
GoodAfter(r, s, n) ==
    /\ AsBool(r.mok) <=>
          \A i \in 1..n : DecidesBy(s, i, n) => s[i].kind = "bool" /\ s[i].v = "T"
    /\ r.error <=> \E i \in 1..n : s[i].kind = "error"

\* One more assignment.
LEMMA GoodAfterOne ==
    ASSUME NEW V, NEW E, NEW s \in Seq(AssignedOf(V, E)), NEW n \in Nat, n + 1 <= Len(s),
           NEW r \in Results(V), GoodAfter(r, s, n)
    PROVE  GoodAfter(Assign(r, s[n + 1]), s, n + 1)
<1> DEFINE k == n + 1
           a == s[k]
           q == Assign(r, a)
           Good(i) == s[i].kind = "bool" /\ s[i].v = "T"
<1>1. k \in Nat /\ k \in 1..Len(s) /\ \A i \in 1..k : i \in 1..n \/ i = k
  OBVIOUS
<1>2. a \in AssignedOf(V, E)
  BY <1>1
<1>3. a.kind \in {"value", "bool", "error"}
  BY <1>2 DEF AssignedOf
<1>4. /\ q.mok = IF a.kind = "value" THEN r.mok ELSE IF a.kind = "bool" THEN a.v ELSE "F"
      /\ q.error <=> r.error \/ a.kind = "error"
  BY <1>2, AssignIs
<1>5. q.error <=> \E i \in 1..k : s[i].kind = "error"
  <2>1. \A i \in 1..n : i \in 1..k
    OBVIOUS
  <2>2. k \in 1..k
    OBVIOUS
  <2> HIDE DEF k, q
  <2> QED
    BY <1>1, <1>4, <2>1, <2>2 DEF GoodAfter, a
<1>6. CASE a.kind = "value"
  <2>1. ~DecidesBy(s, k, k)
    BY <1>6 DEF DecidesBy
  <2>2. ASSUME NEW i \in 1..n
        PROVE  DecidesBy(s, i, k) <=> DecidesBy(s, i, n)
    <3>1. \A j \in i + 1..k : j \in i + 1..n \/ j = k
      OBVIOUS
    <3>2. \A j \in i + 1..n : j \in i + 1..k
      OBVIOUS
    <3> HIDE DEF k
    <3> QED
      BY <1>6, <3>1, <3>2 DEF DecidesBy, a
  <2>3. \A i \in 1..n : i \in 1..k
    OBVIOUS
  <2> HIDE DEF k, q
  <2>4. AsBool(q.mok) <=> \A i \in 1..k : DecidesBy(s, i, k) => Good(i)
    BY <1>1, <1>4, <1>6, <2>1, <2>2, <2>3 DEF GoodAfter, AsBool
  <2> QED
    BY <1>5, <2>4 DEF GoodAfter, k, q
<1>7. CASE a.kind # "value"
  <2>1. DecidesBy(s, k, k) /\ k \in 1..k
    <3>1. k + 1..k = {}
      OBVIOUS
    <3> QED
      BY <1>7, <3>1 DEF DecidesBy
  <2>2. ASSUME NEW i \in 1..k, i # k
        PROVE  ~DecidesBy(s, i, k)
    <3>1. k \in i + 1..k
      BY <2>2
    <3> QED
      BY <1>7, <3>1 DEF DecidesBy
  <2>3. AsBool(q.mok) <=> Good(k)
    BY <1>3, <1>4, <1>7 DEF AsBool
  <2> HIDE DEF k, q
  <2>4. AsBool(q.mok) <=> \A i \in 1..k : DecidesBy(s, i, k) => Good(i)
    BY <2>1, <2>2, <2>3
  <2> QED
    BY <1>5, <2>4 DEF GoodAfter, k, q
<1> QED
  BY <1>6, <1>7

\* However many values, Bools and error messages are assigned to a Result, in
\* whatever order, it is good just if the last of them that is no value is
\* the Bool T, and it has an error's text for ever after the first error.
THEOREM ResultsExact ==
    ASSUME NEW V, NEW E, NEW assigned \in Seq(AssignedOf(V, E))
    PROVE  ResultExact(assigned)
<1> DEFINE s == assigned
           m == Len(s)
<1>1. PICK g : Becomes(g, s, V) /\ After(s) = g[m]
  BY AfterBecomes
<1>2. /\ m \in Nat /\ g[0] = Result("first") /\ \A n \in 0..m : g[n] \in Results(V)
      /\ \A n \in 1..m : g[n] = Assign(g[n - 1], s[n])
  <2>1. m \in Nat
    OBVIOUS
  <2>2. /\ g \in [0..m -> Results(V)] /\ g[0] = Result("first")
        /\ \A n \in 1..m : g[n] = Assign(g[n - 1], s[n])
    BY <1>1 DEF Becomes
  <2> HIDE DEF m
  <2>3. \A n \in 0..m : g[n] \in Results(V)
    BY <2>2
  <2> QED
    BY <2>1, <2>2, <2>3
<1> HIDE DEF m
<1> DEFINE T == {n \in Nat : n <= m => GoodAfter(g[n], s, n)}
<1>3. 0 \in T
  <2>1. g[0].mok = "T" /\ g[0].error = FALSE
    BY <1>2 DEF Result
  <2>2. 1..0 = {}
    OBVIOUS
  <2>3. GoodAfter(g[0], s, 0)
    BY <2>1, <2>2 DEF GoodAfter, AsBool
  <2> QED
    BY <2>3
<1>4. ASSUME NEW n \in Nat, n \in T
      PROVE  n + 1 \in T
  <2> SUFFICES ASSUME n + 1 <= m
               PROVE  GoodAfter(g[n + 1], s, n + 1)
    OBVIOUS
  <2>1. n \in 0..m /\ n + 1 \in 1..m /\ n + 1 - 1 = n /\ n <= m
    BY <1>2
  <2>2. g[n] \in Results(V) /\ g[n + 1] = Assign(g[n], s[n + 1]) /\ GoodAfter(g[n], s, n)
    BY <1>2, <1>4, <2>1
  <2>3. GoodAfter(Assign(g[n], s[n + 1]), s, n + 1)
    <3> DEFINE r == g[n]
    <3>1. r \in Results(V) /\ GoodAfter(r, s, n) /\ n + 1 <= Len(s)
      BY <2>2 DEF m
    <3> HIDE DEF r
    <3>2. GoodAfter(Assign(r, s[n + 1]), s, n + 1)
      BY <3>1, GoodAfterOne
    <3> QED
      BY <3>2 DEF r
  <2> QED
    BY <2>2, <2>3
<1>5. Nat \subseteq T
  <2> HIDE DEF T
  <2> QED
    BY <1>3, <1>4, NatInductive
<1>6. GoodAfter(After(s), s, m)
  BY <1>1, <1>2, <1>5
<1>7. DOMAIN assigned = 1..m /\ Len(assigned) = m
  BY DEF m
<1> QED
  BY <1>6, <1>7 DEF GoodAfter, DecidesBy, ResultExact

-----------------------------------------------------------------------------
(***************************************************************************)
(* Erasing while iterating.                                                *)
(***************************************************************************)

\* One more entry, taken if it is in D.
TakenWith(t, c, D) == IF c \in D THEN Append(t, c) ELSE t

\* g has the entries in D of each beginning of s.
Takes(g, s, D, S) ==
    /\ g \in [0..Len(s) -> Seq(S)] /\ g[0] = <<>>
    /\ \A n \in 1..Len(s) : g[n] = TakenWith(g[n - 1], s[n], D)

\* Those goes through the entries from the first.
LEMMA ThoseTakes ==
    ASSUME NEW S, NEW s \in Seq(S), NEW D
    PROVE  \E g : Takes(g, s, D, S) /\ Those(s, D) = g[Len(s)]
<1> DEFINE X == Seq(S)
           m == Len(s)
           first == <<>>
           Is(g) == g = [n \in 0..m |-> IF n = 0 THEN first ELSE TakenWith(g[n - 1], s[n], D)]
           w == CHOOSE g : Is(g)
           G == [x \in (1..m) \X X |-> TakenWith(x[2], s[x[1]], D)]
<1>1. m \in Nat /\ \A n \in 1..m : s[n] \in S
  OBVIOUS
<1>2. first \in X
  OBVIOUS
<1>3. \A v \in X, c \in S : TakenWith(v, c, D) \in X
  BY AppendProperties DEF TakenWith
<1>4. Those(s, D) = w[Len(s)]
  BY DEF Those, TakenWith
<1> HIDE DEF X, m, w, first
<1>5. ASSUME NEW n \in 1..m, NEW v \in X
      PROVE  G[<<n, v>>] = TakenWith(v, s[n], D)
  <2>1. <<n, v>> \in (1..m) \X X
    OBVIOUS
  <2> QED
    BY <2>1
<1>6. G \in [(1..m) \X X -> X]
  <2>1. ASSUME NEW x \in (1..m) \X X
        PROVE  TakenWith(x[2], s[x[1]], D) \in X
    BY <1>1, <1>3
  <2> QED
    BY <2>1
<1> HIDE DEF G
<1>7. PICK g \in [0..m -> X] : RecursFrom(g, m, first, G)
  BY <1>1, <1>2, <1>6, IndexedRecursionExists
<1>8. Is(g)
  <2>1. g[0] = first
    BY <1>7 DEF RecursFrom
  <2>2. ASSUME NEW n \in 1..m
        PROVE  g[n] = TakenWith(g[n - 1], s[n], D)
    <3>1. n - 1 \in 0..m
      BY <1>1
    <3>2. g[n - 1] \in X
      BY <1>7, <3>1
    <3> QED
      BY <1>5, <1>7, <3>2 DEF RecursFrom
  <2>3. ASSUME NEW n \in 0..m
        PROVE  g[n] = IF n = 0 THEN first ELSE TakenWith(g[n - 1], s[n], D)
    <3>1. n = 0 \/ n \in 1..m
      BY <1>1
    <3>2. n \in 1..m => n # 0
      BY <1>1
    <3> QED
      BY <2>1, <2>2, <3>1, <3>2, Zenon
  <2> QED
    BY <1>7, <2>3
<1>9. Is(w)
  BY <1>8 DEF w
<1>10. w[0] = first /\ \A n \in 1..m : w[n] = TakenWith(w[n - 1], s[n], D)
  BY <1>1, <1>9
<1>11. \A n \in 0..m : w[n] \in X
  <2> DEFINE T == {n \in Nat : n <= m => w[n] \in X}
  <2>1. 0 \in T
    BY <1>2, <1>10
  <2>2. ASSUME NEW n \in Nat, n \in T
        PROVE  n + 1 \in T
    <3> SUFFICES ASSUME n + 1 <= m
                 PROVE  w[n + 1] \in X
      OBVIOUS
    <3> DEFINE k == n + 1
    <3>1. k \in 1..m /\ k - 1 = n /\ w[n] \in X
      BY <1>1, <2>2
    <3> HIDE DEF k
    <3>2. w[k] = TakenWith(w[n], s[k], D) /\ s[k] \in S
      BY <1>1, <1>10, <3>1
    <3> QED
      BY <1>3, <3>1, <3>2 DEF k
  <2>3. Nat \subseteq T
    <3> HIDE DEF T
    <3> QED
      BY <2>1, <2>2, NatInductive
  <2> QED
    BY <1>1, <2>3
<1>12. w \in [0..m -> X]
  BY <1>9, <1>11
<1> QED
  BY <1>4, <1>10, <1>12 DEF X, m, first, Takes

\* A walk through entries of S.
Walks(S) == [left : Seq(S), at : Nat \ {0}]

\* One turn of the loop keeps a walk a walk.
LEMMA StepIsWalk ==
    ASSUME NEW S, NEW w \in Walks(S), NEW D
    PROVE  erase_step(w, D) \in Walks(S)
<1> DEFINE l == w.left
           a == w.at
<1>1. w \in [left : Seq(S), at : Nat \ {0}] /\ l \in Seq(S) /\ a \in Nat \ {0}
  BY DEF Walks
<1>2. CASE a > Len(l)
  BY <1>2 DEF erase_step
<1>3. CASE ~(a > Len(l)) /\ l[a] \in D
  <2>1. erase_step(w, D) = [w EXCEPT !.left = RemoveAt(l, a)]
    BY <1>3 DEF erase_step
  <2>2. RemoveAt(l, a) \in Seq(S)
    <3> HIDE DEF l, a
    <3> DEFINE i == a - 1
               j == a + 1
               m == Len(l)
               n == 1
               x == SubSeq(l, n, i)
               y == SubSeq(l, j, m)
    <3>1. i \in Nat /\ j \in Nat \ {0} /\ n \in Nat \ {0} /\ m \in Nat /\ i <= m /\ m <= m
      BY <1>1, <1>3
    <3> HIDE DEF i, j, n
    <3>2. x \in Seq(S) /\ y \in Seq(S)
      BY <1>1, <3>1, PartIs
    <3>3. RemoveAt(l, a) = x \o y
      BY DEF RemoveAt, i, j, n
    <3> HIDE DEF x, y
    <3> QED
      BY <3>2, <3>3, ConcatProperties
  <2> HIDE DEF l, a
  <2> QED
    BY <1>1, <2>1, <2>2 DEF Walks
<1>4. CASE ~(a > Len(l)) /\ l[a] \notin D
  <2>1. erase_step(w, D) = [w EXCEPT !.at = a + 1]
    BY <1>4 DEF erase_step
  <2>2. a + 1 \in Nat \ {0}
    BY <1>1
  <2> HIDE DEF a
  <2> QED
    BY <1>1, <2>1, <2>2 DEF Walks
<1> QED
  BY <1>2, <1>3, <1>4

\* g has the walk after each turn.
Walked(g, s, D, S) ==
    /\ g \in [0..Len(s) -> Walks(S)] /\ g[0] = [left |-> s, at |-> 1]
    /\ \A n \in 1..Len(s) : g[n] = erase_step(g[n - 1], D)

\* erase_if of a map makes as many turns as there are entries.
LEMMA EraseWalks ==
    ASSUME NEW S, NEW s \in Seq(S), NEW D
    PROVE  \E g : Walked(g, s, D, S) /\ erase_if_map(s, D) = g[Len(s)]
<1> DEFINE X == Walks(S)
           m == Len(s)
           first == [left |-> s, at |-> 1]
           Is(g) == g = [n \in 0..m |-> IF n = 0 THEN first ELSE erase_step(g[n - 1], D)]
           w == CHOOSE g : Is(g)
           G == [x \in (1..m) \X X |-> erase_step(x[2], D)]
<1>1. m \in Nat /\ \A n \in 1..m : s[n] \in S
  OBVIOUS
<1>2. first \in X
  BY DEF Walks
<1>3. \A v \in X, c \in S : erase_step(v, D) \in X
  BY StepIsWalk
<1>4. erase_if_map(s, D) = w[Len(s)]
  BY DEF erase_if_map
<1> HIDE DEF X, m, w, first
<1>5. ASSUME NEW n \in 1..m, NEW v \in X
      PROVE  G[<<n, v>>] = erase_step(v, D)
  <2>1. <<n, v>> \in (1..m) \X X
    OBVIOUS
  <2> QED
    BY <2>1
<1>6. G \in [(1..m) \X X -> X]
  <2>1. ASSUME NEW x \in (1..m) \X X
        PROVE  erase_step(x[2], D) \in X
    BY <1>1, <1>3
  <2> QED
    BY <2>1
<1> HIDE DEF G
<1>7. PICK g \in [0..m -> X] : RecursFrom(g, m, first, G)
  BY <1>1, <1>2, <1>6, IndexedRecursionExists
<1>8. Is(g)
  <2>1. g[0] = first
    BY <1>7 DEF RecursFrom
  <2>2. ASSUME NEW n \in 1..m
        PROVE  g[n] = erase_step(g[n - 1], D)
    <3>1. n - 1 \in 0..m
      BY <1>1
    <3>2. g[n - 1] \in X
      BY <1>7, <3>1
    <3> QED
      BY <1>5, <1>7, <3>2 DEF RecursFrom
  <2>3. ASSUME NEW n \in 0..m
        PROVE  g[n] = IF n = 0 THEN first ELSE erase_step(g[n - 1], D)
    <3>1. n = 0 \/ n \in 1..m
      BY <1>1
    <3>2. n \in 1..m => n # 0
      BY <1>1
    <3> QED
      BY <2>1, <2>2, <3>1, <3>2, Zenon
  <2> QED
    BY <1>7, <2>3
<1>9. Is(w)
  BY <1>8 DEF w
<1>10. w[0] = first /\ \A n \in 1..m : w[n] = erase_step(w[n - 1], D)
  BY <1>1, <1>9
<1>11. \A n \in 0..m : w[n] \in X
  <2> DEFINE T == {n \in Nat : n <= m => w[n] \in X}
  <2>1. 0 \in T
    BY <1>2, <1>10
  <2>2. ASSUME NEW n \in Nat, n \in T
        PROVE  n + 1 \in T
    <3> SUFFICES ASSUME n + 1 <= m
                 PROVE  w[n + 1] \in X
      OBVIOUS
    <3> DEFINE k == n + 1
    <3>1. k \in 1..m /\ k - 1 = n /\ w[n] \in X
      BY <1>1, <2>2
    <3> HIDE DEF k
    <3>2. w[k] = erase_step(w[n], D) /\ s[k] \in S
      BY <1>1, <1>10, <3>1
    <3> QED
      BY <1>3, <3>1, <3>2 DEF k
  <2>3. Nat \subseteq T
    <3> HIDE DEF T
    <3> QED
      BY <2>1, <2>2, NatInductive
  <2> QED
    BY <1>1, <2>3
<1>12. w \in [0..m -> X]
  BY <1>9, <1>11
<1> QED
  BY <1>4, <1>10, <1>12 DEF X, m, first, Walked

\* A walk that has come to the entry e: p is behind it, q is before it.
Walk(l, n) == [left |-> l, at |-> n + 1]

\* The sequence with e between p and q.
LEMMA BetweenIs ==
    ASSUME NEW S, NEW p \in Seq(S), NEW e \in S, NEW q \in Seq(S)
    PROVE  /\ Append(p, e) \o q \in Seq(S)
           /\ Len(Append(p, e) \o q) = Len(p) + 1 + Len(q)
           /\ \A i \in 1..Len(p) : (Append(p, e) \o q)[i] = p[i]
           /\ (Append(p, e) \o q)[Len(p) + 1] = e
           /\ \A i \in 1..Len(q) : (Append(p, e) \o q)[Len(p) + 1 + i] = q[i]
<1> DEFINE x == Append(p, e)
           l == x \o q
           k == Len(p)
           n == Len(q)
<1>1. /\ x \in Seq(S) /\ Len(x) = k + 1 /\ x[k + 1] = e /\ \A i \in 1..k : x[i] = p[i]
      /\ k \in Nat /\ n \in Nat
  BY AppendProperties
<1> HIDE DEF x
<1>2. /\ l \in Seq(S) /\ Len(l) = Len(x) + n
      /\ \A i \in 1..Len(x) + n : l[i] = IF i <= Len(x) THEN x[i] ELSE q[i - Len(x)]
  BY <1>1, ConcatProperties
<1> HIDE DEF l, k, n
<1>3. Len(l) = k + 1 + n /\ \A i \in 1..k + 1 + n : l[i] = IF i <= k + 1 THEN x[i] ELSE q[i - (k + 1)]
  BY <1>1, <1>2
<1>4. ASSUME NEW i \in 1..n
      PROVE  l[k + 1 + i] = q[i]
  <2> DEFINE h == k + 1 + i
  <2>1. h \in 1..k + 1 + n /\ ~(h <= k + 1) /\ h - (k + 1) = i
    BY <1>1
  <2> HIDE DEF h
  <2>2. l[h] = q[h - (k + 1)]
    BY <1>3, <2>1
  <2> QED
    BY <2>1, <2>2 DEF h
<1>5. l[k + 1] = e
  <2>1. k + 1 \in 1..k + 1 + n /\ k + 1 <= k + 1
    BY <1>1
  <2> QED
    BY <1>1, <1>3, <2>1
<1>6. ASSUME NEW i \in 1..k
      PROVE  l[i] = p[i]
  <2>1. i \in 1..k + 1 + n /\ i <= k + 1
    BY <1>1
  <2> QED
    BY <1>1, <1>3, <2>1
<1> QED
  BY <1>2, <1>3, <1>4, <1>5, <1>6 DEF l, x, k, n

\* Erasing the entry between p and q.
LEMMA RemoveBetween ==
    ASSUME NEW S, NEW p \in Seq(S), NEW e \in S, NEW q \in Seq(S)
    PROVE  RemoveAt(Append(p, e) \o q, Len(p) + 1) = p \o q
<1> DEFINE l == Append(p, e) \o q
           k == Len(p)
           n == Len(q)
           m == Len(l)
           i == 1
           j == k + 2
           x == SubSeq(l, i, k)
           y == SubSeq(l, j, m)
<1>1. /\ l \in Seq(S) /\ m = k + 1 + n
      /\ \A h \in 1..k : l[h] = p[h]
      /\ \A h \in 1..n : l[k + 1 + h] = q[h]
  BY BetweenIs
<1>2. k \in Nat /\ n \in Nat
  OBVIOUS
<1> HIDE DEF l, k, n
<1> DEFINE g == k + 1
<1> HIDE DEF g
<1>3. RemoveAt(l, g) = SubSeq(l, 1, g - 1) \o SubSeq(l, g + 1, m)
  BY Zenon DEF RemoveAt
<1> HIDE DEF m
<1>4. g - 1 = k /\ g + 1 = k + 2
  BY <1>2 DEF g
<1>5. RemoveAt(l, k + 1) = x \o y
  BY <1>3, <1>4 DEF g
<1>6. /\ i \in Nat \ {0} /\ j \in Nat \ {0} /\ m \in Nat /\ k <= m /\ m <= m /\ k - i + 1 = k
      /\ (i <= k <=> k # 0) /\ m - j + 1 = n /\ (j <= m <=> n # 0)
  BY <1>1, <1>2
<1> HIDE DEF i, j
<1>7. /\ x \in Seq(S) /\ Len(x) = IF i <= k THEN k - i + 1 ELSE 0
      /\ \A h \in 1..(k - i + 1) : x[h] = l[i + h - 1]
  BY <1>1, <1>2, <1>6, PartIs DEF m
<1>8. /\ y \in Seq(S) /\ Len(y) = IF j <= m THEN m - j + 1 ELSE 0
      /\ \A h \in 1..(m - j + 1) : y[h] = l[j + h - 1]
  BY <1>1, <1>2, <1>6, PartIs DEF m
<1> HIDE DEF x, y
<1>9. x = p
  <2>1. Len(x) = k
    BY <1>2, <1>6, <1>7
  <2>2. \A h \in 1..k : x[h] = p[h]
    <3> SUFFICES ASSUME NEW h \in 1..k PROVE x[h] = p[h]
      OBVIOUS
    <3>1. i + h - 1 = h
      BY <1>2 DEF i
    <3> QED
      BY <1>1, <1>6, <1>7, <3>1
  <2> QED
    BY <1>7, <2>1, <2>2, SeqEqual DEF k
<1>10. y = q
  <2>1. Len(y) = n
    BY <1>2, <1>6, <1>8
  <2>2. \A h \in 1..n : y[h] = q[h]
    <3> SUFFICES ASSUME NEW h \in 1..n PROVE y[h] = q[h]
      OBVIOUS
    <3>1. j + h - 1 = k + 1 + h
      BY <1>2 DEF j
    <3> QED
      BY <1>1, <1>6, <1>8, <3>1
  <2> QED
    BY <1>8, <2>1, <2>2, SeqEqual DEF n
<1> QED
  BY <1>5, <1>9, <1>10 DEF l, k

\* One turn of the loop at e: it is erased, or the iterator goes on.
LEMMA EraseTurn ==
    ASSUME NEW S, NEW p \in Seq(S), NEW e \in S, NEW q \in Seq(S), NEW D
    PROVE  erase_step(Walk(Append(p, e) \o q, Len(p)), D) =
              IF e \in D THEN Walk(p \o q, Len(p))
              ELSE Walk(Append(p, e) \o q, Len(p) + 1)
<1> DEFINE l == Append(p, e) \o q
           k == Len(p)
           w == Walk(l, k)
<1>1. l \in Seq(S) /\ Len(l) = k + 1 + Len(q) /\ l[k + 1] = e
  BY BetweenIs
<1>2. k \in Nat /\ Len(q) \in Nat
  OBVIOUS
<1>3. RemoveAt(l, k + 1) = p \o q
  BY RemoveBetween
<1> HIDE DEF l, k
<1> DEFINE pq == p \o q
<1> HIDE DEF pq
<1>4. w.left = l /\ w.at = k + 1 /\ [w EXCEPT !.left = pq] = Walk(pq, k)
  BY DEF Walk
<1>5. [w EXCEPT !.at = k + 1 + 1] = Walk(l, k + 1)
  BY DEF Walk
<1>6. ~(k + 1 > Len(l))
  BY <1>1, <1>2
<1> HIDE DEF w
<1>7. CASE e \in D
  <2>1. erase_step(w, D) = [w EXCEPT !.left = pq]
    BY <1>1, <1>3, <1>4, <1>6, <1>7 DEF erase_step, pq
  <2> QED
    BY <1>4, <1>7, <2>1 DEF w, l, k, pq
<1>8. CASE e \notin D
  <2>1. erase_step(w, D) = [w EXCEPT !.at = k + 1 + 1]
    BY <1>1, <1>4, <1>6, <1>8 DEF erase_step
  <2> QED
    BY <1>5, <1>8, <2>1 DEF w, l, k
<1> QED
  BY <1>7, <1>8

\* What is before a place of a sequence is the entry there and what follows.
LEMMA RestIs ==
    ASSUME NEW S, NEW s \in Seq(S), NEW n \in Nat, n + 1 <= Len(s), NEW p \in Seq(S)
    PROVE  /\ SubSeq(s, n + 1, Len(s)) \in Seq(S) /\ SubSeq(s, n + 2, Len(s)) \in Seq(S)
           /\ p \o SubSeq(s, n + 1, Len(s))
                 = Append(p, s[n + 1]) \o SubSeq(s, n + 2, Len(s))
<1> DEFINE m == Len(s)
           i == n + 1
           j == n + 2
           e == s[i]
           x == SubSeq(s, i, m)
           q == SubSeq(s, j, m)
           k == Len(p)
           a == p \o x
           b == Append(p, e) \o q
<1>1. /\ m \in Nat /\ i \in Nat \ {0} /\ j \in Nat \ {0} /\ m <= m /\ i <= m /\ e \in S
      /\ k \in Nat /\ m - i + 1 = m - n /\ m - j + 1 = m - n - 1
  OBVIOUS
<1> HIDE DEF i, j, e
<1>2. /\ x \in Seq(S) /\ Len(x) = IF i <= m THEN m - i + 1 ELSE 0
      /\ \A h \in 1..(m - i + 1) : x[h] = s[i + h - 1]
  BY <1>1, PartIs
<1>3. /\ q \in Seq(S) /\ Len(q) = IF j <= m THEN m - j + 1 ELSE 0
      /\ \A h \in 1..(m - j + 1) : q[h] = s[j + h - 1]
  BY <1>1, PartIs
<1> HIDE DEF x, q, m, k
<1>4. Len(x) = m - n /\ Len(q) = m - n - 1
  BY <1>1, <1>2, <1>3 DEF i, j
<1>5. /\ a \in Seq(S) /\ Len(a) = k + Len(x)
      /\ \A h \in 1..k + Len(x) : a[h] = IF h <= k THEN p[h] ELSE x[h - k]
  BY <1>2, ConcatProperties DEF k
<1>6. /\ b \in Seq(S) /\ Len(b) = k + 1 + Len(q)
      /\ \A h \in 1..k : b[h] = p[h]
      /\ b[k + 1] = e
      /\ \A h \in 1..Len(q) : b[k + 1 + h] = q[h]
  <2>1. p \in Seq(S) /\ e \in S /\ q \in Seq(S)
    BY <1>1, <1>3
  <2> QED
    BY ONLY <2>1, BetweenIs DEF k
<1> HIDE DEF a, b
<1>7. Len(a) = Len(b)
  BY <1>1, <1>4, <1>5, <1>6
<1>8. ASSUME NEW h \in 1..Len(a)
      PROVE  a[h] = b[h]
  <2>1. h \in 1..k + Len(x) /\ h \in 1..k + (m - n)
    BY <1>4, <1>5
  <2>2. CASE h <= k
    <3>1. h \in 1..k
      BY <1>1, <2>2
    <3> QED
      BY <1>5, <1>6, <2>1, <2>2, <3>1
  <2>3. CASE h = k + 1
    <3>1. ~(h <= k) /\ h - k = 1 /\ 1 \in 1..(m - i + 1) /\ i + 1 - 1 = i
      BY <1>1, <2>3 DEF i
    <3>2. a[h] = x[h - k]
      BY <1>5, <2>1, <3>1
    <3>3. x[1] = s[i]
      BY <1>2, <3>1
    <3> QED
      BY <1>6, <2>3, <3>1, <3>2, <3>3 DEF e
  <2>4. CASE h > k + 1
    <3> DEFINE f == h - k
               g == h - k - 1
    <3>1. /\ ~(h <= k) /\ f \in 1..(m - i + 1) /\ g \in 1..(m - j + 1) /\ g \in 1..Len(q)
          /\ k + 1 + g = h /\ i + f - 1 = j + g - 1
      BY <1>1, <1>4, <2>1, <2>4 DEF i, j
    <3> HIDE DEF f, g
    <3>2. a[h] = x[f]
      BY <1>5, <2>1, <3>1 DEF f
    <3>3. x[f] = s[i + f - 1] /\ q[g] = s[j + g - 1]
      BY <1>2, <1>3, <3>1
    <3>4. b[k + 1 + g] = q[g]
      BY <1>6, <3>1
    <3> QED
      BY <3>1, <3>2, <3>3, <3>4
  <2>5. h \in Nat
    BY <2>1
  <2> QED
    BY <1>1, <2>2, <2>3, <2>4, <2>5
<1>9. a = b
  BY <1>5, <1>6, <1>7, <1>8, SeqEqual
<1> QED
  BY <1>2, <1>3, <1>9 DEF a, b, x, q, m, i, j, e

\* The walk erases the entries of D and is at its end after as many turns as
\* there were entries.
LEMMA WalkErases ==
    ASSUME NEW S, NEW s \in Seq(S), NEW D
    PROVE  /\ erase_if(s, D) \in Seq(S)
           /\ erase_if_map(s, D) = Walk(erase_if(s, D), Len(erase_if(s, D)))
<1> DEFINE m == Len(s)
           C == Range(s) \ D
           Rest(n) == SubSeq(s, n + 1, m)
<1>1. m \in Nat /\ \A n \in 1..m : s[n] \in S /\ (s[n] \in C <=> s[n] \notin D)
  <2>1. \A n \in 1..m : s[n] \in Range(s) /\ s[n] \in S
    BY DEF Range
  <2> QED
    BY <2>1
<1> HIDE DEF C
<1>2. PICK t : Takes(t, s, C, S) /\ Those(s, C) = t[m]
  BY ThoseTakes
<1>3. PICK g : Walked(g, s, D, S) /\ erase_if_map(s, D) = g[m]
  BY EraseWalks
<1>4. /\ t \in [0..m -> Seq(S)] /\ t[0] = <<>>
      /\ \A n \in 1..m : t[n] = TakenWith(t[n - 1], s[n], C)
  BY <1>2 DEF Takes
<1>5. g[0] = Walk(s, 0) /\ \A n \in 1..m : g[n] = erase_step(g[n - 1], D)
  BY <1>3 DEF Walked, Walk
<1> HIDE DEF m
<1>6. \A n \in 0..m : t[n] \in Seq(S)
  BY <1>4
<1> DEFINE T == {n \in Nat : n <= m => g[n] = Walk(t[n] \o Rest(n), Len(t[n]))}
<1>7. 0 \in T
  <2>1. Rest(0) = s
    BY DEF m
  <2>2. <<>> \o s = s /\ Len(<<>>) = 0
    OBVIOUS
  <2>3. t[0] \o Rest(0) = s /\ Len(t[0]) = 0
    BY <1>4, <2>1, <2>2
  <2>4. g[0] = Walk(t[0] \o Rest(0), Len(t[0]))
    BY <1>5, <2>3
  <2> QED
    BY <2>4
<1>8. ASSUME NEW n \in Nat, n \in T
      PROVE  n + 1 \in T
  <2> SUFFICES ASSUME n + 1 <= m
               PROVE  g[n + 1] = Walk(t[n + 1] \o Rest(n + 1), Len(t[n + 1]))
    OBVIOUS
  <2> DEFINE k == n + 1
             p == t[n]
             e == s[k]
             q == Rest(k)
  <2>1. k \in 1..m /\ k - 1 = n /\ n \in 0..m /\ k + 1 = n + 2 /\ n <= m
    BY <1>1
  <2>2. p \in Seq(S) /\ e \in S /\ (e \in C <=> e \notin D)
    BY <1>1, <1>6, <2>1
  <2>3. q \in Seq(S) /\ p \o Rest(n) = Append(p, e) \o q
    <3> HIDE DEF p
    <3>1. n + 1 <= Len(s)
      BY DEF m
    <3>2. /\ SubSeq(s, n + 2, Len(s)) \in Seq(S)
          /\ p \o SubSeq(s, n + 1, Len(s)) = Append(p, s[n + 1]) \o SubSeq(s, n + 2, Len(s))
      BY <2>2, <3>1, RestIs
    <3> QED
      BY <2>1, <3>2 DEF m
  <2>4. g[n] = Walk(Append(p, e) \o q, Len(p))
    BY <1>8, <2>1, <2>3
  <2>5. g[k] = erase_step(g[n], D) /\ t[k] = TakenWith(p, e, C)
    BY <1>4, <1>5, <2>1
  <2> HIDE DEF k, p, e, q
  <2>6. g[k] = IF e \in D THEN Walk(p \o q, Len(p)) ELSE Walk(Append(p, e) \o q, Len(p) + 1)
    BY <2>2, <2>3, <2>4, <2>5, EraseTurn
  <2>7. Len(Append(p, e)) = Len(p) + 1
    BY <2>2, AppendProperties
  <2>8. g[k] = Walk(t[k] \o q, Len(t[k]))
    BY <2>2, <2>5, <2>6, <2>7 DEF TakenWith
  <2> QED
    BY <2>8 DEF k, q
<1>9. Nat \subseteq T
  <2> HIDE DEF T
  <2> QED
    BY <1>7, <1>8, NatInductive
<1>10. g[m] = Walk(t[m] \o Rest(m), Len(t[m]))
  BY <1>1, <1>9
<1>11. t[m] \in Seq(S) /\ Rest(m) = <<>>
  <2>1. m \in 0..m /\ m + 1 > m
    BY <1>1
  <2> QED
    BY <1>1, <1>6, <2>1
<1> DEFINE r == t[m]
<1>12. r \o <<>> = r
  <2>1. r \in Seq(S)
    BY <1>11
  <2> HIDE DEF r
  <2> QED
    BY <2>1
<1>13. erase_if(s, D) = t[m]
  BY <1>2 DEF erase_if, C
<1> QED
  BY <1>3, <1>10, <1>11, <1>12, <1>13

\* How often x is among the first n entries of s.
Places(s, n, x) == {i \in 1..n : s[i] = x}
Times(s, n, x) == Cardinality(Places(s, n, x))

\* The places are finitely many.
LEMMA TimesIs ==
    ASSUME NEW s, NEW n \in Nat, NEW x
    PROVE  /\ IsFiniteSet(Places(s, n, x)) /\ Times(s, n, x) \in Nat
           /\ Times(s, n, x) = 0 <=> \A i \in 1..n : s[i] # x
<1>1. IsFiniteSet(1..n) /\ Places(s, n, x) \subseteq 1..n
  BY FS_Interval DEF Places
<1>2. IsFiniteSet(Places(s, n, x))
  BY <1>1, FS_Subset
<1>3. Times(s, n, x) \in Nat /\ (Times(s, n, x) = 0 <=> Places(s, n, x) = {})
  BY <1>2, FS_CardinalityType, FS_EmptySet DEF Times
<1> QED
  BY <1>2, <1>3 DEF Places

\* One more entry.
LEMMA TimesMore ==
    ASSUME NEW s, NEW n \in Nat, NEW x
    PROVE  Times(s, n + 1, x) = Times(s, n, x) + (IF s[n + 1] = x THEN 1 ELSE 0)
<1> DEFINE k == n + 1
           P == Places(s, n, x)
           Q == Places(s, k, x)
<1>1. k \notin 1..n /\ 1..k = (1..n) \cup {k}
  OBVIOUS
<1>2. IsFiniteSet(P) /\ Cardinality(P) \in Nat /\ k \notin P
  BY <1>1, TimesIs DEF Places, Times
<1> HIDE DEF k
<1>3. CASE s[k] = x
  <2>1. Q = P \cup {k}
    BY <1>1, <1>3 DEF Places
  <2> HIDE DEF P, Q
  <2>2. Cardinality(P \cup {k}) = Cardinality(P) + 1
    BY <1>2, FS_AddElement
  <2> QED
    BY <1>3, <2>1, <2>2 DEF Times, P, Q, k
<1>4. CASE s[k] # x
  <2>1. Q = P
    BY <1>1, <1>4 DEF Places
  <2> HIDE DEF P, Q
  <2> DEFINE c == Cardinality(P)
  <2>2. c + 0 = c
    BY <1>2
  <2> QED
    BY <1>4, <2>1, <2>2 DEF Times, P, Q, k
<1> QED
  BY <1>3, <1>4

\* An appended entry.
LEMMA TimesAppend ==
    ASSUME NEW S, NEW s \in Seq(S), NEW c \in S, NEW x
    PROVE  Times(Append(s, c), Len(Append(s, c)), x)
             = Times(s, Len(s), x) + (IF c = x THEN 1 ELSE 0)
<1> DEFINE t == Append(s, c)
           n == Len(s)
<1>1. n \in Nat /\ Len(t) = n + 1 /\ t[n + 1] = c /\ \A i \in 1..n : t[i] = s[i]
  BY AppendProperties
<1> HIDE DEF t, n
<1>2. Places(t, n, x) = Places(s, n, x)
  BY <1>1 DEF Places
<1>3. Times(t, n + 1, x) = Times(t, n, x) + (IF t[n + 1] = x THEN 1 ELSE 0)
  BY <1>1, TimesMore
<1> QED
  BY <1>1, <1>2, <1>3 DEF Times, t, n

\* Two sequences, one after the other.
LEMMA TimesConcat ==
    ASSUME NEW S, NEW s \in Seq(S), NEW x
    PROVE  \A t \in Seq(S) :
              Times(s \o t, Len(s \o t), x) = Times(s, Len(s), x) + Times(t, Len(t), x)
<1> DEFINE N(u) == Times(u, Len(u), x)
           P == {t \in Seq(S) : N(s \o t) = N(s) + N(t)}
<1>1. \A u \in Seq(S) : N(u) \in Nat
  BY TimesIs
<1>2. <<>> \in P
  <2>1. <<>> \in Seq(S) /\ s \o <<>> = s /\ Len(<<>>) = 0
    OBVIOUS
  <2>2. Times(<<>>, 0, x) = 0
    <3> DEFINE e == <<>>
               z == 0
    <3>1. z \in Nat /\ \A i \in 1..z : e[i] # x
      OBVIOUS
    <3> HIDE DEF e, z
    <3>2. Times(e, z, x) = 0
      BY <3>1, TimesIs
    <3> QED
      BY <3>2 DEF e, z
  <2>3. N(<<>>) = 0 /\ N(s \o <<>>) = N(s) /\ N(s) \in Nat
    BY <1>1, <2>1, <2>2
  <2> HIDE DEF N
  <2>4. N(s \o <<>>) = N(s) + N(<<>>)
    BY <2>3
  <2> QED
    BY <2>1, <2>4
<1>3. ASSUME NEW t \in Seq(S), NEW c \in S, t \in P
      PROVE  Append(t, c) \in P
  <2> DEFINE st == s \o t
             d == IF c = x THEN 1 ELSE 0
  <2>1. st \in Seq(S)
    BY ConcatProperties
  <2>2. s \o Append(t, c) = Append(st, c) /\ Append(t, c) \in Seq(S)
    BY AppendLast, AppendProperties
  <2>3. N(st) = N(s) + N(t)
    BY <1>3
  <2> HIDE DEF st
  <2>4. N(Append(st, c)) = N(st) + d /\ N(Append(t, c)) = N(t) + d
    BY <2>1, TimesAppend
  <2>5. N(s) \in Nat /\ N(t) \in Nat /\ d \in Nat
    BY <1>1
  <2> HIDE DEF N, d
  <2>6. N(Append(st, c)) = N(s) + N(Append(t, c))
    BY <2>3, <2>4, <2>5
  <2> QED
    BY <2>2, <2>6
<1>4. Seq(S) \subseteq P
  <2> HIDE DEF P
  <2> QED
    BY <1>2, <1>3, SeqInductive
<1> QED
  BY <1>4

\* One more entry for those in D.
LEMMA TimesTaken ==
    ASSUME NEW S, NEW t \in Seq(S), NEW c \in S, NEW D, NEW x
    PROVE  Times(TakenWith(t, c, D), Len(TakenWith(t, c, D)), x)
             = Times(t, Len(t), x) + (IF c \in D /\ c = x THEN 1 ELSE 0)
<1>1. CASE c \in D
  BY <1>1, TimesAppend DEF TakenWith
<1>2. CASE c \notin D
  <2> DEFINE n == Times(t, Len(t), x)
  <2>1. n \in Nat
    BY TimesIs
  <2> HIDE DEF n
  <2>2. n + 0 = n
    BY <2>1
  <2> QED
    BY <1>2, <2>2 DEF TakenWith, n
<1> QED
  BY <1>1, <1>2

\* What is left and what is taken are all there was.
LEMMA TimesOfBoth ==
    ASSUME NEW S, NEW s \in Seq(S), NEW D, NEW x
    PROVE  /\ erase_if(s, D) \in Seq(S) /\ Those(s, D) \in Seq(S)
           /\ Times(erase_if(s, D), Len(erase_if(s, D)), x)
                + Times(Those(s, D), Len(Those(s, D)), x) = Times(s, Len(s), x)
<1> DEFINE m == Len(s)
           C == Range(s) \ D
           N(v) == Times(v, Len(v), x)
<1>1. m \in Nat /\ \A n \in 1..m : s[n] \in S /\ (s[n] \in C <=> s[n] \notin D)
  <2>1. \A n \in 1..m : s[n] \in Range(s) /\ s[n] \in S
    BY DEF Range
  <2> QED
    BY <2>1
<1>0. erase_if(s, D) = Those(s, C)
  BY DEF erase_if
<1> HIDE DEF C
<1>2. PICK t : Takes(t, s, C, S) /\ Those(s, C) = t[m]
  BY ThoseTakes
<1>3. PICK u : Takes(u, s, D, S) /\ Those(s, D) = u[m]
  BY ThoseTakes
<1>4. /\ t \in [0..m -> Seq(S)] /\ t[0] = <<>>
      /\ \A n \in 1..m : t[n] = TakenWith(t[n - 1], s[n], C)
  BY <1>2 DEF Takes
<1>5. /\ u \in [0..m -> Seq(S)] /\ u[0] = <<>>
      /\ \A n \in 1..m : u[n] = TakenWith(u[n - 1], s[n], D)
  BY <1>3 DEF Takes
<1> HIDE DEF m
<1>6. \A n \in 0..m : t[n] \in Seq(S) /\ u[n] \in Seq(S)
  BY <1>4, <1>5
<1>7. \A v \in Seq(S) : N(v) \in Nat
  BY TimesIs
<1> DEFINE T == {n \in Nat : n <= m => N(t[n]) + N(u[n]) = Times(s, n, x)}
<1>8. 0 \in T
  <2> DEFINE e == <<>>
             z == 0
  <2>1. z \in Nat /\ Len(e) = z /\ \A i \in 1..z : e[i] # x
    OBVIOUS
  <2>2. \A i \in 1..z : s[i] # x
    OBVIOUS
  <2>3. t[0] = e /\ u[0] = e
    BY <1>4, <1>5
  <2> HIDE DEF e, z
  <2>4. Times(e, z, x) = 0 /\ Times(s, z, x) = 0
    BY <2>1, <2>2, TimesIs
  <2>5. N(t[0]) = 0 /\ N(u[0]) = 0
    BY <2>1, <2>3, <2>4
  <2> HIDE DEF N
  <2>6. N(t[0]) + N(u[0]) = Times(s, 0, x)
    BY <2>4, <2>5 DEF z
  <2> QED
    BY <2>6
<1>9. ASSUME NEW n \in Nat, n \in T
      PROVE  n + 1 \in T
  <2> SUFFICES ASSUME n + 1 <= m
               PROVE  N(t[n + 1]) + N(u[n + 1]) = Times(s, n + 1, x)
    OBVIOUS
  <2> DEFINE k == n + 1
             p == t[n]
             q == u[n]
             e == s[k]
             d == IF e = x THEN 1 ELSE 0
  <2>1. k \in 1..m /\ k - 1 = n /\ n \in 0..m /\ n <= m
    BY <1>1
  <2>2. p \in Seq(S) /\ q \in Seq(S) /\ e \in S /\ (e \in C <=> e \notin D)
    BY <1>1, <1>6, <2>1
  <2>3. t[k] = TakenWith(p, e, C) /\ u[k] = TakenWith(q, e, D)
    BY <1>4, <1>5, <2>1
  <2>4. N(p) + N(q) = Times(s, n, x)
    BY <1>9, <2>1
  <2>5. Times(s, k, x) = Times(s, n, x) + d
    BY TimesMore
  <2>6. N(p) \in Nat /\ N(q) \in Nat
    BY <1>7, <2>2
  <2> HIDE DEF k, p, q, e
  <2>7. N(t[k]) = N(p) + (IF e \in C /\ e = x THEN 1 ELSE 0)
    BY <2>2, <2>3, TimesTaken
  <2>8. N(u[k]) = N(q) + (IF e \in D /\ e = x THEN 1 ELSE 0)
    BY <2>2, <2>3, TimesTaken
  <2> HIDE DEF N
  <2> DEFINE i == IF e \in C /\ e = x THEN 1 ELSE 0
             j == IF e \in D /\ e = x THEN 1 ELSE 0
  <2>9. i \in Nat /\ j \in Nat /\ d \in Nat /\ i + j = d
    BY <2>2
  <2> HIDE DEF i, j, d
  <2>10. N(t[k]) = N(p) + i /\ N(u[k]) = N(q) + j
    BY <2>7, <2>8 DEF i, j
  <2>11. N(t[k]) + N(u[k]) = Times(s, k, x)
    <3> DEFINE a == N(p)
               b == N(q)
               f == Times(s, n, x)
    <3>1. a \in Nat /\ b \in Nat /\ i \in Nat /\ j \in Nat /\ a + b = f /\ i + j = d
      BY <2>4, <2>6, <2>9
    <3>2. N(t[k]) = a + i /\ N(u[k]) = b + j /\ Times(s, k, x) = f + d
      BY <2>5, <2>10
    <3> HIDE DEF a, b, f
    <3>3. (a + i) + (b + j) = f + d
      BY ONLY <3>1
    <3> QED
      BY <3>2, <3>3
  <2> QED
    BY <2>11 DEF k
<1>10. Nat \subseteq T
  <2> HIDE DEF T
  <2> QED
    BY <1>8, <1>9, NatInductive
<1>11. N(t[m]) + N(u[m]) = Times(s, m, x)
  BY <1>1, <1>10
<1>12. t[m] \in Seq(S) /\ u[m] \in Seq(S)
  BY <1>1, <1>6
<1> QED
  BY <1>0, <1>2, <1>3, <1>11, <1>12 DEF m

\* Two sequences that have everything equally often are the same bag.
LEMMA SameTimes ==
    ASSUME NEW S, NEW s \in Seq(S), NEW t \in Seq(S),
           \A x : Times(s, Len(s), x) = Times(t, Len(t), x)
    PROVE  ToBag(s) = ToBag(t)
<1>1. /\ Len(s) \in Nat /\ DOMAIN s = 1..Len(s) /\ Len(t) \in Nat /\ DOMAIN t = 1..Len(t)
  OBVIOUS
<1>2. ASSUME NEW x
      PROVE  x \in Range(s) <=> x \in Range(t)
  <2>1. x \in Range(s) <=> Times(s, Len(s), x) # 0
    BY <1>1, TimesIs DEF Range
  <2>2. x \in Range(t) <=> Times(t, Len(t), x) # 0
    BY <1>1, TimesIs DEF Range
  <2> QED
    BY <2>1, <2>2
<1>3. Range(s) = Range(t)
  BY <1>2
<1>4. ToBag(s) = [x \in Range(s) |-> Times(s, Len(s), x)]
  BY <1>1 DEF ToBag, Times, Places
<1>5. ToBag(t) = [x \in Range(t) |-> Times(t, Len(t), x)]
  BY <1>1 DEF ToBag, Times, Places
<1> QED
  BY <1>3, <1>4, <1>5

\* For any map and any condition, the loop of erase_if visits every entry
\* although it erases while it goes: it is at the end after as many turns as
\* there were entries, what is left is what erase_if leaves of a container,
\* and with what copy_if takes it is all there was.
THEOREM EraseVisitsAll ==
    ASSUME NEW E, NEW s \in Seq(E), NEW S
    PROVE  EraseExact(s, S)
<1> DEFINE l == erase_if(s, S)
           k == Those(s, S)
           w == erase_if_map(s, S)
           c == l \o k
<1>1. l \in Seq(E) /\ w = Walk(l, Len(l))
  BY WalkErases
<1>2. w.left = l /\ w.at = Len(l) + 1
  BY <1>1 DEF Walk
<1>3. k \in Seq(E)
  <2> DEFINE x == 0
  <2> HIDE DEF x
  <2> QED
    BY TimesOfBoth
<1>4. ASSUME NEW x
      PROVE  Times(c, Len(c), x) = Times(s, Len(s), x)
  <2>1. Times(l, Len(l), x) + Times(k, Len(k), x) = Times(s, Len(s), x)
    BY TimesOfBoth
  <2> HIDE DEF l, k
  <2>2. Times(c, Len(c), x) = Times(l, Len(l), x) + Times(k, Len(k), x)
    BY <1>1, <1>3, TimesConcat
  <2> QED
    BY <2>1, <2>2
<1>5. copy_if(s, w.left, S) = c
  BY <1>2 DEF copy_if
<1> HIDE DEF l, k, w
<1>6. c \in Seq(E)
  BY <1>1, <1>3, ConcatProperties
<1> HIDE DEF c
<1>7. ToBag(c) = ToBag(s)
  BY <1>4, <1>6, SameTimes
<1> QED
  BY <1>2, <1>5, <1>7 DEF EraseExact, l, w

-----------------------------------------------------------------------------
(***************************************************************************)
(* Objects of any class, written one after the other and read back.        *)
(***************************************************************************)

\* Objects with an id of I and Data made of D.
StoredObjects(I, D) ==
    {o \in [class : Classes, id : I, data : Seq(D)] : Len(o.data) = Sizes[o.class]}

\* The units that objects write.
StoredUnits(I, D) == ({"info"} \X Classes \X (1..InfoSize)) \cup ({"id"} \X I) \cup D

\* An object, field by field.
Obj(c, i, d) == [class |-> c, id |-> i, data |-> d]

\* A reader of an object.
R3(b, p, o) == [buf |-> b, at |-> p, o |-> o]

\* read of the units that lie where a reader is.
LEMMA UnitsThere ==
    ASSUME NEW S, NEW b \in Seq(S), NEW a \in Nat, NEW x \in Seq(S), LiesAt(b, a, x),
           NEW r, r.buf = b, r.at = a, NEW n, Len(x) = n
    PROVE  Enough(r, n) /\ Units(r, n) = x /\ Past(r, n) = [r EXCEPT !.at = a + n]
<1>1. n \in Nat /\ Len(b) \in Nat /\ a + n <= Len(b)
  BY DEF LiesAt
<1>2. Enough(r, n)
  BY <1>1 DEF Enough
<1>3. SubSeq(b, a + 1, a + n) = x
  BY PartThere
<1>4. Units(r, n) = x
  BY <1>2, <1>3 DEF Units
<1>5. Past(r, n) = [r EXCEPT !.at = a + n]
  BY <1>2 DEF Past
<1> QED
  BY <1>2, <1>4, <1>5

\* The sizes.
LEMMA SizesAre ==
    /\ Classes = {"Object", "Command", "Generator", "Person"} /\ InfoSize = 4
    /\ Sizes["Object"] = 0 /\ Sizes["Command"] = 1 /\ Sizes["Generator"] = 3
    /\ Sizes["Person"] = 5
  BY DEF Classes, Sizes, InfoSize

\* A stored object.
LEMMA StoredIs ==
    ASSUME NEW I, NEW D, NEW o \in StoredObjects(I, D)
    PROVE  /\ o.class \in Classes /\ o.id \in I /\ o.data \in Seq(D)
           /\ Len(o.data) = Sizes[o.class] /\ Sizes[o.class] \in 0..5
           /\ HasData(o) <=> Sizes[o.class] > 0
           /\ HasData(o) <=> o.class # "Object"
           /\ o = Obj(o.class, o.id, o.data)
<1>1. o \in [class : Classes, id : I, data : Seq(D)] /\ Len(o.data) = Sizes[o.class]
  BY DEF StoredObjects
<1>2. o.class \in Classes /\ o.id \in I /\ o.data \in Seq(D) /\ o = Obj(o.class, o.id, o.data)
  BY <1>1 DEF Obj
<1>3. Sizes[o.class] \in 0..5 /\ (Sizes[o.class] > 0 <=> o.class # "Object")
  BY <1>2, SizesAre
<1> QED
  BY <1>1, <1>2, <1>3 DEF HasData

\* What an object writes.
LEMMA StoredWrite ==
    ASSUME NEW I, NEW D, NEW o \in StoredObjects(I, D)
    PROVE  /\ Info("Object") \in Seq(StoredUnits(I, D)) /\ Len(Info("Object")) = 4
           /\ <<<<"id", o.id>>>> \in Seq(StoredUnits(I, D))
           /\ Info(o.class) \in Seq(StoredUnits(I, D)) /\ Len(Info(o.class)) = 4
           /\ o.data \in Seq(StoredUnits(I, D))
           /\ WriteObject(o) = Info("Object") \o <<<<"id", o.id>>>>
           /\ WriteObject(o) \in Seq(StoredUnits(I, D)) /\ Len(WriteObject(o)) = 5
           /\ WriteData(o) = Info(o.class) \o o.data
           /\ WriteData(o) \in Seq(StoredUnits(I, D)) /\ Len(WriteData(o)) = 4 + Sizes[o.class]
           /\ Write(o) \in Seq(StoredUnits(I, D))
<1> DEFINE S == StoredUnits(I, D)
           c == o.class
           d == o.data
           u == <<"id", o.id>>
<1>1. c \in Classes /\ o.id \in I /\ d \in Seq(D) /\ Len(d) = Sizes[c] /\ Sizes[c] \in 0..5
  BY StoredIs
<1>2. ASSUME NEW f \in Classes
      PROVE  Info(f) \in Seq(S) /\ Len(Info(f)) = 4
  <2>1. Info(f) = [i \in 1..4 |-> <<"info", f, i>>]
    BY SizesAre DEF Info
  <2>2. \A i \in 1..4 : <<"info", f, i>> \in S
    BY SizesAre DEF StoredUnits
  <2> DEFINE x == Info(f)
             n == 4
  <2>3. x \in [1..n -> S] /\ n \in Nat
    BY <2>1, <2>2
  <2> HIDE DEF x, S, n
  <2>4. x \in Seq(S) /\ Len(x) = n
    BY <2>3
  <2> QED
    BY <2>4 DEF x, n
<1>3. "Object" \in Classes
  BY SizesAre
<1>4. u \in S /\ <<u>> \in Seq(S) /\ Len(<<u>>) = 1
  <2>1. u \in S
    BY <1>1 DEF StoredUnits
  <2> HIDE DEF S, u
  <2> QED
    BY <2>1, UnitIs
<1>5. d \in Seq(S)
  <2>1. D \subseteq S
    BY DEF StoredUnits
  <2> HIDE DEF S, d
  <2> QED
    BY <1>1, <2>1
<1> DEFINE x == Info("Object")
           y == <<u>>
           v == Info(c)
<1>6. x \in Seq(S) /\ Len(x) = 4 /\ v \in Seq(S) /\ Len(v) = 4
  BY <1>1, <1>2, <1>3
<1>7. WriteObject(o) = x \o y /\ WriteData(o) = v \o d
  BY DEF WriteObject, WriteData
<1>8. Write(o) = WriteObject(o) \o (IF HasData(o) THEN WriteData(o) ELSE <<>>)
  BY DEF Write
<1> HIDE DEF x, y, v, S, d, u
<1>9. x \o y \in Seq(S) /\ Len(x \o y) = Len(x) + Len(y)
  BY <1>4, <1>6, ConcatProperties DEF y
<1>10. v \o d \in Seq(S) /\ Len(v \o d) = Len(v) + Len(d)
  BY <1>5, <1>6, ConcatProperties
<1>11. Len(x \o y) = 5 /\ Len(v \o d) = 4 + Sizes[c]
  BY <1>1, <1>4, <1>6, <1>9, <1>10 DEF y
<1>12. Write(o) \in Seq(S)
  <2> DEFINE w == IF HasData(o) THEN WriteData(o) ELSE <<>>
             z == WriteObject(o)
  <2>1. w \in Seq(S) /\ z \in Seq(S)
    BY <1>7, <1>9, <1>10
  <2> HIDE DEF w, z
  <2>2. z \o w \in Seq(S)
    BY <2>1, ConcatProperties
  <2> QED
    BY <1>8, <2>2 DEF w, z
<1> QED
  BY <1>4, <1>5, <1>6, <1>7, <1>9, <1>10, <1>11, <1>12 DEF S, x, y, v, d, u

\* read of the units that lie where an object reader is.
LEMMA UnitsOfObject ==
    ASSUME NEW S, NEW b \in Seq(S), NEW p \in Nat, NEW x \in Seq(S), LiesAt(b, p, x),
           NEW o, NEW n, Len(x) = n
    PROVE  /\ Enough(R3(b, p, o), n) /\ Units(R3(b, p, o), n) = x
           /\ Past(R3(b, p, o), n) = R3(b, p + n, o)
<1> DEFINE r == R3(b, p, o)
<1>1. r.buf = b /\ r.at = p
  BY DEF R3
<1>2. [r EXCEPT !.at = p + n] = R3(b, p + n, o)
  BY DEF R3
<1> HIDE DEF r
<1>3. Enough(r, n) /\ Units(r, n) = x /\ Past(r, n) = [r EXCEPT !.at = p + n]
  BY <1>1, UnitsThere
<1> QED
  BY <1>2, <1>3 DEF r

\* Object::read of an object that was written.
LEMMA ObjectPart ==
    ASSUME NEW I, NEW D, NEW o \in StoredObjects(I, D), NEW b \in Seq(StoredUnits(I, D)),
           NEW p \in Nat, LiesAt(b, p, WriteObject(o)), NEW c, NEW i, NEW d
    PROVE  ReadObject(R3(b, p, Obj(c, i, d))) = R3(b, p + 5, Obj(c, o.id, d))
<1> DEFINE S == StoredUnits(I, D)
           u == <<"id", o.id>>
           x == Info("Object")
           y == <<u>>
           h == p + 4
           m == 4
           n == 1
           q == Obj(c, i, d)
           r == R3(b, p, q)
           t == R3(b, h, q)
           v == R3(b, h + n, q)
<1>1. /\ x \in Seq(S) /\ Len(x) = m /\ y \in Seq(S) /\ Len(y) = n /\ y[1][2] = o.id
      /\ WriteObject(o) = x \o y
  BY StoredWrite
<1>2. b \in Seq(S) /\ LiesAt(b, p, x \o y) /\ h \in Nat /\ h + 1 = p + 5
  BY <1>1
<1>3. (Verified(r, "Object") <=> Units(r, m) = x) /\ InfoSize = m
  BY DEF Verified, InfoSize
<1>4. p + m = h /\ h + n = p + 5 /\ n = 1
  OBVIOUS
<1> HIDE DEF S, x, y, u, q, h, m, n
<1>5. LiesAt(b, p, x) /\ LiesAt(b, h, y)
  <2>1. LiesAt(b, p, x) /\ LiesAt(b, p + Len(x), y)
    BY <1>1, <1>2, LiesParts
  <2> QED
    BY <1>1, <1>4, <2>1
<1>6. Units(r, m) = x /\ Past(r, m) = t
  BY <1>1, <1>2, <1>4, <1>5, UnitsOfObject
<1>7. Enough(t, n) /\ Units(t, n) = y /\ Past(t, n) = v
  <2>1. b \in Seq(S) /\ h \in Nat /\ y \in Seq(S) /\ LiesAt(b, h, y) /\ Len(y) = n
    BY <1>1, <1>2, <1>5
  <2> QED
    BY ONLY <2>1, UnitsOfObject
<1> HIDE DEF r, t, v
<1>8. ReadObject(r) = [v EXCEPT !.o.id = y[1][2]]
  BY <1>3, <1>4, <1>6, <1>7 DEF ReadObject
<1>9. [v EXCEPT !.o.id = o.id] = R3(b, h + n, Obj(c, o.id, d))
  BY DEF R3, Obj, q, v
<1> QED
  BY <1>1, <1>4, <1>8, <1>9 DEF q, r

\* The rest of read.
LEMMA DataPart ==
    ASSUME NEW I, NEW D, NEW o \in StoredObjects(I, D), NEW b \in Seq(StoredUnits(I, D)),
           NEW p \in Nat, LiesAt(b, p, WriteData(o)), NEW i, NEW d
    PROVE  ReadData(R3(b, p, Obj(o.class, i, d))) =
              R3(b, p + (4 + Sizes[o.class]), Obj(o.class, i, o.data))
<1> DEFINE S == StoredUnits(I, D)
           c == o.class
           x == Info(c)
           y == o.data
           h == p + 4
           m == 4
           n == Sizes[c]
           q == Obj(c, i, d)
           r == R3(b, p, q)
           t == R3(b, h, q)
           v == R3(b, h + n, q)
<1>0. Len(y) = n /\ n \in Nat
  <2>1. n \in 0..5 /\ Len(y) = n
    BY StoredIs
  <2> HIDE DEF n
  <2> QED
    BY <2>1
<1>1. /\ x \in Seq(S) /\ Len(x) = m /\ y \in Seq(S) /\ Len(y) = n /\ n \in Nat
      /\ WriteData(o) = x \o y
  BY <1>0, StoredWrite
<1>2. b \in Seq(S) /\ LiesAt(b, p, x \o y) /\ h \in Nat
  BY <1>1
<1>3. (Verified(r, c) <=> Units(r, m) = x) /\ InfoSize = m /\ r.o.class = c
  BY DEF Verified, InfoSize, R3, Obj
<1>4. p + m = h
  OBVIOUS
<1> HIDE DEF S, x, y, q, h, m, n, c
<1>10. h + n = p + (4 + n)
  BY <1>1 DEF h
<1>5. LiesAt(b, p, x) /\ LiesAt(b, h, y)
  <2>1. LiesAt(b, p, x) /\ LiesAt(b, p + Len(x), y)
    BY <1>1, <1>2, LiesParts
  <2> QED
    BY <1>1, <1>4, <2>1
<1>6. Units(r, m) = x /\ Past(r, m) = t
  BY <1>1, <1>2, <1>4, <1>5, UnitsOfObject
<1>7. Enough(t, n) /\ Units(t, n) = y /\ Past(t, n) = v
  <2>1. b \in Seq(S) /\ h \in Nat /\ y \in Seq(S) /\ LiesAt(b, h, y) /\ Len(y) = n
    BY <1>1, <1>2, <1>5
  <2> QED
    BY ONLY <2>1, UnitsOfObject
<1> HIDE DEF r, t, v
<1>8. ReadData(r) = [v EXCEPT !.o.data = y]
  BY <1>3, <1>4, <1>6, <1>7 DEF ReadData, n
<1>9. [v EXCEPT !.o.data = y] = R3(b, h + n, Obj(c, i, y))
  BY DEF R3, Obj, q, v
<1> QED
  BY <1>8, <1>9, <1>10 DEF q, r, c, y, n

\* read of an object by an object of its class.
LEMMA ObjectBack ==
    ASSUME NEW I, NEW D, NEW o \in StoredObjects(I, D), NEW b \in Seq(StoredUnits(I, D)),
           NEW p \in Nat, LiesAt(b, p, Write(o)), NEW s \in StoredObjects(I, D),
           s.class = o.class
    PROVE  Read(R3(b, p, s)) = R3(b, p + Len(Write(o)), o)
<1> DEFINE S == StoredUnits(I, D)
           c == o.class
           x == WriteObject(o)
           y == WriteData(o)
           h == p + 5
           n == Sizes[c]
           w == Obj(c, o.id, s.data)
<1>0. n \in 0..5 /\ Len(o.data) = n /\ Len(s.data) = n
  BY StoredIs
<1>1. /\ x \in Seq(S) /\ Len(x) = 5 /\ y \in Seq(S) /\ Len(y) = 4 + n
      /\ n \in 0..5 /\ Len(o.data) = n /\ Len(s.data) = n
  BY <1>0, StoredWrite
<1>2. /\ s = Obj(c, s.id, s.data) /\ o = Obj(c, o.id, o.data)
      /\ (HasData(o) <=> n > 0) /\ (HasData(s) <=> n > 0) /\ (n > 0 <=> c # "Object")
  BY StoredIs
<1>3. R3(b, p, s).o = s /\ R3(b, p, s).o.class = c
  BY DEF R3
<1>4. Write(o) = IF HasData(o) THEN x \o y ELSE x \o <<>>
  BY DEF Write
<1>5. b \in Seq(S)
  OBVIOUS
<1>6. CASE HasData(o)
  <2>1. LiesAt(b, p, x \o y)
    BY <1>4, <1>6
  <2> HIDE DEF S, x, y
  <2>2. LiesAt(b, p, x) /\ LiesAt(b, p + Len(x), y)
    BY <1>1, <1>5, <2>1, LiesParts
  <2>3. LiesAt(b, h, y) /\ h \in Nat
    BY <1>1, <2>2
  <2> HIDE DEF h
  <2>4. Len(x \o y) = Len(x) + Len(y)
    BY <1>1, ConcatProperties
  <2>5. Len(Write(o)) = 9 + n
    <3>1. Len(x) + Len(y) = 9 + n
      BY <1>1
    <3> QED
      BY <1>4, <1>6, <2>4, <3>1
  <2>6. h + (4 + n) = p + (9 + n)
    <3> HIDE DEF n
    <3> QED
      BY <1>1 DEF h
  <2> DEFINE i == s.id
             d == s.data
  <2> HIDE DEF i, d
  <2>7. ReadObject(R3(b, p, Obj(c, i, d))) = R3(b, p + 5, Obj(c, o.id, d))
    <3> HIDE DEF c
    <3> QED
      BY <2>2, ObjectPart DEF x
  <2>8. ReadData(R3(b, h, Obj(c, o.id, d))) = R3(b, h + (4 + n), Obj(c, o.id, o.data))
    <3>1. h \in Nat /\ LiesAt(b, h, WriteData(o))
      BY <2>3 DEF y
    <3> DEFINE i2 == o.id
    <3> HIDE DEF i2
    <3>2. ReadData(R3(b, h, Obj(o.class, i2, d))) =
             R3(b, h + (4 + Sizes[o.class]), Obj(o.class, i2, o.data))
      BY <3>1, DataPart
    <3> QED
      BY <3>2 DEF i2
  <2>9. ReadData(ReadObject(R3(b, p, s))) = R3(b, p + (9 + n), o)
    BY <1>2, <2>6, <2>7, <2>8 DEF h, i, d
  <2>10. Read(R3(b, p, s)) = ReadData(ReadObject(R3(b, p, s)))
    BY <1>2, <1>3, <1>6 DEF Read
  <2> QED
    BY <2>5, <2>9, <2>10
<1>7. CASE ~HasData(o)
  <2>1. Write(o) = x /\ LiesAt(b, p, x)
    <3>1. x \o <<>> = x
      BY <1>1
    <3> QED
      BY <1>4, <1>7, <3>1
  <2>2. o.data = s.data
    <3>1. n = 0
      BY <1>1, <1>2, <1>7
    <3>2. o.data \in Seq(D) /\ s.data \in Seq(D)
      BY StoredIs
    <3> QED
      BY <1>1, <3>1, <3>2
  <2> DEFINE i == s.id
             d == s.data
  <2> HIDE DEF i, d
  <2>3. ReadObject(R3(b, p, Obj(c, i, d))) = R3(b, p + 5, Obj(c, o.id, d))
    <3> HIDE DEF c
    <3> QED
      BY <2>1, ObjectPart
  <2>4. Read(R3(b, p, s)) = ReadObject(R3(b, p, s))
    BY <1>2, <1>3, <1>7 DEF Read
  <2> QED
    BY <1>1, <1>2, <2>1, <2>2, <2>3, <2>4 DEF i, d
<1> QED
  BY <1>6, <1>7

\* Two objects read back, one after the other.
LEMMA TwoObjectsBack ==
    ASSUME NEW I, NEW D, NEW a \in StoredObjects(I, D), NEW b \in StoredObjects(I, D),
           NEW s \in StoredObjects(I, D), NEW t \in StoredObjects(I, D)
    PROVE  ReadsBack(a, b, s, t)
<1> SUFFICES ASSUME s.class = a.class, t.class = b.class
             PROVE  /\ Equals(Read(Reader(a, b, s)).o, a)
                    /\ Equals(Second(a, b, s, t).o, b)
                    /\ Second(a, b, s, t).at = Len(Second(a, b, s, t).buf)
  BY DEF ReadsBack
<1> DEFINE S == StoredUnits(I, D)
           x == Write(a)
           y == Write(b)
           w == x \o y
           n == 0
           m == n + Len(x)
<1>1. x \in Seq(S) /\ y \in Seq(S)
  BY StoredWrite
<1> HIDE DEF S, x, y
<1>2. w \in Seq(S) /\ Len(w) = Len(x) + Len(y) /\ n \in Nat /\ m \in Nat /\ m = Len(x)
  BY <1>1, ConcatProperties
<1>3. Reader(a, b, s) = R3(w, n, s)
  BY DEF Reader, R3, x, y
<1> HIDE DEF w
<1>4. LiesAt(w, n, w)
  <2>1. w \in Seq(S)
    BY <1>2
  <2> QED
    BY ONLY <2>1, LiesWhole
<1> HIDE DEF n
<1>5. LiesAt(w, n, x) /\ LiesAt(w, m, y)
  BY <1>1, <1>2, <1>4, LiesParts DEF w
<1>6. Read(R3(w, n, s)) = R3(w, m, a)
  BY <1>2, <1>5, ObjectBack DEF x, S
<1>7. [R3(w, m, a) EXCEPT !.o = t] = R3(w, m, t)
  BY DEF R3
<1> HIDE DEF m
<1>8. Read(R3(w, m, t)) = R3(w, m + Len(y), b)
  BY <1>2, <1>5, ObjectBack DEF y, S
<1>9. Second(a, b, s, t) = R3(w, m + Len(y), b)
  BY <1>3, <1>6, <1>7, <1>8 DEF Second
<1>10. /\ R3(w, m, a).o = a /\ R3(w, m + Len(y), b).o = b
       /\ R3(w, m + Len(y), b).at = m + Len(y) /\ R3(w, m + Len(y), b).buf = w
  BY DEF R3
<1>11. m + Len(y) = Len(w)
  BY <1>2
<1> QED
  BY <1>3, <1>6, <1>9, <1>10, <1>11 DEF Equals

\* A reader that has no ClassInfo of class c before it.
LEMMA NotVerified ==
    ASSUME NEW S, NEW w \in Seq(S), NEW p \in Nat, NEW o, NEW c,
           p + 1 <= Len(w) => w[p + 1] # <<"info", c, 1>>
    PROVE  ~Verified(R3(w, p, o), c)
<1> DEFINE r == R3(w, p, o)
           i == p + 1
           j == p + 4
           v == SubSeq(w, i, j)
<1>1. r.buf = w /\ r.at = p /\ InfoSize = 4
  BY DEF R3, InfoSize
<1>2. Len(w) \in Nat
  OBVIOUS
<1>3. 1 \in DOMAIN Info(c) /\ Info(c)[1] = <<"info", c, 1>>
  BY <1>1 DEF Info
<1>4. Verified(r, c) <=> Units(r, 4) = Info(c)
  BY <1>1 DEF Verified
<1>5. CASE p + 4 <= Len(w)
  <2>1. Units(r, 4) = v
    BY <1>1, <1>5 DEF Units, Enough
  <2>2. i \in Nat \ {0} /\ j \in Nat /\ j <= Len(w) /\ 1 \in 1..(j - i + 1) /\ i + 1 - 1 = i
    BY <1>5
  <2> HIDE DEF i, j
  <2>3. v[1] = w[i + 1 - 1]
    BY <2>2, PartIs
  <2>4. v[1] # <<"info", c, 1>>
    BY <1>2, <1>5, <2>2, <2>3 DEF i
  <2> HIDE DEF v
  <2> QED
    BY <1>3, <1>4, <2>1, <2>4
<1>6. CASE ~(p + 4 <= Len(w))
  <2>1. Units(r, 4) = <<>>
    BY <1>1, <1>6 DEF Units, Enough
  <2>2. 1 \notin DOMAIN <<>>
    OBVIOUS
  <2> QED
    BY <1>3, <1>4, <2>1, <2>2
<1> QED
  BY <1>5, <1>6

\* A class is known by its ClassInfo.
LEMMA InfoDiffers ==
    ASSUME NEW c, NEW d, Info(c) = Info(d)
    PROVE  c = d
<1>1. Info(c)[1] = <<"info", c, 1>> /\ Info(d)[1] = <<"info", d, 1>>
  BY DEF Info, InfoSize
<1>2. <<"info", c, 1>> = <<"info", d, 1>>
  BY <1>1
<1> QED
  BY <1>2

\* Where the parts of two objects are.
LEMMA TwoObjectsLie ==
    ASSUME NEW I, NEW D, NEW a \in StoredObjects(I, D), NEW b \in StoredObjects(I, D),
           HasData(a)
    PROVE  /\ Write(a) \o Write(b) \in Seq(StoredUnits(I, D))
           /\ LiesAt(Write(a) \o Write(b), 0, WriteObject(a))
           /\ LiesAt(Write(a) \o Write(b), 5, Info(a.class))
           /\ LiesAt(Write(a) \o Write(b), 9, a.data)
           /\ LiesAt(Write(a) \o Write(b), 9 + Sizes[a.class], Info("Object"))
<1> DEFINE S == StoredUnits(I, D)
           n == 0
           xa == WriteObject(a)
           ya == WriteData(a)
           ia == Info(a.class)
           da == a.data
           z == Sizes[a.class]
           x == Write(a)
           xb == WriteObject(b)
           yb == IF HasData(b) THEN WriteData(b) ELSE <<>>
           ib == Info("Object")
           ub == <<<<"id", b.id>>>>
           y == Write(b)
           w == x \o y
<1>1. z \in 0..5 /\ Len(da) = z
  BY StoredIs
<1>2. /\ xa \in Seq(S) /\ Len(xa) = 5 /\ ya \in Seq(S) /\ Len(ya) = 4 + z
      /\ ia \in Seq(S) /\ Len(ia) = 4 /\ da \in Seq(S) /\ ya = ia \o da /\ x \in Seq(S)
  BY StoredWrite
<1>3. /\ xb \in Seq(S) /\ yb \in Seq(S) /\ ib \in Seq(S) /\ ub \in Seq(S) /\ y \in Seq(S)
      /\ xb = ib \o ub
  <2>1. xb \in Seq(S) /\ ib \in Seq(S) /\ ub \in Seq(S) /\ y \in Seq(S) /\ xb = ib \o ub
    BY StoredWrite
  <2>2. WriteData(b) \in Seq(S)
    BY StoredWrite
  <2>3. yb \in Seq(S)
    <3>1. CASE HasData(b)
      BY <2>2, <3>1
    <3>2. CASE ~HasData(b)
      <4>1. yb = <<>>
        BY <3>2
      <4> HIDE DEF yb, S
      <4> QED
        BY <4>1
    <3> QED
      BY <3>1, <3>2
  <2> HIDE DEF S, xb, yb, ib, ub, y
  <2> QED
    BY <2>1, <2>3
<1>4. x = xa \o ya /\ y = xb \o yb
  BY DEF Write
<1> HIDE DEF S, xa, ya, ia, da, z, x, xb, yb, ib, ub, y
<1>5. w \in Seq(S) /\ n \in Nat
  BY <1>2, <1>3, ConcatProperties
<1>6. Len(x) = Len(xa) + Len(ya)
  BY <1>2, <1>4, ConcatProperties
<1>7. n + 5 = 5 /\ 5 \in Nat /\ 5 + 4 = 9 /\ n + (5 + (4 + z)) = 9 + z /\ Len(x) = 5 + (4 + z)
  BY <1>1, <1>2, <1>6
<1> HIDE DEF w
<1>8. LiesAt(w, n, w)
  <2>1. w \in Seq(S)
    BY <1>5
  <2> QED
    BY ONLY <2>1, LiesWhole
<1> HIDE DEF n
<1> DEFINE f == n + Len(x)
           g == n + Len(xa)
<1>9. LiesAt(w, n, x) /\ LiesAt(w, f, y)
  BY <1>2, <1>3, <1>5, <1>8, LiesParts DEF w
<1>10. LiesAt(w, n, xa) /\ LiesAt(w, g, ya)
  BY <1>2, <1>4, <1>5, <1>9, LiesParts
<1>11. f \in Nat /\ f = 9 + z /\ g = 5 /\ g \in Nat
  BY <1>1, <1>2, <1>7
<1> HIDE DEF f, g
<1>12. LiesAt(w, g, ia) /\ LiesAt(w, g + Len(ia), da)
  BY <1>2, <1>5, <1>10, <1>11, LiesParts
<1>13. LiesAt(w, f, xb)
  BY <1>3, <1>4, <1>5, <1>9, <1>11, LiesParts
<1>14. LiesAt(w, f, ib)
  BY <1>3, <1>5, <1>11, <1>13, LiesParts
<1>15. LiesAt(w, 9, da)
  BY <1>2, <1>7, <1>11, <1>12
<1> QED
  BY <1>5, <1>10, <1>11, <1>12, <1>14, <1>15 DEF S, n, w, x, y, xa, ia, da, z, ib

\* A reader of another class.
LEMMA OtherClassKeeps ==
    ASSUME NEW I, NEW D, \A u \in D : u[1] # "info",
           NEW a \in StoredObjects(I, D), NEW b \in StoredObjects(I, D),
           NEW s \in StoredObjects(I, D), NEW t \in StoredObjects(I, D)
    PROVE  KeepsOwnData(a, b, s, t)
<1> SUFFICES ASSUME s.class # a.class, HasData(s), HasData(a)
             PROVE  /\ Read(Reader(a, b, s)).o.data = s.data
                    /\ Read(Reader(a, b, s)).o.id = a.id
                    /\ Second(a, b, s, t).o = t
  BY DEF KeepsOwnData
<1> DEFINE S == StoredUnits(I, D)
           w == Write(a) \o Write(b)
           z == Sizes[a.class]
           c == s.class
           d == s.data
           i == s.id
           n == 0
           q == Obj(c, a.id, d)
           r == R3(w, 5, q)
<1>1. /\ w \in Seq(S) /\ LiesAt(w, n, WriteObject(a)) /\ LiesAt(w, 5, Info(a.class))
      /\ LiesAt(w, 9, a.data) /\ LiesAt(w, 9 + z, Info("Object"))
  BY TwoObjectsLie
<1>2. /\ s = Obj(c, i, d) /\ z \in 0..5 /\ z > 0 /\ Len(a.data) = z /\ a.data \in Seq(D)
      /\ a.class \in Classes /\ t = Obj(t.class, t.id, t.data)
  BY StoredIs
<1>3. Reader(a, b, s) = R3(w, n, s)
  BY DEF Reader, R3
<1>4. n \in Nat /\ n + 5 = 5 /\ InfoSize = 4
  BY DEF InfoSize
<1>5. Info(a.class) \in Seq(S) /\ Len(Info(a.class)) = 4 /\ Len(Info("Object")) = 4
  BY StoredWrite
<1> HIDE DEF w, n, c, d, i, z
<1>6. ReadObject(R3(w, n, Obj(c, i, d))) = R3(w, n + 5, q)
  BY <1>1, <1>4, ObjectPart DEF S
<1>7. Units(r, 4) = Info(a.class) /\ Past(r, 4) = R3(w, 9, q)
  <2> DEFINE m == 4
             f == 5
             x == Info(a.class)
  <2>1. w \in Seq(S) /\ f \in Nat /\ x \in Seq(S) /\ LiesAt(w, f, x) /\ Len(x) = m
    BY <1>1, <1>5
  <2>2. f + m = 9
    OBVIOUS
  <2> HIDE DEF S, m, f, x, q
  <2>3. Units(R3(w, f, q), m) = x /\ Past(R3(w, f, q), m) = R3(w, f + m, q)
    BY <2>1, UnitsOfObject
  <2> QED
    BY <2>2, <2>3 DEF m, f, x
<1>8. r.o.class = c /\ R3(w, n, s).o = s /\ R3(w, 9, q).o = q /\ q.id = a.id /\ q.data = d
  BY DEF R3, Obj
<1>9. ~Verified(r, c)
  BY <1>4, <1>7, InfoDiffers DEF Verified, c
<1>10. Read(R3(w, n, s)) = R3(w, 9, q)
  <2>1. Read(R3(w, n, s)) = ReadData(ReadObject(R3(w, n, s)))
    BY <1>8 DEF Read
  <2>2. ReadObject(R3(w, n, s)) = r
    BY <1>2, <1>4, <1>6
  <2> HIDE DEF r, q
  <2>3. ReadData(r) = Past(r, 4)
    BY <1>4, <1>8, <1>9 DEF ReadData
  <2> QED
    BY <1>7, <2>1, <2>2, <2>3
<1>11. [R3(w, 9, q) EXCEPT !.o = t] = R3(w, 9, t)
  BY DEF R3
<1> HIDE DEF q
<1>12. Second(a, b, s, t) = Read(R3(w, 9, t))
  BY <1>3, <1>10, <1>11 DEF Second
<1>13. z \in {1, 3, 5}
  BY <1>2, SizesAre DEF z
<1>14. ASSUME NEW j \in 1..z
       PROVE  w[9 + j] = a.data[j] /\ w[9 + j][1] # "info"
  <2>1. w[9 + j] = a.data[j]
    BY <1>1, <1>2 DEF LiesAt
  <2>2. a.data[j] \in D
    BY <1>2
  <2> QED
    BY <2>1, <2>2
<1>15. ASSUME NEW j \in 1..4
       PROVE  w[9 + z + j] = <<"info", "Object", j>>
  <2>1. w[9 + z + j] = Info("Object")[j]
    BY <1>1, <1>5 DEF LiesAt
  <2> QED
    BY <1>4, <2>1 DEF Info
<1>16. Len(w) \in Nat /\ 13 <= Len(w)
  <2> DEFINE x == Info("Object")
             g == 9 + z
  <2>2. LiesAt(w, g, x) /\ Len(x) = 4 /\ w \in Seq(S)
    BY <1>1, <1>5
  <2> HIDE DEF x, g, S
  <2>3. g + Len(x) <= Len(w) /\ Len(w) \in Nat
    BY <2>2 DEF LiesAt
  <2>1. 9 + z + 4 <= Len(w) /\ Len(w) \in Nat
    BY <2>2, <2>3 DEF g
  <2> QED
    BY <1>13, <2>1
<1>17. w[9 + 1] # <<"info", "Object", 1>>
  <2>1. 1 \in 1..z
    BY <1>13
  <2> QED
    BY <1>14, <2>1
<1>18. w[13 + 1] # <<"info", t.class, 1>>
  <2>1. CASE z = 1
    <3>1. 9 + z + 4 = 13 + 1 /\ 4 \in 1..4
      BY <2>1
    <3>2. w[13 + 1] = <<"info", "Object", 4>>
      BY <1>15, <3>1
    <3> QED
      BY <3>2
  <2>2. CASE z = 3
    <3>1. 9 + z + 2 = 13 + 1 /\ 2 \in 1..4
      BY <2>2
    <3>2. w[13 + 1] = <<"info", "Object", 2>>
      BY <1>15, <3>1
    <3> QED
      BY <3>2
  <2>3. CASE z = 5
    <3>1. 9 + 5 = 13 + 1 /\ 5 \in 1..z
      BY <2>3
    <3>2. w[13 + 1][1] # "info"
      BY <1>14, <3>1
    <3> QED
      BY <3>2
  <2> QED
    BY <1>13, <2>1, <2>2, <2>3
<1>19. ~Verified(R3(w, 9, t), "Object")
  <2> DEFINE p == 9
             f == "Object"
  <2>1. p \in Nat /\ (p + 1 <= Len(w) => w[p + 1] # <<"info", f, 1>>) /\ w \in Seq(S)
    BY <1>1, <1>17
  <2> HIDE DEF p, f, S
  <2>2. ~Verified(R3(w, p, t), f)
    BY <2>1, NotVerified
  <2> QED
    BY <2>2 DEF p, f
<1>20. ~Verified(R3(w, 13, t), t.class)
  <2> DEFINE p == 13
             f == t.class
  <2>1. p \in Nat /\ (p + 1 <= Len(w) => w[p + 1] # <<"info", f, 1>>) /\ w \in Seq(S)
    BY <1>1, <1>18
  <2> HIDE DEF p, f, S
  <2>2. ~Verified(R3(w, p, t), f)
    BY <2>1, NotVerified
  <2> QED
    BY <2>2 DEF p, f
<1>21. ReadObject(R3(w, 9, t)) = R3(w, 13, t)
  <2>1. Past(R3(w, 9, t), InfoSize) = R3(w, 13, t)
    <3>1. R3(w, 9, t).at = 9 /\ R3(w, 9, t).buf = w
      BY DEF R3
    <3>2. Enough(R3(w, 9, t), InfoSize)
      BY <1>4, <1>16, <3>1 DEF Enough
    <3>3. Past(R3(w, 9, t), InfoSize) = [R3(w, 9, t) EXCEPT !.at = 13]
      BY <1>4, <3>1, <3>2 DEF Past
    <3>4. [R3(w, 9, t) EXCEPT !.at = 13] = R3(w, 13, t)
      BY DEF R3
    <3> QED
      BY <3>3, <3>4
  <2> QED
    BY <1>19, <2>1 DEF ReadObject
<1>22. R3(w, 13, t).o = t /\ R3(w, 9, t).o = t
  BY DEF R3
<1>23. Read(R3(w, 9, t)).o = t
  <2>1. CASE HasData(t)
    <3> DEFINE k == R3(w, 13, t)
    <3>1. Read(R3(w, 9, t)) = ReadData(k)
      BY <1>21, <1>22, <2>1 DEF Read
    <3>2. k.o = t /\ ~Verified(k, k.o.class)
      BY <1>20, <1>22
    <3>5. [k EXCEPT !.at = k.at + InfoSize].o = k.o
      BY DEF R3
    <3> HIDE DEF k
    <3>3. ReadData(k) = Past(k, InfoSize)
      BY <3>2 DEF ReadData
    <3>4. Past(k, InfoSize).o = k.o
      BY <3>5 DEF Past
    <3> QED
      BY <3>1, <3>2, <3>3, <3>4
  <2>2. CASE ~HasData(t)
    BY <1>21, <1>22, <2>2 DEF Read
  <2> QED
    BY <2>1, <2>2
<1> QED
  BY <1>3, <1>8, <1>10, <1>12, <1>23 DEF d

\* Object::clone of an object, read by an object with Data: it takes the id.
LEMMA CloneReadBy ==
    ASSUME NEW I, NEW D, NEW a \in StoredObjects(I, D), NEW b \in StoredObjects(I, D),
           HasData(b)
    PROVE  Read([buf |-> Write(Cloned(a)), at |-> 0, o |-> b]).o = Obj(b.class, a.id, b.data)
<1> DEFINE k == Cloned(a)
           w == Write(k)
           n == 0
           c == b.class
           i == b.id
           d == b.data
           q == Obj(c, a.id, d)
           r == R3(w, 5, q)
<1>1. a.id \in I /\ b = Obj(c, i, d)
  BY StoredIs
<1>2. k.class = "Object" /\ k.id = a.id /\ k.data = <<>> /\ ~HasData(k)
  BY SizesAre DEF Cloned, HasData
<1>3. k \in StoredObjects(I, D)
  <2>1. k \in [class : Classes, id : I, data : Seq(D)]
    BY <1>1, SizesAre DEF Cloned
  <2>2. Len(k.data) = Sizes[k.class]
    BY <1>2, SizesAre
  <2> HIDE DEF k
  <2> QED
    BY <2>1, <2>2 DEF StoredObjects
<1> HIDE DEF k
<1>4. WriteObject(k) \in Seq(StoredUnits(I, D)) /\ Len(WriteObject(k)) = 5
  BY <1>3, StoredWrite
<1>5. w = WriteObject(k)
  <2>1. w = WriteObject(k) \o <<>>
    BY <1>2 DEF Write
  <2> DEFINE x == WriteObject(k)
             S == StoredUnits(I, D)
  <2>2. x \in Seq(S)
    BY <1>4
  <2> HIDE DEF x, w, S
  <2>3. x \o <<>> = x
    BY <2>2
  <2> QED
    BY <2>1, <2>3 DEF x
<1>6. [buf |-> w, at |-> 0, o |-> b] = R3(w, n, b)
  BY DEF R3
<1> HIDE DEF w
<1>7. w \in Seq(StoredUnits(I, D)) /\ Len(w) = 5 /\ n \in Nat /\ n + 5 = 5
  BY <1>4, <1>5
<1>8. LiesAt(w, n, WriteObject(k))
  <2> DEFINE S == StoredUnits(I, D)
  <2>1. w \in Seq(S)
    BY <1>7
  <2>2. LiesAt(w, 0, w)
    BY ONLY <2>1, LiesWhole
  <2> QED
    BY <1>5, <2>2
<1> HIDE DEF n, c, i, d
<1>9. ReadObject(R3(w, n, Obj(c, i, d))) = R3(w, n + 5, Obj(c, k.id, d))
  BY <1>3, <1>7, <1>8, ObjectPart
<1>10. ReadObject(R3(w, n, b)) = r
  BY <1>1, <1>2, <1>7, <1>9
<1>11. R3(w, n, b).o = b /\ r.o = q /\ r.o.class = c /\ r.at = 5 /\ r.buf = w
  BY DEF R3, Obj
<1>12. ~Verified(r, c)
  <2> DEFINE p == 5
             S == StoredUnits(I, D)
  <2>1. p \in Nat /\ ~(p + 1 <= Len(w)) /\ w \in Seq(S)
    BY <1>7
  <2> HIDE DEF p, S, q
  <2>2. ~Verified(R3(w, p, q), c)
    BY <2>1, NotVerified
  <2> QED
    BY <2>2 DEF p
<1> HIDE DEF r, q
<1>13. Past(r, InfoSize) = r
  <2>1. r.at = 5 /\ r.buf = w /\ Len(w) = 5
    BY <1>7, <1>11
  <2>2. ~(r.at + 4 <= Len(r.buf))
    BY ONLY <2>1
  <2>3. ~Enough(r, InfoSize)
    BY <2>2, SizesAre DEF Enough
  <2> QED
    BY <2>3 DEF Past
<1>14. Read(R3(w, n, b)) = ReadData(r)
  BY <1>10, <1>11 DEF Read
<1>15. ReadData(r) = r
  BY <1>11, <1>12, <1>13 DEF ReadData
<1> QED
  BY <1>6, <1>11, <1>14, <1>15 DEF w, k, q, c, d

\* What copies of an object have.
LEMMA CopiesOfObject ==
    ASSUME NEW I, NEW D, NEW a \in StoredObjects(I, D), NEW b \in StoredObjects(I, D)
    PROVE  CopiesExact(a, b)
<1> SUFFICES ASSUME a.class = b.class, a.class \in {"Generator", "Person"}
             PROVE  /\ PersonEquals(Assigned(b, a), a) /\ Assigned(b, a).id = b.id
                    /\ PersonEquals(CopyConstructed(a), a)
                    /\ Equals(CopyConstructed(a), a) <=> a.data[1][2] = a.id
                    /\ Cloned(a).id = a.id /\ ~HasData(Cloned(a))
                    /\ Read([buf |-> Write(Cloned(a)), at |-> 0, o |-> b]).o.data = b.data
  BY DEF CopiesExact
<1>1. HasData(a) /\ HasData(b) /\ a = Obj(a.class, a.id, a.data) /\ b = Obj(b.class, b.id, b.data)
  BY StoredIs
<1>2. [b EXCEPT !.data = a.data].data = a.data /\ [b EXCEPT !.data = a.data].id = b.id
  BY <1>1 DEF Obj
<1>3. Assigned(b, a) = [b EXCEPT !.data = a.data]
  BY <1>1 DEF Assigned
<1> DEFINE v == a.data[1][2]
           y == [a EXCEPT !.id = v]
<1>4. CopyConstructed(a) = y
  BY <1>1 DEF CopyConstructed
<1> HIDE DEF v
<1>5. y.data = a.data /\ y.id = v
  BY <1>1 DEF Obj
<1> HIDE DEF y
<1>6. Cloned(a).id = a.id /\ ~HasData(Cloned(a))
  BY SizesAre DEF Cloned, HasData
<1>7. Read([buf |-> Write(Cloned(a)), at |-> 0, o |-> b]).o = Obj(b.class, a.id, b.data)
  BY <1>1, CloneReadBy
<1>8. Obj(b.class, a.id, b.data).data = b.data
  BY DEF Obj
<1>9. PersonEquals(Assigned(b, a), a) /\ Assigned(b, a).id = b.id
  BY <1>2, <1>3 DEF PersonEquals
<1>10. PersonEquals(CopyConstructed(a), a) /\ (Equals(CopyConstructed(a), a) <=> v = a.id)
  BY <1>4, <1>5 DEF PersonEquals, Equals
<1> QED
  BY <1>6, <1>7, <1>8, <1>9, <1>10 DEF v

\* Objects of any classes, with any ids and any Data of their class's size,
\* written one after the other: readers of the same classes get them back,
\* readers of another class keep their Data, and assignments, copies and
\* clones have what CopiesExact says.  That the Data of an object never look
\* like the beginning of a ClassInfo is assumed, as read takes for granted
\* when it compares what it meets with INFO.
THEOREM ObjectsReadBack ==
    ASSUME NEW I, NEW D, \A u \in D : u[1] # "info",
           NEW a \in StoredObjects(I, D), NEW b \in StoredObjects(I, D),
           NEW s \in StoredObjects(I, D), NEW t \in StoredObjects(I, D)
    PROVE  ReadsBack(a, b, s, t) /\ KeepsOwnData(a, b, s, t) /\ CopiesExact(a, b)
  BY TwoObjectsBack, OtherClassKeeps, CopiesOfObject
=============================================================================
