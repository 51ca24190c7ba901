----------------------------- MODULE FileProofs -----------------------------
(***************************************************************************)
(* Proofs about the files of file.hpp and the tree of path.hpp, about what *)
(* io_util and the platforms' own io_util save, load and read line by      *)
(* line, and about the library's operations and objects as the run of      *)
(* MCLibrary puts them together.                                           *)
(***************************************************************************)
EXTENDS Files, PathTree, PlatformIo, LibraryProofs, MCLibrary

-----------------------------------------------------------------------------
(***************************************************************************)
(* Streams.                                                                *)
(***************************************************************************)
Contents == Seq(FileChars)
Modes == TextModes \cup OpenModes \cup {{}, TEXT_READ, BIN_RW}
Disks == [Paths -> Contents \cup {Absent}]
Streams == [on : Paths \cup {Absent}, flags : Modes, pos : Nat, fail : BOOLEAN, view : Contents]

FileTypeOK ==
    /\ life \in {"none", "alive", "destroyed", "terminated"}
    /\ tmp \in BOOLEAN /\ fullpath \in Paths
    /\ stream \in Streams /\ disk \in Disks
    /\ requested \in Contents /\ appending \in BOOLEAN /\ refused \in BOOLEAN

\* A stream is where its content is, and what is on disk of the file it is
\* open on is no more than it has.
InContent == stream.pos <= Len(stream.view)
OnDisk ==
    is_open => /\ disk[stream.on] # Absent
               /\ Len(disk[stream.on]) <= Len(stream.view)

\* No object, no stream.
NotYet == life = "none" => stream = Closed

\* A stream in error has refused something.
ErrorsKnown == stream.fail => refused

\* As long as every open was for appending, the stream appends to fullpath.
Appends == Alive /\ appending /\ is_open => stream.on = fullpath /\ "app" \in stream.flags

\* The inductive invariant.
FilesInd ==
    /\ FileTypeOK /\ InContent /\ OnDisk /\ NotYet /\ ErrorsKnown /\ Appends
    /\ AppendsInOrder /\ EndsForCause /\ TmpGone

\* A text is a prefix of itself and of what follows it.
LEMMA PrefixFacts ==
    ASSUME NEW x \in Contents, NEW y \in Contents, NEW c \in Contents
    PROVE  IsPrefix(x, x) /\ (IsPrefix(x, y) => IsPrefix(x, y \o c))
<1>1. IsPrefix(x, x)
  BY LenProperties DEF IsPrefix, Contents
<1>2. ASSUME IsPrefix(x, y)
      PROVE  IsPrefix(x, y \o c)
  <2>1. /\ Len(x) \in Nat /\ Len(y) \in Nat /\ Len(x) <= Len(y) /\ Len(c) \in Nat
        /\ SubSeq(x, 1, Len(x)) = SubSeq(y, 1, Len(x))
    BY <1>2, LenProperties DEF IsPrefix, Contents
  <2>2. Len(y \o c) = Len(y) + Len(c) /\ \A i \in 1..Len(y) : (y \o c)[i] = y[i]
    BY ConcatProperties DEF Contents
  <2>3. SubSeq(y, 1, Len(x)) = SubSeq(y \o c, 1, Len(x))
    BY <2>1, <2>2 DEF Contents
  <2> QED
    BY <2>1, <2>2, <2>3 DEF IsPrefix
<1> QED
  BY <1>1, <1>2

\* What open makes of a stream and a disk.
LEMMA Opens ==
    ASSUME NEW d \in Disks, NEW s \in Streams, NEW p \in Paths, NEW m \in Modes
    PROVE  /\ OpenStream(d, s, p, m) \in Streams /\ OpenDisk(d, p, m) \in Disks
           /\ CanOpen(d, p, m) =>
                /\ OpenStream(d, s, p, m).on = p /\ OpenStream(d, s, p, m).flags = m
                /\ ~OpenStream(d, s, p, m).fail
                /\ OpenStream(d, s, p, m).view = Fresh(d, p, m)
                /\ OpenStream(d, s, p, m).pos <= Len(Fresh(d, p, m))
                /\ OpenDisk(d, p, m) = [d EXCEPT ![p] = Fresh(d, p, m)]
           /\ ~CanOpen(d, p, m) =>
                /\ OpenStream(d, s, p, m) = [s EXCEPT !.fail = TRUE]
                /\ OpenDisk(d, p, m) = d
           /\ Fresh(d, p, m) \in Contents
           /\ "app" \in m /\ d[p] # Absent => Fresh(d, p, m) = d[p]
<1>1. Fresh(d, p, m) \in Contents
  <2>1. <<>> \in Contents
    BY EmptySeq DEF Contents
  <2> QED
    BY <2>1 DEF Fresh, Disks
<1>2. "app" \in m /\ d[p] # Absent => Fresh(d, p, m) = d[p]
  BY DEF Fresh, Truncates, Core
<1> DEFINE f == Fresh(d, p, m)
<1>3. Len(f) \in Nat /\ 0 <= Len(f)
  BY <1>1, LenProperties DEF Contents
<1> HIDE DEF f
<1>4. CASE CanOpen(d, p, m)
  <2>1. /\ OpenStream(d, s, p, m) =
              [on |-> p, flags |-> m, fail |-> FALSE, view |-> f,
               pos |-> IF "ate" \in m THEN Len(f) ELSE 0]
        /\ OpenDisk(d, p, m) = [d EXCEPT ![p] = f]
    BY <1>4 DEF OpenStream, OpenDisk, f
  <2>2. f \in Contents
    BY <1>1 DEF f
  <2>3. OpenStream(d, s, p, m) \in Streams
    BY <1>3, <2>1, <2>2 DEF Streams
  <2>4. OpenDisk(d, p, m) \in Disks
    BY <2>1, <2>2 DEF Disks
  <2> QED
    BY <1>1, <1>2, <1>3, <1>4, <2>1, <2>3, <2>4 DEF f
<1>5. CASE ~CanOpen(d, p, m)
  <2>1. OpenStream(d, s, p, m) = [s EXCEPT !.fail = TRUE] /\ OpenDisk(d, p, m) = d
    BY <1>5 DEF OpenStream, OpenDisk
  <2>2. [s EXCEPT !.fail = TRUE] \in Streams
    BY DEF Streams
  <2> QED
    BY <1>1, <1>2, <1>5, <2>1, <2>2
<1> QED
  BY <1>4, <1>5

\* What a write makes of a stream: nothing gets lost behind it, and a
\* stream that appends has the text at its end.
LEMMA Puts ==
    ASSUME NEW s \in Streams, s.pos <= Len(s.view), NEW c \in Contents
    PROVE  /\ Put(s, c) \in Streams
           /\ Put(s, c).on = s.on /\ Put(s, c).flags = s.flags /\ Put(s, c).fail = s.fail
           /\ Len(s.view) <= Len(Put(s, c).view) /\ Put(s, c).pos <= Len(Put(s, c).view)
           /\ "app" \in s.flags => Put(s, c).view = s.view \o c
<1> DEFINE v == s.view
           at == IF "app" \in s.flags THEN Len(v) ELSE s.pos
           x == SubSeq(v, 1, at)
           y == SubSeq(v, at + Len(c) + 1, Len(v))
           w == x \o c \o y
<1>1. v \in Seq(FileChars) /\ c \in Seq(FileChars) /\ Len(v) \in Nat /\ Len(c) \in Nat
  BY LenProperties DEF Streams, Contents
<1>2. at \in 0..Len(v)
  BY <1>1 DEF Streams
<1>3. ("app" \in s.flags) => at = Len(v)
  OBVIOUS
<1> HIDE DEF v, at
<1>4. x \in Seq(FileChars) /\ Len(x) = at
  BY <1>1, <1>2
<1>5. y \in Seq(FileChars) /\ Len(y) = IF at + Len(c) + 1 <= Len(v) THEN Len(v) - at - Len(c) ELSE 0
  BY <1>1, <1>2
<1>6. x = SubSeq(v, 1, at) /\ (at = Len(v) => x = v /\ y = <<>>)
  BY <1>1, <1>2
<1> HIDE DEF x, y
<1>7. w \in Seq(FileChars) /\ Len(w) = at + Len(c) + Len(y)
  <2>1. x \o c \in Seq(FileChars) /\ Len(x \o c) = at + Len(c)
    BY <1>1, <1>4, ConcatProperties
  <2> DEFINE t == x \o c
  <2>2. t \in Seq(FileChars) /\ Len(t) = at + Len(c)
    BY <2>1
  <2>3. w = t \o y
    OBVIOUS
  <2> HIDE DEF t
  <2>4. t \o y \in Seq(FileChars) /\ Len(t \o y) = Len(t) + Len(y)
    <3>1. t \in Seq(FileChars) /\ y \in Seq(FileChars)
      BY <1>5, <2>2
    <3> QED
      BY ONLY <3>1, ConcatProperties
  <2> HIDE DEF w
  <2> QED
    BY <2>2, <2>3, <2>4
<1>8. at = Len(v) => w = v \o c
  <2>1. v \o c \o <<>> = v \o c
    <3> DEFINE t == v \o c
    <3>1. t \in Seq(FileChars)
      BY <1>1
    <3> HIDE DEF t
    <3>2. t \o <<>> = t
      BY <3>1, ConcatEmptySeq
    <3> QED
      BY <3>2 DEF t
  <2> QED
    BY <1>6, <2>1
<1>9. Put(s, c) = [s EXCEPT !.view = w, !.pos = at + Len(c)]
  BY DEF Put, w, x, y, at, v
<1> HIDE DEF w
<1>10. /\ Put(s, c).on = s.on /\ Put(s, c).flags = s.flags /\ Put(s, c).fail = s.fail
       /\ Put(s, c).view = w /\ Put(s, c).pos = at + Len(c)
       /\ Put(s, c) \in Streams
  <2> DEFINE n == at + Len(c)
  <2>1. w \in Contents /\ n \in Nat
    BY <1>1, <1>2, <1>7 DEF Contents
  <2> HIDE DEF n
  <2>2. Put(s, c) = [s EXCEPT !.view = w, !.pos = n]
    BY <1>9 DEF n
  <2>3. [s EXCEPT !.view = w, !.pos = n] =
           [on |-> s.on, flags |-> s.flags, pos |-> n, fail |-> s.fail, view |-> w]
    <3>1. [[s EXCEPT !.view = w] EXCEPT !.pos = n] = [s EXCEPT !.view = w, !.pos = n]
      BY DEF Streams
    <3>2. [[s EXCEPT !.view = w] EXCEPT !.pos = n] =
             [on |-> s.on, flags |-> s.flags, pos |-> n, fail |-> s.fail, view |-> w]
      <4> DEFINE r == [s EXCEPT !.view = w]
      <4>1. /\ r.on = s.on /\ r.flags = s.flags /\ r.fail = s.fail /\ r.view = w
            /\ r \in Streams
        <5>1. w \in Contents
          BY <2>1
        <5> QED
          BY <5>1 DEF Streams
      <4> HIDE DEF r
      <4>2. [r EXCEPT !.pos = n] =
               [on |-> s.on, flags |-> s.flags, pos |-> n, fail |-> s.fail, view |-> w]
        BY <4>1 DEF Streams
      <4> QED
        BY <4>2 DEF r
    <3> QED
      BY <3>1, <3>2
  <2>4. s.on \in Paths \cup {Absent} /\ s.flags \in Modes /\ s.fail \in BOOLEAN
    BY DEF Streams
  <2>5. Put(s, c) \in Streams
    BY <2>1, <2>2, <2>3, <2>4 DEF Streams
  <2> QED
    BY <2>2, <2>3, <2>5 DEF n
<1>11. Len(v) <= Len(w) /\ at + Len(c) <= Len(w)
  <2>1. CASE at + Len(c) + 1 <= Len(v)
    BY <1>1, <1>2, <1>5, <1>7, <2>1
  <2>2. CASE ~(at + Len(c) + 1 <= Len(v))
    <3>1. Len(w) = at + Len(c)
      BY <1>1, <1>2, <1>5, <1>7, <2>2
    <3> QED
      BY <1>1, <1>2, <2>2, <3>1
  <2> QED
    BY <2>1, <2>2
<1> QED
  BY <1>3, <1>8, <1>10, <1>11 DEF v

\* What a flush makes of a disk.
LEMMA Flushes ==
    ASSUME NEW d \in Disks, NEW s \in Streams
    PROVE  /\ Flushed(d, s) \in Disks
           /\ s.on = Absent => Flushed(d, s) = d
           /\ s.on # Absent => /\ s.on \in Paths /\ Flushed(d, s)[s.on] = s.view
                               /\ s.view # Absent
           /\ \A q \in Paths \ {s.on} : Flushed(d, s)[q] = d[q]
BY FilesAssumption DEF Flushed, Disks, Streams, Contents

-----------------------------------------------------------------------------
(***************************************************************************)
(* The invariant.                                                          *)
(***************************************************************************)

\* What the invariant says of the stream and of the stream when closed.
LEMMA StreamIs ==
    ASSUME FilesInd
    PROVE  /\ stream \in Streams /\ disk \in Disks /\ fullpath \in Paths
           /\ stream.on \in Paths \cup {Absent} /\ stream.pos \in Nat
           /\ stream.view \in Contents /\ stream.fail \in BOOLEAN
           /\ stream.pos <= Len(stream.view) /\ Len(stream.view) \in Nat
           /\ Shut \in Streams /\ Shut.on = Absent /\ Shut.fail = stream.fail
           /\ Shut.pos = 0 /\ Shut.view = <<>>
           /\ is_open <=> stream.on \in Paths
<1>1. stream \in Streams /\ disk \in Disks /\ fullpath \in Paths /\ stream.pos <= Len(stream.view)
  BY DEF FilesInd, FileTypeOK, InContent
<1>2. /\ stream.on \in Paths \cup {Absent} /\ stream.pos \in Nat
      /\ stream.view \in Contents /\ stream.fail \in BOOLEAN
  BY <1>1 DEF Streams
<1>3. Len(stream.view) \in Nat
  BY <1>2, LenProperties DEF Contents
<1>4. <<>> \in Contents /\ {} \in Modes
  BY EmptySeq DEF Contents, Modes
<1>5. /\ Shut \in Streams /\ Shut.on = Absent /\ Shut.fail = stream.fail
      /\ Shut.pos = 0 /\ Shut.view = <<>>
  BY <1>2, <1>4 DEF Shut, Closed, Streams
<1>6. is_open <=> stream.on \in Paths
  BY <1>2, FilesAssumption DEF is_open
<1> QED
  BY <1>1, <1>2, <1>3, <1>5, <1>6

\* No stream, nothing on it; the files are as they were found.
LEMMA FilesIndInit == FileInit => FilesInd
<1> SUFFICES ASSUME FileInit
             PROVE  FilesInd
  OBVIOUS
<1>1. <<>> \in Contents /\ {} \in Modes /\ Len(<<>>) = 0
  BY EmptySeq DEF Contents, Modes
<1>2. stream = Closed /\ Closed \in Streams /\ Closed.on = Absent /\ Closed.pos = 0
      /\ Closed.view = <<>> /\ Closed.fail = FALSE
  BY <1>1 DEF FileInit, Closed, Streams
<1>3. disk \in Disks
  BY FilesAssumption DEF FileInit, Disks, Contents
<1>4. FileTypeOK
  BY <1>1, <1>2, <1>3 DEF FileInit, FileTypeOK
<1>5. ~is_open /\ ~Alive
  BY <1>2 DEF is_open, Alive, FileInit
<1>6. InContent
  BY <1>1, <1>2 DEF InContent
<1> QED
  BY <1>2, <1>4, <1>5, <1>6 DEF FileInit, FilesInd, OnDisk, NotYet, ErrorsKnown, Appends,
     AppendsInOrder, EndsForCause, TmpGone

\* The program ends with a stream in error or after a failure.
LEMMA TerminatesKeeps ==
    ASSUME FilesInd, NEW failure \in BOOLEAN, failure \/ refused, Terminates(failure)
    PROVE  FilesInd'
<1>1. life' = "terminated" /\ refused' = TRUE
  BY DEF Terminates, FilesInd, FileTypeOK
<1>2. UNCHANGED <<tmp, fullpath, fmode, stream, disk, requested, appending>>
  BY DEF Terminates
<1>3. (FileTypeOK /\ InContent /\ OnDisk)'
  BY <1>1, <1>2 DEF FilesInd, FileTypeOK, InContent, OnDisk, is_open
<1> QED
  BY <1>1, <1>2, <1>3 DEF FilesInd, NotYet, ErrorsKnown, Appends, Alive,
     AppendsInOrder, EndsForCause, TmpGone

\* The stream is closed and its content is on disk.
LEMMA CloseKeeps ==
    ASSUME FilesInd, NEW next \in {"alive", "destroyed"},
           next = "destroyed" => ~tmp, life = "alive",
           stream' = Shut, disk' = Flushed(disk, stream), life' = next,
           UNCHANGED <<tmp, fullpath, requested, appending, refused>>
    PROVE  FilesInd'
<1> USE StreamIs
<1>1. /\ disk' \in Disks
      /\ stream.on = Absent => disk' = disk
      /\ stream.on # Absent => disk'[stream.on] = stream.view
      /\ \A q \in Paths \ {stream.on} : disk'[q] = disk[q]
  BY Flushes
<1>2. /\ stream' \in Streams /\ stream'.on = Absent /\ stream'.fail = stream.fail
      /\ stream'.pos = 0 /\ stream'.view = <<>> /\ Len(<<>>) = 0
  OBVIOUS
<1>3. FileTypeOK' /\ InContent' /\ OnDisk' /\ ~is_open'
  BY <1>1, <1>2 DEF FilesInd, FileTypeOK, InContent, OnDisk, is_open
<1>4. NotYet' /\ ErrorsKnown' /\ Appends' /\ EndsForCause' /\ TmpGone'
  BY <1>2, <1>3 DEF FilesInd, NotYet, ErrorsKnown, Appends, EndsForCause, TmpGone
<1>5. AppendsInOrder'
  <2> SUFFICES ASSUME appending
               PROVE  disk'[fullpath] = requested /\ IsPrefix(disk'[fullpath], requested)
    BY <1>3 DEF AppendsInOrder
  <2>1. disk'[fullpath] = requested
    <3>1. CASE stream.on = Absent
      BY <1>1, <3>1 DEF FilesInd, AppendsInOrder, Alive, is_open
    <3>2. CASE stream.on # Absent
      BY <1>1, <3>2 DEF FilesInd, AppendsInOrder, Appends, Alive, is_open
    <3> QED
      BY <3>1, <3>2
  <2>2. requested \in Contents
    BY DEF FilesInd, FileTypeOK
  <2> QED
    BY <2>1, <2>2, PrefixFacts
<1> QED
  BY <1>3, <1>4, <1>5 DEF FilesInd

\* A file is removed after its stream is closed.
LEMMA FileRemoveKeeps ==
    ASSUME FilesInd, NEW next \in {"alive", "destroyed"}, life = "alive", remove(next)
    PROVE  FilesInd'
<1> USE StreamIs
<1>1. CASE ClosedOK
  <2>1. /\ stream' = Shut /\ disk' = [Flushed(disk, stream) EXCEPT ![fullpath] = Absent]
        /\ life' = next /\ appending' = FALSE
        /\ UNCHANGED <<tmp, fullpath, fmode, requested, refused>>
    BY <1>1 DEF remove
  <2>2. Flushed(disk, stream) \in Disks
    BY Flushes
  <2>3. disk' \in Disks /\ disk'[fullpath] = Absent
    BY <2>1, <2>2 DEF Disks
  <2>4. /\ stream' \in Streams /\ stream'.on = Absent /\ stream'.fail = stream.fail
        /\ stream'.pos = 0 /\ stream'.view = <<>> /\ Len(<<>>) = 0
    BY <2>1
  <2>5. FileTypeOK'
    BY <2>1, <2>3, <2>4 DEF FilesInd, FileTypeOK
  <2>6. InContent' /\ OnDisk' /\ ~is_open'
    BY <2>4 DEF InContent, OnDisk, is_open
  <2> QED
    BY <2>1, <2>3, <2>4, <2>5, <2>6 DEF FilesInd, NotYet, ErrorsKnown, Appends, AppendsInOrder,
       EndsForCause, TmpGone
<1>2. CASE ~ClosedOK
  <2>1. Terminates(FALSE) /\ refused
    BY <1>2 DEF remove, ClosedOK, FilesInd, ErrorsKnown
  <2> QED
    BY <2>1, TerminatesKeeps
<1> QED
  BY <1>1, <1>2

\* Opening a file, or failing to: the mode may be any.
LEMMA OpenKeeps ==
    ASSUME FilesInd, NEW m \in Modes, open(m)
    PROVE  FilesInd'
<1> DEFINE s == OpenStream(disk, stream, fullpath, m)
           e == OpenDisk(disk, fullpath, m)
           f == Fresh(disk, fullpath, m)
<1>1. CASE is_open
  <2>1. UNCHANGED <<life, tmp, fullpath, stream, disk, requested, appending, refused>>
    BY <1>1 DEF open
  <2> QED
    BY <2>1 DEF FilesInd, FileTypeOK, InContent, OnDisk, NotYet, ErrorsKnown, Appends,
       AppendsInOrder, EndsForCause, TmpGone, Alive, is_open
<1>2. CASE ~is_open
  <2>1. /\ life = "alive" /\ stream' = s /\ disk' = e
        /\ appending' = (appending /\ "app" \in m)
        /\ refused' = (refused \/ ~CanOpen(disk, fullpath, m))
        /\ UNCHANGED <<life, tmp, fullpath, requested>>
    BY <1>2 DEF open, Alive
  <2>2. /\ s \in Streams /\ e \in Disks /\ f \in Contents /\ Len(f) \in Nat
        /\ CanOpen(disk, fullpath, m) =>
             /\ s.on = fullpath /\ s.flags = m /\ ~s.fail /\ s.view = f /\ s.pos <= Len(f)
             /\ e = [disk EXCEPT ![fullpath] = f]
        /\ ~CanOpen(disk, fullpath, m) => s = [stream EXCEPT !.fail = TRUE] /\ e = disk
        /\ "app" \in m /\ disk[fullpath] # Absent => f = disk[fullpath]
    BY StreamIs, Opens, LenProperties DEF Contents
  <2>3. stream.on = Absent /\ fullpath \in Paths /\ disk \in Disks /\ stream.pos <= Len(stream.view)
    BY <1>2, StreamIs DEF is_open
  <2>4. requested \in Contents /\ IsPrefix(requested, requested) /\ f # Absent /\ requested # Absent
    <3>1. requested \in Contents
      BY DEF FilesInd, FileTypeOK
    <3> QED
      BY <2>2, <3>1, PrefixFacts, FilesAssumption DEF Contents
  <2>5. appending => disk[fullpath] = requested
    BY <1>2, <2>1 DEF FilesInd, AppendsInOrder, Alive
  <2> HIDE DEF s, e, f
  <2>6. FileTypeOK'
    BY <2>1, <2>2 DEF FilesInd, FileTypeOK
  <2>7. CASE CanOpen(disk, fullpath, m)
    <3>1. disk'[fullpath] = f /\ stream'.on = fullpath /\ stream'.view = f /\ ~stream'.fail
          /\ stream'.flags = m /\ stream'.pos <= Len(f)
      BY <2>1, <2>2, <2>3, <2>7 DEF Disks
    <3>2. is_open'
      BY <2>3, <3>1, FilesAssumption DEF is_open
    <3>3. appending' => appending /\ "app" \in m
      BY <2>1 DEF FilesInd, FileTypeOK
    <3>4. InContent' /\ OnDisk' /\ NotYet' /\ EndsForCause' /\ TmpGone'
      BY <2>1, <2>2, <2>4, <3>1 DEF InContent, OnDisk, NotYet, EndsForCause, TmpGone
    <3>5. ErrorsKnown' /\ Appends'
      BY <2>1, <3>1, <3>3 DEF ErrorsKnown, Appends
    <3>6. AppendsInOrder'
      <4> SUFFICES ASSUME appending'
                   PROVE  f = requested
        BY <2>1, <2>4, <3>1, <3>2 DEF AppendsInOrder
      <4> QED
        BY <2>2, <2>4, <2>5, <3>3
    <3> QED
      BY <2>6, <3>4, <3>5, <3>6 DEF FilesInd
  <2>8. CASE ~CanOpen(disk, fullpath, m)
    <3>1. /\ disk' = disk /\ stream'.on = Absent /\ stream'.view = stream.view
          /\ stream'.pos = stream.pos /\ refused' = TRUE
      BY <2>1, <2>2, <2>3, <2>8, StreamIs DEF Streams
    <3>2. ~is_open'
      BY <3>1 DEF is_open
    <3>3. InContent' /\ OnDisk' /\ NotYet' /\ ErrorsKnown' /\ Appends' /\ EndsForCause' /\ TmpGone'
      BY <2>1, <2>3, <3>1, <3>2 DEF InContent, OnDisk, NotYet, ErrorsKnown, Appends, EndsForCause, TmpGone
    <3>4. AppendsInOrder'
      <4>1. appending' => appending
        BY <2>1 DEF FilesInd, FileTypeOK
      <4> QED
        BY <2>1, <2>4, <2>5, <3>1, <3>2, <4>1 DEF AppendsInOrder
    <3> QED
      BY <2>6, <3>3, <3>4 DEF FilesInd
  <2> QED
    BY <2>7, <2>8
<1> QED
  BY <1>1, <1>2

\* BIN_RW and TEXT_READ open what is there and make no file.
LEMMA OpensWhatIsThere ==
    ASSUME NEW d \in Disks, NEW p \in Paths, NEW m \in {BIN_RW, TEXT_READ}
    PROVE  /\ m \in Modes /\ "app" \notin m
           /\ CanOpen(d, p, m) <=> d[p] # Absent
           /\ d[p] # Absent => Fresh(d, p, m) = d[p]
<1>1. /\ m \in Modes /\ "app" \notin m /\ "in" \in Core(m)
  BY DEF Modes, BIN_RW, TEXT_READ, Core
<1>2. ~Truncates(m) /\ Core(m) # {}
  BY <1>1 DEF Truncates
<1> QED
  BY <1>1, <1>2 DEF CanOpen, Fresh

\* set_text_mode and set_binary_mode.
LEMMA SetModeKeeps ==
    ASSUME FilesInd, set_mode
    PROVE  FilesInd'
<1>1. CASE ClosedOK
  <2> DEFINE d == Flushed(disk, stream)
             m == BIN_RW
             s == OpenStream(d, Shut, fullpath, m)
             f == Fresh(d, fullpath, m)
  <2>1. /\ life = "alive" /\ stream' = s /\ disk' = d /\ appending' = FALSE
        /\ refused' = (refused \/ d[fullpath] = Absent)
        /\ UNCHANGED <<life, tmp, fullpath, requested>>
    BY <1>1 DEF set_mode, Alive
  <2>2. d \in Disks /\ Shut \in Streams /\ fullpath \in Paths /\ Shut.on = Absent
        /\ Shut.pos = 0 /\ Shut.view = <<>>
    BY StreamIs, Flushes
  <2> HIDE DEF d, m
  <2>3. m \in Modes /\ (CanOpen(d, fullpath, m) <=> d[fullpath] # Absent)
        /\ (d[fullpath] # Absent => f = d[fullpath])
    BY <2>2, OpensWhatIsThere DEF m
  <2>4. /\ s \in Streams /\ f \in Contents /\ Len(f) \in Nat
        /\ CanOpen(d, fullpath, m) =>
             s.on = fullpath /\ ~s.fail /\ s.view = f /\ s.pos <= Len(f)
        /\ ~CanOpen(d, fullpath, m) => s = [Shut EXCEPT !.fail = TRUE]
    BY <2>2, <2>3, Opens, LenProperties DEF Contents
  <2> HIDE DEF s, f
  <2>5. FileTypeOK'
    BY <2>1, <2>2, <2>4 DEF FilesInd, FileTypeOK
  <2>6. CASE d[fullpath] # Absent
    <3>1. /\ stream'.on = fullpath /\ ~stream'.fail /\ stream'.view = f /\ stream'.pos <= Len(f)
          /\ disk'[fullpath] = f
      BY <2>1, <2>3, <2>4, <2>6
    <3> QED
      BY <2>1, <2>3, <2>4, <2>5, <2>6, <3>1 DEF FilesInd, InContent, OnDisk, NotYet, ErrorsKnown,
         Appends, AppendsInOrder, EndsForCause, TmpGone
  <2>7. CASE d[fullpath] = Absent
    <3>1. /\ stream'.on = Absent /\ stream'.pos = 0 /\ stream'.view = <<>> /\ refused' = TRUE
          /\ Len(<<>>) = 0
      BY <2>1, <2>2, <2>3, <2>4, <2>7 DEF Streams
    <3>2. ~is_open'
      BY <3>1 DEF is_open
    <3> QED
      BY <2>1, <2>5, <3>1, <3>2 DEF FilesInd, InContent, OnDisk, NotYet, ErrorsKnown,
         Appends, AppendsInOrder, EndsForCause, TmpGone
  <2> QED
    BY <2>6, <2>7
<1>2. CASE ~ClosedOK
  <2>1. Terminates(FALSE) /\ refused
    BY <1>2 DEF set_mode, ClosedOK, FilesInd, ErrorsKnown
  <2> QED
    BY <2>1, TerminatesKeeps
<1> QED
  BY <1>1, <1>2

\* initialize gives the object another name and leaves the stream alone.
LEMMA InitializeKeeps ==
    ASSUME FilesInd, NEW p \in Paths, NEW m, initialize(p, m)
    PROVE  FilesInd'
<1>1. /\ life = "alive" /\ fullpath' = p /\ appending' = FALSE
      /\ UNCHANGED <<life, tmp, stream, disk, requested, refused>>
  BY DEF initialize, Alive
<1>2. FileTypeOK' /\ InContent' /\ OnDisk'
  BY <1>1 DEF FilesInd, FileTypeOK, InContent, OnDisk, is_open
<1> QED
  BY <1>1, <1>2 DEF FilesInd, NotYet, ErrorsKnown, Appends, AppendsInOrder, EndsForCause, TmpGone

\* The destructor: of a TmpTextFile it removes the file.
LEMMA DestroyKeeps ==
    ASSUME FilesInd, destroy
    PROVE  FilesInd'
<1>1. CASE tmp
  BY <1>1, FileRemoveKeeps DEF destroy, Alive
<1>2. CASE ~tmp /\ ClosedOK
  BY <1>2, CloseKeeps DEF destroy, Alive
<1>3. CASE ~tmp /\ ~ClosedOK
  <2>1. Terminates(FALSE) /\ refused
    BY <1>3 DEF destroy, ClosedOK, FilesInd, ErrorsKnown
  <2> QED
    BY <2>1, TerminatesKeeps
<1> QED
  BY <1>1, <1>2, <1>3

\* The constructor opens the file and writes its text.
LEMMA TextFileKeeps ==
    ASSUME FilesInd, NEW m \in Modes, NEW c \in Contents, TextFile(m, c)
    PROVE  FilesInd'
<1> DEFINE s == OpenStream(disk, stream, fullpath, m)
           d == OpenDisk(disk, fullpath, m)
           t == Put(s, c)
<1>1. /\ s \in Streams /\ d \in Disks /\ s.on = fullpath /\ s.flags = m /\ ~s.fail
      /\ s.pos <= Len(s.view) /\ fullpath \in Paths /\ s.view \in Contents
  BY StreamIs, Opens DEF TextFile
<1>2. CASE c # <<>> /\ ~Writable(s)
  <2>1. Terminates(TRUE)
    BY <1>2 DEF TextFile
  <2> QED
    BY <2>1, TerminatesKeeps
<1>3. CASE ~(c # <<>> /\ ~Writable(s))
  <2>1. /\ life' = "alive" /\ stream' = t /\ disk' = Flushed(d, t)
        /\ requested' = s.view \o c /\ appending' = ("app" \in m)
        /\ UNCHANGED <<tmp, fullpath, refused>>
    BY <1>3 DEF TextFile
  <2> HIDE DEF s, d
  <2>2. /\ t \in Streams /\ t.on = fullpath /\ t.flags = m /\ ~t.fail
        /\ t.pos <= Len(t.view) /\ ("app" \in m => t.view = s.view \o c)
    BY <1>1, Puts
  <2> HIDE DEF t
  <2>3. /\ Flushed(d, t) \in Disks /\ Flushed(d, t)[fullpath] = t.view
        /\ t.view # Absent /\ t.view \in Contents /\ Len(t.view) \in Nat
    <3>1. t.on # Absent /\ t.view \in Contents
      BY <1>1, <2>2, FilesAssumption DEF Streams
    <3> QED
      BY <1>1, <2>2, <3>1, Flushes, LenProperties DEF Contents
  <2>4. requested' \in Contents
    BY <1>1, <2>1, ConcatProperties DEF Contents
  <2>5. FileTypeOK'
    BY <2>1, <2>2, <2>3, <2>4 DEF FilesInd, FileTypeOK
  <2>6. InContent' /\ OnDisk' /\ NotYet' /\ EndsForCause' /\ TmpGone' /\ is_open'
    BY <1>1, <2>1, <2>2, <2>3, FilesAssumption DEF InContent, OnDisk, NotYet, EndsForCause,
       TmpGone, is_open
  <2>7. ErrorsKnown' /\ Appends'
    BY <2>1, <2>2 DEF ErrorsKnown, Appends
  <2>8. AppendsInOrder'
    BY <2>1, <2>2, <2>3, <2>6, PrefixFacts DEF AppendsInOrder
  <2> QED
    BY <2>5, <2>6, <2>7, <2>8 DEF FilesInd
<1> QED
  BY <1>2, <1>3

\* The stream a write or a read works on: opened in the mode m, which is
\* BIN_RW or TEXT_READ, if it was not open.
InUse(m) == IF is_open THEN stream ELSE OpenStream(disk, stream, fullpath, m)

\* If it is open after that, it is a stream as the invariant wants it.
LEMMA InUseIs ==
    ASSUME FilesInd, NEW m \in {BIN_RW, TEXT_READ}
    PROVE  /\ InUse(m) \in Streams /\ InUse(m).pos <= Len(InUse(m).view)
           /\ InUse(m).on \in Paths \cup {Absent} /\ InUse(m).view \in Contents
           /\ Len(InUse(m).view) \in Nat /\ InUse(m).fail \in BOOLEAN
           /\ InUse(m).on # Absent => /\ disk[InUse(m).on] # Absent
                                      /\ Len(disk[InUse(m).on]) <= Len(InUse(m).view)
           /\ InUse(m).on = Absent => disk[fullpath] = Absent /\ InUse(m).fail
           /\ ~InUse(m).fail => InUse(m).on # Absent
           /\ is_open => InUse(m) = stream
<1>1. CASE is_open
  <2>1. InUse(m) = stream
    BY <1>1 DEF InUse
  <2> QED
    BY <1>1, <2>1, StreamIs DEF FilesInd, OnDisk, is_open
<1>2. CASE ~is_open
  <2> DEFINE s == OpenStream(disk, stream, fullpath, m)
             f == Fresh(disk, fullpath, m)
  <2>1. InUse(m) = s
    BY <1>2 DEF InUse
  <2>2. /\ m \in Modes /\ (CanOpen(disk, fullpath, m) <=> disk[fullpath] # Absent)
        /\ (disk[fullpath] # Absent => f = disk[fullpath])
    BY StreamIs, OpensWhatIsThere
  <2>3. /\ s \in Streams /\ f \in Contents
        /\ CanOpen(disk, fullpath, m) =>
             s.on = fullpath /\ ~s.fail /\ s.view = f /\ s.pos <= Len(f)
        /\ ~CanOpen(disk, fullpath, m) => s = [stream EXCEPT !.fail = TRUE]
    BY <2>2, StreamIs, Opens
  <2> HIDE DEF s, f
  <2>4. /\ s.on \in Paths \cup {Absent} /\ s.view \in Contents /\ s.fail \in BOOLEAN
    BY <2>3 DEF Streams
  <2>5. Len(s.view) \in Nat
    BY <2>4, LenProperties DEF Contents
  <2>6. CASE disk[fullpath] # Absent
    <3>1. fullpath # Absent
      BY StreamIs, FilesAssumption
    <3> QED
      BY <1>2, <2>1, <2>2, <2>3, <2>4, <2>5, <2>6, <3>1
  <2>7. CASE disk[fullpath] = Absent
    <3>1. /\ s.on = Absent /\ s.fail = TRUE /\ s.pos = stream.pos /\ s.view = stream.view
      BY <1>2, <2>2, <2>3, <2>7, StreamIs DEF Streams, is_open
    <3> QED
      BY <1>2, <2>1, <2>3, <2>4, <2>5, <2>7, <3>1, StreamIs
  <2> QED
    BY <2>6, <2>7
<1> QED
  BY <1>1, <1>2

\* While the stream is used, its content may get longer and get to the disk,
\* and the stream may get into an error, which is then known.
LEMMA UseKeeps ==
    ASSUME FilesInd, life = "alive", NEW m \in {BIN_RW, TEXT_READ},
           NEW t \in Streams, NEW c \in Contents,
           t.on = InUse(m).on, t.flags = InUse(m).flags, t.pos <= Len(t.view),
           Len(InUse(m).view) <= Len(t.view),
           t.fail => refused',
           "app" \in t.flags => t.view = InUse(m).view \o c,
           stream' = t, disk' = Flushed(disk, t) \/ disk' = disk,
           requested' = requested \o c,
           appending' = (appending /\ is_open),
           refused' \in BOOLEAN, refused => refused',
           UNCHANGED <<life, tmp, fullpath>>
    PROVE  FilesInd'
<1> DEFINE s == InUse(m)
<1>1. /\ s \in Streams /\ s.on \in Paths \cup {Absent} /\ s.view \in Contents
      /\ Len(s.view) \in Nat
      /\ s.on # Absent => disk[s.on] # Absent /\ Len(disk[s.on]) <= Len(s.view)
      /\ is_open => s = stream
  BY InUseIs
<1>2. disk \in Disks /\ fullpath \in Paths /\ requested \in Contents
  BY StreamIs DEF FilesInd, FileTypeOK
<1> HIDE DEF s
<1>3. /\ Flushed(disk, t) \in Disks
      /\ t.on = Absent => Flushed(disk, t) = disk
      /\ t.on # Absent => t.on \in Paths /\ Flushed(disk, t)[t.on] = t.view /\ t.view # Absent
      /\ \A q \in Paths \ {t.on} : Flushed(disk, t)[q] = disk[q]
  BY <1>2, Flushes
<1>4. t.view \in Contents /\ Len(t.view) \in Nat /\ disk' \in Disks /\ requested' \in Contents
  <2>1. t.view \in Contents
    BY DEF Streams
  <2> QED
    BY <1>2, <1>3, <2>1, LenProperties, ConcatProperties DEF Contents
<1>5. t.on # Absent => disk'[t.on] # Absent /\ Len(disk'[t.on]) <= Len(t.view)
  <2> SUFFICES ASSUME t.on # Absent
               PROVE  disk'[t.on] # Absent /\ Len(disk'[t.on]) <= Len(t.view)
    OBVIOUS
  <2>1. CASE disk' = Flushed(disk, t)
    BY <1>3, <1>4, <2>1
  <2>2. CASE disk' = disk
    <3>1. disk[s.on] # Absent /\ Len(disk[s.on]) <= Len(s.view) /\ s.on = t.on
          /\ Len(s.view) <= Len(t.view)
      BY <1>1 DEF s
    <3>2. disk[s.on] \in Contents
      BY <1>1, <1>2, <3>1, FilesAssumption DEF Disks
    <3>3. Len(disk[s.on]) \in Nat
      BY <3>2, LenProperties DEF Contents
    <3> QED
      BY <1>1, <1>4, <2>2, <3>1, <3>3
  <2> QED
    BY <2>1, <2>2
<1>6. FileTypeOK'
  BY <1>4 DEF FilesInd, FileTypeOK
<1>7. InContent' /\ OnDisk' /\ NotYet' /\ ErrorsKnown' /\ EndsForCause' /\ TmpGone'
  BY <1>5 DEF InContent, OnDisk, NotYet, ErrorsKnown, EndsForCause, TmpGone, is_open
<1>8. Appends' /\ AppendsInOrder'
  <2> SUFFICES ASSUME appending'
               PROVE  /\ t.on = fullpath /\ "app" \in t.flags /\ t.view = requested'
                      /\ IsPrefix(disk'[fullpath], requested') /\ is_open'
    BY DEF Appends, AppendsInOrder
  <2>1. appending /\ is_open
    BY DEF FilesInd, FileTypeOK, is_open
  <2>2. s = stream /\ stream.on = fullpath /\ "app" \in stream.flags
    BY <1>1, <2>1 DEF FilesInd, Appends, Alive
  <2>3. stream.view = requested /\ IsPrefix(disk[fullpath], requested)
    BY <2>1 DEF FilesInd, AppendsInOrder, Alive
  <2>4. /\ t.on = fullpath /\ "app" \in t.flags /\ t.view = requested \o c /\ fullpath # Absent
    BY <1>2, <2>2, <2>3, FilesAssumption DEF s
  <2>5. IsPrefix(disk'[fullpath], requested \o c)
    <3>1. CASE disk' = Flushed(disk, t)
      BY <1>3, <1>4, <2>4, <3>1, PrefixFacts
    <3>2. CASE disk' = disk
      <4>1. disk[fullpath] \in Contents
        BY <1>1, <1>2, <2>2, <2>4, FilesAssumption DEF Disks
      <4> QED
        BY <1>2, <2>3, <3>2, <4>1, PrefixFacts
    <3> QED
      BY <3>1, <3>2
  <2> QED
    BY <2>4, <2>5 DEF is_open
<1> QED
  BY <1>6, <1>7, <1>8 DEF FilesInd

\* write and append.
LEMMA FileWriteKeeps ==
    ASSUME FilesInd, NEW c \in Contents, NEW flushes \in BOOLEAN, write_text(c, flushes)
    PROVE  FilesInd'
<1> DEFINE m == BIN_RW
           s == InUse(m)
           t == Put(s, c)
<1>1. /\ life = "alive" /\ appending' = (appending /\ is_open)
      /\ UNCHANGED <<life, tmp, fullpath>>
      /\ IF Writable(s)
         THEN /\ stream' = t
              /\ disk' = IF flushes THEN Flushed(disk, t) ELSE disk
              /\ requested' = requested \o c
              /\ UNCHANGED refused
         ELSE /\ stream' = [s EXCEPT !.fail = TRUE]
              /\ refused' = TRUE
              /\ UNCHANGED <<disk, requested>>
  BY DEF write_text, InUse, Alive
<1>2. /\ s \in Streams /\ s.pos <= Len(s.view) /\ s.view \in Contents /\ Len(s.view) \in Nat
      /\ refused \in BOOLEAN /\ requested \in Contents
  BY InUseIs DEF FilesInd, FileTypeOK
<1>3. CASE Writable(s)
  <2>1. /\ t \in Streams /\ t.on = s.on /\ t.flags = s.flags /\ t.fail = s.fail
        /\ Len(s.view) <= Len(t.view) /\ t.pos <= Len(t.view)
        /\ "app" \in s.flags => t.view = s.view \o c
    <3> HIDE DEF s
    <3> QED
      BY <1>2, Puts
  <2>2. ~t.fail
    BY <1>3, <2>1 DEF Writable
  <2>3. disk' = Flushed(disk, t) \/ disk' = disk
    BY <1>1, <1>3
  <2>4. stream' = t /\ requested' = requested \o c /\ refused' = refused
    BY <1>1, <1>3
  <2> HIDE DEF t
  <2> QED
    BY <1>1, <1>2, <2>1, <2>2, <2>3, <2>4, UseKeeps
<1>4. CASE ~Writable(s)
  <2> DEFINE u == [s EXCEPT !.fail = TRUE]
             n == <<>>
  <2>1. /\ u \in Streams /\ u.on = s.on /\ u.flags = s.flags /\ u.view = s.view /\ u.pos = s.pos
    BY <1>2 DEF Streams
  <2>2. n \in Contents /\ s.view \o n = s.view /\ requested \o n = requested
    BY <1>2, EmptySeq, ConcatEmptySeq DEF Contents
  <2>3. stream' = u /\ disk' = disk /\ requested' = requested /\ refused' = TRUE
    BY <1>1, <1>4
  <2> HIDE DEF u, n
  <2>4. /\ requested' = requested \o n /\ u.view = s.view \o n
        /\ u.pos <= Len(u.view) /\ Len(s.view) <= Len(u.view)
        /\ refused' \in BOOLEAN /\ (refused => refused') /\ (u.fail => refused')
    BY <1>2, <2>1, <2>2, <2>3
  <2> QED
    BY <1>1, <2>1, <2>2, <2>3, <2>4, UseKeeps
<1> QED
  BY <1>3, <1>4

\* read, and get_char, change no content: the stream's position moves, or
\* the stream gets into an error, and what it has gets to the disk.
LEMMA LookKeeps ==
    ASSUME FilesInd, life = "alive", NEW m \in {BIN_RW, TEXT_READ},
           NEW n \in Nat, n <= Len(InUse(m).view), NEW fail \in BOOLEAN,
           InUse(m).fail => fail, fail => refused',
           stream' = [[InUse(m) EXCEPT !.pos = n] EXCEPT !.fail = fail],
           disk' = disk \/ disk' = Flushed(disk, InUse(m)),
           appending' = (appending /\ is_open),
           refused' \in BOOLEAN, refused => refused',
           UNCHANGED <<life, tmp, fullpath, requested>>
    PROVE  FilesInd'
<1> DEFINE s == InUse(m)
           t == [[s EXCEPT !.pos = n] EXCEPT !.fail = fail]
           e == <<>>
<1>1. s \in Streams /\ s.view \in Contents /\ Len(s.view) \in Nat /\ requested \in Contents
  BY InUseIs DEF FilesInd, FileTypeOK
<1>2. n <= Len(s.view) /\ stream' = t /\ (disk' = disk \/ disk' = Flushed(disk, s))
  OBVIOUS
<1> HIDE DEF s
<1>3. /\ t \in Streams /\ t.on = s.on /\ t.flags = s.flags /\ t.view = s.view /\ t.pos = n
      /\ t.fail = fail
  <2> DEFINE r == [s EXCEPT !.pos = n]
  <2>1. /\ r \in Streams /\ r.on = s.on /\ r.flags = s.flags /\ r.view = s.view /\ r.pos = n
    BY <1>1 DEF Streams
  <2> HIDE DEF r
  <2>2. /\ [r EXCEPT !.fail = fail] \in Streams /\ [r EXCEPT !.fail = fail].on = r.on
        /\ [r EXCEPT !.fail = fail].flags = r.flags /\ [r EXCEPT !.fail = fail].view = r.view
        /\ [r EXCEPT !.fail = fail].pos = r.pos /\ [r EXCEPT !.fail = fail].fail = fail
    BY <2>1 DEF Streams
  <2>3. t = [r EXCEPT !.fail = fail]
    BY DEF r
  <2> HIDE DEF t
  <2> QED
    BY <2>1, <2>2, <2>3
<1>4. e \in Contents /\ s.view \o e = s.view /\ requested \o e = requested
  BY <1>1, EmptySeq, ConcatEmptySeq DEF Contents
<1>5. Flushed(disk, t) = Flushed(disk, s)
  BY <1>3 DEF Flushed
<1>6. disk' = Flushed(disk, t) \/ disk' = disk
  BY <1>2, <1>5
<1> HIDE DEF t, e
<1>7. Len(s.view) <= Len(t.view) /\ t.pos <= Len(t.view) /\ (t.fail => refused')
  BY <1>1, <1>2, <1>3
<1> QED
  BY <1>1, <1>2, <1>3, <1>4, <1>6, <1>7, UseKeeps DEF s

\* read.
LEMMA FileReadKeeps ==
    ASSUME FilesInd, read_text
    PROVE  FilesInd'
<1> DEFINE m == TEXT_READ
           s == InUse(m)
           n == Len(disk[fullpath])
<1>1. CASE disk[fullpath] = Absent
  <2>1. Terminates(TRUE)
    BY <1>1 DEF read_text
  <2> QED
    BY <2>1, TerminatesKeeps
<1>2. CASE disk[fullpath] # Absent
  <2>1. /\ life = "alive" /\ appending' = (appending /\ is_open)
        /\ disk' = IF s.fail THEN disk ELSE Flushed(disk, s)
        /\ IF n = 0 \/ (Readable(s) /\ n <= Len(s.view))
           THEN /\ stream' = IF s.fail THEN s ELSE [s EXCEPT !.pos = n]
                /\ UNCHANGED refused
           ELSE stream' = [s EXCEPT !.fail = TRUE] /\ refused' = TRUE
        /\ UNCHANGED <<life, tmp, fullpath, requested>>
    BY <1>2 DEF read_text, InUse, Alive
  <2>2. /\ s \in Streams /\ s.pos <= Len(s.view) /\ s.view \in Contents /\ Len(s.view) \in Nat
        /\ s.fail \in BOOLEAN /\ refused \in BOOLEAN /\ s.pos \in Nat
        /\ s.on # Absent
    <3>1. s \in Streams
      BY InUseIs
    <3> QED
      BY <1>2, <3>1, InUseIs DEF FilesInd, FileTypeOK, Streams
  <2>3. n \in Nat
    <3>1. disk[fullpath] \in Contents
      BY <1>2, StreamIs DEF Disks
    <3> QED
      BY <3>1, LenProperties DEF Contents
  <2>4. s.fail => refused
    <3>1. CASE is_open
      BY <3>1 DEF InUse, FilesInd, ErrorsKnown
    <3>2. CASE ~is_open
      <4>1. m \in Modes /\ CanOpen(disk, fullpath, m)
        BY <1>2, StreamIs, OpensWhatIsThere
      <4>2. ~OpenStream(disk, stream, fullpath, m).fail
        BY <4>1, StreamIs, Opens
      <4> QED
        BY <3>2, <4>2 DEF InUse
    <3> QED
      BY <3>1, <3>2
  <2>5. /\ s = [[s EXCEPT !.pos = s.pos] EXCEPT !.fail = s.fail]
        /\ [s EXCEPT !.fail = TRUE] = [[s EXCEPT !.pos = s.pos] EXCEPT !.fail = TRUE]
        /\ ~s.fail => [s EXCEPT !.pos = n] = [[s EXCEPT !.pos = n] EXCEPT !.fail = s.fail]
    BY <2>2, <2>3 DEF Streams
  <2>6. disk' = disk \/ disk' = Flushed(disk, s)
    BY <2>1
  <2>7. CASE ~(n = 0 \/ (Readable(s) /\ n <= Len(s.view)))
    <3>1. stream' = [[s EXCEPT !.pos = s.pos] EXCEPT !.fail = TRUE] /\ refused' = TRUE
      BY <2>1, <2>5, <2>7
    <3> QED
      BY <2>1, <2>2, <2>6, <3>1, LookKeeps
  <2>8. CASE (n = 0 \/ (Readable(s) /\ n <= Len(s.view))) /\ s.fail
    <3>1. stream' = [[s EXCEPT !.pos = s.pos] EXCEPT !.fail = s.fail] /\ refused' = refused
      BY <2>1, <2>5, <2>8
    <3> QED
      BY <2>1, <2>2, <2>4, <2>6, <3>1, LookKeeps
  <2>9. CASE (n = 0 \/ (Readable(s) /\ n <= Len(s.view))) /\ ~s.fail
    <3>1. stream' = [[s EXCEPT !.pos = n] EXCEPT !.fail = s.fail] /\ refused' = refused
      BY <2>1, <2>5, <2>9
    <3>2. n <= Len(s.view)
      BY <2>2, <2>3, <2>9
    <3> QED
      BY <2>1, <2>2, <2>3, <2>4, <2>6, <3>1, <3>2, LookKeeps
  <2> QED
    BY <2>7, <2>8, <2>9
<1> QED
  BY <1>1, <1>2

\* get_char.
LEMMA GetCharKeeps ==
    ASSUME FilesInd, get_char
    PROVE  FilesInd'
<1> DEFINE m == TEXT_READ
           s == InUse(m)
           n == s.pos + 1
<1>1. /\ life = "alive" /\ is_open /\ s = stream
      /\ IF Readable(s) /\ s.pos < Len(s.view)
         THEN stream' = [s EXCEPT !.pos = n] /\ UNCHANGED refused
         ELSE stream' = [s EXCEPT !.fail = TRUE] /\ refused' = TRUE
      /\ disk' = disk \/ disk' = Flushed(disk, s)
      /\ appending' = appending
      /\ UNCHANGED <<life, tmp, fullpath, requested>>
  BY DEF get_char, InUse, Alive
<1>2. appending' = (appending /\ is_open)
  BY <1>1 DEF FilesInd, FileTypeOK
<1>3. /\ s \in Streams /\ s.pos <= Len(s.view) /\ Len(s.view) \in Nat
      /\ s.fail \in BOOLEAN /\ refused \in BOOLEAN /\ s.pos \in Nat /\ n \in Nat
  BY <1>1, StreamIs DEF FilesInd, FileTypeOK
<1>4. s.fail => refused
  BY <1>1 DEF FilesInd, ErrorsKnown
<1>5. /\ [s EXCEPT !.fail = TRUE] = [[s EXCEPT !.pos = s.pos] EXCEPT !.fail = TRUE]
      /\ [s EXCEPT !.pos = n] = [[s EXCEPT !.pos = n] EXCEPT !.fail = s.fail]
  BY <1>3 DEF Streams
<1>6. CASE Readable(s) /\ s.pos < Len(s.view)
  <2>1. n <= Len(s.view)
    BY <1>3, <1>6
  <2>2. stream' = [[s EXCEPT !.pos = n] EXCEPT !.fail = s.fail] /\ refused' = refused
    BY <1>1, <1>5, <1>6
  <2> HIDE DEF n
  <2> QED
    BY <1>1, <1>2, <1>3, <1>4, <2>1, <2>2, LookKeeps
<1>7. CASE ~(Readable(s) /\ s.pos < Len(s.view))
  <2>1. stream' = [[s EXCEPT !.pos = s.pos] EXCEPT !.fail = TRUE] /\ refused' = TRUE
    BY <1>1, <1>5, <1>7
  <2> QED
    BY <1>1, <1>2, <1>3, <2>1, LookKeeps
<1> QED
  BY <1>6, <1>7

\* Every step keeps the invariant.
LEMMA FilesIndNext == FilesInd /\ [FileNext]_fileVars => FilesInd'
<1> SUFFICES ASSUME FilesInd, [FileNext]_fileVars
             PROVE  FilesInd'
  OBVIOUS
<1>0. /\ TextModes \subseteq Modes /\ OpenModes \subseteq Modes /\ BIN_RW \in Modes
      /\ FileTexts \subseteq Contents /\ <<>> \in Contents
  BY FilesAssumption, EmptySeq DEF Modes, Contents
<1>1. CASE UNCHANGED fileVars
  BY <1>1 DEF fileVars, FilesInd, FileTypeOK, InContent, OnDisk, NotYet, ErrorsKnown, Appends,
     AppendsInOrder, EndsForCause, TmpGone, Alive, is_open
<1>2. ASSUME NEW m \in TextModes, NEW c \in FileTexts \cup {<<>>}, TextFile(m, c)
      PROVE  FilesInd'
  <2>1. m \in Modes /\ c \in Contents
    BY <1>0
  <2> QED
    BY <1>2, <2>1, TextFileKeeps
<1>3. CASE close
  <2>1. CASE ClosedOK
    BY <1>3, <2>1, CloseKeeps DEF close, Alive
  <2>2. CASE ~ClosedOK
    <3>1. Terminates(FALSE) /\ refused
      BY <1>3, <2>2 DEF close, ClosedOK, FilesInd, ErrorsKnown
    <3> QED
      BY <3>1, TerminatesKeeps
  <2> QED
    BY <2>1, <2>2
<1>4. CASE set_mode
  BY <1>4, SetModeKeeps
<1>5. CASE remove_file
  BY <1>5, FileRemoveKeeps DEF remove_file, Alive
<1>6. CASE read_text
  BY <1>6, FileReadKeeps
<1>7. CASE get_char
  BY <1>7, GetCharKeeps
<1>8. CASE destroy
  BY <1>8, DestroyKeeps
<1>9. ASSUME NEW m \in OpenModes, open(m)
      PROVE  FilesInd'
  BY <1>0, <1>9, OpenKeeps
<1>10. CASE get_stream
  BY <1>0, <1>10, OpenKeeps DEF get_stream
<1>11. ASSUME NEW p \in Paths, NEW m \in OpenModes, initialize(p, m)
       PROVE  FilesInd'
  BY <1>11, InitializeKeeps
<1>12. ASSUME NEW c \in FileTexts, NEW flushes \in BOOLEAN, write_text(c, flushes)
       PROVE  FilesInd'
  <2>1. c \in Contents
    BY <1>0
  <2> QED
    BY <1>12, <2>1, FileWriteKeeps
<1> QED
  BY <1>1, <1>2, <1>3, <1>4, <1>5, <1>6, <1>7, <1>8, <1>9, <1>10, <1>11, <1>12 DEF FileNext

\* What is asked of a read follows from what is on disk.
LEMMA FilesIndSuffices == FilesInd => FilesExact
<1> SUFFICES ASSUME FilesInd
             PROVE  ReadsWhole
  BY DEF FilesInd, FilesExact
<1> SUFFICES ASSUME is_open, stream.on = fullpath
             PROVE  disk[fullpath] # Absent /\ Len(ReadResult(stream)) = Len(disk[fullpath])
  BY DEF ReadsWhole
<1> DEFINE v == stream.view
           k == Len(disk[fullpath])
<1>1. disk[fullpath] # Absent /\ k <= Len(v) /\ v \in Seq(FileChars) /\ Len(v) \in Nat
  BY StreamIs DEF FilesInd, OnDisk, Contents
<1>2. k \in Nat
  <2>1. disk[fullpath] \in Seq(FileChars)
    BY <1>1, StreamIs DEF Disks, Contents
  <2> QED
    BY <2>1, LenProperties
<1>3. ReadResult(stream) = SubSeq(v, 1, k)
  BY DEF ReadResult
<1> HIDE DEF v, k
<1>4. Len(SubSeq(v, 1, k)) = k
  BY <1>1, <1>2
<1> QED
  BY <1>1, <1>3, <1>4 DEF k

\* For any names, texts and modes, and any mix of the operations of TextFile
\* and TmpTextFile: appended text is there in order, read finds all that the
\* file system says there is, the program ends only after a stream or file
\* operation has failed, and a temporary file goes with its object.
THEOREM FilesCorrect == FileSpec => []FilesExact
<1>1. FileInit => FilesInd
  BY FilesIndInit
<1>2. FilesInd /\ [FileNext]_fileVars => FilesInd'
  BY FilesIndNext
<1>3. FilesInd => FilesExact
  BY FilesIndSuffices
<1> QED
  BY <1>1, <1>2, <1>3, PTL DEF FileSpec

-----------------------------------------------------------------------------
(***************************************************************************)
(* The tree of files and directories.                                      *)
(***************************************************************************)
TreeTyped == DOMAIN tree \subseteq Nodes /\ tree \in [DOMAIN tree -> {"dir", "file"}]

\* The inductive invariant.
TreeInd == TreeTyped /\ TreeExact

\* A node is a sequence of names, and so are the nodes above it.
LEMMA NodeIs ==
    ASSUME NEW node \in Nodes
    PROVE  /\ node \in Seq(Names) /\ Len(node) \in 1..MaxDepth
           /\ \A n \in 1..Len(node) :
                 /\ SubSeq(node, 1, n) \in Nodes /\ Len(SubSeq(node, 1, n)) = n
                 /\ \A i \in 1..n : SubSeq(node, 1, n)[i] = node[i]
<1>1. PICK k \in 1..MaxDepth : node \in [1..k -> Names]
  BY DEF Nodes
<1>2. k \in Nat /\ node \in Seq(Names)
  BY <1>1, PathTreeAssumption
<1>3. Len(node) = k
  BY <1>1, <1>2
<1>4. ASSUME NEW n \in 1..Len(node)
      PROVE  /\ SubSeq(node, 1, n) \in Nodes /\ Len(SubSeq(node, 1, n)) = n
             /\ \A i \in 1..n : SubSeq(node, 1, n)[i] = node[i]
  <2> DEFINE s == SubSeq(node, 1, n)
  <2>1. /\ s \in Seq(Names) /\ Len(s) = n /\ \A i \in 1..n : s[i] = node[i]
    BY <1>1, <1>2, <1>3, PathTreeAssumption
  <2> HIDE DEF s
  <2>2. s \in [1..n -> Names] /\ n \in 1..MaxDepth
    BY <1>1, <1>3, <2>1, PathTreeAssumption, LenProperties, ElementOfSeq
  <2>3. s \in Nodes
    BY <2>2 DEF Nodes
  <2> QED
    BY <2>1, <2>3 DEF s
<1> QED
  BY <1>1, <1>2, <1>3, <1>4

\* Two nodes of one length are equal if their names are.
LEMMA NodesEqual ==
    ASSUME NEW a \in Nodes, NEW b \in Nodes, Len(a) = Len(b), \A i \in 1..Len(a) : a[i] = b[i]
    PROVE  a = b
BY NodeIs, SeqEqual

\* A prefix has the same names.
LEMMA NodePrefix ==
    ASSUME NEW a \in Nodes, NEW b \in Nodes
    PROVE  IsPrefix(a, b) <=> Len(a) <= Len(b) /\ \A i \in 1..Len(a) : a[i] = b[i]
<1>1. /\ a \in Seq(Names) /\ Len(a) \in 1..MaxDepth /\ b \in Seq(Names) /\ Len(b) \in 1..MaxDepth
      /\ \A n \in 1..Len(a) : \A i \in 1..n : SubSeq(a, 1, n)[i] = a[i]
      /\ \A n \in 1..Len(b) : \A i \in 1..n : SubSeq(b, 1, n)[i] = b[i]
  BY NodeIs
<1>2. ASSUME Len(a) <= Len(b)
      PROVE  /\ SubSeq(a, 1, Len(a)) \in Nodes /\ SubSeq(b, 1, Len(a)) \in Nodes
             /\ Len(SubSeq(a, 1, Len(a))) = Len(a) /\ Len(SubSeq(b, 1, Len(a))) = Len(a)
             /\ \A i \in 1..Len(a) : SubSeq(a, 1, Len(a))[i] = a[i]
             /\ \A i \in 1..Len(a) : SubSeq(b, 1, Len(a))[i] = b[i]
  <2>1. Len(a) \in 1..Len(a) /\ Len(a) \in 1..Len(b)
    BY <1>1, <1>2
  <2> QED
    BY <2>1, NodeIs
<1>3. ASSUME IsPrefix(a, b)
      PROVE  Len(a) <= Len(b) /\ \A i \in 1..Len(a) : a[i] = b[i]
  BY <1>2, <1>3 DEF IsPrefix
<1>4. ASSUME Len(a) <= Len(b), \A i \in 1..Len(a) : a[i] = b[i]
      PROVE  IsPrefix(a, b)
  <2>1. SubSeq(a, 1, Len(a)) = SubSeq(b, 1, Len(a))
    BY <1>2, <1>4, NodesEqual
  <2> QED
    BY <1>4, <2>1 DEF IsPrefix
<1> QED
  BY <1>3, <1>4

\* The nodes above a node: shorter ones, with the same names.
LEMMA AboveIs ==
    ASSUME NEW node \in Nodes, NEW d
    PROVE  d \in Above(node) <=>
             /\ d \in Nodes /\ Len(d) < Len(node) /\ \A i \in 1..Len(d) : d[i] = node[i]
<1>1. Len(node) \in 1..MaxDepth /\ Len(node) \in Nat
  BY NodeIs, PathTreeAssumption
<1>2. ASSUME d \in Above(node)
      PROVE  d \in Nodes /\ Len(d) < Len(node) /\ \A i \in 1..Len(d) : d[i] = node[i]
  <2>1. PICK n \in 1..Len(node) - 1 : d = SubSeq(node, 1, n)
    BY <1>2 DEF Above
  <2>2. n \in 1..Len(node) /\ n < Len(node)
    BY <1>1
  <2> QED
    BY <2>1, <2>2, NodeIs
<1>3. ASSUME d \in Nodes, Len(d) < Len(node), \A i \in 1..Len(d) : d[i] = node[i]
      PROVE  d \in Above(node)
  <2>1. Len(d) \in 1..Len(node) - 1 /\ Len(d) \in 1..Len(node)
    BY <1>1, <1>3, NodeIs, PathTreeAssumption
  <2>2. d = SubSeq(node, 1, Len(d))
    BY <1>3, <2>1, NodeIs, NodesEqual
  <2> QED
    BY <2>1, <2>2 DEF Above
<1> QED
  BY <1>2, <1>3

\* What is above something above a node is above the node.
LEMMA AboveAbove ==
    ASSUME NEW node \in Nodes, NEW d \in Above(node)
    PROVE  d \in Nodes /\ Above(d) \subseteq Above(node)
<1>1. d \in Nodes /\ Len(d) < Len(node) /\ \A i \in 1..Len(d) : d[i] = node[i]
  BY AboveIs
<1>2. ASSUME NEW e \in Above(d)
      PROVE  e \in Above(node)
  <2>1. e \in Nodes /\ Len(e) < Len(d) /\ \A i \in 1..Len(e) : e[i] = d[i]
    BY <1>1, AboveIs
  <2>2. Len(e) \in Nat /\ Len(d) \in Nat /\ Len(node) \in Nat
    BY <1>1, <2>1, NodeIs, PathTreeAssumption
  <2>3. Len(e) < Len(node) /\ \A i \in 1..Len(e) : e[i] = node[i]
    BY <1>1, <2>1, <2>2
  <2> QED
    BY <2>1, <2>3, AboveIs
<1> QED
  BY <1>1, <1>2

\* The directory a node is in.
LEMMA FrontIs ==
    ASSUME NEW node \in Nodes, Len(node) > 1
    PROVE  /\ Front(node) \in Nodes /\ Len(Front(node)) = Len(node) - 1
           /\ Above(node) = Above(Front(node)) \cup {Front(node)}
<1> DEFINE n == Len(node) - 1
           f == SubSeq(node, 1, n)
<1>1. Len(node) \in Nat /\ n \in 1..Len(node) /\ n \in Nat
  BY NodeIs, PathTreeAssumption
<1>2. f \in Nodes /\ Len(f) = n /\ \A i \in 1..n : f[i] = node[i]
  <2> HIDE DEF n
  <2> QED
    BY <1>1, NodeIs
<1>3. Front(node) = f
  BY DEF Front
<1> HIDE DEF f
<1>4. f \in Above(node)
  BY <1>1, <1>2, AboveIs
<1>5. ASSUME NEW d \in Above(node), d # f
      PROVE  d \in Above(f)
  <2>1. d \in Nodes /\ Len(d) < Len(node) /\ \A i \in 1..Len(d) : d[i] = node[i]
    BY AboveIs
  <2>2. Len(d) \in Nat
    BY <2>1, NodeIs, PathTreeAssumption
  <2>3. Len(d) # n
    BY <1>2, <1>5, <2>1, NodesEqual
  <2>4. Len(d) < Len(f) /\ \A i \in 1..Len(d) : d[i] = f[i]
    BY <1>1, <1>2, <2>1, <2>2, <2>3
  <2> QED
    BY <1>2, <2>1, <2>4, AboveIs
<1>6. Above(f) \subseteq Above(node)
  BY <1>4, AboveAbove
<1> QED
  BY <1>2, <1>3, <1>4, <1>5, <1>6

\* The directory that create_dir makes, for each kind of path.
LEMMA DirectoryIs ==
    ASSUME NEW p \in TreePaths
    PROVE  /\ p.parts \in Nodes /\ Len(p.parts) \in Nat /\ Len(p.parts) >= 1
           /\ Directory(p) \in Nodes
           /\ p.trailing \/ Len(p.parts) = 1 => Directory(p) = p.parts
           /\ ~p.trailing /\ Len(p.parts) > 1 => Directory(p) = Front(p.parts)
<1>1. p.parts \in Nodes /\ p.trailing \in BOOLEAN
  BY DEF TreePaths
<1>2. Len(p.parts) \in Nat /\ Len(p.parts) >= 1
  BY <1>1, NodeIs, PathTreeAssumption
<1>3. p.trailing \/ Len(p.parts) = 1 => Directory(p) = p.parts
  <2>1. CASE p.trailing
    BY <2>1 DEF Directory, has_filename
  <2>2. CASE ~p.trailing /\ Len(p.parts) = 1
    <3>1. ~has_parent_path(p)
      BY <2>2 DEF has_parent_path
    <3> QED
      BY <3>1 DEF Directory
  <2> QED
    BY <2>1, <2>2
<1>4. ~p.trailing /\ Len(p.parts) > 1 => Directory(p) = Front(p.parts)
  BY DEF Directory, has_filename, has_parent_path
<1>5. Directory(p) \in Nodes
  <2>1. CASE p.trailing \/ Len(p.parts) = 1
    BY <1>1, <1>3, <2>1
  <2>2. CASE ~p.trailing /\ Len(p.parts) > 1
    BY <1>1, <1>4, <2>2, FrontIs
  <2>3. Len(p.parts) = 1 \/ Len(p.parts) > 1
    <3> DEFINE n == Len(p.parts)
    <3>1. n \in Nat /\ n >= 1
      BY <1>2
    <3> HIDE DEF n
    <3>2. n = 1 \/ n > 1
      BY <3>1
    <3> QED
      BY <3>2 DEF n
  <2> QED
    BY <1>1, <2>1, <2>2, <2>3
<1> QED
  BY <1>1, <1>2, <1>3, <1>4, <1>5

\* Without its separator a path of several names names another directory.
LEMMA SeparatorMatters ==
    ASSUME NEW p \in TreePaths
    PROVE  Len(p.parts) > 1 =>
             (Directory(remove_trailing_separator(p)) = Directory(p)
                <=> remove_trailing_separator(p) = p)
<1> DEFINE q == remove_trailing_separator(p)
<1>1. CASE ~p.trailing
  BY <1>1 DEF remove_trailing_separator, has_filename
<1>2. CASE p.trailing
  <2>1. q = [p EXCEPT !.trailing = FALSE]
    BY <1>2 DEF remove_trailing_separator, has_filename
  <2>2. q \in TreePaths /\ q.parts = p.parts /\ q.trailing = FALSE /\ q # p
    BY <1>2, <2>1 DEF TreePaths
  <2> HIDE DEF q
  <2>3. ASSUME Len(p.parts) > 1
        PROVE  Directory(q) # Directory(p)
    <3>1. Len(p.parts) > 1 /\ Len(p.parts) \in Nat /\ p.parts \in Nodes
      BY <2>3, DirectoryIs
    <3>2. Directory(q) = Front(p.parts) /\ Directory(p) = p.parts
      BY <1>2, <2>2, <3>1, DirectoryIs
    <3>3. Len(Front(p.parts)) = Len(p.parts) - 1
      BY <3>1, FrontIs
    <3> QED
      BY <3>1, <3>2, <3>3
  <2> QED
    BY <2>2, <2>3 DEF q
<1> QED
  BY <1>1, <1>2 DEF TreePaths

\* If a file is in the way nothing changes.
LEMMA BlockedKeeps ==
    ASSUME TreeInd, NEW p \in TreePaths, create_dir(p),
           \E k \in Above(Directory(p)) \cup {Directory(p)} : exists(k) /\ ~is_directory(k)
    PROVE  tree' = tree /\ terminated'
<1> DEFINE whole == Above(Directory(p)) \cup {Directory(p)}
           bad == CHOOSE k \in whole : exists(k) /\ ~is_directory(k)
<1>1. /\ terminated'
      /\ tree' = [k \in DOMAIN tree \cup Above(bad) |-> IF exists(k) THEN tree[k] ELSE "dir"]
  BY DEF create_dir
<1>2. bad \in DOMAIN tree
  BY DEF exists
<1> HIDE DEF bad
<1>3. Above(bad) \subseteq DOMAIN tree
  BY <1>2 DEF TreeInd, TreeExact, TreeClosed, is_directory, exists
<1>4. DOMAIN tree \cup Above(bad) = DOMAIN tree
  BY <1>3
<1>5. tree' = [k \in DOMAIN tree |-> tree[k]]
  BY <1>1, <1>4 DEF exists
<1>6. tree' = tree
  BY <1>5 DEF TreeInd, TreeTyped
<1> QED
  BY <1>1, <1>6

\* create_dir makes the directories above and the directory.
LEMMA CreateKeeps ==
    ASSUME TreeInd, NEW p \in TreePaths, create_dir(p), ~terminated
    PROVE  TreeInd'
<1> DEFINE D == Directory(p)
           whole == Above(D) \cup {D}
           blocked == \E k \in whole : exists(k) /\ ~is_directory(k)
<1>1. /\ p.parts \in Nodes /\ Len(p.parts) \in Nat /\ Len(p.parts) >= 1 /\ D \in Nodes
      /\ p.trailing \/ Len(p.parts) = 1 => D = p.parts
      /\ ~p.trailing /\ Len(p.parts) > 1 => D = Front(p.parts)
  BY DirectoryIs
<1>2. done' = [op |-> "create_dir", path |-> p, before |-> tree]
  BY DEF create_dir
<1>3. done'.op = "create_dir" /\ done'.path = p /\ done'.before = tree
  BY <1>2
<1>4. RemoveExact'
  BY <1>3 DEF RemoveExact
<1>5. CASE blocked
  <2>1. tree' = tree /\ terminated'
    BY <1>5, BlockedKeeps
  <2>2. TreeTyped' /\ TreeClosed'
    BY <2>1 DEF TreeInd, TreeTyped, TreeExact, TreeClosed, is_directory, exists
  <2>3. CreateDirExact'
    BY <1>3, <2>1 DEF CreateDirExact
  <2> QED
    BY <1>4, <2>2, <2>3 DEF TreeInd, TreeExact
<1>6. CASE ~blocked
  <2>1. tree' = [k \in DOMAIN tree \cup whole |-> IF exists(k) THEN tree[k] ELSE "dir"]
    BY <1>6 DEF create_dir
  <2>2. whole \subseteq Nodes
    BY <1>1, AboveIs
  <2>3. \A k \in whole : k \in DOMAIN tree => tree[k] = "dir"
    BY <1>6 DEF exists, is_directory
  <2>4. \A k \in whole : Above(k) \subseteq whole
    BY <1>1, AboveAbove
  <2> HIDE DEF whole, D
  <2>5. /\ DOMAIN tree' = DOMAIN tree \cup whole
        /\ \A k \in DOMAIN tree : tree'[k] = tree[k]
        /\ \A k \in whole : tree'[k] = "dir"
    BY <2>1, <2>3 DEF exists
  <2>6. TreeTyped'
    <3>1. \A k \in DOMAIN tree' : tree'[k] \in {"dir", "file"}
      BY <2>5 DEF TreeInd, TreeTyped
    <3>2. DOMAIN tree' \subseteq Nodes
      BY <2>2, <2>5 DEF TreeInd, TreeTyped
    <3>3. tree' = [k \in DOMAIN tree' |-> tree'[k]]
      BY <2>1
    <3> QED
      BY <3>1, <3>2, <3>3 DEF TreeTyped
  <2>7. TreeClosed'
    <3> SUFFICES ASSUME NEW k \in DOMAIN tree', NEW d \in Above(k)
                 PROVE  d \in DOMAIN tree' /\ tree'[d] = "dir"
      BY DEF TreeClosed, is_directory, exists, Above
    <3>1. CASE k \in whole
      BY <2>4, <2>5, <3>1
    <3>2. CASE k \in DOMAIN tree
      <4>1. d \in DOMAIN tree /\ tree[d] = "dir"
        BY <3>2 DEF TreeInd, TreeExact, TreeClosed, is_directory, exists
      <4> QED
        BY <2>5, <4>1
    <3> QED
      BY <2>5, <3>1, <3>2
  <2>8. CreateDirExact'
    <3>1. \A k \in DOMAIN tree : k \in DOMAIN tree' /\ tree'[k] = tree[k]
      BY <2>5
    <3>2. \A k \in whole : is_directory(k)'
      BY <2>5 DEF is_directory, exists
    <3>3. Len(p.parts) > 1 => is_directory(Front(p.parts))'
      <4> SUFFICES ASSUME Len(p.parts) > 1
                   PROVE  Front(p.parts) \in whole
        BY <3>2
      <4>1. Front(p.parts) \in Above(p.parts)
        BY <1>1, FrontIs
      <4> QED
        BY <1>1, <4>1 DEF whole, D, TreePaths
    <3>4. p.trailing => is_directory(p.parts)'
      BY <1>1, <3>2 DEF whole
    <3>5. ~p.trailing /\ Len(p.parts) > 1 /\ p.parts \notin DOMAIN tree => ~exists(p.parts)'
      <4> SUFFICES ASSUME ~p.trailing, Len(p.parts) > 1
                   PROVE  p.parts \notin whole
        BY <2>5 DEF exists
      <4>1. D = Front(p.parts) /\ Len(D) = Len(p.parts) - 1
        BY <1>1, FrontIs
      <4>2. \A d \in Above(D) : Len(d) < Len(D) /\ Len(d) \in Int
        BY <1>1, AboveIs, NodeIs, PathTreeAssumption
      <4> QED
        BY <1>1, <4>1, <4>2 DEF whole
    <3>6. Len(p.parts) > 1 =>
            (Directory(remove_trailing_separator(p)) = Directory(p)
               <=> remove_trailing_separator(p) = p)
      BY SeparatorMatters
    <3> QED
      BY <1>3, <3>1, <3>3, <3>4, <3>5, <3>6 DEF CreateDirExact
  <2> QED
    BY <1>4, <2>6, <2>7, <2>8 DEF TreeInd, TreeExact
<1> QED
  BY <1>5, <1>6

\* What stays after remove is not below something that went.
LEMMA RemovePathKeeps ==
    ASSUME TreeInd, NEW node \in Nodes, remove_path(node)
    PROVE  TreeInd'
<1>1. /\ tree' = [k \in DOMAIN tree \ Below(node) |-> tree[k]]
      /\ done' = [op |-> "remove", path |-> node, before |-> tree]
  BY DEF remove_path, Removed
<1>2. done'.op = "remove" /\ done'.path = node /\ done'.before = tree
  BY <1>1
<1>3. /\ DOMAIN tree' = DOMAIN tree \ Below(node)
      /\ \A k \in DOMAIN tree' : tree'[k] = tree[k]
  BY <1>1
<1>4. TreeTyped'
  BY <1>1, <1>3 DEF TreeInd, TreeTyped
<1>5. TreeClosed'
  <2> SUFFICES ASSUME NEW k \in DOMAIN tree', NEW d \in Above(k)
               PROVE  d \in DOMAIN tree' /\ tree'[d] = "dir"
    BY DEF TreeClosed, is_directory, exists, Above
  <2>1. k \in DOMAIN tree /\ ~IsPrefix(node, k) /\ k \in Nodes
    BY <1>3 DEF Below, TreeInd, TreeTyped
  <2>2. d \in DOMAIN tree /\ tree[d] = "dir"
    BY <2>1 DEF TreeInd, TreeExact, TreeClosed, is_directory, exists
  <2>3. d \in Nodes /\ Len(d) < Len(k) /\ \A i \in 1..Len(d) : d[i] = k[i]
    BY <2>1, AboveIs
  <2>4. ~IsPrefix(node, d)
    <3> SUFFICES ASSUME IsPrefix(node, d)
                 PROVE  FALSE
      OBVIOUS
    <3>1. Len(node) <= Len(d) /\ \A i \in 1..Len(node) : node[i] = d[i]
      BY <2>3, NodePrefix
    <3>2. Len(node) \in Nat /\ Len(d) \in Nat /\ Len(k) \in Nat
      BY <2>1, <2>3, NodeIs, PathTreeAssumption
    <3>3. Len(node) <= Len(k) /\ \A i \in 1..Len(node) : node[i] = k[i]
      BY <2>3, <3>1, <3>2
    <3> QED
      BY <2>1, <3>3, NodePrefix
  <2> QED
    BY <1>3, <2>2, <2>4 DEF Below
<1>6. RemoveExact'
  <2>1. IsPrefix(node, node)
    <3>1. Len(node) \in Nat
      BY NodeIs, PathTreeAssumption
    <3> QED
      BY <3>1, NodePrefix
  <2>2. node \notin DOMAIN tree'
    BY <1>3, <2>1 DEF Below
  <2>3. \A k \in DOMAIN tree : k \in DOMAIN tree' \/ IsPrefix(node, k)
    BY <1>3 DEF Below
  <2> QED
    BY <1>2, <2>2, <2>3 DEF RemoveExact, exists
<1>7. CreateDirExact'
  BY <1>2 DEF CreateDirExact
<1> QED
  BY <1>4, <1>5, <1>6, <1>7 DEF TreeInd, TreeExact

\* A file is put into a directory.
LEMMA PutKeeps ==
    ASSUME TreeInd, NEW node \in Nodes, put_file(node)
    PROVE  TreeInd'
<1>1. /\ node \notin DOMAIN tree
      /\ Len(node) > 1 => Front(node) \in DOMAIN tree /\ tree[Front(node)] = "dir"
      /\ tree' = [k \in DOMAIN tree \cup {node} |-> IF k = node THEN "file" ELSE tree[k]]
      /\ done' = [op |-> "put"]
  BY DEF put_file, exists, is_directory
<1>2. /\ DOMAIN tree' = DOMAIN tree \cup {node} /\ tree'[node] = "file"
      /\ \A k \in DOMAIN tree : tree'[k] = tree[k]
  BY <1>1
<1>3. TreeTyped'
  <2>1. \A k \in DOMAIN tree' : tree'[k] \in {"dir", "file"}
    BY <1>2 DEF TreeInd, TreeTyped
  <2>2. tree' = [k \in DOMAIN tree' |-> tree'[k]] /\ DOMAIN tree' \subseteq Nodes
    BY <1>1, <1>2 DEF TreeInd, TreeTyped
  <2> QED
    BY <2>1, <2>2 DEF TreeTyped
<1>4. TreeClosed'
  <2> SUFFICES ASSUME NEW k \in DOMAIN tree', NEW d \in Above(k)
               PROVE  d \in DOMAIN tree /\ tree[d] = "dir"
    BY <1>2 DEF TreeClosed, is_directory, exists, Above
  <2>1. CASE k # node
    BY <1>2, <2>1 DEF TreeInd, TreeExact, TreeClosed, is_directory, exists
  <2>2. CASE k = node
    <3>1. Len(node) > 1
      <4>1. d \in Nodes /\ Len(d) < Len(node)
        BY <2>2, AboveIs
      <4> QED
        BY <4>1, NodeIs, PathTreeAssumption
    <3>2. d = Front(node) \/ d \in Above(Front(node))
      BY <2>2, <3>1, FrontIs
    <3> QED
      BY <1>1, <3>1, <3>2 DEF TreeInd, TreeExact, TreeClosed, is_directory, exists
  <2> QED
    BY <2>1, <2>2
<1>5. CreateDirExact' /\ RemoveExact'
  BY <1>1 DEF CreateDirExact, RemoveExact
<1> QED
  BY <1>3, <1>4, <1>5 DEF TreeInd, TreeExact

\* For any names and any depth, and any mix of create_dir, remove and files
\* that others put there: everything on disk is in a directory, create_dir
\* changes nothing that is there and makes the directory its path stands
\* for, and remove takes away what is below its path and nothing else.
THEOREM TreeCorrect == TreeSpec => []TreeExact
<1>1. TreeInit => TreeInd
  <2> SUFFICES ASSUME TreeInit
               PROVE  TreeInd
    OBVIOUS
  <2>1. DOMAIN tree = {} /\ tree = [k \in {} |-> "dir"] /\ done.op = "none"
    BY DEF TreeInit
  <2> QED
    BY <2>1 DEF TreeInd, TreeTyped, TreeExact, TreeClosed, CreateDirExact, RemoveExact
<1>2. TreeInd /\ [TreeNext]_treeVars => TreeInd'
  <2> SUFFICES ASSUME TreeInd, [TreeNext]_treeVars
               PROVE  TreeInd'
    OBVIOUS
  <2>1. CASE UNCHANGED treeVars
    BY <2>1 DEF treeVars, TreeInd, TreeTyped, TreeExact, TreeClosed, CreateDirExact,
       RemoveExact, is_directory, exists
  <2>2. ASSUME NEW p \in TreePaths, create_dir(p), ~terminated
        PROVE  TreeInd'
    BY <2>2, CreateKeeps
  <2>3. ASSUME NEW node \in Nodes, remove_path(node)
        PROVE  TreeInd'
    BY <2>3, RemovePathKeeps
  <2>4. ASSUME NEW node \in Nodes, put_file(node)
        PROVE  TreeInd'
    BY <2>4, PutKeeps
  <2> QED
    BY <2>1, <2>2, <2>3, <2>4 DEF TreeNext
<1>3. TreeInd => TreeExact
  BY DEF TreeInd
<1> QED
  BY <1>1, <1>2, <1>3, PTL DEF TreeSpec

-----------------------------------------------------------------------------
(***************************************************************************)
(* Files of any length.                                                    *)
(***************************************************************************)

FileBytes == 0..Radix - 1

\* The smaller and the larger of two numbers.
LEMMA OfTwo ==
    ASSUME NEW a \in Nat, NEW b \in Nat
    PROVE  /\ Min({a, b}) = IF a <= b THEN a ELSE b
           /\ Max({a, b}) = IF a <= b THEN b ELSE a
<1>1. \A x \in {a, b} : (\A y \in {a, b} : x <= y) => x = IF a <= b THEN a ELSE b
  OBVIOUS
<1>2. \E x \in {a, b} : \A y \in {a, b} : x <= y
  OBVIOUS
<1>3. \A x \in {a, b} : (\A y \in {a, b} : x >= y) => x = IF a <= b THEN b ELSE a
  OBVIOUS
<1>4. \E x \in {a, b} : \A y \in {a, b} : x >= y
  OBVIOUS
<1>5. Min({a, b}) \in {a, b} /\ \A y \in {a, b} : Min({a, b}) <= y
  BY <1>2 DEF Min
<1>6. Max({a, b}) \in {a, b} /\ \A y \in {a, b} : Max({a, b}) >= y
  BY <1>4 DEF Max
<1> QED
  BY <1>1, <1>3, <1>5, <1>6

\* The beginning of a sequence.
LEMMA BeginningIs ==
    ASSUME NEW S, NEW s \in Seq(S), NEW n \in 0..Len(s)
    PROVE  /\ SubSeq(s, 1, n) \in Seq(S) /\ Len(SubSeq(s, 1, n)) = n
           /\ \A i \in 1..n : SubSeq(s, 1, n)[i] = s[i]
<1> DEFINE j == 1
<1>1. j \in Nat \ {0} /\ n \in Nat /\ n <= Len(s) /\ n - j + 1 = n /\ (j <= n <=> n # 0)
      /\ \A i \in 1..n : j + i - 1 = i
  OBVIOUS
<1> HIDE DEF j
<1>2. /\ SubSeq(s, j, n) \in Seq(S) /\ Len(SubSeq(s, j, n)) = IF j <= n THEN n - j + 1 ELSE 0
      /\ \A k \in 1..(n - j + 1) : SubSeq(s, j, n)[k] = s[j + k - 1]
  BY <1>1, PartIs
<1> DEFINE t == SubSeq(s, j, n)
<1> HIDE DEF t
<1>3. t \in Seq(S) /\ Len(t) = n /\ \A k \in 1..n : t[k] = s[k]
  BY <1>1, <1>2 DEF t
<1> QED
  BY <1>3 DEF t, j

\* IsPrefix, element by element.
LEMMA PrefixIs ==
    ASSUME NEW S, NEW s \in Seq(S), NEW t \in Seq(S), Len(s) <= Len(t),
           \A i \in 1..Len(s) : s[i] = t[i]
    PROVE  IsPrefix(s, t)
<1> DEFINE n == Len(s)
           a == SubSeq(s, 1, n)
           b == SubSeq(t, 1, n)
<1>1. n \in 0..Len(s) /\ n \in 0..Len(t)
  OBVIOUS
<1>2. a \in Seq(S) /\ Len(a) = n /\ \A i \in 1..n : a[i] = s[i]
  BY <1>1, BeginningIs
<1>3. b \in Seq(S) /\ Len(b) = n /\ \A i \in 1..n : b[i] = t[i]
  BY <1>1, BeginningIs
<1> HIDE DEF a, b
<1>4. a = b
  BY <1>2, <1>3, SeqEqual
<1> QED
  BY <1>4 DEF IsPrefix, a, b

\* A sequence from an offset on.
LEMMA FromOffset ==
    ASSUME NEW S, NEW s \in Seq(S), NEW o \in 0..Len(s)
    PROVE  SubSeq(s, o + 1, Len(s)) \in Seq(S) /\ Len(SubSeq(s, o + 1, Len(s))) = Len(s) - o
<1> DEFINE i == o + 1
           j == Len(s)
<1>1. i \in Nat \ {0} /\ j \in Nat /\ j <= Len(s) /\ j - i + 1 = j - o /\ (i <= j <=> o # j)
  OBVIOUS
<1> HIDE DEF i
<1>2. SubSeq(s, i, j) \in Seq(S) /\ Len(SubSeq(s, i, j)) = IF i <= j THEN j - i + 1 ELSE 0
  <2> HIDE DEF j
  <2> QED
    BY <1>1, PartIs
<1> DEFINE t == SubSeq(s, i, j)
<1> HIDE DEF t
<1>3. t \in Seq(S) /\ Len(t) = j - o
  BY <1>1, <1>2 DEF t
<1> QED
  BY <1>3 DEF t, i

\* load_from_file into a vector, of k bytes.
LEMMA LoadVectorIs ==
    ASSUME NEW B, NEW f \in Seq(B), f # Missing, NEW old, NEW k, load_vector(f, old, k).ok
    PROVE  load_vector(f, old, k).out = f
<1> DEFINE v == load_vector(f, old, k)
           n == Len(f)
           out == [i \in 1..n |-> IF i <= k THEN f[i]
                                  ELSE IF i <= Len(old) THEN old[i] ELSE 0]
<1>1. v = [out |-> out, ok |-> k = n]
  BY DEF load_vector
<1>2. v.out = out /\ k = n
  <2>1. v.ok
    OBVIOUS
  <2> HIDE DEF out, v
  <2>2. v.out = out /\ v.ok = (k = n)
    BY <1>1
  <2> QED
    BY <2>1, <2>2
<1>3. \A i \in 1..n : i <= k
  BY <1>2
<1>4. out = [i \in 1..n |-> f[i]]
  BY <1>3
<1>5. f = [i \in 1..n |-> f[i]]
  OBVIOUS
<1> QED
  BY <1>2, <1>4, <1>5

\* load_from_file into an object, of k bytes.
LEMMA LoadSpanIs ==
    ASSUME NEW B, NEW f \in Seq(B), f # Missing, NEW old \in Seq(B), NEW k \in 0..Len(f)
    PROVE  /\ Len(load_span(f, old, k).out) = Len(old)
           /\ load_span(f, old, k).ok => IsPrefix(f, load_span(f, old, k).out)
<1> DEFINE v == load_span(f, old, k)
           n == Len(f)
           m == Len(old)
           out == [i \in 1..Max({m, k}) |-> IF i <= k THEN f[i] ELSE old[i]]
<1>1. n \in Nat /\ m \in Nat /\ k \in Nat /\ k <= n
  OBVIOUS
<1>2. CASE m < n
  <2>1. v = [out |-> old, ok |-> FALSE]
    BY <1>2 DEF load_span, TooSmall
  <2> QED
    BY <2>1
<1>3. CASE ~(m < n)
  <2>1. v = [out |-> out, ok |-> k = n]
    BY <1>3 DEF load_span, TooSmall
  <2>2. Max({m, k}) = m
    <3> HIDE DEF m, n
    <3>1. Max({m, k}) = IF m <= k THEN k ELSE m
      BY <1>1, OfTwo
    <3>2. k <= m
      BY <1>1, <1>3
    <3> QED
      BY <1>1, <3>1, <3>2
  <2>3. out = [i \in 1..m |-> IF i <= k THEN f[i] ELSE old[i]]
    BY <2>2
  <2>4. \A i \in 1..m : (IF i <= k THEN f[i] ELSE old[i]) \in B
    BY <1>1
  <2> HIDE DEF n, m, out
  <2>5. out \in [1..m -> B]
    BY <2>3, <2>4
  <2>6. out \in Seq(B) /\ Len(out) = m
    BY <1>1, <2>5
  <2>7. ASSUME k = n
        PROVE  IsPrefix(f, out)
    <3>1. n <= m
      BY <1>1, <1>3
    <3>2. ASSUME NEW i \in 1..n
          PROVE  f[i] = out[i]
      <4>1. i \in 1..m /\ i <= k
        BY <1>1, <2>7, <3>1
      <4> QED
        BY <2>3, <4>1
    <3> QED
      BY <2>6, <3>1, <3>2, PrefixIs DEF n
  <2>8. v.out = out /\ (v.ok <=> k = n)
    <3> HIDE DEF v
    <3>1. v.out = out /\ v.ok = (k = n)
      BY <2>1
    <3> QED
      BY <3>1
  <2> QED
    BY <2>6, <2>7, <2>8 DEF m
<1> QED
  BY <1>2, <1>3

\* A save that opened the file, and a load of what it has brought there.
LEMMA OpenedSaves ==
    ASSUME NEW found, NEW given \in Seq(FileBytes), NEW offset \in 0..Len(given),
           NEW old \in Seq(FileBytes), NEW io, io.opens,
           NEW n \in Nat, NEW w \in Nat, io.flushed = n, io.written = w,
           n <= w, w <= Len(given) - offset, NEW m \in Nat
    PROVE  SaveLoadExact(found, given, offset, old, io, m)
<1> DEFINE want == SubSeq(given, offset + 1, Len(given))
           saved == save_span(found, given, offset, io)
           f == SubSeq(want, 1, n)
           k == Min({m, get_file_size(saved.file)})
           vec == load_vector(saved.file, old, k)
           span == load_span(saved.file, old, k)
<1>1. want \in Seq(FileBytes) /\ Len(want) = Len(given) - offset
  BY FromOffset
<1>2. saved.file = f /\ (saved.ok <=> w = Len(given) - offset)
  BY DEF save_span, Saved
<1> HIDE DEF want, saved
<1>3. n \in 0..Len(want) /\ Len(want) \in Nat
  BY <1>1
<1>4. f \in Seq(FileBytes) /\ Len(f) = n /\ \A i \in 1..n : f[i] = want[i]
  BY <1>1, <1>3, BeginningIs
<1>5. f # Missing
  BY <1>4, PlatformAssumption DEF FileBytes
<1> HIDE DEF f
<1>6. k = Min({m, Len(f)}) /\ k \in 0..Len(f)
  <2>1. k = Min({m, Len(f)})
    BY <1>2, <1>5 DEF get_file_size
  <2> QED
    BY <1>4, <2>1, OfTwo
<1> HIDE DEF k
<1>7. vec.ok => vec.out = f
  BY <1>2, <1>4, <1>5, LoadVectorIs
<1>8. Len(span.out) = Len(old) /\ (span.ok => IsPrefix(f, span.out))
  BY <1>2, <1>4, <1>5, <1>6, LoadSpanIs
<1>9. saved.ok /\ n = w => f = want
  <2> SUFFICES ASSUME saved.ok, n = w
               PROVE  f = want
    OBVIOUS
  <2>1. Len(f) = Len(want)
    BY <1>1, <1>2, <1>4
  <2> QED
    BY <1>1, <1>4, <2>1, SeqEqual
<1>10. IsPrefix(f, want)
  BY <1>1, <1>3, <1>4, PrefixIs
<1>11. ~saved.ok => f # want
  <2> SUFFICES ASSUME ~saved.ok
               PROVE  Len(f) # Len(want)
    OBVIOUS
  <2> DEFINE l == Len(given) - offset
  <2>1. l \in Nat /\ w # l /\ w <= l
    BY <1>1, <1>2, <1>3
  <2> HIDE DEF l
  <2>2. n < l
    BY <2>1
  <2> QED
    BY <1>1, <1>4, <2>2 DEF l
<1> HIDE DEF vec, span
<1>12. (saved.ok /\ n = w) => (vec.ok => vec.out = want)
  BY <1>7, <1>9
<1>13. (saved.ok /\ n = w) => (span.ok => IsPrefix(want, span.out))
  BY <1>8, <1>9
<1> QED
  BY <1>2, <1>8, <1>10, <1>11, <1>12, <1>13, Zenon
  DEF SaveLoadExact, saved, want, k, vec, span

\* A save that could not open the file, and a load of what was there.
LEMMA NothingSaved ==
    ASSUME NEW found \in Seq(FileBytes) \cup {Missing}, NEW given, NEW offset,
           NEW old \in Seq(FileBytes), NEW io, ~io.opens, NEW m \in Nat
    PROVE  SaveLoadExact(found, given, offset, old, io, m)
<1> DEFINE saved == save_span(found, given, offset, io)
           k == Min({m, get_file_size(found)})
           span == load_span(found, old, k)
<1>1. saved.file = found /\ saved.ok = FALSE
  BY DEF save_span
<1>2. Len(span.out) = Len(old)
  <2>1. CASE found = Missing
    BY <2>1 DEF load_span
  <2>2. CASE found # Missing
    <3>1. found \in Seq(FileBytes) /\ Len(found) \in Nat
      BY <2>2
    <3>2. k = Min({m, Len(found)})
      BY <2>2 DEF get_file_size
    <3> HIDE DEF k
    <3>3. k \in 0..Len(found)
      BY <3>1, <3>2, OfTwo
    <3> QED
      BY <2>2, <3>1, <3>3, LoadSpanIs
  <2> QED
    BY <2>1, <2>2
<1> QED
  BY <1>1, <1>2 DEF SaveLoadExact

\* For a file, a buffer, an offset and an object of any size, whether the
\* file can be opened or not, and however many bytes fwrite, fclose and fread
\* handle: two calls that both report success hand over exactly the buffer
\* from the offset on if fclose lost nothing, and a save that fails leaves a
\* proper beginning or the old file.
THEOREM SavesLoad ==
    ASSUME NEW found \in Seq(FileBytes) \cup {Missing},
           NEW given \in Seq(FileBytes), NEW offset \in 0..Len(given),
           NEW old \in Seq(FileBytes),
           NEW io \in [opens : BOOLEAN, written : 0..Len(given) - offset, flushed : Nat],
           io.flushed <= io.written, NEW m \in Nat
    PROVE  SaveLoadExact(found, given, offset, old, io, m)
<1>1. /\ io.written \in Nat /\ io.flushed \in Nat
      /\ io.written <= Len(given) - offset
  OBVIOUS
<1>2. CASE io.opens
  BY <1>1, <1>2, OpenedSaves
<1>3. CASE ~io.opens
  BY <1>3, NothingSaved
<1> QED
  BY <1>2, <1>3

\* The platforms agree on what a file holds, whatever it holds.
LEMMA PlatformsAgree ==
    ASSUME NEW found \in Seq(FileBytes) \cup {Missing}, NEW s
    PROVE  ReadFilesAgree(found, s) /\ CreatedExists(found)
<1>1. ReadFilesAgree(found, s)
  BY DEF ReadFilesAgree, macos_read_file, windows_read_file, Throws
<1>2. <<>> # Missing /\ Len(<<>>) = 0
  <2>1. <<>> \in Seq(FileBytes)
    OBVIOUS
  <2> QED
    BY <2>1, PlatformAssumption DEF FileBytes
<1>3. CreatedExists(found)
  BY <1>2 DEF CreatedExists, get_file_size, file_exists, macos_create_empty_file,
              ios_create_empty_file
<1> QED
  BY <1>1, <1>3

-----------------------------------------------------------------------------
(***************************************************************************)
(* Lines.                                                                  *)
(***************************************************************************)

\* Lines that have been read, and the one that is being read.
Reading(B) == [lines : Seq(Seq(B)), line : Seq(B)]

\* g has what has been read of each beginning of s.
GetsLines(g, s, B) ==
    /\ g \in [0..Len(s) -> Reading(B)] /\ g[0] = [lines |-> <<>>, line |-> <<>>]
    /\ \A n \in 1..Len(s) : g[n] = GetChar(g[n - 1], s[n])

\* The lines when the file has been read.
LinesOf(r) == IF r.line = <<>> THEN r.lines ELSE Append(r.lines, r.line)

\* One more character.
LEMMA GetCharIs ==
    ASSUME NEW B, NEW r \in Reading(B), NEW ch \in B
    PROVE  GetChar(r, ch) \in Reading(B)
<1> DEFINE L == r.lines
           l == r.line
           X == Seq(B)
<1>1. L \in Seq(X) /\ l \in X /\ <<>> \in X
  BY DEF Reading
<1> HIDE DEF L, l
<1>2. Append(l, ch) \in X
  BY <1>1
<1> HIDE DEF X
<1>3. Append(L, l) \in Seq(X)
  BY <1>1
<1>4. CASE ch = Newline
  <2>1. GetChar(r, ch) = [lines |-> Append(L, l), line |-> <<>>]
    BY <1>4 DEF GetChar, L, l
  <2> QED
    BY <1>1, <1>3, <2>1 DEF Reading, X
<1>5. CASE ch # Newline
  <2>1. GetChar(r, ch) = [lines |-> L, line |-> Append(l, ch)]
    BY <1>5 DEF GetChar, L, l
  <2> QED
    BY <1>1, <1>2, <2>1 DEF Reading, X
<1> QED
  BY <1>4, <1>5

\* read_file goes through the file from its beginning.
LEMMA ReadGetsLines ==
    ASSUME NEW B, NEW s \in Seq(B), s # Missing
    PROVE  \E g : GetsLines(g, s, B) /\ read_lines(s) = LinesOf(g[Len(s)])
<1> DEFINE X == Reading(B)
           m == Len(s)
           first == [lines |-> <<>>, line |-> <<>>]
           Is(g) == g = [n \in 0..m |-> IF n = 0 THEN first ELSE GetChar(g[n - 1], s[n])]
           w == CHOOSE g : Is(g)
           G == [x \in (1..m) \X X |-> GetChar(x[2], s[x[1]])]
<1>1. m \in Nat /\ \A n \in 1..m : s[n] \in B
  OBVIOUS
<1>2. first \in X
  BY DEF Reading
<1>3. \A v \in X, c \in B : GetChar(v, c) \in X
  BY GetCharIs
<1>4. read_lines(s) = LinesOf(w[Len(s)])
  BY DEF read_lines, LinesOf
<1> HIDE DEF X, m, w, first
<1>5. ASSUME NEW n \in 1..m, NEW v \in X
      PROVE  G[<<n, v>>] = GetChar(v, s[n])
  <2>1. <<n, v>> \in (1..m) \X X
    OBVIOUS
  <2> QED
    BY <2>1
<1>6. G \in [(1..m) \X X -> X]
  <2>1. ASSUME NEW x \in (1..m) \X X
        PROVE  GetChar(x[2], s[x[1]]) \in X
    BY <1>1, <1>3
  <2> QED
    BY <2>1
<1> HIDE DEF G
<1>7. PICK g \in [0..m -> X] : RecursFrom(g, m, first, G)
  BY <1>1, <1>2, <1>6, IndexedRecursionExists
<1>8. Is(g)
  <2>1. g[0] = first
    BY <1>7 DEF RecursFrom
  <2>2. ASSUME NEW n \in 1..m
        PROVE  g[n] = GetChar(g[n - 1], s[n])
    <3>1. n - 1 \in 0..m
      BY <1>1
    <3>2. g[n - 1] \in X
      BY <1>7, <3>1
    <3> QED
      BY <1>5, <1>7, <3>2 DEF RecursFrom
  <2>3. ASSUME NEW n \in 0..m
        PROVE  g[n] = IF n = 0 THEN first ELSE GetChar(g[n - 1], s[n])
    <3>1. n = 0 \/ n \in 1..m
      BY <1>1
    <3>2. n \in 1..m => n # 0
      BY <1>1
    <3> QED
      BY <2>1, <2>2, <3>1, <3>2, Zenon
  <2> QED
    BY <1>7, <2>3
<1>9. Is(w)
  BY <1>8 DEF w
<1>10. w[0] = first /\ \A n \in 1..m : w[n] = GetChar(w[n - 1], s[n])
  BY <1>1, <1>9
<1>11. \A n \in 0..m : w[n] \in X
  <2> DEFINE T == {n \in Nat : n <= m => w[n] \in X}
  <2>1. 0 \in T
    BY <1>2, <1>10
  <2>2. ASSUME NEW n \in Nat, n \in T
        PROVE  n + 1 \in T
    <3> SUFFICES ASSUME n + 1 <= m
                 PROVE  w[n + 1] \in X
      OBVIOUS
    <3> DEFINE k == n + 1
    <3>1. k \in 1..m /\ k - 1 = n /\ w[n] \in X
      BY <1>1, <2>2
    <3> HIDE DEF k
    <3>2. w[k] = GetChar(w[n], s[k]) /\ s[k] \in B
      BY <1>1, <1>10, <3>1
    <3> QED
      BY <1>3, <3>1, <3>2 DEF k
  <2>3. Nat \subseteq T
    <3> HIDE DEF T
    <3> QED
      BY <2>1, <2>2, NatInductive
  <2> QED
    BY <1>1, <2>3
<1>12. w \in [0..m -> X]
  BY <1>9, <1>11
<1> QED
  BY <1>4, <1>10, <1>12 DEF X, m, first, GetsLines

\* Lines with their ends.
Ended(L) == [k \in DOMAIN L |-> Append(L[k], Newline)]

\* The ends of one line more.
LEMMA EndedIs ==
    ASSUME NEW B, Newline \in B, NEW L \in Seq(Seq(B))
    PROVE  /\ Ended(L) \in Seq(Seq(B))
           /\ \A l \in Seq(B) : Ended(Append(L, l)) = Append(Ended(L), Append(l, Newline))
<1> DEFINE X == Seq(B)
           n == Len(L)
           E == Ended(L)
<1>1. \A l \in X : Append(l, Newline) \in X
  BY AppendProperties
<1> HIDE DEF X
<1>2. n \in Nat /\ DOMAIN L = 1..n /\ \A k \in 1..n : L[k] \in X
  BY DEF X
<1>3. E = [k \in 1..n |-> Append(L[k], Newline)]
  BY <1>2 DEF Ended
<1>4. \A k \in 1..n : Append(L[k], Newline) \in X
  BY <1>1, <1>2
<1> HIDE DEF E, n
<1>5. E \in [1..n -> X]
  BY <1>3, <1>4
<1>6. E \in Seq(X) /\ Len(E) = n
  BY <1>2, <1>5
<1>7. ASSUME NEW l \in X
      PROVE  Ended(Append(L, l)) = Append(E, Append(l, Newline))
  <2> DEFINE M == Append(L, l)
             e == Append(l, Newline)
             F == Append(E, e)
             G == Ended(M)
             m == n + 1
  <2>1. e \in X
    BY <1>1
  <2> HIDE DEF e
  <2>2. M \in Seq(X) /\ Len(M) = m /\ M[m] = l /\ \A k \in 1..n : M[k] = L[k]
    BY AppendProperties DEF X, n
  <2>3. F \in Seq(X) /\ Len(F) = m /\ F[m] = e /\ \A k \in 1..n : F[k] = E[k]
    BY <1>6, <2>1, AppendProperties
  <2>4. m \in Nat /\ \A k \in 1..m : k \in 1..n \/ k = m
    BY <1>2
  <2> HIDE DEF M, F, m
  <2>5. DOMAIN M = 1..m /\ \A k \in 1..m : M[k] \in X
    BY <2>2
  <2>6. G = [k \in 1..m |-> Append(M[k], Newline)]
    BY <2>5 DEF Ended
  <2>7. \A k \in 1..m : Append(M[k], Newline) = F[k]
    <3> SUFFICES ASSUME NEW k \in 1..m
                 PROVE  Append(M[k], Newline) = F[k]
      OBVIOUS
    <3>1. CASE k \in 1..n
      BY <1>3, <2>2, <2>3, <3>1
    <3>2. CASE k = m
      BY <2>2, <2>3, <3>2 DEF e
    <3> QED
      BY <2>4, <3>1, <3>2
  <2>8. F = [k \in 1..m |-> F[k]]
    BY <2>3
  <2>9. G = F
    BY <2>6, <2>7, <2>8
  <2> QED
    BY <2>9 DEF M, F, e
<1> QED
  BY <1>6, <1>7 DEF E, X

\* One line more, put together with its end.
LEMMA FlatLine ==
    ASSUME NEW B, Newline \in B, NEW L \in Seq(Seq(B)), NEW l \in Seq(B)
    PROVE  /\ FlattenSeq(Ended(L)) \in Seq(B)
           /\ FlattenSeq(Ended(Append(L, l))) = Append(FlattenSeq(Ended(L)) \o l, Newline)
<1> DEFINE E == Ended(L)
           e == Append(l, Newline)
           f == FlattenSeq(E)
           c == Newline
<1>1. E \in Seq(Seq(B)) /\ Ended(Append(L, l)) = Append(E, e) /\ e \in Seq(B)
  BY EndedIs, AppendProperties
<1> HIDE DEF E, c
<1>2. f \in Seq(B)
  BY <1>1, FlattenType
<1>3. FlattenSeq(Append(E, e)) = f \o e
  <2> HIDE DEF e
  <2> QED
    BY <1>1, FlattenAppend
<1>4. c \in B
  BY DEF c
<1> HIDE DEF f
<1>5. f \o Append(l, c) = Append(f \o l, c)
  BY <1>2, <1>4, AppendLast
<1> QED
  BY <1>1, <1>2, <1>3, <1>5 DEF f, E, c

\* The beginning that is one longer.
LEMMA BeginningNext ==
    ASSUME NEW S, NEW s \in Seq(S), NEW n \in Nat, n + 1 <= Len(s)
    PROVE  SubSeq(s, 1, n + 1) = Append(SubSeq(s, 1, n), s[n + 1])
<1> DEFINE k == n + 1
           a == SubSeq(s, 1, n)
           b == SubSeq(s, 1, k)
           c == s[k]
           d == Append(a, c)
<1>1. n \in 0..Len(s) /\ k \in 0..Len(s) /\ k \in 1..Len(s) /\ c \in S
      /\ \A i \in 1..k : i \in 1..n \/ i = k
  OBVIOUS
<1>2. a \in Seq(S) /\ Len(a) = n /\ \A i \in 1..n : a[i] = s[i]
  BY <1>1, BeginningIs
<1>3. b \in Seq(S) /\ Len(b) = k /\ \A i \in 1..k : b[i] = s[i]
  <2> HIDE DEF k
  <2> QED
    BY <1>1, BeginningIs
<1> HIDE DEF a, b, c
<1>4. d \in Seq(S) /\ Len(d) = k /\ d[k] = c /\ \A i \in 1..n : d[i] = a[i]
  BY <1>1, <1>2, AppendProperties
<1> HIDE DEF d, k
<1>5. ASSUME NEW i \in 1..k
      PROVE  b[i] = d[i]
  <2>1. CASE i \in 1..n
    BY <1>2, <1>3, <1>4, <2>1
  <2>2. CASE i = k
    BY <1>3, <1>4, <2>2 DEF c
  <2> QED
    BY <1>1, <2>1, <2>2
<1>6. b = d
  BY <1>3, <1>4, <1>5, SeqEqual
<1> QED
  BY <1>6 DEF a, b, c, d, k

\* There is no end in a line.
NoEnd(l) == Newline \notin Range(l)

\* A line and one that is one longer.
LEMMA NoEndAppend ==
    ASSUME NEW B, NEW l \in Seq(B), NEW c \in B, c # Newline, NoEnd(l)
    PROVE  NoEnd(Append(l, c))
<1>1. Range(Append(l, c)) = Range(l) \cup {c}
  <2> DEFINE n == Len(l)
             a == Append(l, c)
  <2>1. n \in Nat /\ a \in Seq(B) /\ Len(a) = n + 1 /\ a[n + 1] = c /\ \A i \in 1..n : a[i] = l[i]
    BY AppendProperties
  <2>2. DOMAIN a = 1..n + 1 /\ DOMAIN l = 1..n /\ 1..n + 1 = (1..n) \cup {n + 1}
    BY <2>1
  <2> HIDE DEF a, n
  <2>3. Range(a) = Range(l) \cup {c}
    BY <2>1, <2>2 DEF Range
  <2> QED
    BY <2>3 DEF a
<1> QED
  BY <1>1 DEF NoEnd

\* One line more without an end.
LEMMA NoEndLines ==
    ASSUME NEW B, NEW L \in Seq(Seq(B)), \A k \in 1..Len(L) : NoEnd(L[k]),
           NEW l \in Seq(B), NoEnd(l)
    PROVE  \A k \in 1..Len(Append(L, l)) : NoEnd(Append(L, l)[k])
<1> DEFINE n == Len(L)
           M == Append(L, l)
<1>1. n \in Nat /\ Len(M) = n + 1 /\ M[n + 1] = l /\ \A k \in 1..n : M[k] = L[k]
  BY AppendProperties
<1> HIDE DEF M, n
<1>2. \A k \in 1..n + 1 : k \in 1..n \/ k = n + 1
  BY <1>1
<1>3. \A k \in 1..n : NoEnd(L[k])
  BY DEF n
<1> QED
  BY <1>1, <1>2, <1>3 DEF M

\* What has been read of the beginning b of a file.
ReadUpTo(r, b) ==
    /\ FlattenSeq(Ended(r.lines)) \o r.line = b
    /\ \A k \in 1..Len(r.lines) : NoEnd(r.lines[k])
    /\ NoEnd(r.line)

\* One character more.
LEMMA ReadOneMore ==
    ASSUME NEW B, Newline \in B, NEW r \in Reading(B), NEW b \in Seq(B), NEW c \in B,
           ReadUpTo(r, b)
    PROVE  ReadUpTo(GetChar(r, c), Append(b, c))
<1> DEFINE L == r.lines
           l == r.line
           f == FlattenSeq(Ended(L))
           N == Newline
<1>1. L \in Seq(Seq(B)) /\ l \in Seq(B)
  BY DEF Reading
<1>2. f \o l = b /\ NoEnd(l) /\ \A k \in 1..Len(L) : NoEnd(L[k])
  BY DEF ReadUpTo
<1> HIDE DEF L, l
<1>3. f \in Seq(B) /\ FlattenSeq(Ended(Append(L, l))) = Append(f \o l, Newline)
  BY <1>1, FlatLine
<1> HIDE DEF f
<1>4. CASE c = Newline
  <2> DEFINE M == Append(L, l)
             e == <<>>
             g == FlattenSeq(Ended(M))
             q == GetChar(r, c)
  <2>1. q.lines = M /\ q.line = e
    BY <1>4 DEF GetChar, L, l
  <2>2. g = Append(b, c) /\ g \in Seq(B)
    BY <1>2, <1>3, <1>4, AppendProperties
  <2>3. \A k \in 1..Len(M) : NoEnd(M[k])
    BY <1>1, <1>2, NoEndLines
  <2>4. NoEnd(e)
    BY DEF NoEnd, Range
  <2> HIDE DEF g, M
  <2>5. g \o e = g
    BY <2>2
  <2> HIDE DEF e, q
  <2> QED
    BY <2>1, <2>2, <2>3, <2>4, <2>5 DEF ReadUpTo, g, q
<1>5. CASE c # Newline
  <2> DEFINE m == Append(l, c)
             q == GetChar(r, c)
  <2>1. q.lines = L /\ q.line = m
    BY <1>5 DEF GetChar, L, l
  <2>2. f \o m = Append(f \o l, c)
    BY <1>1, <1>3, AppendLast
  <2>3. NoEnd(m)
    BY <1>1, <1>2, <1>5, NoEndAppend
  <2> HIDE DEF m, q
  <2> QED
    BY <1>2, <2>1, <2>2, <2>3 DEF ReadUpTo, f, q
<1> QED
  BY <1>4, <1>5

\* The lines that read_file hands over are the file, whatever is in it, and
\* none has a Newline in it.
THEOREM LinesAreFile ==
    ASSUME NEW found \in Seq(FileBytes) \cup {Missing}
    PROVE  LinesExact(found)
<1>1. CASE found = Missing
  <2>1. read_lines(found) = <<>>
    BY <1>1 DEF read_lines
  <2>2. DOMAIN <<>> = {}
    OBVIOUS
  <2> QED
    BY <1>1, <2>1, <2>2 DEF LinesExact
<1>2. CASE found # Missing
  <2> DEFINE B == FileBytes
             s == found
             m == Len(s)
  <2>1. s \in Seq(B) /\ Newline \in B
    BY <1>2, PlatformAssumption DEF FileBytes, Newline
  <2>2. PICK g : GetsLines(g, s, B) /\ read_lines(s) = LinesOf(g[m])
    BY <1>2, <2>1, ReadGetsLines
  <2> HIDE DEF B
  <2>3. m \in Nat /\ \A n \in 1..m : s[n] \in B
    BY <2>1
  <2>4. /\ g \in [0..m -> Reading(B)] /\ g[0] = [lines |-> <<>>, line |-> <<>>]
        /\ \A n \in 1..m : g[n] = GetChar(g[n - 1], s[n])
    BY <2>2 DEF GetsLines
  <2> HIDE DEF m
  <2>5. \A n \in 0..m : g[n] \in Reading(B)
    BY <2>4
  <2> DEFINE T == {n \in Nat : n <= m => ReadUpTo(g[n], SubSeq(s, 1, n))}
  <2>6. 0 \in T
    <3>1. g[0].lines = <<>> /\ g[0].line = <<>>
      BY <2>4
    <3>2. Ended(<<>>) = <<>>
      BY DEF Ended
    <3>3. FlattenSeq(<<>>) = <<>>
      BY FlattenAppend
    <3>4. SubSeq(s, 1, 0) = <<>> /\ <<>> \o <<>> = <<>> /\ Len(<<>>) = 0 /\ 1..0 = {}
      OBVIOUS
    <3>5. NoEnd(<<>>)
      BY DEF NoEnd, Range
    <3>6. ReadUpTo(g[0], SubSeq(s, 1, 0))
      BY <3>1, <3>2, <3>3, <3>4, <3>5 DEF ReadUpTo
    <3> QED
      BY <3>6
  <2>7. ASSUME NEW n \in Nat, n \in T
        PROVE  n + 1 \in T
    <3> SUFFICES ASSUME n + 1 <= m
                 PROVE  ReadUpTo(g[n + 1], SubSeq(s, 1, n + 1))
      OBVIOUS
    <3> DEFINE k == n + 1
               r == g[n]
               c == s[k]
               b == SubSeq(s, 1, n)
    <3>1. k \in 1..m /\ k - 1 = n /\ n \in 0..m /\ n <= m
      BY <2>3
    <3>2. r \in Reading(B) /\ c \in B /\ g[k] = GetChar(r, c)
      BY <2>3, <2>4, <2>5, <3>1
    <3>3. SubSeq(s, 1, k) = Append(b, c)
      BY <2>1, BeginningNext DEF m
    <3>4. b \in Seq(B) /\ ReadUpTo(r, b)
      BY <2>1, <2>7, <3>1, BeginningIs DEF m
    <3> HIDE DEF r, b, c, k
    <3>5. ReadUpTo(GetChar(r, c), Append(b, c))
      BY <2>1, <3>2, <3>4, ReadOneMore
    <3> QED
      BY <3>2, <3>3, <3>5 DEF k
  <2>8. Nat \subseteq T
    <3> HIDE DEF T
    <3> QED
      BY <2>6, <2>7, NatInductive
  <2> DEFINE r == g[m]
             L == r.lines
             l == r.line
             f == FlattenSeq(Ended(L))
             all == FlattenSeq(Ended(read_lines(found)))
  <2>9. ReadUpTo(r, s) /\ r \in Reading(B)
    <3>1. SubSeq(s, 1, m) = s
      BY <2>1 DEF m
    <3>2. m \in Nat /\ m \in 0..m /\ m <= m
      BY <2>3
    <3>3. r \in Reading(B)
      BY <2>5, <3>2
    <3>4. m \in T
      BY <2>8, <3>2
    <3>5. ReadUpTo(g[m], SubSeq(s, 1, m))
      BY <3>2, <3>4
    <3> QED
      BY <3>1, <3>3, <3>5
  <2> HIDE DEF r
  <2>10. L \in Seq(Seq(B)) /\ l \in Seq(B)
    BY <2>9 DEF Reading
  <2>11. f \o l = s /\ NoEnd(l) /\ \A k \in 1..Len(L) : NoEnd(L[k])
    BY <2>9 DEF ReadUpTo
  <2>12. read_lines(found) = IF l = <<>> THEN L ELSE Append(L, l)
    BY <2>2 DEF LinesOf, r
  <2> HIDE DEF L, l
  <2>13. f \in Seq(B) /\ FlattenSeq(Ended(Append(L, l))) = Append(f \o l, Newline)
    BY <2>1, <2>10, FlatLine
  <2>14. all \in {found, Append(found, Newline)}
    <3>1. CASE l = <<>>
      <4>1. f \o <<>> = f
        <5> HIDE DEF f
        <5> QED
          BY <2>13
      <4> QED
        BY <2>11, <2>12, <3>1, <4>1
    <3>2. CASE l # <<>>
      BY <2>11, <2>12, <2>13, <3>2
    <3> QED
      BY <3>1, <3>2
  <2>15. \A k \in DOMAIN read_lines(found) : NoEnd(read_lines(found)[k])
    <3>1. CASE l = <<>>
      <4>1. read_lines(found) = L /\ DOMAIN L = 1..Len(L)
        BY <2>10, <2>12, <3>1
      <4> QED
        BY <2>11, <4>1
    <3>2. CASE l # <<>>
      <4> DEFINE M == Append(L, l)
      <4>1. \A k \in 1..Len(M) : NoEnd(M[k])
        BY <2>10, <2>11, NoEndLines
      <4>2. read_lines(found) = M /\ DOMAIN M = 1..Len(M)
        BY <2>10, <2>12, <3>2
      <4> HIDE DEF M
      <4> QED
        BY <4>1, <4>2
    <3> QED
      BY <3>1, <3>2
  <2> QED
    BY <2>14, <2>15 DEF LinesExact, Ended, NoEnd
<1> QED
  BY <1>1, <1>2

-----------------------------------------------------------------------------
(***************************************************************************)
(* Values as bytes.                                                        *)
(***************************************************************************)

\* h has byte shifted by 0 to width bytes.
Shifts(h, byte, width) ==
    /\ h \in [0..width -> Nat] /\ h[0] = byte
    /\ \A i \in 1..width : h[i] = h[i - 1] \div Radix

\* Shifted shifts by one byte after the other.
LEMMA ShiftedShifts ==
    ASSUME NEW byte \in Nat, NEW width \in Nat
    PROVE  Shifts(Shifted(byte, width), byte, width)
<1> DEFINE m == width
           Is(g) == g = [i \in 0..m |-> IF i = 0 THEN byte ELSE g[i - 1] \div Radix]
           w == CHOOSE g : Is(g)
           G == [x \in (1..m) \X Nat |-> x[2] \div Radix]
<1>1. Radix \in Nat \ {0}
  BY PlatformAssumption
<1>2. \A v \in Nat : v \div Radix \in Nat
  BY <1>1
<1>4. Shifted(byte, width) = w
  BY DEF Shifted
<1> HIDE DEF w
<1>5. ASSUME NEW n \in 1..m, NEW v \in Nat
      PROVE  G[<<n, v>>] = v \div Radix
  <2>1. <<n, v>> \in (1..m) \X Nat
    OBVIOUS
  <2> QED
    BY <2>1
<1>6. G \in [(1..m) \X Nat -> Nat]
  <2>1. ASSUME NEW x \in (1..m) \X Nat
        PROVE  x[2] \div Radix \in Nat
    BY <1>2
  <2> QED
    BY <2>1
<1> DEFINE X == Nat
<1>0. byte \in X /\ G \in [(1..m) \X X -> X]
  BY <1>6
<1> HIDE DEF G, X
<1>7. PICK g \in [0..m -> X] : RecursFrom(g, m, byte, G)
  BY <1>0, IndexedRecursionExists
<1>8. Is(g)
  <2>1. g[0] = byte
    BY <1>7 DEF RecursFrom
  <2>2. ASSUME NEW n \in 1..m
        PROVE  g[n] = g[n - 1] \div Radix
    <3>1. n - 1 \in 0..m
      OBVIOUS
    <3>2. g[n - 1] \in Nat
      BY <1>7, <3>1 DEF X
    <3>3. g[n] = G[<<n, g[n - 1]>>]
      BY <1>7 DEF RecursFrom
    <3> QED
      BY <1>5, <3>2, <3>3
  <2>3. ASSUME NEW n \in 0..m
        PROVE  g[n] = IF n = 0 THEN byte ELSE g[n - 1] \div Radix
    <3>1. n = 0 \/ n \in 1..m
      OBVIOUS
    <3>2. n \in 1..m => n # 0
      OBVIOUS
    <3> QED
      BY <2>1, <2>2, <3>1, <3>2, Zenon
  <2> QED
    BY <1>7, <2>3
<1>9. Is(w)
  BY <1>8 DEF w
<1>10. w[0] = byte /\ \A n \in 1..m : w[n] = w[n - 1] \div Radix
  <2>1. w[0] = byte
    BY <1>9
  <2>2. ASSUME NEW n \in 1..m
        PROVE  w[n] = w[n - 1] \div Radix
    <3>1. n \in 0..m /\ n # 0
      OBVIOUS
    <3> QED
      BY <1>9, <3>1
  <2> QED
    BY <2>1, <2>2
<1>11. \A n \in 0..m : w[n] \in Nat
  <2> DEFINE T == {n \in Nat : n <= m => w[n] \in Nat}
  <2>1. 0 \in T
    BY <1>10
  <2>2. ASSUME NEW n \in Nat, n \in T
        PROVE  n + 1 \in T
    <3> SUFFICES ASSUME n + 1 <= m
                 PROVE  w[n + 1] \in Nat
      OBVIOUS
    <3> DEFINE k == n + 1
    <3>1. k \in 1..m /\ k - 1 = n /\ w[n] \in Nat
      BY <2>2
    <3> HIDE DEF k
    <3>2. w[k] = w[n] \div Radix
      BY <1>10, <3>1
    <3> QED
      BY <1>2, <3>1, <3>2 DEF k
  <2>3. Nat \subseteq T
    <3> HIDE DEF T
    <3> QED
      BY <2>1, <2>2, NatInductive
  <2> QED
    BY <2>3
<1>12. w \in [0..m -> Nat]
  BY <1>9, <1>11
<1> QED
  BY <1>4, <1>10, <1>12 DEF Shifts

\* What string_to_binary has of a value.
Ors == [byte : Int, unit : Int]

\* g has what is joined of the beginnings of s.
JoinsBytes(g, s) ==
    /\ g \in [0..Len(s) -> Ors] /\ g[0] = [byte |-> 0, unit |-> 1]
    /\ \A n \in 1..Len(s) : g[n] = Or(g[n - 1], s[n])

\* Joined takes one byte after the other.
LEMMA JoinedJoins ==
    ASSUME NEW s \in Seq(Int)
    PROVE  \E g : JoinsBytes(g, s) /\ Joined(s) = g[Len(s)].byte
<1> DEFINE X == Ors
           m == Len(s)
           first == [byte |-> 0, unit |-> 1]
           Is(g) == g = [n \in 0..m |-> IF n = 0 THEN first ELSE Or(g[n - 1], s[n])]
           w == CHOOSE g : Is(g)
           G == [x \in (1..m) \X X |-> Or(x[2], s[x[1]])]
<1>1. m \in Nat /\ \A n \in 1..m : s[n] \in Int
  OBVIOUS
<1>2. first \in X
  BY DEF Ors
<1>3. \A v \in X, c \in Int : Or(v, c) \in X
  <2>1. Radix \in Int
    BY PlatformAssumption
  <2> QED
    BY <2>1 DEF Ors, Or
<1>4. Joined(s) = w[Len(s)].byte
  BY DEF Joined
<1> HIDE DEF X, m, w, first
<1>5. ASSUME NEW n \in 1..m, NEW v \in X
      PROVE  G[<<n, v>>] = Or(v, s[n])
  <2>1. <<n, v>> \in (1..m) \X X
    OBVIOUS
  <2> QED
    BY <2>1
<1>6. G \in [(1..m) \X X -> X]
  <2>1. ASSUME NEW x \in (1..m) \X X
        PROVE  Or(x[2], s[x[1]]) \in X
    BY <1>1, <1>3
  <2> QED
    BY <2>1
<1> HIDE DEF G
<1>7. PICK g \in [0..m -> X] : RecursFrom(g, m, first, G)
  BY <1>1, <1>2, <1>6, IndexedRecursionExists
<1>8. Is(g)
  <2>1. g[0] = first
    BY <1>7 DEF RecursFrom
  <2>2. ASSUME NEW n \in 1..m
        PROVE  g[n] = Or(g[n - 1], s[n])
    <3>1. n - 1 \in 0..m
      BY <1>1
    <3>2. g[n - 1] \in X
      BY <1>7, <3>1
    <3> QED
      BY <1>5, <1>7, <3>2 DEF RecursFrom
  <2>3. ASSUME NEW n \in 0..m
        PROVE  g[n] = IF n = 0 THEN first ELSE Or(g[n - 1], s[n])
    <3>1. n = 0 \/ n \in 1..m
      BY <1>1
    <3>2. n \in 1..m => n # 0
      BY <1>1
    <3> QED
      BY <2>1, <2>2, <3>1, <3>2, Zenon
  <2> QED
    BY <1>7, <2>3
<1>9. Is(w)
  BY <1>8 DEF w
<1>10. w[0] = first /\ \A n \in 1..m : w[n] = Or(w[n - 1], s[n])
  BY <1>1, <1>9
<1>11. \A n \in 0..m : w[n] \in X
  <2> DEFINE T == {n \in Nat : n <= m => w[n] \in X}
  <2>1. 0 \in T
    BY <1>2, <1>10
  <2>2. ASSUME NEW n \in Nat, n \in T
        PROVE  n + 1 \in T
    <3> SUFFICES ASSUME n + 1 <= m
                 PROVE  w[n + 1] \in X
      OBVIOUS
    <3> DEFINE k == n + 1
    <3>1. k \in 1..m /\ k - 1 = n /\ w[n] \in X
      BY <1>1, <2>2
    <3> HIDE DEF k
    <3>2. w[k] = Or(w[n], s[k]) /\ s[k] \in Int
      BY <1>1, <1>10, <3>1
    <3> QED
      BY <1>3, <3>1, <3>2 DEF k
  <2>3. Nat \subseteq T
    <3> HIDE DEF T
    <3> QED
      BY <2>1, <2>2, NatInductive
  <2> QED
    BY <1>1, <2>3
<1>12. w \in [0..m -> X]
  BY <1>9, <1>11
<1> QED
  BY <1>4, <1>10, <1>12 DEF X, m, first, JoinsBytes

\* What has been joined and what is left, one byte later.
LEMMA JoinOneMore ==
    ASSUME NEW a \in Nat, NEW b \in Int, NEW u \in Int, NEW v \in Nat,
           b + a * u = v
    PROVE  (b + (a % Radix) * u) + (a \div Radix) * (u * Radix) = v
<1> DEFINE R == Radix
           q == a \div R
           t == a % R
           x == t * u
           y == q * u
<1>1. R \in Nat \ {0}
  BY PlatformAssumption
<1>2. a = R * q + t /\ t \in Int /\ q \in Int
  BY <1>1, Quotient
<1> HIDE DEF q, t, R
<1>3. a * u = R * y + x /\ q * (u * R) = R * y /\ x \in Int /\ y \in Int
  BY <1>1, <1>2
<1> HIDE DEF x, y
<1>4. (b + x) + q * (u * R) = v
  BY <1>1, <1>3
<1> QED
  BY <1>4 DEF x, t, q, R

\* The bytes of a value that has its width, joined.
LEMMA JoinedBytes ==
    ASSUME NEW v \in Nat, NEW width \in Nat \ {0}, HasWidth(v, width)
    PROVE  Joined([j \in 1..width |-> ByteOf(v, j - 1, width)]) = v
<1> DEFINE h == Shifted(v, width)
           s == [j \in 1..width |-> ByteOf(v, j - 1, width)]
           m == width
<1>0. m \in Nat /\ Radix \in Nat \ {0}
  BY PlatformAssumption
<1>1. h \in [0..m -> Nat] /\ h[0] = v /\ \A i \in 1..m : h[i] = h[i - 1] \div Radix
  BY <1>0, ShiftedShifts DEF Shifts
<1>2. h[m] = 0
  BY DEF HasWidth
<1>3. s = [j \in 1..m |-> h[j - 1] % Radix]
  BY DEF ByteOf
<1> HIDE DEF h
<1>4. \A j \in 1..m : h[j - 1] % Radix \in Int
  <2> SUFFICES ASSUME NEW j \in 1..m
               PROVE  h[j - 1] % Radix \in Int
    OBVIOUS
  <2>1. j - 1 \in 0..m
    BY <1>0
  <2> DEFINE a == h[j - 1]
  <2>2. a \in Nat
    BY <1>1, <2>1
  <2> HIDE DEF a
  <2>3. a % Radix \in Int
    BY <1>0, <2>2
  <2> QED
    BY <2>3 DEF a
<1>5. s \in Seq(Int) /\ Len(s) = m
  <2>1. s \in [1..m -> Int]
    BY <1>3, <1>4
  <2> HIDE DEF s
  <2> QED
    BY <1>0, <2>1
<1>6. \A j \in 1..m : s[j] = h[j - 1] % Radix
  BY <1>3
<1> HIDE DEF s
<1>7. PICK g : JoinsBytes(g, s) /\ Joined(s) = g[Len(s)].byte
  BY <1>5, JoinedJoins
<1>8. /\ g \in [0..m -> Ors] /\ g[0] = [byte |-> 0, unit |-> 1]
      /\ \A n \in 1..m : g[n] = Or(g[n - 1], s[n])
  BY <1>5, <1>7 DEF JoinsBytes
<1> DEFINE T == {n \in Nat : n <= m => g[n].byte + h[n] * g[n].unit = v}
<1>9. 0 \in T
  <2>1. g[0].byte = 0 /\ g[0].unit = 1
    BY <1>8
  <2> QED
    BY <1>1, <2>1
<1>10. ASSUME NEW n \in Nat, n \in T
       PROVE  n + 1 \in T
  <2> SUFFICES ASSUME n + 1 <= m
               PROVE  g[n + 1].byte + h[n + 1] * g[n + 1].unit = v
    OBVIOUS
  <2> DEFINE k == n + 1
             a == h[n]
             b == g[n].byte
             u == g[n].unit
  <2>1. k \in 1..m /\ k - 1 = n /\ n \in 0..m /\ n <= m
    BY <1>0
  <2>2. a \in Nat /\ g[n] \in Ors /\ b + a * u = v
    BY <1>1, <1>8, <1>10, <2>1
  <2>3. b \in Int /\ u \in Int
    BY <2>2 DEF Ors
  <2>4. s[k] = a % Radix /\ h[k] = a \div Radix /\ g[k] = Or(g[n], s[k])
    <3> HIDE DEF k
    <3> QED
      BY <1>1, <1>6, <1>8, <2>1
  <2>5. g[k].byte = b + s[k] * u /\ g[k].unit = u * Radix
    BY <2>4 DEF Or
  <2> HIDE DEF a, b, u, k
  <2>6. (b + (a % Radix) * u) + (a \div Radix) * (u * Radix) = v
    BY <2>2, <2>3, JoinOneMore
  <2>7. g[k].byte + h[k] * g[k].unit = v
    BY <2>4, <2>5, <2>6
  <2> QED
    BY <2>7 DEF k
<1>11. Nat \subseteq T
  <2> HIDE DEF T
  <2> QED
    BY <1>9, <1>10, NatInductive
<1>12. g[m].byte + h[m] * g[m].unit = v
  <2>1. m \in T /\ m <= m
    BY <1>0, <1>11
  <2> QED
    BY <2>1
<1>13. g[m].byte \in Int /\ g[m].unit \in Int
  <2>1. g[m] \in Ors
    BY <1>0, <1>8
  <2> QED
    BY <2>1 DEF Ors
<1> QED
  BY <1>2, <1>5, <1>7, <1>12, <1>13 DEF s

\* The place of byte j of value k.
LEMMA PlaceOfByte ==
    ASSUME NEW width \in Nat \ {0}, NEW n \in Nat, NEW k \in 1..n, NEW j \in 1..width
    PROVE  /\ (k - 1) * width + j \in 1..n * width
           /\ ((k - 1) * width + j - 1) \div width + 1 = k
           /\ ((k - 1) * width + j - 1) % width = j - 1
<1> DEFINE q == k - 1
           r == j - 1
           a == (k - 1) * width + j - 1
<1>1. q \in Nat /\ r \in 0..width - 1 /\ q + 1 = k /\ q + 1 <= n
  OBVIOUS
<1>2. a = width * q + r /\ a \in Nat
  BY <1>1
<1>3. (q + 1) * width <= n * width
  BY <1>1
<1>4. (q + 1) * width = q * width + width
  BY <1>1
<1> DEFINE p == q * width
           t == n * width
<1>5. p \in Nat /\ t \in Nat /\ p + width <= t
  BY <1>1, <1>3, <1>4
<1>6. q * width + j \in 1..n * width
  <2> HIDE DEF p, t, q
  <2>1. p + j \in 1..t
    BY <1>5
  <2> QED
    BY <2>1 DEF p, t
<1> HIDE DEF a, r
<1>7. a \div width = q /\ a % width = r
  <2> HIDE DEF q
  <2> QED
    BY <1>1, <1>2, QuotientUnique
<1> QED
  BY <1>6, <1>7 DEF a, r

\* The values that string_to_binary finds.
LEMMA ValuesCounted ==
    ASSUME NEW width \in Nat \ {0}, NEW n \in Nat
    PROVE  (n * width + width - 1) \div width = n
<1> DEFINE r == width - 1
           a == n * width + width - 1
<1>1. r \in 0..width - 1 /\ a = width * n + r /\ a \in Nat
  OBVIOUS
<1> HIDE DEF r, a
<1>2. a \div width = n
  BY <1>1, QuotientUnique
<1> QED
  BY <1>2 DEF a

\* The bytes of data.
LEMMA BytesOfData ==
    ASSUME NEW data \in Seq(Nat), NEW width \in Nat \ {0}
    PROVE  /\ Len(binary_to_string(data, width)) = Len(data) * width
           /\ \A k \in 1..Len(data), j \in 1..width :
                 binary_to_string(data, width)[(k - 1) * width + j]
                   = ByteOf(data[k], j - 1, width)
<1> DEFINE n == Len(data)
           t == n * width
           in == [e \in 1..t |-> ByteOf(data[(e - 1) \div width + 1], (e - 1) % width, width)]
<1>1. n \in Nat /\ t \in Nat
  OBVIOUS
<1>2. binary_to_string(data, width) = in
  BY DEF binary_to_string
<1>3. Len(in) = t
  <2> HIDE DEF t
  <2> QED
    BY <1>1
<1>4. ASSUME NEW k \in 1..n, NEW j \in 1..width
      PROVE  in[(k - 1) * width + j] = ByteOf(data[k], j - 1, width)
  <2> DEFINE e == (k - 1) * width + j
  <2>1. e \in 1..t /\ (e - 1) \div width + 1 = k /\ (e - 1) % width = j - 1
    <3> HIDE DEF n
    <3> QED
      BY <1>1, PlaceOfByte
  <2> HIDE DEF e, t
  <2>2. in[e] = ByteOf(data[(e - 1) \div width + 1], (e - 1) % width, width)
    BY <2>1
  <2> HIDE DEF in
  <2> QED
    BY <2>1, <2>2 DEF e
<1> QED
  BY <1>2, <1>3, <1>4

\* Data of the width of their type that become text and then data again.
LEMMA TextOfData ==
    ASSUME NEW data \in Seq(Nat), NEW width \in Nat \ {0},
           \A k \in 1..Len(data) : HasWidth(data[k], width)
    PROVE  string_to_binary(binary_to_string(data, width), width) = data
<1> DEFINE n == Len(data)
           in == binary_to_string(data, width)
           c == (Len(in) + width - 1) \div width
           out == string_to_binary(in, width)
<1>1. n \in Nat /\ \A k \in 1..n : data[k] \in Nat
  OBVIOUS
<1>2. Len(in) = n * width
  BY BytesOfData
<1>3. ASSUME NEW k \in 1..n, NEW j \in 1..width
      PROVE  in[(k - 1) * width + j] = ByteOf(data[k], j - 1, width)
  BY BytesOfData
<1> HIDE DEF in
<1>4. c = n
  <2> HIDE DEF n
  <2> QED
    BY <1>1, <1>2, ValuesCounted
<1>5. out = [k \in 1..c |-> Joined([j \in 1..width |-> in[(k - 1) * width + j]])]
  BY DEF string_to_binary
<1> HIDE DEF c, out
<1>6. ASSUME NEW k \in 1..n
      PROVE  Joined([j \in 1..width |-> in[(k - 1) * width + j]]) = data[k]
  <2>1. [j \in 1..width |-> in[(k - 1) * width + j]]
          = [j \in 1..width |-> ByteOf(data[k], j - 1, width)]
    BY <1>3
  <2> DEFINE v == data[k]
  <2>2. v \in Nat /\ HasWidth(v, width)
    BY <1>1
  <2> HIDE DEF v
  <2>3. Joined([j \in 1..width |-> ByteOf(v, j - 1, width)]) = v
    BY <2>2, JoinedBytes
  <2> QED
    BY <2>1, <2>3 DEF v
<1>7. out = [k \in 1..n |-> data[k]]
  BY <1>4, <1>5, <1>6
<1>8. data = [k \in 1..n |-> data[k]]
  OBVIOUS
<1> QED
  BY <1>7, <1>8 DEF out, in

\* What follows the first of two parts.
LEMMA SecondPart ==
    ASSUME NEW S, NEW x \in Seq(S), NEW y \in Seq(S)
    PROVE  SubSeq(x \o y, Len(x) + 1, Len(x \o y)) = y
<1> DEFINE z == x \o y
           m == Len(x)
           n == Len(y)
           w == SubSeq(z, m + 1, Len(z))
<1>1. m \in Nat /\ n \in Nat
  OBVIOUS
<1>2. z \in Seq(S) /\ Len(z) = m + n
  BY ConcatProperties
<1>3. \A i \in 1..n : z[m + i] = y[i]
  OBVIOUS
<1> HIDE DEF z, m, n
<1> DEFINE i == m + 1
           j == Len(z)
<1>4. /\ i \in Nat \ {0} /\ j \in Nat /\ j <= Len(z) /\ j - i + 1 = n
      /\ (i <= j <=> n # 0) /\ \A k \in 1..n : i + k - 1 = m + k
  BY <1>1, <1>2
<1>5. w \in Seq(S) /\ Len(w) = (IF i <= j THEN j - i + 1 ELSE 0)
      /\ \A k \in 1..(j - i + 1) : w[k] = z[i + k - 1]
  <2> HIDE DEF i, j
  <2> QED
    BY <1>2, <1>4, PartIs DEF i, j
<1> HIDE DEF w, i, j
<1>6. Len(w) = n /\ \A k \in 1..n : w[k] = y[k]
  BY <1>3, <1>4, <1>5
<1>7. w = y
  BY <1>5, <1>6, SeqEqual DEF n
<1> QED
  BY <1>7 DEF w, z, m

\* binary_read after two binary_writes.
LEMMA WrittenTwice ==
    ASSUME NEW s \in Seq(Nat)
    PROVE  /\ binary_read(binary_write(s) \o binary_write(s)).rest = binary_write(s)
           /\ binary_read(binary_write(s) \o binary_write(s)).defined <=> s = <<>>
<1> DEFINE n == Len(s)
           x == binary_write(s)
           z == x \o x
           r == binary_read(z)
<1>1. x \in Seq(Nat) /\ Len(x) = n + 1 /\ x[1] = n /\ n \in Nat
  BY DEF binary_write
<1> HIDE DEF x
<1>2. z[1] = n
  BY <1>1
<1>3. SubSeq(z, Len(x) + 1, Len(z)) = x
  BY <1>1, SecondPart
<1>4. z[1] + 2 = Len(x) + 1
  BY <1>1, <1>2
<1> HIDE DEF z, n
<1>5. r.rest = x
  BY <1>3, <1>4 DEF binary_read
<1>6. r = [size |-> z[1], defined |-> z[1] = 0, rest |-> SubSeq(z, z[1] + 2, Len(z))]
  BY DEF binary_read
<1> HIDE DEF r
<1>7. r.defined = (z[1] = 0)
  BY <1>6
<1>8. n = 0 <=> s = <<>>
  BY DEF n
<1> QED
  BY <1>2, <1>5, <1>7, <1>8 DEF r, z, x

\* For data of any length and values of any width: data that become text and
\* then data again are the same if each of them has the width of its type,
\* and strings written one after the other can be told apart.
THEOREM BinaryTextRoundTrip ==
    ASSUME NEW data \in Seq(Nat), NEW width \in Nat \ {0}
    PROVE  BinaryTextExact(data, width)
<1>1. DOMAIN data = 1..Len(data)
  OBVIOUS
<1>2. (\A k \in DOMAIN data : HasWidth(data[k], width))
         => string_to_binary(binary_to_string(data, width), width) = data
  BY <1>1, TextOfData
<1>3. /\ binary_read(binary_write(data) \o binary_write(data)).rest = binary_write(data)
      /\ binary_read(binary_write(data) \o binary_write(data)).defined <=> data = <<>>
  BY WrittenTwice
<1> QED
  BY <1>2, <1>3 DEF BinaryTextExact

-----------------------------------------------------------------------------
(***************************************************************************)
(* The operations that the run of MCLibrary checks, one argument each.     *)
(***************************************************************************)

\* The argument is one of the subject's, from the beginning on.
ArgGiven == subject \in Machines \/ (subject \in DOMAIN Args /\ arg \in Args[subject])

\* No machine changes the subject or its argument.
LEMMA ArgStays == Spec => []ArgGiven
<1>1. ASSUME Init
      PROVE  ArgGiven
  <2>1. subject \in Machines \cup DOMAIN Args
    BY <1>1, Zenon DEF Init
  <2>2. IF subject \in Machines THEN arg = 0 ELSE arg \in Args[subject]
    BY <1>1, Zenon DEF Init
  <2> QED
    BY <2>1, <2>2, Zenon DEF ArgGiven
<1>2. ASSUME ArgGiven, [Next]_allVars
      PROVE  ArgGiven'
  <2>1. subject' = subject /\ arg' = arg
    BY <1>2 DEF Next, allVars, FileMoves, TreeMoves, ListMoves, FactoryMoves, GeneratorMoves,
                WatchMoves, BufferMoves, LogMoves
  <2> QED
    BY <1>2, <2>1 DEF ArgGiven, Args
<1> QED
  BY <1>1, <1>2, PTL DEF Spec

\* Sequences of bounded length.
LEMMA UpToIs ==
    ASSUME NEW n \in Nat, NEW A, NEW s \in UpTo(n, A)
    PROVE  s \in Seq(A)
<1>1. PICK k \in 0..n : s \in [1..k -> A]
  BY DEF UpTo
<1>2. k \in Nat
  OBVIOUS
<1> QED
  BY <1>1, <1>2

\* The data of the run's objects.
SomeData == {"data"} \X Nat

\* The objects of the run are stored objects.
LEMMA SomeAreStored ==
    ASSUME NEW o \in SomeObjects
    PROVE  o \in StoredObjects(1..2, SomeData)
<1>1. PICK c \in Classes, i \in 1..2 :
          o = [class |-> c, id |-> i, data |-> [k \in 1..Sizes[c] |-> <<"data", i * k>>]]
  BY DEF SomeObjects
<1> DEFINE n == Sizes[c]
           d == [k \in 1..n |-> <<"data", i * k>>]
<1>2. n \in Nat
  BY SizesAre
<1> HIDE DEF n
<1>3. \A k \in 1..n : <<"data", i * k>> \in SomeData
  BY <1>2 DEF SomeData
<1>4. d \in [1..n -> SomeData]
  BY <1>3
<1>5. o = [class |-> c, id |-> i, data |-> d]
  BY <1>1 DEF n
<1> HIDE DEF d
<1>6. d \in Seq(SomeData) /\ Len(d) = n
  BY <1>2, <1>4
<1> QED
  BY <1>5, <1>6 DEF StoredObjects, n

\* Objects written one after the other read back, in every state of the run:
\* an instance of ObjectsReadBack.
THEOREM ObjectsCorrect == Spec => []ObjectsExact
<1>1. ASSUME ArgGiven
      PROVE  ObjectsExact
  <2> SUFFICES ASSUME subject = "objects"
               PROVE  /\ ReadsBack(arg[1], arg[2], arg[3], arg[4])
                      /\ KeepsOwnData(arg[1], arg[2], arg[3], arg[4])
                      /\ CopiesExact(arg[1], arg[2])
    BY DEF ObjectsExact
  <2>1. arg \in SomeObjects \X SomeObjects \X SomeObjects \X SomeObjects
    BY <1>1 DEF ArgGiven, Args, Machines
  <2> DEFINE I == 1..2
             a == arg[1]
             b == arg[2]
             s == arg[3]
             t == arg[4]
  <2>2. a \in SomeObjects /\ b \in SomeObjects /\ s \in SomeObjects /\ t \in SomeObjects
    BY <2>1
  <2> HIDE DEF a, b, s, t
  <2>3. /\ a \in StoredObjects(I, SomeData) /\ b \in StoredObjects(I, SomeData)
        /\ s \in StoredObjects(I, SomeData) /\ t \in StoredObjects(I, SomeData)
    BY <2>2, SomeAreStored
  <2>4. \A u \in SomeData : u[1] # "info"
    BY DEF SomeData
  <2> HIDE DEF I
  <2>5. ReadsBack(a, b, s, t) /\ KeepsOwnData(a, b, s, t) /\ CopiesExact(a, b)
    BY <2>3, <2>4, ObjectsReadBack
  <2> QED
    BY <2>5 DEF a, b, s, t
<1> QED
  BY <1>1, ArgStays, PTL

\* The bits of the run are bytes.
LEMMA BitsAreBytes ==
    ASSUME NEW n \in Nat, NEW s \in UpTo(n, 0..1)
    PROVE  s \in Seq(FileBytes) /\ s \in Seq(Nat)
<1>1. s \in Seq(0..1)
  BY UpToIs
<1>2. 0..1 \subseteq FileBytes /\ 0..1 \subseteq Nat
  BY PlatformAssumption DEF FileBytes
<1> QED
  BY <1>1, <1>2

\* save_to_file and load_from_file.
LEMMA SavesGiven ==
    ASSUME ArgGiven, subject = "saves"
    PROVE  SaveLoadExact(arg[1], arg[2], arg[3], arg[4], arg[5], arg[6])
<1>1. /\ arg \in {Missing, <<1>>} \X Bytes3 \X (0..3) \X Bytes3 \X SaveIo \X (0..3)
      /\ arg[3] <= Len(arg[2])
      /\ arg[5].written <= Len(arg[2]) - arg[3]
      /\ arg[5].flushed <= arg[5].written
  BY DEF ArgGiven, Args, Machines
<1> DEFINE found == arg[1]
           given == arg[2]
           offset == arg[3]
           old == arg[4]
           io == arg[5]
           m == arg[6]
<1>2. /\ found \in {Missing, <<1>>} /\ given \in Bytes3 /\ offset \in 0..3
      /\ old \in Bytes3 /\ io \in SaveIo /\ m \in 0..3
      /\ offset <= Len(given) /\ io.written <= Len(given) - offset
      /\ io.flushed <= io.written
  BY <1>1
<1> HIDE DEF found, given, offset, old, io, m
<1>3. given \in Seq(FileBytes) /\ old \in Seq(FileBytes)
  BY <1>2, BitsAreBytes DEF Bytes3
<1>4. offset \in 0..Len(given) /\ m \in Nat
  BY <1>2, <1>3
<1>5. found \in Seq(FileBytes) \cup {Missing}
  <2>1. 1 \in FileBytes
    BY PlatformAssumption DEF FileBytes
  <2>2. <<1>> \in Seq(FileBytes)
    BY <2>1
  <2> QED
    BY <1>2, <2>2
<1>6. io \in [opens : BOOLEAN, written : 0..Len(given) - offset, flushed : Nat]
  <2>1. io.written \in Nat /\ io.flushed \in Nat /\ Len(given) - offset \in Nat
    BY <1>2, <1>3, <1>4 DEF SaveIo
  <2>2. io.written \in 0..Len(given) - offset
    BY <1>2, <2>1
  <2> QED
    BY <1>2, <2>1, <2>2 DEF SaveIo
<1>7. SaveLoadExact(found, given, offset, old, io, m)
  BY <1>2, <1>3, <1>4, <1>5, <1>6, SavesLoad
<1> QED
  BY <1>7 DEF found, given, offset, old, io, m

\* read_file, create_empty_file and the lines.
LEMMA FilesGiven ==
    ASSUME ArgGiven, subject = "files"
    PROVE  ReadFilesAgree(arg[1], arg[2]) /\ CreatedExists(arg[1]) /\ LinesExact(arg[1])
<1>1. arg \in (UpTo(4, 0..1) \cup {Missing}) \X {<<>>, <<0>>}
  BY DEF ArgGiven, Args, Machines
<1> DEFINE found == arg[1]
           s == arg[2]
<1>2. found \in UpTo(4, 0..1) \cup {Missing}
  BY <1>1
<1> HIDE DEF found, s
<1>3. found \in Seq(FileBytes) \cup {Missing}
  BY <1>2, BitsAreBytes
<1>4. ReadFilesAgree(found, s) /\ CreatedExists(found) /\ LinesExact(found)
  BY <1>3, PlatformsAgree, LinesAreFile
<1> QED
  BY <1>4 DEF found, s

\* Data as text.
LEMMA TextsGiven ==
    ASSUME ArgGiven, subject = "texts"
    PROVE  BinaryTextExact(arg[1], arg[2])
<1>1. arg \in (UpTo(2, 0..3) \X {2}) \cup (Bytes3 \X {1})
  BY DEF ArgGiven, Args, Machines
<1> DEFINE data == arg[1]
           width == arg[2]
<1>2. (data \in UpTo(2, 0..3) \/ data \in Bytes3) /\ width \in Nat \ {0}
  BY <1>1
<1> HIDE DEF data, width
<1>3. data \in Seq(Nat)
  <2>1. data \in UpTo(2, 0..3) => data \in Seq(0..3)
    BY UpToIs
  <2>2. 0..3 \subseteq Nat
    OBVIOUS
  <2>3. data \in Seq(0..3) => data \in Seq(Nat)
    BY <2>2
  <2>4. data \in Bytes3 => data \in Seq(Nat)
    BY BitsAreBytes DEF Bytes3
  <2> QED
    BY <1>2, <2>1, <2>3, <2>4
<1>4. BinaryTextExact(data, width)
  BY <1>2, <1>3, BinaryTextRoundTrip
<1> QED
  BY <1>4 DEF data, width

\* Arrays: compare and contains.
LEMMA ArraysGiven ==
    ASSUME ArgGiven
    PROVE  /\ subject = "comparisons" => ComparesInside(arg[1], arg[2])
           /\ subject = "arrays" => ContainsExact(arg[1], arg[2], arg[3])
<1>1. ASSUME subject = "comparisons"
      PROVE  ComparesInside(arg[1], arg[2])
  <2>1. arg \in (0..Wrap - 1) \X (0..Wrap - 1)
    BY <1>1 DEF ArgGiven, Args, Machines
  <2> QED
    BY <2>1, ComparisonsInside
<1>2. ASSUME subject = "arrays"
      PROVE  ContainsExact(arg[1], arg[2], arg[3])
  <2>1. arg \in UpTo(Size + 1, 0..1) \X (0..2) \X (0..Size + 1)
    BY <1>2 DEF ArgGiven, Args, Machines
  <2> DEFINE s == arg[1]
             n == Size + 1
  <2>2. s \in UpTo(n, 0..1) /\ arg[2] \in Int /\ arg[3] \in Nat /\ n \in Nat
    BY <2>1, ChecksAssumption
  <2> HIDE DEF s, n
  <2>3. s \in Seq(0..1)
    BY <2>2, UpToIs
  <2>4. s \in Seq(Int)
    BY <2>3
  <2>5. ContainsExact(s, arg[2], arg[3])
    BY <2>2, <2>4, ContainsFirst
  <2> QED
    BY <2>5 DEF s
<1> QED
  BY <1>1, <1>2

\* Result and erase_if.
LEMMA ResultsGiven ==
    ASSUME ArgGiven
    PROVE  /\ subject = "results" => ResultExact(arg)
           /\ subject = "erased" => EraseExact(arg[1], arg[2])
<1>1. ASSUME subject = "results"
      PROVE  ResultExact(arg)
  <2> DEFINE V == {"one", "two"}
             E == {"message"}
  <2>1. arg \in UpTo(3, Assignments)
    BY <1>1 DEF ArgGiven, Args, Machines
  <2>2. arg \in Seq(Assignments)
    BY <2>1, UpToIs
  <2>3. Assignments = AssignedOf(V, E)
    BY DEF Assignments, AssignedOf
  <2>4. arg \in Seq(AssignedOf(V, E))
    BY <2>2, <2>3
  <2> HIDE DEF V, E
  <2> QED
    BY <2>4, ResultsExact
<1>2. ASSUME subject = "erased"
      PROVE  EraseExact(arg[1], arg[2])
  <2> DEFINE A == 0..2
             s == arg[1]
             S == arg[2]
  <2>1. arg \in UpTo(4, 0..2) \X SUBSET (0..2)
    BY <1>2 DEF ArgGiven, Args, Machines
  <2>2. s \in UpTo(4, A)
    BY <2>1
  <2> HIDE DEF A, s, S
  <2>3. s \in Seq(A)
    BY <2>2, UpToIs
  <2>4. EraseExact(s, S)
    BY <2>3, EraseVisitsAll
  <2> QED
    BY <2>4 DEF s, S
<1> QED
  BY <1>1, <1>2

\* Constraints.
LEMMA ConstraintsGiven ==
    ASSUME ArgGiven, subject = "constraints"
    PROVE  ConstraintsExact(arg[1], arg[2], 0..3)
<1> DEFINE l == arg[1]
           r == arg[2]
           T == 0..3
<1>1. arg \in ((0..2) \X (0..2)) \X ((0..2) \X (0..2))
  BY DEF ArgGiven, Args, Machines
<1>2. l \in Int \X Int /\ r \in Int \X Int /\ T \in SUBSET Int
  BY <1>1
<1> HIDE DEF l, r, T
<1>3. ConstraintsExact(l, r, T)
  BY <1>2, CompositesAreSets
<1> QED
  BY <1>3 DEF l, r, T

\* Every operation agrees with its reference definition in every state of
\* the run: instances of the theorems about each for any argument.
THEOREM OperationsCorrect == Spec => []OperationsExact
<1>1. ArgGiven => OperationsExact
  BY SavesGiven, FilesGiven, TextsGiven, ArraysGiven, ResultsGiven, ConstraintsGiven
  DEF OperationsExact
<1> QED
  BY <1>1, ArgStays, PTL
=============================================================================
