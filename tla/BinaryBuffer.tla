---------------------------- MODULE BinaryBuffer ----------------------------
(***************************************************************************)
(* BinaryBuffer: the byte buffer that every object is written to and read  *)
(* from, with its save and load.  The object and POD overloads of write    *)
(* and read end in the two that take a span and are not told apart.        *)
(***************************************************************************)
EXTENDS Integers, Sequences, SequencesExt

CONSTANTS
    Bytes,      \* the byte values told apart
    Zero,       \* the byte resize() fills with
    MaxSpan,    \* bound: bytes of one write or read
    MaxSize,    \* bound: bytes in the buffer
    DiskFaults  \* may fwrite and fread stop short?

ASSUME BufferAssumption ==
    MaxSpan \in Nat /\ MaxSize \in Nat /\ DiskFaults \in BOOLEAN

VARIABLES
    buffer,     \* all of the vector
    write_pos,  \* bytes that count; also where the next write goes
    read_pos,   \* where the next read starts
    file,       \* the file on disk
    written,    \* history: what was written since clear, or loaded
    got,        \* history: what was read since clear or load
    overread,   \* history: did a read end beyond write_pos?
    torn        \* history: has a load stopped short since clear or load?

bufVars == <<buffer, write_pos, read_pos>>
bufferVars == <<buffer, write_pos, read_pos, file, written, got, overread, torn>>

Spans == UNION {[1..n -> Bytes] : n \in 0..MaxSpan}

AnyByte == Bytes \cup {Zero}

\* The type invariant.
BufferTypeOK ==
    /\ buffer \in Seq(AnyByte) /\ file \in Seq(AnyByte)
    /\ written \in Seq(AnyByte) /\ got \in Seq(AnyByte)
    /\ write_pos \in 0..MaxSize /\ read_pos \in 0..MaxSize
    /\ Len(buffer) <= MaxSize
    /\ overread \in BOOLEAN /\ torn \in BOOLEAN

BufferInit ==
    /\ buffer = <<>> /\ write_pos = 0 /\ read_pos = 0
    /\ file = <<>>
    /\ written = <<>> /\ got = <<>> /\ overread = FALSE /\ torn = FALSE

-----------------------------------------------------------------------------
\* vector::resize
Resize(s, n) == [i \in 1..n |-> IF i <= Len(s) THEN s[i] ELSE Zero]

\* memcpy to buffer.data() + write_pos
WriteAt == write_pos

write(src) ==
    LET at == WriteAt
        required == at + Len(src)
        room == IF required > Len(buffer) THEN Resize(buffer, required)
                ELSE buffer
    IN  /\ required <= MaxSize
        /\ buffer' = [i \in 1..Len(room) |->
                        IF i - at \in 1..Len(src) THEN src[i - at] ELSE room[i]]
        /\ write_pos' = required
        /\ written' = written \o src
        /\ UNCHANGED <<read_pos, file, got, overread, torn>>

\* read into a span of n bytes; beyond buffer.size() it only complains.
read(n) ==
    /\ read_pos + n <= Len(buffer)
    /\ got' = got \o SubSeq(buffer, read_pos + 1, read_pos + n)
    /\ read_pos' = read_pos + n
    /\ overread' = (overread \/ read_pos + n > write_pos)
    /\ UNCHANGED <<buffer, write_pos, file, written, torn>>

\* Mutant: only the write position.
clear_WriteOnly ==
    /\ write_pos' = 0
    /\ written' = <<>> /\ got' = <<>> /\ overread' = FALSE
    /\ torn' = FALSE
    /\ UNCHANGED <<buffer, read_pos, file>>

\* clear: the bytes stay where they are.
clear ==
    /\ write_pos' = 0 /\ read_pos' = 0
    /\ written' = <<>> /\ got' = <<>> /\ overread' = FALSE
    /\ torn' = FALSE
    /\ UNCHANGED <<buffer, file>>

\* What fwrite is given: the first write_pos bytes.
ToSave == SubSeq(buffer, 1, write_pos)

\* A failed load may have left write_pos beyond the vector; what is saved
\* then is undefined and not followed further.
save_to_file ==
    /\ write_pos <= Len(buffer)
    /\ file' = ToSave
    /\ UNCHANGED <<bufVars, written, got, overread, torn>>

\* fwrite stops short, and the caller is told, or bytes are lost when fclose
\* writes them, and nobody is: the file has the beginning of what was saved.
save_fails ==
    /\ DiskFaults
    /\ write_pos <= Len(buffer)
    /\ \E n \in 0..write_pos - 1 : file' = SubSeq(ToSave, 1, n)
    /\ UNCHANGED <<bufVars, written, got, overread, torn>>

load_from_file ==
    /\ buffer' = file
    /\ write_pos' = Len(file) /\ read_pos' = 0
    /\ written' = file /\ got' = <<>> /\ overread' = FALSE
    /\ torn' = FALSE
    /\ UNCHANGED file

\* fread stops short: the vector has been resized and partly overwritten,
\* the positions are those of the old content.
load_fails ==
    /\ DiskFaults
    /\ \E n \in 0..Len(file) - 1 :
          buffer' = SubSeq(file, 1, n)
                    \o SubSeq(Resize(buffer, Len(file)), n + 1, Len(file))
    /\ torn' = TRUE
    /\ UNCHANGED <<write_pos, read_pos, file, written, got, overread>>

BufferNext ==
    \/ \E s \in Spans : write(s)
    \/ \E n \in 0..MaxSpan : read(n)
    \/ clear
    \/ save_to_file \/ save_fails
    \/ load_from_file \/ load_fails

BufferSpec == BufferInit /\ [][BufferNext]_bufferVars

-----------------------------------------------------------------------------
(***************************************************************************)
(* Correctness.                                                            *)
(***************************************************************************)

\* data(), and what a save hands to fwrite, is what was written since the
\* last clear or load, in order, although clear keeps the old bytes and
\* later writes go over them.
DataExact ==
    ~torn => /\ write_pos <= Len(buffer)
             /\ ToSave = written

\* Reads return the bytes in the order they were written, each once, with
\* writes, clears and loads in between, as long as the reader does not go
\* beyond size().
FaithfulRead ==
    ~torn /\ ~overread => Len(got) = read_pos /\ IsPrefix(got, written)

\* The content of a BinaryBuffer, what is read from it and what is saved are
\* what was written.
BufferExact == BufferTypeOK /\ DataExact /\ FaithfulRead
=============================================================================
