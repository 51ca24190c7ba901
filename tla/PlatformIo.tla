----------------------------- MODULE PlatformIo -----------------------------
(***************************************************************************)
(* io_util: whole files and binary values, with the versions of the        *)
(* platforms where they differ.  A file is a sequence of bytes or Missing. *)
(* Of the copies that windows, macos, ios and android have of the same     *)
(* function one is named here.                                             *)
(***************************************************************************)
EXTENDS Integers, Sequences, SequencesExt, FiniteSetsExt

CONSTANTS Missing,   \* no such file
          Radix      \* values of a byte (256)

ASSUME PlatformAssumption ==
    Radix \in Nat \ {0, 1} /\ Missing \notin Seq(0..Radix - 1)

-----------------------------------------------------------------------------
(***************************************************************************)
(* Save and load.  What the system makes of a save is io, [opens, written, *)
(* flushed]: whether fopen opens the file, how many bytes fwrite takes,    *)
(* and how many of these fclose brings to the disk.  n is the number of    *)
(* bytes fread gives: all of them, or fewer when the disk fails.           *)
(***************************************************************************)

\* buffer.data() + offset, buffer.size() - offset
Saved(buffer, offset) == SubSeq(buffer, offset + 1, Len(buffer))

\* fopen "wb" empties the file first.  What fclose returns is not looked at:
\* the count of fwrite alone decides what is reported.
save_span(file, buffer, offset, io) ==
    IF ~io.opens THEN [file |-> file, ok |-> FALSE]
    ELSE [file |-> SubSeq(Saved(buffer, offset), 1, io.flushed),
          ok   |-> io.written = Len(buffer) - offset]

\* load_from_file into a vector: it has the size of the file either way.
load_vector(file, buffer, n) ==
    IF file = Missing THEN [out |-> buffer, ok |-> FALSE]
    ELSE [out |-> [i \in 1..Len(file) |->
                      IF i <= n THEN file[i]
                      ELSE IF i <= Len(buffer) THEN buffer[i] ELSE 0],
          ok  |-> n = Len(file)]

\* out_span.size() < file_size
TooSmall(span, file) == Len(span) < Len(file)

\* load_from_file into the bytes of an object: its size stays.
load_span(file, span, n) ==
    IF file = Missing \/ TooSmall(span, file) THEN [out |-> span, ok |-> FALSE]
    ELSE [out |-> [i \in 1..Max({Len(span), n}) |->
                      IF i <= n THEN file[i] ELSE span[i]],
          ok  |-> n = Len(file)]

-----------------------------------------------------------------------------
(***************************************************************************)
(* read_file(filename, s): ret is what the returned reference names, arg   *)
(* what the caller's string is afterwards.                                 *)
(***************************************************************************)

Throws(s) == [thrown |-> TRUE, ret |-> s, arg |-> s]

\* macos: std::ifstream.
macos_read_file(file, s) ==
    IF file = Missing THEN Throws(s)
    ELSE [thrown |-> FALSE, ret |-> file, arg |-> file]

\* windows: a file that is missing or empty cannot be mapped.  Without
\* WIDE_CHAR the parameter s is made to point to a new string.
windows_read_file(file, s, WIDE_CHAR) ==
    IF file \in {Missing, <<>>} THEN Throws(s)
    ELSE [thrown |-> FALSE, ret |-> file, arg |-> IF WIDE_CHAR THEN file ELSE s]

\* create_empty_file throws if the stream cannot be opened, which the system
\* may refuse (opens).  macos: ios::out creates or empties.  ios (and windows
\* and android): the stream is an ifstream, so in|out: the file must be there
\* and is kept.
macos_create_empty_file(file, opens) ==
    [thrown |-> ~opens, file |-> IF opens THEN <<>> ELSE file]
ios_create_empty_file(file, opens) ==
    [thrown |-> ~opens \/ file = Missing, file |-> file]

\* stat succeeds.
file_exists(file) == file # Missing

\* -1 if the file cannot be opened.
get_file_size(file) == IF file = Missing THEN -1 ELSE Len(file)

\* std::getline, one character of the file; [lines, line].
Newline == 1
GetChar(r, ch) ==
    IF ch = Newline THEN [lines |-> Append(r.lines, r.line), line |-> <<>>]
    ELSE [lines |-> r.lines, line |-> Append(r.line, ch)]

\* read_file(fname, f): the lines that f is called with, from 0 on.  A
\* Newline ends a line; the last may lack it, if there is something in it.
read_lines(file) ==
    LET r[n \in 0..Len(file)] ==
            IF n = 0 THEN [lines |-> <<>>, line |-> <<>>] ELSE GetChar(r[n - 1], file[n])
        all == r[Len(file)]
    IN  IF file = Missing THEN <<>>
        ELSE IF all.line = <<>> THEN all.lines ELSE Append(all.lines, all.line)

-----------------------------------------------------------------------------
(***************************************************************************)
(* Values and texts.                                                       *)
(***************************************************************************)

\* binary_write of a string: its size, then its characters.
binary_write(s) == <<Len(s)>> \o s

\* binary_read of a string: the size, then size bytes over the string
\* object itself, which is left without a defined value.
binary_read(stream) ==
    [size |-> stream[1], defined |-> stream[1] = 0,
     rest |-> SubSeq(stream, stream[1] + 2, Len(stream))]

\* byte >> (i * 8) for each i.
Shifted(byte, width) ==
    LET r[i \in 0..width] == IF i = 0 THEN byte ELSE r[i - 1] \div Radix
    IN  r

\* A value of width bytes.
HasWidth(byte, width) == Shifted(byte, width)[width] = 0

ByteOf(byte, i, width) == Shifted(byte, width)[i] % Radix

\* The bytes of each value, one value after the other.
binary_to_string(data, width) ==
    [n \in 1..Len(data) * width |->
        ByteOf(data[(n - 1) \div width + 1], (n - 1) % width, width)]

\* byte |= in << (j * 8) for each j; unit is 1 << (j * 8).
Or(acc, in) == [byte |-> acc.byte + in * acc.unit, unit |-> acc.unit * Radix]
Joined(bytes) ==
    LET r[j \in 0..Len(bytes)] ==
            IF j = 0 THEN [byte |-> 0, unit |-> 1] ELSE Or(r[j - 1], bytes[j])
    IN  r[Len(bytes)].byte

\* string_to_binary goes in steps of width; a rest is read beyond the end.
string_to_binary(in, width) ==
    [k \in 1..((Len(in) + width - 1) \div width) |->
        Joined([j \in 1..width |-> in[(k - 1) * width + j]])]

-----------------------------------------------------------------------------
(***************************************************************************)
(* Correctness.                                                            *)
(***************************************************************************)

\* Whatever fopen, fwrite and fread leave undone, two calls that both report
\* success hand over exactly the buffer from the offset on, also into an
\* object that is larger, whose rest is kept; an object that is too small
\* is not touched.  That is, if fclose lost nothing of what fwrite had taken,
\* which no result tells.  A file that was opened holds a beginning of what
\* was to be saved, and not all of it if the save reports a failure; one that
\* was not is as before.
SaveLoadExact(file, buffer, offset, old, io, m) ==
    LET saved == save_span(file, buffer, offset, io)
        want  == SubSeq(buffer, offset + 1, Len(buffer))
        n     == Min({m, get_file_size(saved.file)})
        vec   == load_vector(saved.file, old, n)
        span  == load_span(saved.file, old, n)
    IN  /\ saved.ok /\ io.flushed = io.written =>
              /\ vec.ok => vec.out = want
              /\ span.ok => IsPrefix(want, span.out)
        /\ Len(span.out) = Len(old)
        /\ io.opens => /\ IsPrefix(saved.file, want)
                         /\ ~saved.ok => saved.file # want
        /\ ~io.opens => ~saved.ok /\ saved.file = file

\* The platforms agree on files that are there and not empty as far as the
\* returned reference goes; the caller's string has the content everywhere
\* but on windows without WIDE_CHAR.
ReadFilesAgree(file, s) ==
    LET mac == macos_read_file(file, s) IN
    \A wide \in BOOLEAN :
        LET win == windows_read_file(file, s, wide) IN
        /\ mac.thrown => win.thrown
        /\ ~win.thrown => win.ret = mac.ret /\ mac.arg = file
        /\ ~win.thrown /\ win.arg # mac.arg => ~wide

\* After create_empty_file returns, the file exists, and on macos it is empty;
\* if it throws, nothing has been lost.  Elsewhere no size is promised: the
\* content of the file stays.
CreatedExists(file) ==
    \A opens \in BOOLEAN :
        LET mac == macos_create_empty_file(file, opens)
            ios == ios_create_empty_file(file, opens)
        IN  /\ ~mac.thrown => file_exists(mac.file) /\ get_file_size(mac.file) = 0
            /\ mac.thrown => mac.file = file
            /\ ~ios.thrown => file_exists(ios.file)

\* The lines of a file with their ends are the file, up to an end that the
\* last line lacks, and there is no end in a line.
LinesExact(file) ==
    LET lines == read_lines(file)
        all   == FlattenSeq([k \in DOMAIN lines |-> Append(lines[k], Newline)])
    IN  /\ file # Missing => all \in {file, Append(file, Newline)}
        /\ \A k \in DOMAIN lines : Newline \notin Range(lines[k])

\* Data that become text and then data again are the same, if each of them
\* has the width of its type; strings written one after the other can be
\* told apart, although binary_read gives no string but the empty one.
BinaryTextExact(data, width) ==
    /\ (\A k \in DOMAIN data : HasWidth(data[k], width))
          => string_to_binary(binary_to_string(data, width), width) = data
    /\ LET twice == binary_write(data) \o binary_write(data)
       IN  /\ binary_read(twice).rest = binary_write(data)
           /\ binary_read(twice).defined <=> data = <<>>
=============================================================================
