-------------------------------- MODULE Files -------------------------------
(***************************************************************************)
(* One TextFile object of file.hpp, or a TmpTextFile, and the files it can *)
(* name.  A stream keeps an error until it is opened again, and File::close*)
(* throws for a stream in error; as close is noexcept, that is the end of  *)
(* the program.                                                            *)
(***************************************************************************)
EXTENDS Integers, Sequences, SequencesExt

CONSTANTS
    Paths,      \* file names, in directories that exist
    Absent,     \* the content of a file that does not exist
    FileTexts,  \* what is written
    OldTexts,   \* what files contain before
    TextModes,  \* the modes the constructor is called with
    OpenModes,  \* the modes open is called with
    MaxFile     \* bound: length of a file

\* The characters of the texts.
FileChars == UNION {Range(t) : t \in FileTexts \cup OldTexts}

ASSUME FilesAssumption ==
    /\ FileTexts \cup OldTexts \subseteq Seq(FileChars)
    /\ Absent \notin Paths /\ Absent \notin Seq(FileChars)

\* OpenMode: sets of flags.  The constants of OpenMode are {in}, {out}, {app},
\* {ate}, {in, out}, {in, out, ate}, each with and without binary, and
\* {in, out, app}.
TEXT_READ == {"in"}
BIN_RW    == {"binary", "in", "out"}

is_text_mode(m) == "binary" \notin m

VARIABLES
    life,       \* "none", "alive", "destroyed" or "terminated"
    tmp,        \* is it a TmpTextFile?
    fullpath,   \* _fullpath
    fmode,      \* _mode
    stream,     \* _file: what it is open on, its flags, position and error,
                \* and the content with what is still in its buffer
    disk,       \* the files
    requested,  \* history: the old content and all that append was given
    appending,  \* history: has every open been for appending to fullpath?
    refused     \* history: has a stream operation failed?

fileVars == <<life, tmp, fullpath, fmode, stream, disk, requested, appending, refused>>

Closed == [on |-> Absent, flags |-> {}, pos |-> 0, fail |-> FALSE, view |-> <<>>]

FileInit ==
    /\ life = "none" /\ tmp \in BOOLEAN
    /\ fullpath \in Paths /\ fmode = {} /\ stream = Closed
    /\ disk \in [Paths -> OldTexts \cup {Absent}]
    /\ requested = <<>> /\ appending = TRUE /\ refused = FALSE

-----------------------------------------------------------------------------
(***************************************************************************)
(* std::fstream on the files of a disk d.                                  *)
(***************************************************************************)
Core(m)      == m \ {"binary", "ate"}
Truncates(m) == Core(m) = {"out"}

\* "ate" alone is no mode; only "out" and "app" create a file.
CanOpen(d, p, m) ==
    /\ Core(m) # {}
    /\ d[p] # Absent \/ "app" \in m \/ Truncates(m)

Fresh(d, p, m) == IF d[p] = Absent \/ Truncates(m) THEN <<>> ELSE d[p]

OpenDisk(d, p, m) ==
    IF CanOpen(d, p, m) THEN [d EXCEPT ![p] = Fresh(d, p, m)] ELSE d

OpenStream(d, s, p, m) ==
    IF CanOpen(d, p, m)
    THEN [on |-> p, flags |-> m, fail |-> FALSE, view |-> Fresh(d, p, m),
          pos |-> IF "ate" \in m THEN Len(Fresh(d, p, m)) ELSE 0]
    ELSE [s EXCEPT !.fail = TRUE]

Flushed(d, s) == IF s.on = Absent THEN d ELSE [d EXCEPT ![s.on] = s.view]

Readable(s) == ~s.fail /\ "in" \in s.flags
Writable(s) == ~s.fail /\ s.flags \cap {"out", "app"} # {}

Put(s, c) ==
    LET at == IF "app" \in s.flags THEN Len(s.view) ELSE s.pos
    IN  [s EXCEPT !.view = SubSeq(s.view, 1, at) \o c
                              \o SubSeq(s.view, at + Len(c) + 1, Len(s.view)),
                  !.pos = at + Len(c)]

-----------------------------------------------------------------------------
(***************************************************************************)
(* File.                                                                   *)
(***************************************************************************)
is_open == stream.on # Absent
Alive   == life = "alive"

\* close returns; otherwise the program ends.
ClosedOK == ~is_open \/ ~stream.fail

Terminates(failure) ==
    /\ life' = "terminated" /\ refused' = (refused \/ failure)
    /\ UNCHANGED <<tmp, fullpath, fmode, stream, disk, requested, appending>>

\* The destructor's and close's effect on the stream.
Shut == [Closed EXCEPT !.fail = stream.fail]

close ==
    /\ Alive
    /\ IF ClosedOK
       THEN /\ stream' = Shut /\ disk' = Flushed(disk, stream)
            /\ UNCHANGED <<life, tmp, fullpath, fmode, requested, appending, refused>>
       ELSE Terminates(FALSE)

\* open: the mode is kept also if the stream is open in another one.  A
\* failure to open is not reported.
open(m) ==
    /\ Alive
    /\ fmode' = m
    /\ IF is_open
       THEN UNCHANGED <<stream, disk, appending, refused>>
       ELSE /\ stream' = OpenStream(disk, stream, fullpath, m)
            /\ disk' = OpenDisk(disk, fullpath, m)
            /\ appending' = (appending /\ "app" \in m)
            /\ refused' = (refused \/ ~CanOpen(disk, fullpath, m))
    /\ UNCHANGED <<life, tmp, fullpath, requested>>

get_stream == open(BIN_RW)

\* set_text_mode and set_binary_mode: the mode they set is replaced by the
\* default of open, and the position they keep is that of another variable.
set_mode ==
    /\ Alive
    /\ IF ClosedOK
       THEN LET d == Flushed(disk, stream) IN
            /\ fmode' = BIN_RW
            /\ stream' = OpenStream(d, Shut, fullpath, BIN_RW)
            /\ disk' = d
            /\ appending' = FALSE
            /\ refused' = (refused \/ d[fullpath] = Absent)
            /\ UNCHANGED <<life, tmp, fullpath, requested>>
       ELSE Terminates(FALSE)

\* Mutant: the file is deleted under the open stream.
remove_StaysOpen(next) ==
    IF ClosedOK
    THEN /\ disk' = [Flushed(disk, stream) EXCEPT ![fullpath] = Absent]
         /\ life' = next /\ appending' = FALSE
         /\ UNCHANGED <<tmp, fullpath, fmode, stream, requested, refused>>
    ELSE Terminates(FALSE)

\* remove: closes the stream and deletes the file, which is the one
\* fullpath names now.
remove(next) ==
    IF ClosedOK
    THEN /\ stream' = Shut
         /\ disk' = [Flushed(disk, stream) EXCEPT ![fullpath] = Absent]
         /\ life' = next /\ appending' = FALSE
         /\ UNCHANGED <<tmp, fullpath, fmode, requested, refused>>
    ELSE Terminates(FALSE)

remove_file == Alive /\ remove("alive")

\* initialize: a stream that is open stays open on the old file.
initialize(p, m) ==
    /\ Alive
    /\ fullpath' = p /\ fmode' = m
    /\ appending' = FALSE
    /\ UNCHANGED <<life, tmp, stream, disk, requested, refused>>

-----------------------------------------------------------------------------
(***************************************************************************)
(* TextFile and TmpTextFile.                                               *)
(***************************************************************************)

\* The constructor: throws if the file cannot be opened; content goes to
\* the end in the append modes and over what is there in the others.  When
\* it cannot be written the exception runs into ~File, which throws again.
TextFile(m, c) ==
    /\ life = "none" /\ (tmp => m = {"in", "out", "app"})
    /\ CanOpen(disk, fullpath, m)
    /\ LET s == OpenStream(disk, stream, fullpath, m)
           d == OpenDisk(disk, fullpath, m)
       IN  IF c # <<>> /\ ~Writable(s)
           THEN Terminates(TRUE)
           ELSE /\ life' = "alive" /\ fmode' = m
                /\ stream' = Put(s, c) /\ disk' = Flushed(d, Put(s, c))
                /\ requested' = s.view \o c
                /\ appending' = ("app" \in m)
                /\ UNCHANGED <<tmp, fullpath, refused>>

\* write and append: a closed file is opened in the default mode BIN_RW,
\* at its start.
write_text(c, flushes) ==
    /\ Alive
    /\ LET s == IF is_open THEN stream
                ELSE OpenStream(disk, stream, fullpath, BIN_RW)
           t == Put(s, c)
       IN  /\ Len(t.view) <= MaxFile /\ Len(requested) + Len(c) <= MaxFile
           /\ fmode' = IF is_open THEN fmode ELSE BIN_RW
           /\ appending' = (appending /\ is_open)
           /\ IF Writable(s)
              THEN /\ stream' = t
                   /\ disk' = IF flushes THEN Flushed(disk, t) ELSE disk
                   /\ requested' = requested \o c
                   /\ UNCHANGED refused
              ELSE /\ stream' = [s EXCEPT !.fail = TRUE]
                   /\ refused' = TRUE
                   /\ UNCHANGED <<disk, requested>>
    /\ UNCHANGED <<life, tmp, fullpath>>

\* What read returns: as much as the file system says fullpath has, from
\* the stream's content.  It throws if there is less.
ReadResult(s) == SubSeq(s.view, 1, Len(disk[fullpath]))

read_text ==
    /\ Alive
    /\ LET s == IF is_open THEN stream
                ELSE OpenStream(disk, stream, fullpath, TEXT_READ)
           n == Len(disk[fullpath])
       IN  IF disk[fullpath] = Absent
           THEN Terminates(TRUE)
           ELSE /\ fmode' = IF is_open THEN fmode ELSE TEXT_READ
                /\ appending' = (appending /\ is_open)
                /\ disk' = IF s.fail THEN disk ELSE Flushed(disk, s)
                /\ IF n = 0 \/ (Readable(s) /\ n <= Len(s.view))
                   THEN /\ stream' = IF s.fail THEN s ELSE [s EXCEPT !.pos = n]
                        /\ UNCHANGED refused
                   ELSE stream' = [s EXCEPT !.fail = TRUE] /\ refused' = TRUE
                /\ UNCHANGED <<life, tmp, fullpath, requested>>

\* get_char: the end of the file is an error of the stream.
get_char ==
    /\ Alive /\ is_open /\ is_text_mode(fmode)
    /\ IF Readable(stream) /\ stream.pos < Len(stream.view)
       THEN stream' = [stream EXCEPT !.pos = @ + 1] /\ UNCHANGED refused
       ELSE stream' = [stream EXCEPT !.fail = TRUE] /\ refused' = TRUE
    /\ disk' = IF Readable(stream) THEN Flushed(disk, stream) ELSE disk
    /\ UNCHANGED <<life, tmp, fullpath, fmode, requested, appending>>

destroy ==
    /\ Alive
    /\ IF tmp THEN remove("destroyed")
       ELSE IF ClosedOK
            THEN /\ stream' = Shut /\ disk' = Flushed(disk, stream)
                 /\ life' = "destroyed"
                 /\ UNCHANGED <<tmp, fullpath, fmode, requested, appending, refused>>
            ELSE Terminates(FALSE)

FileNext ==
    \/ \E m \in TextModes, c \in FileTexts \cup {<<>>} : TextFile(m, c)
    \/ close \/ set_mode \/ remove_file \/ read_text \/ get_char \/ destroy
    \/ \E m \in OpenModes : open(m)
    \/ get_stream
    \/ \E p \in Paths, m \in OpenModes : initialize(p, m)
    \/ \E c \in FileTexts, flushes \in BOOLEAN : write_text(c, flushes)

FileSpec == FileInit /\ [][FileNext]_fileVars

-----------------------------------------------------------------------------
(***************************************************************************)
(* Correctness.                                                            *)
(***************************************************************************)

\* As long as every open was for appending (the default of TextFile), the
\* file holds all that it held and all that was written, in order, whatever
\* was read, refused or closed in between; what is not flushed is missing at
\* its end.  (append to a file that was closed writes over its beginning.)
AppendsInOrder ==
    Alive /\ appending =>
        /\ is_open => stream.view = requested
        /\ IsPrefix(disk[fullpath], requested)
        /\ ~is_open => disk[fullpath] = requested

\* The file system never says there is more than the stream has, so read
\* throws only for a stream in error or open for output only, unless
\* initialize has changed the name of an open stream's file.
ReadsWhole ==
    Alive /\ is_open /\ stream.on = fullpath =>
        disk[fullpath] # Absent /\ Len(ReadResult(stream)) = Len(disk[fullpath])

\* The program ends in close, a destructor or read only after a stream or
\* file operation has failed; to read past the end, to write what is open
\* for input, and to read a file that is gone are such operations.
EndsForCause == life = "terminated" => refused

\* A temporary file is gone when its object is, and a file that was not
\* removed stays.
TmpGone ==
    life = "destroyed" => ~is_open /\ (tmp => disk[fullpath] = Absent)

\* TextFile and TmpTextFile keep what was written, read all of it, end the
\* program only for a cause, and clean up.
FilesExact == AppendsInOrder /\ ReadsWhole /\ EndsForCause /\ TmpGone
=============================================================================
