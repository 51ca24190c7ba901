--------------------------------- MODULE Log ---------------------------------
(***************************************************************************)
(* The log of log.hpp.  Its variables are static in a header: every        *)
(* translation unit has a switch and a stream of its own, and all streams  *)
(* append to the same file.  A stream that is used when it is not open is  *)
(* in error until it is opened.                                            *)
(***************************************************************************)
EXTENDS Integers, Sequences, SequencesExt

CONSTANTS LogUnits,     \* translation units that include log.hpp
          MaxMessages   \* bound: calls of LOG

VARIABLES log_on, initialized,  \* by unit
          log_open, log_error,  \* by unit: log_stream is open, is in error
          log_file,             \* the messages in log.txt
          messages,             \* history: <<unit, heard>> of every call of LOG
          asked, reached        \* history, by unit: the last of enable_log and
                                \* disable_log; did the last attempt to open
                                \* the file since disable_log succeed?

logVars == <<log_on, initialized, log_open, log_error, log_file, messages, asked, reached>>

LogInit ==
    /\ log_on = [u \in LogUnits |-> TRUE]
    /\ initialized = [u \in LogUnits |-> FALSE]
    /\ log_open = initialized /\ log_error = initialized
    /\ log_file = <<>> /\ messages = <<>>
    /\ asked = [u \in LogUnits |-> "none"] /\ reached = initialized

\* open_log_file; opens says whether the file system lets it.
Opened(u, opens) ==
    IF initialized[u] /\ log_open[u]
    THEN UNCHANGED <<initialized, log_open, log_error, reached>>
    ELSE /\ initialized' = [initialized EXCEPT ![u] = TRUE]
         /\ log_open' = [log_open EXCEPT ![u] = opens]
         /\ log_error' = [log_error EXCEPT ![u] = ~opens]
         /\ reached' = [reached EXCEPT ![u] = opens]

open_log_file(u, opens) ==
    /\ Opened(u, opens)
    /\ UNCHANGED <<log_on, log_file, messages, asked>>

enable_log(u, opens) ==
    /\ Opened(u, opens)
    /\ log_on' = [log_on EXCEPT ![u] = TRUE]
    /\ asked' = [asked EXCEPT ![u] = "enable"]
    /\ UNCHANGED <<log_file, messages>>

\* Mutant: the switch is left on.
disable_log_On(u) ==
    /\ log_open' = [log_open EXCEPT ![u] = FALSE]
    /\ log_error' = [log_error EXCEPT ![u] = @ \/ ~log_open[u]]
    /\ initialized' = [initialized EXCEPT ![u] = FALSE]
    /\ asked' = [asked EXCEPT ![u] = "disable"]
    /\ reached' = [reached EXCEPT ![u] = FALSE]
    /\ UNCHANGED <<log_on, log_file, messages>>

disable_log(u) ==
    /\ log_open' = [log_open EXCEPT ![u] = FALSE]
    /\ log_error' = [log_error EXCEPT ![u] = @ \/ ~log_open[u]]
    /\ log_on' = [log_on EXCEPT ![u] = FALSE]
    /\ initialized' = [initialized EXCEPT ![u] = FALSE]
    /\ asked' = [asked EXCEPT ![u] = "disable"]
    /\ reached' = [reached EXCEPT ![u] = FALSE]
    /\ UNCHANGED <<log_file, messages>>

\* LOG ends with a flush, so the message is in the file at once.
LOG(u) ==
    /\ Len(messages) < MaxMessages
    /\ messages' = Append(messages, <<u, asked[u] # "disable" /\ reached[u]>>)
    /\ log_error' = [log_error EXCEPT ![u] = @ \/ (log_on[u] /\ ~log_open[u])]
    /\ log_file' = IF log_on[u] /\ log_open[u] /\ ~log_error[u]
                   THEN Append(log_file, Len(messages) + 1) ELSE log_file
    /\ UNCHANGED <<log_on, initialized, log_open, asked, reached>>

LogNext ==
    \E u \in LogUnits :
        \/ \E opens \in BOOLEAN : open_log_file(u, opens) \/ enable_log(u, opens)
        \/ disable_log(u) \/ LOG(u)

LogSpec == LogInit /\ [][LogNext]_logVars

-----------------------------------------------------------------------------
\* The file has, in the order in which they were logged, the messages of
\* each unit that has opened the log and not disabled it since, whatever the
\* other units have done, however often the unit's stream has been in error
\* and although the file may not have been there to be opened at first.
\* Other messages, such as those before the unit's first enable_log, are
\* lost without notice.
LogComplete ==
    /\ Range(log_file) = {i \in DOMAIN messages : messages[i][2]}
    /\ \A i, j \in DOMAIN log_file : i < j => log_file[i] < log_file[j]
=============================================================================
