-------------------------- MODULE SessionContract --------------------------
(***************************************************************************)
(* What DbConnection promises its clients, without pool, slots, session    *)
(* variables or server: at most Capacity sessions are open at a time, and  *)
(* everything done in a session is done for the user and in the locale the *)
(* session was opened with.                                                *)
(***************************************************************************)
EXTENDS Naturals

CONSTANTS Threads, Capacity, Requests, NoRequest,
          Size(_),          \* the number of elements of a set of threads
          ActionBy(_),      \* the name the audit log shows for a user
          LocaleRead(_)     \* the locale that answers a request for a locale

VARIABLES active,   \* the threads that have a session
          ask,      \* what each session was opened with
          audit,    \* <<user, action_by>> of the audited writes
          served    \* <<locale, locale read>> of the localized reads

cvars == <<active, ask, audit, served>>

CInit ==
    /\ active = {}
    /\ ask = [t \in Threads |-> NoRequest]
    /\ audit = {}
    /\ served = {}

Open(t) ==
    /\ t \notin active
    /\ Size(active) < Capacity
    /\ active' = active \cup {t}
    /\ \E r \in Requests : ask' = [ask EXCEPT ![t] = r]
    /\ UNCHANGED <<audit, served>>

WriteAs(t) ==
    /\ t \in active
    /\ audit' = audit \cup {<<ask[t].user, ActionBy(ask[t].user)>>}
    /\ UNCHANGED <<active, ask, served>>

ReadIn(t) ==
    /\ t \in active
    /\ served' = served \cup {<<ask[t].locale, LocaleRead(ask[t].locale)>>}
    /\ UNCHANGED <<active, ask, audit>>

Close(t) ==
    /\ t \in active
    /\ active' = active \ {t}
    /\ ask' = [ask EXCEPT ![t] = NoRequest]
    /\ UNCHANGED <<audit, served>>

CNext == \E t \in Threads : Open(t) \/ WriteAs(t) \/ ReadIn(t) \/ Close(t)

Contract == CInit /\ [][CNext]_cvars
============================================================================
