---------------------------- MODULE DbConnection ----------------------------
(***************************************************************************)
(* DbConnection and its ScopedSession: client threads borrow one of a      *)
(* fixed number of database connections from soci::connection_pool, set    *)
(* the session variables app.current_user and app.locale on it, run        *)
(* statements, reset the variables and give the connection back.           *)
(*                                                                         *)
(* The pool (lease, give_back) and the PostgreSQL server behind a slot are *)
(* external.  Every statement sent on a slot is a step of its own and      *)
(* either takes effect or throws: always when the connection of the slot   *)
(* is lost, and, if "transient" \in Faults, also on a live connection      *)
(* (a cancelled or timed-out statement, an aborted transaction).           *)
(***************************************************************************)
EXTENDS FiniteSets

CONSTANTS
    Threads,        \* client threads that call DbConnection::session
    Slots,          \* connections of the pool
    Users,          \* non-empty user names
    Locales,        \* non-empty locale codes
    NoUser,         \* the empty user name, and an unset app.current_user
    NoLocale,       \* the empty locale, and an unset app.locale
    SessionUser,    \* the role the server authenticated (session_user)
    DefaultLocale,  \* 'pt-BR'
    NoSlot,         \* a thread that holds no connection
    Faults          \* which failures occur: "broken", "transient"

ASSUME PoolAssumption ==
    /\ Slots # {} /\ IsFiniteSet(Slots) /\ NoSlot \notin Slots
    /\ NoUser \notin Users /\ NoLocale \notin Locales
    /\ SessionUser \notin Users \cup {NoUser}
    /\ DefaultLocale \in Locales
    /\ Faults \subseteq {"broken", "transient"}

VARIABLES
    used,       \* the pool's flag of each slot
    alive,      \* is the connection of the slot still up?
    appUser,    \* app.current_user on the server side of the slot
    appLocale,  \* app.locale, likewise
    pc,         \* where each thread is in the life of its session
    pos,        \* ScopedSession::pos_
    req,        \* the arguments of DbConnection::session
    audit,      \* <<user asked for, action_by>> of every audited write
    served      \* <<locale asked for, locale read>> of every localized read

poolVars == <<used, alive, appUser, appLocale>>
obsVars  == <<audit, served>>
vars     == <<used, alive, appUser, appLocale, pc, pos, req, audit, served>>

Request == [user : Users \cup {NoUser}, locale : Locales \cup {NoLocale}]
NoRequest == [user |-> NoUser, locale |-> NoLocale]

PCs == {"idle", "lease", "set_user", "set_locale", "body",
        "reset_user", "reset_locale", "give_back"}

(***************************************************************************)
(* The type invariant.                                                     *)
(***************************************************************************)
TypeOK ==
    /\ used \in [Slots -> BOOLEAN]
    /\ alive \in [Slots -> BOOLEAN]
    /\ appUser \in [Slots -> Users \cup {NoUser}]
    /\ appLocale \in [Slots -> Locales \cup {NoLocale}]
    /\ pc \in [Threads -> PCs]
    /\ pos \in [Threads -> Slots \cup {NoSlot}]
    /\ req \in [Threads -> Request]
    /\ audit \subseteq (Users \cup {NoUser}) \X (Users \cup {SessionUser})
    /\ served \subseteq (Locales \cup {NoLocale}) \X Locales

Init ==
    /\ used = [s \in Slots |-> FALSE]
    /\ alive = [s \in Slots |-> TRUE]
    /\ appUser = [s \in Slots |-> NoUser]
    /\ appLocale = [s \in Slots |-> NoLocale]
    /\ pc = [t \in Threads |-> "idle"]
    /\ pos = [t \in Threads |-> NoSlot]
    /\ req = [t \in Threads |-> NoRequest]
    /\ audit = {}
    /\ served = {}

-----------------------------------------------------------------------------
(***************************************************************************)
(* What the server does with the session variables.                        *)
(***************************************************************************)

\* fn_audit_log: the session variable, or session_user when null or empty.
ActionBy(u) == IF u = NoUser THEN SessionUser ELSE u

\* fn_mv_*: the session variable, or 'pt-BR' when null or empty.
LocaleRead(l) == IF l = NoLocale THEN DefaultLocale ELSE l

\* A statement on slot s can take effect; a statement on slot s can throw.
Runs(s)   == alive[s]
Throws(s) == ~alive[s] \/ "transient" \in Faults

Goto(t, l) == pc' = [pc EXCEPT ![t] = l]

\* The ScopedSession of t is gone, constructed or not.
Gone(t) ==
    /\ pos' = [pos EXCEPT ![t] = NoSlot]
    /\ req' = [req EXCEPT ![t] = NoRequest]
    /\ Goto(t, "idle")

-----------------------------------------------------------------------------
(***************************************************************************)
(* The constructor of ScopedSession.                                       *)
(***************************************************************************)

\* A thread calls DbConnection::session(username, locale).
Session(t) ==
    /\ pc[t] = "idle"
    /\ \E r \in Request : req' = [req EXCEPT ![t] = r]
    /\ Goto(t, "lease")
    /\ UNCHANGED <<poolVars, pos, obsVars>>

\* Mutants: the constructor forgets app.current_user when a locale is given,
\* or app.locale when a user is given.
AfterLease_LocaleOnly(r) == IF r.locale # NoLocale THEN "set_locale"
                            ELSE IF r.user # NoUser THEN "set_user"
                            ELSE "body"
AfterSetUser_NoLocale(r) == "body"

\* Where the constructor goes next: an empty argument sets nothing.
AfterLease(r) == IF r.user # NoUser THEN "set_user"
                 ELSE IF r.locale # NoLocale THEN "set_locale"
                 ELSE "body"
AfterSetUser(r) == IF r.locale # NoLocale THEN "set_locale" ELSE "body"

\* pool.lease(): blocks until some slot is free, and takes it.
Lease(t) ==
    /\ pc[t] = "lease"
    /\ \E s \in Slots :
          /\ ~used[s]
          /\ used' = [used EXCEPT ![s] = TRUE]
          /\ pos' = [pos EXCEPT ![t] = s]
    /\ Goto(t, AfterLease(req[t]))
    /\ UNCHANGED <<alive, appUser, appLocale, req, obsVars>>

SetUser(t) ==
    /\ pc[t] = "set_user"
    /\ Runs(pos[t])
    /\ appUser' = [appUser EXCEPT ![pos[t]] = req[t].user]
    /\ Goto(t, AfterSetUser(req[t]))
    /\ UNCHANGED <<used, alive, appLocale, pos, req, obsVars>>

SetLocale(t) ==
    /\ pc[t] = "set_locale"
    /\ Runs(pos[t])
    /\ appLocale' = [appLocale EXCEPT ![pos[t]] = req[t].locale]
    /\ Goto(t, "body")
    /\ UNCHANGED <<used, alive, appUser, pos, req, obsVars>>

\* A SET throws in the constructor body.  The object was never constructed,
\* so its destructor does not run: nothing gives the slot back.
ConstructorThrows(t) ==
    /\ pc[t] \in {"set_user", "set_locale"}
    /\ Throws(pos[t])
    /\ Gone(t)
    /\ UNCHANGED <<poolVars, obsVars>>

-----------------------------------------------------------------------------
(***************************************************************************)
(* The life of the session.                                                *)
(***************************************************************************)

\* An audited write: the trigger records who did it.
Write(t) ==
    /\ pc[t] = "body"
    /\ Runs(pos[t])
    /\ audit' = audit \cup {<<req[t].user, ActionBy(appUser[pos[t]])>>}
    /\ UNCHANGED <<poolVars, pc, pos, req, served>>

\* A read through one of the session-aware accessor functions.
LocalizedRead(t) ==
    /\ pc[t] = "body"
    /\ Runs(pos[t])
    /\ served' = served \cup {<<req[t].locale, LocaleRead(appLocale[pos[t]])>>}
    /\ UNCHANGED <<poolVars, pc, pos, req, audit>>

\* Mutant: a scope that is left without running the destructor.
Leave_NoDestructor(t) ==
    /\ pc[t] = "body"
    /\ Gone(t)
    /\ UNCHANGED <<poolVars, obsVars>>

\* The scope ends, by return or because a statement threw: the destructor.
Leave(t) ==
    /\ pc[t] = "body"
    /\ Goto(t, "reset_user")
    /\ UNCHANGED <<poolVars, pos, req, obsVars>>

-----------------------------------------------------------------------------
(***************************************************************************)
(* The destructor of ScopedSession.                                        *)
(***************************************************************************)

ResetUser(t) ==
    /\ pc[t] = "reset_user"
    /\ Runs(pos[t])
    /\ appUser' = [appUser EXCEPT ![pos[t]] = NoUser]
    /\ Goto(t, "reset_locale")
    /\ UNCHANGED <<used, alive, appLocale, pos, req, obsVars>>

ResetLocale(t) ==
    /\ pc[t] = "reset_locale"
    /\ Runs(pos[t])
    /\ appLocale' = [appLocale EXCEPT ![pos[t]] = NoLocale]
    /\ Goto(t, "give_back")
    /\ UNCHANGED <<used, alive, appUser, pos, req, obsVars>>

\* Mutant: the handler gives the slot back, and so does the code after it.
ResetThrows_GiveBackTwice(t) ==
    /\ pc[t] \in {"reset_user", "reset_locale"}
    /\ Throws(pos[t])
    /\ used' = [used EXCEPT ![pos[t]] = FALSE]
    /\ Goto(t, "give_back")
    /\ UNCHANGED <<alive, appUser, appLocale, pos, req, obsVars>>

\* catch (...) {}: a RESET that throws skips the rest of the try block.
ResetThrows(t) ==
    /\ pc[t] \in {"reset_user", "reset_locale"}
    /\ Throws(pos[t])
    /\ Goto(t, "give_back")
    /\ UNCHANGED <<poolVars, pos, req, obsVars>>

GiveBack(t) ==
    /\ pc[t] = "give_back"
    /\ used' = [used EXCEPT ![pos[t]] = FALSE]
    /\ Gone(t)
    /\ UNCHANGED <<alive, appUser, appLocale, obsVars>>

\* The connection of a slot is lost.
Disconnect(s) ==
    /\ "broken" \in Faults
    /\ alive[s]
    /\ alive' = [alive EXCEPT ![s] = FALSE]
    /\ UNCHANGED <<used, appUser, appLocale, pc, pos, req, obsVars>>

-----------------------------------------------------------------------------
\* The steps of a session that change neither the pool's tables nor its log.
SessionStep(t) ==
    \/ Lease(t) \/ SetUser(t) \/ SetLocale(t) \/ ConstructorThrows(t)
    \/ Leave(t) \/ ResetUser(t) \/ ResetLocale(t) \/ ResetThrows(t)
    \/ GiveBack(t)

Next ==
    \/ \E t \in Threads :
          Session(t) \/ SessionStep(t) \/ Write(t) \/ LocalizedRead(t)
    \/ \E s \in Slots : Disconnect(s)

Spec == Init /\ [][Next]_vars

\* A thread that has a slot keeps running: statements return or throw, the
\* scope of a session ends.  Nothing is assumed of who wins a free slot.
Fairness ==
    \A t \in Threads :
        WF_vars(SetUser(t) \/ SetLocale(t) \/ ConstructorThrows(t) \/ Leave(t)
                \/ ResetUser(t) \/ ResetLocale(t) \/ ResetThrows(t)
                \/ GiveBack(t))

FairSpec == Spec /\ Fairness

-----------------------------------------------------------------------------
(***************************************************************************)
(* Correctness.                                                            *)
(***************************************************************************)

\* pos_ is what makes a connection private to a session: two sessions never
\* hold the same slot, and the pool never counts a held slot as free, not
\* even while a failing destructor races with a thread that waits in lease.
SlotExclusive ==
    /\ \A t \in Threads : pos[t] # NoSlot => used[pos[t]]
    /\ \A t, o \in Threads : pos[t] = pos[o] /\ pos[t] # NoSlot => t = o

\* The audit log names the user the session was asked for (session_user for
\* an empty name), never one left on the connection by an earlier session.
AuditAttribution == \A e \in audit : e[2] = ActionBy(e[1])

\* A localized read is answered in the locale the session was asked for
\* ('pt-BR' for an empty one), never in the locale of an earlier session.
LocaleServed == \A e \in served : e[2] = LocaleRead(e[1])

\* "Returns to pool on destruction": a slot that the pool counts as used
\* belongs to a session that will give it back.
NoLeak == \A s \in Slots : used[s] => \E t \in Threads : pos[t] = s

\* A lost connection costs the pool at most its own slot: what is used and
\* belongs to no session is a slot whose connection is gone.
LeakOnlyLost ==
    \A s \in Slots : used[s] /\ alive[s] => \E t \in Threads : pos[t] = s

\* An exhausted pool recovers: threads that wait in lease wait for sessions
\* that end, because no session waits for a second slot.
PoolRecovers == (\A s \in Slots : used[s]) ~> (\E s \in Slots : ~used[s])
-----------------------------------------------------------------------------
(***************************************************************************)
(* The inductive invariant behind these: what the session variables of a   *)
(* live connection hold, slot by slot.                                     *)
(***************************************************************************)

Holding == PCs \ {"idle", "lease"}

\* A thread has a slot exactly between lease and give_back.
HeldByPc == \A t \in Threads : pos[t] # NoSlot <=> pc[t] \in Holding

\* A live connection that no session holds carries no variable over.
CleanWhenFree ==
    \A s \in Slots :
        alive[s] /\ (\A t \in Threads : pos[t] # s)
            => appUser[s] = NoUser /\ appLocale[s] = NoLocale

\* A live connection in a session carries what the session has set so far.
SetSoFar ==
    \A t \in Threads :
        pos[t] # NoSlot /\ alive[pos[t]] =>
          /\ appUser[pos[t]] = IF pc[t] \in {"set_locale", "body", "reset_user"}
                               THEN req[t].user ELSE NoUser
          /\ appLocale[pos[t]] = IF pc[t] \in {"body", "reset_user",
                                               "reset_locale"}
                                 THEN req[t].locale ELSE NoLocale

PoolInv == TypeOK /\ HeldByPc /\ SlotExclusive

VarInv == CleanWhenFree /\ SetSoFar /\ LeakOnlyLost
             /\ AuditAttribution /\ LocaleServed

-----------------------------------------------------------------------------
(***************************************************************************)
(* DbConnection implements its contract: a session is open while its       *)
(* thread holds a slot.                                                    *)
(***************************************************************************)
Active == {t \in Threads : pos[t] # NoSlot}
Asked  == [t \in Threads |-> IF pos[t] # NoSlot THEN req[t] ELSE NoRequest]

C == INSTANCE SessionContract WITH
        Size     <- Cardinality,
        Capacity <- Cardinality(Slots),
        Requests <- Request,
        active   <- Active,
        ask      <- Asked

\* Every behaviour of the pool, its sessions and their failures is one of
\* the contract: bounded sessions, correct attribution, correct locale.
ImplementsContract == C!Contract
=============================================================================
