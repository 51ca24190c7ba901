----------------------------- MODULE AuditTrail -----------------------------
(***************************************************************************)
(* Concurrent writers, each in a session of the pool of DbConnection, and  *)
(* the audit log their statements leave: PersonDAO's insert, update and    *)
(* remove on T_Person, AuditDAO's purge and entity_timestamps, and the     *)
(* trigger fn_audit_log that fires in every write.                         *)
(*                                                                         *)
(* A statement is its own transaction.  The server fixes NOW() when the    *)
(* statement begins and executes it later, when it has the row: the two    *)
(* steps BeginStatement and the one that takes effect.  Statements of      *)
(* other sessions may begin, execute and commit in between.                *)
(***************************************************************************)
EXTENDS DbConnection, Naturals

CONSTANTS
    Values,      \* the contents of a person row
    NoRow,       \* there is no row with this id; a null old_data or new_data
    NoStatement, \* the thread has no statement running
    MaxClock,    \* bound: readings of the server's clock
    MaxEntries   \* bound: statements that change rows, so also ids used

ASSUME TrailAssumption ==
    /\ NoRow \notin Values
    /\ MaxClock \in Nat /\ MaxEntries \in Nat

VARIABLES
    rows,    \* T_Person: id -> content
    nextId,  \* the BIGSERIAL of T_Person; it never goes back
    clock,   \* the server's clock
    stmt,    \* the statement each thread is running, with its NOW()
    trail,   \* every entry fn_audit_log ever wrote, T_LOG_Person's log_id in lid
    purged   \* the log_ids that fn_purge_audit_log deleted

storeVars == <<rows, nextId, clock, stmt, trail, purged>>
allVars   == <<vars, storeVars>>

Ids    == 1..MaxEntries
Stamps == 0..MaxClock
Row    == Values \cup {NoRow}

Entry == [lid : 1..MaxEntries, id : Ids, action : {"C", "U", "D"},
          by : Users \cup {SessionUser},
          at : Stamps, old : Row, new : Row,
          asked : Users \cup {NoUser}]  \* history: for whom the session is

Statement ==
         [op : {"insert"}, val : Values, now : Stamps]
    \cup [op : {"update"}, id : Ids, val : Values, now : Stamps]
    \cup [op : {"remove"}, id : Ids, now : Stamps]
    \cup [op : {"purge"}, before : Stamps, now : Stamps]

\* The type invariant.
TrailTypeOK ==
    /\ TypeOK
    /\ rows \in [Ids -> Row]
    /\ nextId \in 1..(MaxEntries + 1)
    /\ clock \in Stamps
    /\ stmt \in [Threads -> Statement \cup {NoStatement}]
    /\ trail \subseteq Entry
    /\ purged \subseteq 1..MaxEntries

TrailInit ==
    /\ Init
    /\ rows = [i \in Ids |-> NoRow]
    /\ nextId = 1
    /\ clock = 0
    /\ stmt = [t \in Threads |-> NoStatement]
    /\ trail = {}
    /\ purged = {}

-----------------------------------------------------------------------------
(***************************************************************************)
(* The log.                                                                *)
(***************************************************************************)

\* T_LOG_Person as it is now.
Log == {e \in trail : e.lid \notin purged}

About(entries, i) == {e \in entries : e.id = i}

\* ORDER BY log_id: the entry written last.
Latest(entries) ==
    CHOOSE e \in entries : \A f \in entries : f.lid <= e.lid

\* Mutant: the trigger is installed AFTER INSERT OR UPDATE only.
fn_audit_log_NoDelete(t, a, i, old, new) ==
    /\ trail' = IF a = "D" THEN trail
                ELSE trail \cup {[lid |-> Cardinality(trail) + 1, id |-> i,
                                  action |-> a,
                                  by |-> ActionBy(appUser[pos[t]]),
                                  at |-> stmt[t].now, old |-> old,
                                  new |-> new, asked |-> req[t].user]}
    /\ audit' = audit \cup {<<req[t].user, ActionBy(appUser[pos[t]])>>}

\* The row trigger of a statement of thread t that did action a on row i.
fn_audit_log(t, a, i, old, new) ==
    /\ trail' = trail \cup {[lid |-> Cardinality(trail) + 1, id |-> i,
                             action |-> a,
                             by |-> ActionBy(appUser[pos[t]]),
                             at |-> stmt[t].now, old |-> old,
                             new |-> new, asked |-> req[t].user]}
    /\ audit' = audit \cup {<<req[t].user, ActionBy(appUser[pos[t]])>>}

NoAudit == UNCHANGED <<trail, audit>>

\* fn_entity_timestamps: who the log says created a row, and who changed it
\* last.  Rows that tie in ORDER BY action_at may come in any order.
created_by(i) ==
    LET c == {e \in About(Log, i) : e.action = "C"}
    IN  {e.by : e \in {f \in c : \A g \in c : f.at <= g.at}}
updated_by(i) ==
    LET u == About(Log, i)
    IN  {e.by : e \in {f \in u : \A g \in u : f.at >= g.at}}

\* Mutant: the end of the period belongs to it.
Matches_Inclusive(e, f) ==
    /\ "action" \in DOMAIN f => e.action = f.action
    /\ "action_by" \in DOMAIN f => e.by = f.action_by
    /\ "from" \in DOMAIN f => e.at >= f.from
    /\ "to" \in DOMAIN f => e.at <= f.to

\* Mutant: the user is compared only together with an action.
Matches_Nested(e, f) ==
    /\ "action" \in DOMAIN f => /\ e.action = f.action
                                /\ "action_by" \in DOMAIN f => e.by = f.action_by
    /\ "from" \in DOMAIN f => e.at >= f.from
    /\ "to" \in DOMAIN f => e.at < f.to

\* The WHERE clause of the filters that are given.
Matches(e, f) ==
    /\ "action" \in DOMAIN f => e.action = f.action
    /\ "action_by" \in DOMAIN f => e.by = f.action_by
    /\ "from" \in DOMAIN f => e.at >= f.from
    /\ "to" \in DOMAIN f => e.at < f.to

\* AuditLogDTO: what a client sees of an entry.
AuditLogDTO(e) ==
    [log_id |-> e.lid, action |-> e.action, action_by |-> e.by,
     action_at |-> e.at, old_data |-> e.old, new_data |-> e.new]

search(f) == {AuditLogDTO(e) : e \in {g \in Log : Matches(g, f)}}

\* entity_timestamps: what may be returned; there is always a row.
entity_timestamps(i) ==
    {[created_by |-> c, updated_by |-> u] :
        c \in IF created_by(i) = {} THEN {NoUser} ELSE created_by(i),
        u \in IF updated_by(i) = {} THEN {NoUser} ELSE updated_by(i)}

-----------------------------------------------------------------------------
(***************************************************************************)
(* Statements.                                                             *)
(***************************************************************************)

\* A DAO opens its session with a user and without a locale.
OpenSession(t) ==
    /\ Session(t)
    /\ req'[t].locale = NoLocale
    /\ UNCHANGED storeVars

Running == {t \in Threads : stmt[t] # NoStatement}

\* The server receives the statement of a DAO call; NOW() is this instant from here on.
BeginStatement(t) ==
    /\ pc[t] = "body"
    /\ stmt[t] = NoStatement
    /\ Runs(pos[t])
    /\ Cardinality(trail) + Cardinality(Running) < MaxEntries
    /\ \E s \in Statement :
          /\ s.now = clock
          /\ s.op \in {"update", "remove"} => s.id < nextId  \* a known id
          /\ s.op = "purge" => req[t].user = NoUser  \* conn_.session()
          /\ stmt' = [stmt EXCEPT ![t] = s]
    /\ UNCHANGED <<vars, rows, nextId, clock, trail, purged>>

\* The DAO's method has sent its only statement: the session ends.
Returns(t) ==
    /\ stmt' = [stmt EXCEPT ![t] = NoStatement]
    /\ Goto(t, "reset_user")

Executing(t, o) ==
    /\ pc[t] = "body"
    /\ stmt[t] # NoStatement
    /\ stmt[t].op = o
    /\ Runs(pos[t])

\* Mutant: ids are given out again once their row is deleted.
FreshId_Reused == {i \in Ids : rows[i] = NoRow}

FreshId == {i \in Ids : i = nextId}

insert(t) ==
    /\ Executing(t, "insert")
    /\ \E i \in FreshId :
          /\ rows' = [rows EXCEPT ![i] = stmt[t].val]
          /\ nextId' = nextId + 1
          /\ fn_audit_log(t, "C", i, NoRow, stmt[t].val)
    /\ Returns(t)
    /\ UNCHANGED <<poolVars, pos, req, served, clock, purged>>

update(t) ==
    /\ Executing(t, "update")
    /\ LET i == stmt[t].id IN
          \/ /\ rows[i] # NoRow
             /\ rows' = [rows EXCEPT ![i] = stmt[t].val]
             /\ fn_audit_log(t, "U", i, rows[i], stmt[t].val)
          \/ rows[i] = NoRow /\ UNCHANGED rows /\ NoAudit
    /\ Returns(t)
    /\ UNCHANGED <<poolVars, pos, req, served, nextId, clock, purged>>

remove(t) ==
    /\ Executing(t, "remove")
    /\ LET i == stmt[t].id IN
          \/ /\ rows[i] # NoRow
             /\ rows' = [rows EXCEPT ![i] = NoRow]
             /\ fn_audit_log(t, "D", i, rows[i], NoRow)
          \/ rows[i] = NoRow /\ UNCHANGED rows /\ NoAudit
    /\ Returns(t)
    /\ UNCHANGED <<poolVars, pos, req, served, nextId, clock, purged>>

\* fn_purge_audit_log: DELETE ... WHERE action_at < before.
purge(t) ==
    /\ Executing(t, "purge")
    /\ purged' = purged \cup {e.lid : e \in {f \in trail :
                                              f.at < stmt[t].before}}
    /\ Returns(t)
    /\ UNCHANGED <<poolVars, pos, req, obsVars, rows, nextId, clock, trail>>

\* The statement throws: it has no effect, the session's scope is left.
StatementThrows(t) ==
    /\ pc[t] = "body"
    /\ stmt[t] # NoStatement
    /\ Throws(pos[t])
    /\ Returns(t)
    /\ UNCHANGED <<poolVars, pos, req, obsVars, rows, nextId, clock,
                   trail, purged>>

Tick ==
    /\ clock < MaxClock
    /\ clock' = clock + 1
    /\ UNCHANGED <<vars, rows, nextId, stmt, trail, purged>>

Execute(t) ==
    insert(t) \/ update(t) \/ remove(t) \/ purge(t) \/ StatementThrows(t)

\* A session whose connection was lost before the statement was sent, or
\* that has nothing more to do within the bounds, is left by Leave.
SessionSteps(t) ==
    /\ SessionStep(t)
    /\ stmt[t] = NoStatement
    /\ UNCHANGED storeVars

TrailNext ==
    \/ \E t \in Threads :
          OpenSession(t) \/ BeginStatement(t) \/ Execute(t) \/ SessionSteps(t)
    \/ \E s \in Slots : Disconnect(s) /\ UNCHANGED storeVars
    \/ Tick

TrailSpec == TrailInit /\ [][TrailNext]_allVars

-----------------------------------------------------------------------------
(***************************************************************************)
(* Correctness.                                                            *)
(***************************************************************************)

\* The log is the table's history: of each row the entries, in the order of
\* log_id, begin with its creation, each starts from the content the one
\* before left, and the last one left the content the table has now.
TrailReplays ==
    \A i \in Ids :
        LET h == About(trail, i) IN
        /\ h = {} => rows[i] = NoRow
        /\ h # {} => rows[i] = Latest(h).new
        /\ \A e \in h :
              LET before == {f \in h : f.lid < e.lid} IN
              e.old = IF before = {} THEN NoRow ELSE Latest(before).new

\* The log and the table together: well formed, and the one replays to the
\* other.
TrailInv == TrailTypeOK /\ TrailReplays

\* entity_timestamps names the creator of a row as long as the entry of the
\* creation is not purged, whoever wrote in between and however the clock
\* readings of concurrent statements compare.
CreatedByCreator ==
    \A e \in Log : e.action = "C" =>
        {ts.created_by : ts \in entity_timestamps(e.id)} = {ActionBy(e.asked)}

\* What a user asked for is what search finds by the user's name, with or
\* without an action, as long as it is not purged: nothing of others and
\* nothing less, whichever connection the user's sessions had.
FoundByUser ==
    \A u \in Users : \A a \in {"C", "U", "D"} :
        /\ search([action_by |-> u]) =
             {AuditLogDTO(e) : e \in {g \in Log : g.asked = u}}
        /\ search([action_by |-> u, action |-> a]) =
             {AuditLogDTO(e) : e \in {g \in Log : g.asked = u /\ g.action = a}}

\* Whoever reads the log, through entity_timestamps or through search, finds
\* each entry under the user who asked for it.
LogNamesUser == CreatedByCreator /\ FoundByUser

\* A purge deletes what search finds up to the same time, and leaves what
\* search finds from it on: no entry is in both periods or in none.
PurgesTheFound ==
    [][\A t \in Threads : purge(t) =>
         LET b == stmt[t].before IN
         /\ {AuditLogDTO(e) : e \in Log'} = search([from |-> b])
         /\ search([to |-> b]) \cap {AuditLogDTO(e) : e \in Log'} = {}]_allVars

\* A deleted person stays deleted: a DTO read before the deletion and
\* written back after it does not bring the row back, and no later insert
\* takes its id, so visibility rules and log entries keep their subject.
NoResurrection ==
    [][\A i \in Ids : i < nextId /\ rows[i] = NoRow => rows'[i] = NoRow]_allVars

\* "derive created_at / updated_at from audit log": the last change of a row
\* in the log is among those that entity_timestamps may report.
UpdatedByLastChange ==
    \A i \in Ids :
        About(Log, i) # {} => Latest(About(Log, i)).by \in updated_by(i)
=============================================================================
