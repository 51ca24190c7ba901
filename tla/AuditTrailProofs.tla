-------------------------- MODULE AuditTrailProofs --------------------------
(***************************************************************************)
(* Proofs about DbConnection and about AuditTrail, which adds the          *)
(* statements of a session to it, for any number of threads, connections,  *)
(* users, locales, persons and statements.                                 *)
(*                                                                         *)
(* The first part is about the pool and its sessions; its theorems are     *)
(* those of DbConnection's own specification.  The second is about the     *)
(* log: it replays to the table, names the user of every change, and a     *)
(* deleted person stays deleted.  A statement is a step of its own there:  *)
(* it may write the audit log and ends its session's body at once, so the  *)
(* invariants of the pool need one more case.                              *)
(***************************************************************************)
EXTENDS AuditTrail, FiniteSetTheorems, TLAPS

-----------------------------------------------------------------------------
(***************************************************************************)
(* The structural invariant: types, who holds a slot, and that a slot has  *)
(* one holder.  It holds whatever fails.                                   *)
(***************************************************************************)
LEMMA PoolInvInit == Init => PoolInv
  BY PoolAssumption DEF Init, PoolInv, TypeOK, HeldByPc, SlotExclusive,
     Request, NoRequest, PCs, Holding

\* No step, failing or not, breaks the structural invariant.
LEMMA PoolInvNext == PoolInv /\ [Next]_vars => PoolInv'
<1> SUFFICES ASSUME PoolInv, [Next]_vars PROVE PoolInv'
  OBVIOUS
<1> USE PoolAssumption DEF PoolInv, TypeOK, HeldByPc, SlotExclusive, Holding,
        PCs, Request, NoRequest, poolVars, obsVars, Goto
<1>1. ASSUME NEW t \in Threads, Session(t) PROVE PoolInv'
  BY <1>1 DEF Session
<1>2. ASSUME NEW t \in Threads, Lease(t) PROVE PoolInv'
  BY <1>2 DEF Lease, AfterLease
<1>3. ASSUME NEW t \in Threads, SetUser(t) PROVE PoolInv'
  BY <1>3 DEF SetUser, AfterSetUser
<1>4. ASSUME NEW t \in Threads, SetLocale(t) PROVE PoolInv'
  BY <1>4 DEF SetLocale
<1>5. ASSUME NEW t \in Threads, ConstructorThrows(t) PROVE PoolInv'
  BY <1>5 DEF ConstructorThrows, Gone
<1>6. ASSUME NEW t \in Threads, Leave(t) PROVE PoolInv'
  BY <1>6 DEF Leave
<1>7. ASSUME NEW t \in Threads, ResetUser(t) PROVE PoolInv'
  BY <1>7 DEF ResetUser
<1>8. ASSUME NEW t \in Threads, ResetLocale(t) PROVE PoolInv'
  BY <1>8 DEF ResetLocale
<1>9. ASSUME NEW t \in Threads, ResetThrows(t) PROVE PoolInv'
  BY <1>9 DEF ResetThrows
<1>10. ASSUME NEW t \in Threads, GiveBack(t) PROVE PoolInv'
  BY <1>10 DEF GiveBack, Gone
<1>11. ASSUME NEW t \in Threads, Write(t) PROVE PoolInv'
  BY <1>11 DEF Write, ActionBy
<1>12. ASSUME NEW t \in Threads, LocalizedRead(t) PROVE PoolInv'
  BY <1>12 DEF LocalizedRead, LocaleRead
<1>13. ASSUME NEW s \in Slots, Disconnect(s) PROVE PoolInv'
  BY <1>13 DEF Disconnect
<1>14. CASE UNCHANGED vars
  BY <1>14 DEF vars
<1> QED
  BY <1>1, <1>2, <1>3, <1>4, <1>5, <1>6, <1>7, <1>8, <1>9, <1>10, <1>11,
     <1>12, <1>13, <1>14 DEF Next, SessionStep

\* Two sessions never share a connection, whatever fails.
THEOREM PoolSafety == Spec => [](TypeOK /\ SlotExclusive)
<1>1. PoolInv => TypeOK /\ SlotExclusive
  BY DEF PoolInv
<1> QED
  BY <1>1, PoolInvInit, PoolInvNext, PTL DEF Spec

-----------------------------------------------------------------------------
(***************************************************************************)
(* The session variables, when a statement fails only because its          *)
(* connection is lost.  The invariant needs SetSoFar and CleanWhenFree:    *)
(* that a write is attributed to the right user depends on what the        *)
(* previous session of the same connection left on it.                     *)
(***************************************************************************)
LEMMA VarInvInit == Init => VarInv
  BY PoolAssumption DEF Init, VarInv, CleanWhenFree, SetSoFar, LeakOnlyLost,
     AuditAttribution, LocaleServed

\* Without transient failures no step leaves a variable behind on a live
\* connection, attributes a write to another user or leaks a live slot.
LEMMA VarInvNext ==
    ASSUME "transient" \notin Faults
    PROVE  PoolInv /\ VarInv /\ [Next]_vars => VarInv'
<1> SUFFICES ASSUME PoolInv, VarInv, [Next]_vars PROVE VarInv'
  OBVIOUS
<1> USE PoolAssumption DEF PoolInv, TypeOK, HeldByPc, SlotExclusive, Holding,
        PCs, Request, NoRequest, poolVars, obsVars, Goto, Runs, Throws,
        VarInv, CleanWhenFree, SetSoFar, LeakOnlyLost, AuditAttribution,
        LocaleServed
<1>1. ASSUME NEW t \in Threads, Session(t) PROVE VarInv'
  BY <1>1 DEF Session
<1>2. ASSUME NEW t \in Threads, Lease(t) PROVE VarInv'
  BY <1>2 DEF Lease, AfterLease
<1>3. ASSUME NEW t \in Threads, SetUser(t) PROVE VarInv'
  BY <1>3 DEF SetUser, AfterSetUser
<1>4. ASSUME NEW t \in Threads, SetLocale(t) PROVE VarInv'
  BY <1>4 DEF SetLocale
<1>5. ASSUME NEW t \in Threads, ConstructorThrows(t) PROVE VarInv'
  BY <1>5 DEF ConstructorThrows, Gone
<1>6. ASSUME NEW t \in Threads, Leave(t) PROVE VarInv'
  BY <1>6 DEF Leave
<1>7. ASSUME NEW t \in Threads, ResetUser(t) PROVE VarInv'
  BY <1>7 DEF ResetUser
<1>8. ASSUME NEW t \in Threads, ResetLocale(t) PROVE VarInv'
  BY <1>8 DEF ResetLocale
<1>9. ASSUME NEW t \in Threads, ResetThrows(t) PROVE VarInv'
  BY <1>9 DEF ResetThrows
<1>10. ASSUME NEW t \in Threads, GiveBack(t) PROVE VarInv'
  BY <1>10 DEF GiveBack, Gone
<1>11. ASSUME NEW t \in Threads, Write(t) PROVE VarInv'
  BY <1>11 DEF Write
<1>12. ASSUME NEW t \in Threads, LocalizedRead(t) PROVE VarInv'
  BY <1>12 DEF LocalizedRead
<1>13. ASSUME NEW s \in Slots, Disconnect(s) PROVE VarInv'
  BY <1>13 DEF Disconnect
<1>14. CASE UNCHANGED vars
  BY <1>14 DEF vars
<1> QED
  BY <1>1, <1>2, <1>3, <1>4, <1>5, <1>6, <1>7, <1>8, <1>9, <1>10, <1>11,
     <1>12, <1>13, <1>14 DEF Next, SessionStep

\* If statements fail only on lost connections, every audit entry names the
\* user its session was opened for.
THEOREM Attribution ==
    ASSUME "transient" \notin Faults
    PROVE  Spec => []AuditAttribution
<1>1. VarInv => AuditAttribution
  BY DEF VarInv
<1>2. PoolInv /\ VarInv /\ [Next]_vars => VarInv'
  BY VarInvNext
<1> QED
  BY <1>1, <1>2, PoolInvInit, PoolInvNext, VarInvInit, PTL DEF Spec

\* Likewise every localized read is answered in the locale its session was
\* opened with: the RESETs of the session before it on the same connection
\* ran, or the connection is lost and answers nothing.
THEOREM LocaleAttribution ==
    ASSUME "transient" \notin Faults
    PROVE  Spec => []LocaleServed
<1>1. VarInv => LocaleServed
  BY DEF VarInv
<1>2. PoolInv /\ VarInv /\ [Next]_vars => VarInv'
  BY VarInvNext
<1> QED
  BY <1>1, <1>2, PoolInvInit, PoolInvNext, VarInvInit, PTL DEF Spec

\* If statements fail only on lost connections, a slot that no session will
\* give back is a slot whose connection is lost.
THEOREM LeaksOnlyLostSlots ==
    ASSUME "transient" \notin Faults
    PROVE  Spec => []LeakOnlyLost
<1>1. VarInv => LeakOnlyLost
  BY DEF VarInv
<1>2. PoolInv /\ VarInv /\ [Next]_vars => VarInv'
  BY VarInvNext
<1> QED
  BY <1>1, <1>2, PoolInvInit, PoolInvNext, VarInvInit, PTL DEF Spec

\* If no statement fails, no slot is ever lost to the pool.
THEOREM NothingLeaks ==
    ASSUME Faults = {}
    PROVE  Spec => []NoLeak
<1> DEFINE AllAlive == \A s \in Slots : alive[s]
<1>1. Init => AllAlive
  BY DEF Init
<1>2. AllAlive /\ [Next]_vars => AllAlive'
  BY DEF Next, SessionStep, Session, Lease, SetUser, SetLocale, Leave, Write,
     ConstructorThrows, LocalizedRead, ResetUser, ResetLocale, ResetThrows,
     GiveBack, Disconnect, vars, poolVars
<1>3. AllAlive /\ LeakOnlyLost => NoLeak
  BY DEF NoLeak, LeakOnlyLost
<1>4. Spec => []LeakOnlyLost
  BY LeaksOnlyLostSlots
<1> QED
  BY <1>1, <1>2, <1>3, <1>4, PTL DEF Spec
-----------------------------------------------------------------------------
(***************************************************************************)
(* DbConnection implements SessionContract.                                *)
(***************************************************************************)
\* While some slot is free fewer sessions are open than the pool has slots:
\* pos_ maps the open sessions one-to-one into the other slots.
LEMMA FreeSlotMeansCapacity ==
    ASSUME PoolInv, NEW s \in Slots, ~used[s]
    PROVE  Cardinality(Active) < Cardinality(Slots)
<1> DEFINE f == [t \in Active |-> pos[t]]
<1>1. f \in Injection(Active, Slots \ {s})
  BY DEF PoolInv, TypeOK, SlotExclusive, Active, Injection, IsInjective
<1>2. /\ IsFiniteSet(Slots \ {s})
      /\ Cardinality(Slots \ {s}) = Cardinality(Slots) - 1
  BY PoolAssumption, FS_RemoveElement
<1>3. /\ IsFiniteSet(Active)
      /\ Cardinality(Active) <= Cardinality(Slots \ {s})
  BY <1>1, <1>2, FS_Injection
<1>4. Cardinality(Active) \in Nat /\ Cardinality(Slots) \in Nat
  BY <1>3, PoolAssumption, FS_CardinalityType
<1> QED
  BY <1>2, <1>3, <1>4

\* If statements fail only on lost connections, the pool with its sessions
\* implements the contract: at most as many sessions as slots, every write
\* and every localized read done for what its session was opened with.
THEOREM Refinement ==
    ASSUME "transient" \notin Faults
    PROVE  Spec => ImplementsContract
<1>1. Init => C!CInit
  BY PoolAssumption DEF Init, C!CInit, Active, Asked
<1>2. PoolInv /\ VarInv /\ [Next]_vars => [C!CNext]_(C!cvars)
  <2> SUFFICES ASSUME PoolInv, VarInv, [Next]_vars
               PROVE  C!CNext \/ UNCHANGED C!cvars
    OBVIOUS
  <2> USE PoolAssumption DEF PoolInv, TypeOK, HeldByPc, Holding, PCs, Goto,
          poolVars, obsVars, C!cvars, Active, Asked
  <2>1. ASSUME NEW t \in Threads, Session(t) PROVE UNCHANGED C!cvars
    BY <2>1 DEF Session
  <2>2. ASSUME NEW t \in Threads, Lease(t) PROVE C!Open(t)
    <3>1. PICK s \in Slots : /\ ~used[s]
                             /\ pos' = [pos EXCEPT ![t] = s]
      BY <2>2 DEF Lease
    <3>2. Cardinality(Active) < Cardinality(Slots)
      BY <3>1, FreeSlotMeansCapacity
    <3>3. pos[t] = NoSlot /\ s # NoSlot
      BY <2>2 DEF Lease
    <3>4. Active' = Active \cup {t}
      BY <3>1, <3>3 DEF Active
    <3>5. req[t] \in Request /\ req' = req
      BY <2>2 DEF Lease
    <3>6. Asked' = [Asked EXCEPT ![t] = req[t]]
      BY <3>1, <3>3, <3>5 DEF Asked
    <3>7. UNCHANGED <<audit, served>>
      BY <2>2 DEF Lease
    <3> QED
      BY <3>2, <3>3, <3>4, <3>5, <3>6, <3>7 DEF C!Open, Active, Asked
  <2>3. ASSUME NEW t \in Threads, SetUser(t) PROVE UNCHANGED C!cvars
    BY <2>3 DEF SetUser
  <2>4. ASSUME NEW t \in Threads, SetLocale(t) PROVE UNCHANGED C!cvars
    BY <2>4 DEF SetLocale
  <2>5. ASSUME NEW t \in Threads, ConstructorThrows(t) PROVE C!Close(t)
    BY <2>5 DEF ConstructorThrows, Gone, C!Close
  <2>6. ASSUME NEW t \in Threads, Leave(t) PROVE UNCHANGED C!cvars
    BY <2>6 DEF Leave
  <2>7. ASSUME NEW t \in Threads, ResetUser(t) PROVE UNCHANGED C!cvars
    BY <2>7 DEF ResetUser
  <2>8. ASSUME NEW t \in Threads, ResetLocale(t) PROVE UNCHANGED C!cvars
    BY <2>8 DEF ResetLocale
  <2>9. ASSUME NEW t \in Threads, ResetThrows(t) PROVE UNCHANGED C!cvars
    BY <2>9 DEF ResetThrows
  <2>10. ASSUME NEW t \in Threads, GiveBack(t) PROVE C!Close(t)
    BY <2>10 DEF GiveBack, Gone, C!Close
  <2>11. ASSUME NEW t \in Threads, Write(t) PROVE C!WriteAs(t)
    BY <2>11 DEF Write, Runs, C!WriteAs, VarInv, SetSoFar
  <2>12. ASSUME NEW t \in Threads, LocalizedRead(t) PROVE C!ReadIn(t)
    BY <2>12 DEF LocalizedRead, Runs, C!ReadIn, VarInv, SetSoFar
  <2>13. ASSUME NEW s \in Slots, Disconnect(s) PROVE UNCHANGED C!cvars
    BY <2>13 DEF Disconnect
  <2>14. CASE UNCHANGED vars
    BY <2>14 DEF vars
  <2> QED
    BY <2>1, <2>2, <2>3, <2>4, <2>5, <2>6, <2>7, <2>8, <2>9, <2>10, <2>11,
       <2>12, <2>13, <2>14 DEF Next, SessionStep, C!CNext
<1>3. PoolInv /\ VarInv /\ [Next]_vars => VarInv'
  BY VarInvNext
<1> QED
  BY <1>1, <1>2, <1>3, PoolInvInit, PoolInvNext, VarInvInit, PTL
     DEF Spec, ImplementsContract, C!Contract

-----------------------------------------------------------------------------
(***************************************************************************)
(* The inductive invariant.                                                *)
(***************************************************************************)

\* T_LOG_Person's BIGSERIAL: no two entries share a log_id, and the next one
\* is still free.
LogIds ==
    /\ IsFiniteSet(trail)
    /\ \A e \in trail : e.lid <= Cardinality(trail)
    /\ \A e, f \in trail : e.lid = f.lid => e = f

\* Every running statement still has an entry to its name.
Reserved ==
    /\ IsFiniteSet(Running)
    /\ Cardinality(trail) + Cardinality(Running) <= MaxEntries

\* T_Person's BIGSERIAL: nothing is known under an id not yet given out.
IdsGivenOut ==
    /\ \A i \in Ids : i >= nextId => rows[i] = NoRow
    /\ \A e \in trail : e.id < nextId

\* An id is created once.
OneCreation ==
    \A e, f \in trail :
        e.id = f.id /\ e.action = "C" /\ f.action = "C" => e = f

TrailInd == /\ TrailTypeOK /\ HeldByPc /\ SlotExclusive
            /\ LogIds /\ Reserved /\ IdsGivenOut /\ OneCreation
            /\ TrailReplays

\* The entries carry the user for whom their session was opened.
NamedAsAsked == \A e \in trail : e.by = ActionBy(e.asked)

-----------------------------------------------------------------------------
(***************************************************************************)
(* The pool, below statements.                                             *)
(***************************************************************************)

\* What a statement of thread t does to the pool's variables when it takes
\* effect or throws: the audit log may get the session's entry, and the
\* session's body is over.
BodyOver(t) ==
    /\ pc[t] = "body"
    /\ Goto(t, "reset_user")
    /\ \/ audit' = audit
       \/ /\ Runs(pos[t])
          /\ audit' = audit \cup {<<req[t].user, ActionBy(appUser[pos[t]])>>}
    /\ UNCHANGED <<poolVars, pos, req, served>>

\* Seen from the pool, a step of the writers is a step of the pool's own
\* specification or ends a session's body.
LEMMA PoolStep ==
    ASSUME [TrailNext]_allVars
    PROVE  [Next]_vars \/ \E t \in Threads : BodyOver(t)
<1>1. ASSUME NEW t \in Threads, OpenSession(t) PROVE Next
  BY <1>1 DEF OpenSession, Next
<1>2. ASSUME NEW t \in Threads, BeginStatement(t) PROVE UNCHANGED vars
  BY <1>2 DEF BeginStatement
<1>3. ASSUME NEW t \in Threads, Execute(t) PROVE BodyOver(t)
  BY <1>3 DEF Execute, insert, update, remove, purge, StatementThrows,
     Executing, Returns, fn_audit_log, NoAudit, BodyOver, obsVars
<1>4. ASSUME NEW t \in Threads, SessionSteps(t) PROVE Next
  BY <1>4 DEF SessionSteps, Next
<1>5. ASSUME NEW s \in Slots, Disconnect(s) PROVE Next
  BY <1>5 DEF Next
<1>6. ASSUME Tick PROVE UNCHANGED vars
  BY <1>6 DEF Tick
<1>7. ASSUME UNCHANGED allVars PROVE UNCHANGED vars
  BY <1>7 DEF allVars
<1> QED
  BY <1>1, <1>2, <1>3, <1>4, <1>5, <1>6, <1>7 DEF TrailNext

\* The structural invariant of the pool holds under the writers too.
LEMMA TrailPoolInv ==
    ASSUME PoolInv, [TrailNext]_allVars
    PROVE  PoolInv'
<1>1. CASE [Next]_vars
  BY <1>1, PoolInvNext
<1>2. ASSUME NEW t \in Threads, BodyOver(t) PROVE PoolInv'
  BY <1>2, PoolAssumption DEF BodyOver, PoolInv, TypeOK, HeldByPc,
     SlotExclusive, Holding, PCs, Request, poolVars, Goto, ActionBy
<1> QED
  BY <1>1, <1>2, PoolStep

\* So does what the session variables hold, if statements fail only on lost
\* connections.
LEMMA TrailVarInv ==
    ASSUME "transient" \notin Faults, PoolInv, VarInv, [TrailNext]_allVars
    PROVE  VarInv'
<1>1. CASE [Next]_vars
  BY <1>1, VarInvNext
<1>2. ASSUME NEW t \in Threads, BodyOver(t) PROVE VarInv'
  BY <1>2, PoolAssumption DEF BodyOver, PoolInv, TypeOK, HeldByPc,
     SlotExclusive, Holding, PCs, Request, poolVars, Goto, Runs, VarInv,
     CleanWhenFree, SetSoFar, LeakOnlyLost, AuditAttribution, LocaleServed
<1> QED
  BY <1>1, <1>2, PoolStep

-----------------------------------------------------------------------------
(***************************************************************************)
(* The log and the table.                                                  *)
(***************************************************************************)

\* The entry with the greatest log_id, if one is known to be greater than all
\* others, is the latest.
LEMMA LatestIs ==
    ASSUME NEW S \in SUBSET Entry, NEW n \in S,
           \A f \in S : f # n => f.lid < n.lid
    PROVE  Latest(S) = n
<1>1. \A f \in S : f.lid \in Int
  BY TrailAssumption DEF Entry
<1>2. \A f \in S : f.lid <= n.lid
  BY <1>1
<1>3. \A e \in S : (\A f \in S : f.lid <= e.lid) => e = n
  BY <1>1
<1> QED
  BY <1>2, <1>3 DEF Latest

\* What the trigger and the statement that fired it do together: one entry
\* more, from the row's content to its new content.
Logged(n) ==
    /\ n \in Entry
    /\ n.lid = Cardinality(trail) + 1
    /\ n.old = rows[n.id]
    /\ trail' = trail \cup {n}
    /\ rows' = [rows EXCEPT ![n.id] = n.new]
    /\ \/ n.action = "C" /\ n.id = nextId /\ nextId' = nextId + 1
       \/ n.action # "C" /\ n.id < nextId /\ nextId' = nextId

\* An entry more keeps the serial of the log.
LEMMA LogIdsGrow ==
    ASSUME TrailInd, NEW n, Logged(n)
    PROVE  LogIds' /\ Cardinality(trail') = Cardinality(trail) + 1
<1>1. Cardinality(trail) \in Nat /\ \A e \in trail : e.lid \in Int
  BY FS_CardinalityType, TrailAssumption
     DEF TrailInd, LogIds, TrailTypeOK, Entry
<1>2. n \notin trail
  BY <1>1 DEF TrailInd, LogIds, Logged
<1>3. IsFiniteSet(trail') /\ Cardinality(trail') = Cardinality(trail) + 1
  BY <1>2, FS_AddElement DEF TrailInd, LogIds, Logged
<1>4. \A e \in trail' : e.lid <= Cardinality(trail')
  BY <1>1, <1>3 DEF TrailInd, LogIds, Logged
<1>5. \A e, f \in trail' : e.lid = f.lid => e = f
  BY <1>1 DEF TrailInd, LogIds, Logged
<1> QED
  BY <1>3, <1>4, <1>5 DEF LogIds

\* An entry more keeps the serial of the table, and creates no id again.
LEMMA IdsGrow ==
    ASSUME TrailInd, NEW n, Logged(n)
    PROVE  IdsGivenOut' /\ OneCreation'
<1>1. /\ nextId \in Nat /\ n.id \in Ids /\ \A e \in trail : e.id \in Nat
      /\ Ids \subseteq Nat /\ rows \in [Ids -> Row]
  BY TrailAssumption DEF TrailInd, TrailTypeOK, Entry, Ids, Logged
<1> QED
  BY <1>1 DEF TrailInd, IdsGivenOut, OneCreation, Logged

\* An entry more keeps the log a history of the table.
LEMMA ReplaysGrow ==
    ASSUME TrailInd, NEW n, Logged(n)
    PROVE  TrailReplays'
<1>1. /\ trail \subseteq Entry /\ trail' \subseteq Entry
      /\ n \in trail' /\ n.id \in Ids /\ rows \in [Ids -> Row]
  BY DEF TrailInd, TrailTypeOK, Logged, Entry
<1>2. n.lid \in Int /\ \A e \in trail : e.lid < n.lid /\ e.lid \in Int
  BY <1>1, FS_CardinalityType, TrailAssumption
     DEF TrailInd, LogIds, Logged, Entry
<1> SUFFICES ASSUME NEW i \in Ids
             PROVE  LET h == About(trail', i) IN
                    /\ h = {} => rows'[i] = NoRow
                    /\ h # {} => rows'[i] = Latest(h).new
                    /\ \A e \in h :
                         LET before == {f \in h : f.lid < e.lid} IN
                         e.old = IF before = {} THEN NoRow
                                 ELSE Latest(before).new
  BY DEF TrailReplays, About, Latest
<1> DEFINE h  == About(trail, i)
           hh == About(trail', i)
<1>3. /\ h = {} => rows[i] = NoRow
      /\ h # {} => rows[i] = Latest(h).new
      /\ \A e \in h : e.old = IF {f \in h : f.lid < e.lid} = {} THEN NoRow
                              ELSE Latest({f \in h : f.lid < e.lid}).new
  BY DEF TrailInd, TrailReplays
<1>4. CASE n.id # i
  <2>1. hh = h /\ rows'[i] = rows[i]
    BY <1>1, <1>4 DEF About, Logged
  <2> QED
    BY <1>3, <2>1
<1>5. CASE n.id = i
  <2>1. hh = h \cup {n} /\ rows'[i] = n.new /\ n.old = rows[i]
    BY <1>1, <1>5 DEF About, Logged
  <2>2. Latest(hh) = n
    <3>1. hh \in SUBSET Entry /\ n \in hh
      BY <1>1, <2>1 DEF About
    <3>2. \A f \in hh : f # n => f.lid < n.lid
      BY <1>2, <2>1 DEF About
    <3> QED
      BY <3>1, <3>2, LatestIs
  <2>3. {f \in hh : f.lid < n.lid} = h
    BY <1>2, <2>1 DEF About
  <2>4. \A e \in h : {f \in hh : f.lid < e.lid} = {f \in h : f.lid < e.lid}
    BY <1>2, <2>1 DEF About
  <2>5. \A e \in hh :
           e.old = IF {f \in hh : f.lid < e.lid} = {} THEN NoRow
                   ELSE Latest({f \in hh : f.lid < e.lid}).new
    <3> HIDE DEF h, hh
    <3> TAKE e \in hh
    <3>1. CASE e = n
      BY <3>1, <1>3, <2>1, <2>3
    <3>2. CASE e \in h
      BY <3>2, <1>3, <2>4
    <3> QED
      BY <3>1, <3>2, <2>1
  <2> HIDE DEF h, hh
  <2>6. hh # {} /\ rows'[i] = Latest(hh).new
    BY <2>1, <2>2
  <2> QED
    BY <2>5, <2>6 DEF hh
<1> QED
  BY <1>4, <1>5

\* A statement that changes a row is logged: the entry the trigger writes.
LEMMA ExecuteLogs ==
    ASSUME TrailInd, NEW t \in Threads,
           insert(t) \/ update(t) \/ remove(t)
    PROVE  \/ UNCHANGED <<rows, nextId, trail>>
           \/ \E n : Logged(n)
<1> DEFINE E(a, i, old, new) ==
             [lid |-> Cardinality(trail) + 1, id |-> i, action |-> a,
              by |-> ActionBy(appUser[pos[t]]), at |-> stmt[t].now,
              old |-> old, new |-> new, asked |-> req[t].user]
<1>1. Executing(t, "insert") \/ Executing(t, "update") \/ Executing(t, "remove")
  BY DEF insert, update, remove
<1>2. stmt[t] \in Statement /\ t \in Running
  BY <1>1 DEF TrailInd, TrailTypeOK, Executing, Running
<1>3. Cardinality(trail) + 1 \in 1..MaxEntries
  <2>1. Cardinality(Running) # 0
    BY <1>2, FS_EmptySet DEF TrailInd, Reserved
  <2>2. Cardinality(Running) \in Nat /\ Cardinality(trail) \in Nat
    BY FS_CardinalityType DEF TrailInd, Reserved, LogIds
  <2> QED
    BY <2>1, <2>2, TrailAssumption DEF TrailInd, Reserved
<1>4. /\ stmt[t].now \in Stamps /\ req[t].user \in Users \cup {NoUser}
      /\ ActionBy(appUser[pos[t]]) \in Users \cup {SessionUser}
  <2>1. pos[t] \in Slots
    BY <1>1 DEF Executing, TrailInd, TrailTypeOK, TypeOK, HeldByPc, Holding,
       PCs
  <2> QED
    BY <1>2, <2>1 DEF Statement, TrailInd, TrailTypeOK, TypeOK, Request,
       ActionBy
<1>5. ASSUME NEW a \in {"C", "U", "D"}, NEW i \in Ids, NEW old \in Row,
             NEW new \in Row
      PROVE  E(a, i, old, new) \in Entry
  BY <1>3, <1>4 DEF Entry
<1> HIDE DEF E
<1>6. CASE insert(t)
  <2>1. stmt[t].val \in Values
    BY <1>2, <1>6 DEF insert, Executing, Statement
  <2>2. PICK i \in FreshId :
             /\ rows' = [rows EXCEPT ![i] = stmt[t].val]
             /\ nextId' = nextId + 1
             /\ fn_audit_log(t, "C", i, NoRow, stmt[t].val)
    BY <1>6 DEF insert
  <2>3. i \in Ids /\ i = nextId /\ rows[i] = NoRow
    BY TrailAssumption DEF FreshId, TrailInd, IdsGivenOut, TrailTypeOK, Ids
  <2> DEFINE n == E("C", i, NoRow, stmt[t].val)
  <2>4. n \in Entry
    BY <1>5, <2>1, <2>3 DEF Row
  <2>5. trail' = trail \cup {n}
    BY <2>2 DEF fn_audit_log, E
  <2>6. Logged(n)
    BY <2>2, <2>3, <2>4, <2>5 DEF Logged, E
  <2> QED
    BY <2>6
<1>7. CASE update(t)
  <2>1. stmt[t].val \in Values /\ stmt[t].id \in Ids
    BY <1>2, <1>7 DEF update, Executing, Statement
  <2> DEFINE i == stmt[t].id
             n == E("U", i, rows[i], stmt[t].val)
  <2>2. CASE rows[i] = NoRow
    BY <1>7, <2>2 DEF update, NoAudit
  <2>3. CASE rows[i] # NoRow
    <3>1. i < nextId /\ nextId' = nextId
      BY <1>7, <2>1, <2>3, TrailAssumption
         DEF update, TrailInd, IdsGivenOut, TrailTypeOK, Ids
    <3>2. n \in Entry
      BY <1>5, <2>1 DEF Row, TrailInd, TrailTypeOK
    <3>3. /\ rows' = [rows EXCEPT ![i] = stmt[t].val]
          /\ trail' = trail \cup {n}
      BY <1>7, <2>3 DEF update, fn_audit_log, E
    <3>4. Logged(n)
      BY <3>1, <3>2, <3>3 DEF Logged, E
    <3> QED
      BY <3>4
  <2> QED
    BY <2>2, <2>3
<1>8. CASE remove(t)
  <2>1. stmt[t].id \in Ids
    BY <1>2, <1>8 DEF remove, Executing, Statement
  <2> DEFINE i == stmt[t].id
             n == E("D", i, rows[i], NoRow)
  <2>2. CASE rows[i] = NoRow
    BY <1>8, <2>2 DEF remove, NoAudit
  <2>3. CASE rows[i] # NoRow
    <3>1. i < nextId /\ nextId' = nextId
      BY <1>8, <2>1, <2>3, TrailAssumption
         DEF remove, TrailInd, IdsGivenOut, TrailTypeOK, Ids
    <3>2. n \in Entry
      BY <1>5, <2>1 DEF Row, TrailInd, TrailTypeOK
    <3>3. /\ rows' = [rows EXCEPT ![i] = NoRow]
          /\ trail' = trail \cup {n}
      BY <1>8, <2>3 DEF remove, fn_audit_log, E
    <3>4. Logged(n)
      BY <3>1, <3>2, <3>3 DEF Logged, E
    <3> QED
      BY <3>4
  <2> QED
    BY <2>2, <2>3
<1> QED
  BY <1>6, <1>7, <1>8

\* A statement that ends gives its reservation back.
LEMMA RunningShrinks ==
    ASSUME TrailInd, NEW t \in Threads, t \in Running, Returns(t)
    PROVE  /\ IsFiniteSet(Running') /\ IsFiniteSet(Running)
           /\ Cardinality(Running') = Cardinality(Running) - 1
<1>1. Running' = Running \ {t}
  BY DEF Running, Returns, TrailInd, TrailTypeOK
<1> QED
  BY <1>1, FS_RemoveElement DEF TrailInd, Reserved

\* At first the log is empty and no person is known.
LEMMA TrailIndInit == TrailInit => TrailInd
<1> SUFFICES ASSUME TrailInit PROVE TrailInd
  OBVIOUS
<1>1. PoolInv
  BY PoolInvInit DEF TrailInit
<1>2. TrailTypeOK
  BY <1>1, TrailAssumption
     DEF PoolInv, TrailTypeOK, TrailInit, Ids, Row, Stamps
<1>3. Running = {}
  BY DEF Running, TrailInit
<1>4. LogIds /\ Reserved
  BY <1>3, FS_EmptySet, TrailAssumption DEF LogIds, Reserved, TrailInit
<1>5. IdsGivenOut /\ OneCreation /\ TrailReplays
  BY DEF IdsGivenOut, OneCreation, TrailReplays, About, TrailInit
<1> QED
  BY <1>1, <1>2, <1>4, <1>5 DEF TrailInd, PoolInv

\* Every step of the writers keeps log and table together.
LEMMA TrailIndNext == TrailInd /\ [TrailNext]_allVars => TrailInd'
<1> SUFFICES ASSUME TrailInd, [TrailNext]_allVars PROVE TrailInd'
  OBVIOUS
<1>1. PoolInv'
  BY TrailPoolInv DEF PoolInv, TrailInd, TrailTypeOK
<1>2. ASSUME UNCHANGED <<rows, nextId, stmt, trail>>,
             clock' \in Stamps, purged' = purged
      PROVE  TrailInd'
  <2>1. LogIds' /\ Reserved' /\ IdsGivenOut' /\ OneCreation' /\ TrailReplays'
    BY <1>2 DEF TrailInd, LogIds, Reserved, IdsGivenOut, OneCreation,
       TrailReplays, Running, About, Latest
  <2> QED
    BY <1>1, <1>2, <2>1 DEF TrailInd, TrailTypeOK, PoolInv
<1>3. ASSUME UNCHANGED storeVars PROVE TrailInd'
  BY <1>2, <1>3 DEF storeVars, TrailInd, TrailTypeOK
<1>4. ASSUME Tick PROVE TrailInd'
  <2>1. clock' \in Stamps
    BY <1>4, TrailAssumption DEF Tick, TrailInd, TrailTypeOK, Stamps
  <2> QED
    BY <1>2, <1>4, <2>1 DEF Tick
<1>5. ASSUME NEW t \in Threads, BeginStatement(t) PROVE TrailInd'
  <2>1. PICK s \in Statement : stmt' = [stmt EXCEPT ![t] = s]
    BY <1>5 DEF BeginStatement
  <2>2. Running' = Running \/ Running' = Running \cup {t}
    BY <1>5, <2>1 DEF BeginStatement, Running, TrailInd, TrailTypeOK
  <2>3. IsFiniteSet(Running') /\ Cardinality(Running') <= Cardinality(Running) + 1
    <3> DEFINE R == Running
    <3>1. IsFiniteSet(R) /\ Cardinality(R) \in Nat
      BY FS_CardinalityType DEF TrailInd, Reserved
    <3> HIDE DEF R
    <3>2. /\ IsFiniteSet(R \cup {t})
          /\ \/ Cardinality(R \cup {t}) = Cardinality(R)
             \/ Cardinality(R \cup {t}) = Cardinality(R) + 1
      BY <3>1, FS_AddElement
    <3>3. CASE Running' = R
      BY <3>1, <3>3 DEF R
    <3>4. CASE Running' = R \cup {t}
      BY <3>1, <3>2, <3>4 DEF R
    <3> QED
      BY <2>2, <3>3, <3>4 DEF R
  <2>4. Reserved'
    <3>1. Cardinality(Running) \in Nat /\ Cardinality(trail) \in Nat
      BY FS_CardinalityType DEF TrailInd, Reserved, LogIds
    <3>2. Cardinality(Running') \in Nat
      BY <2>3, FS_CardinalityType
    <3>3. Cardinality(trail) + Cardinality(Running) < MaxEntries /\ trail' = trail
      BY <1>5 DEF BeginStatement
    <3> QED
      BY <2>3, <3>1, <3>2, <3>3, TrailAssumption DEF Reserved
  <2>5. LogIds' /\ IdsGivenOut' /\ OneCreation' /\ TrailReplays'
    BY <1>5 DEF BeginStatement, TrailInd, LogIds, IdsGivenOut, OneCreation,
       TrailReplays, About, Latest
  <2> QED
    BY <1>1, <1>5, <2>1, <2>4, <2>5
       DEF BeginStatement, TrailInd, TrailTypeOK, PoolInv
<1>6. ASSUME NEW t \in Threads, Execute(t) PROVE TrailInd'
  <2>1. Returns(t) /\ t \in Running /\ clock' = clock
    BY <1>6 DEF Execute, insert, update, remove, purge, StatementThrows,
       Executing, Running
  <2>2. /\ IsFiniteSet(Running') /\ IsFiniteSet(Running)
        /\ Cardinality(Running') = Cardinality(Running) - 1
    BY <2>1, RunningShrinks
  <2>3. Cardinality(Running) \in Nat /\ Cardinality(trail) \in Nat
    BY <2>2, FS_CardinalityType DEF TrailInd, LogIds
  <2>4. purged' \subseteq 1..MaxEntries
    <3>1. purged \subseteq 1..MaxEntries /\ \A e \in trail : e.lid \in 1..MaxEntries
      BY DEF TrailInd, TrailTypeOK, Entry
    <3>2. CASE purge(t)
      BY <3>1, <3>2 DEF purge
    <3>3. CASE purged' = purged
      BY <3>1, <3>3
    <3> QED
      BY <1>6, <3>2, <3>3
         DEF Execute, insert, update, remove, StatementThrows
  <2>5. stmt' \in [Threads -> Statement \cup {NoStatement}]
    BY <2>1 DEF Returns, TrailInd, TrailTypeOK
  <2>6. CASE UNCHANGED <<rows, nextId, trail>>
    <3>1. LogIds' /\ IdsGivenOut' /\ OneCreation' /\ TrailReplays'
      BY <2>6 DEF TrailInd, LogIds, IdsGivenOut, OneCreation, TrailReplays,
         About, Latest
    <3>2. Reserved'
      BY <2>2, <2>3, <2>6, TrailAssumption DEF TrailInd, Reserved
    <3> QED
      BY <1>1, <2>1, <2>4, <2>5, <2>6, <3>1, <3>2
         DEF TrailInd, TrailTypeOK, PoolInv
  <2>7. ASSUME NEW n, Logged(n) PROVE TrailInd'
    <3>1. LogIds' /\ Cardinality(trail') = Cardinality(trail) + 1
      BY <2>7, LogIdsGrow
    <3>2. IdsGivenOut' /\ OneCreation'
      BY <2>7, IdsGrow
    <3>3. TrailReplays'
      BY <2>7, ReplaysGrow
    <3>4. Reserved'
      BY <2>2, <2>3, <3>1, TrailAssumption DEF TrailInd, Reserved
    <3>5. /\ rows' \in [Ids -> Row] /\ trail' \subseteq Entry
          /\ nextId' \in 1..(MaxEntries + 1)
      BY <2>7, TrailAssumption DEF Logged, TrailInd, TrailTypeOK, Entry, Ids
    <3> QED
      BY <1>1, <2>1, <2>4, <2>5, <3>1, <3>2, <3>3, <3>4, <3>5
         DEF TrailInd, TrailTypeOK, PoolInv
  <2>8. CASE insert(t) \/ update(t) \/ remove(t)
    BY <2>6, <2>7, <2>8, ExecuteLogs
  <2>9. CASE purge(t) \/ StatementThrows(t)
    BY <2>6, <2>9 DEF purge, StatementThrows
  <2> QED
    BY <1>6, <2>8, <2>9 DEF Execute
<1> QED
  BY <1>3, <1>4, <1>5, <1>6
     DEF TrailNext, OpenSession, SessionSteps, allVars

\* The log replays to the table, in every state of any number of writers and
\* whatever fails.
THEOREM TrailSafety == TrailSpec => []TrailInv
<1>1. TrailInd => TrailInv
  BY DEF TrailInd, TrailInv
<1> QED
  BY <1>1, TrailIndInit, TrailIndNext, PTL DEF TrailSpec

-----------------------------------------------------------------------------
(***************************************************************************)
(* What a step may never do.                                               *)
(***************************************************************************)

\* A deleted person stays deleted, whoever still holds a DTO of it: an update
\* changes only a row that is there, and an insert takes an id that nobody
\* was ever told.
THEOREM DeletedStaysDeleted == TrailSpec => NoResurrection
<1>1. ASSUME TrailInd, [TrailNext]_allVars
      PROVE  [\A i \in Ids : i < nextId /\ rows[i] = NoRow
                                => rows'[i] = NoRow]_allVars
  <2> SUFFICES ASSUME NEW i \in Ids, i < nextId, rows[i] = NoRow
               PROVE  rows'[i] = NoRow
    OBVIOUS
  <2>1. rows \in [Ids -> Row] /\ nextId \in Nat
    BY <1>1, TrailAssumption DEF TrailInd, TrailTypeOK
  <2>2. ASSUME NEW t \in Threads, insert(t) PROVE rows'[i] = NoRow
    BY <2>1, <2>2 DEF insert, FreshId, Ids
  <2>3. ASSUME NEW t \in Threads, update(t) PROVE rows'[i] = NoRow
    BY <2>1, <2>3 DEF update
  <2>4. ASSUME NEW t \in Threads, remove(t) PROVE rows'[i] = NoRow
    BY <2>1, <2>4 DEF remove
  <2> QED
    BY <1>1, <2>2, <2>3, <2>4 DEF TrailNext, OpenSession, BeginStatement,
       Execute, purge, StatementThrows, SessionSteps, Tick, storeVars, allVars
<1> QED
  BY <1>1, TrailIndInit, TrailIndNext, PTL DEF TrailSpec, NoResurrection

\* A purge deletes exactly what search finds up to its time: because log_ids
\* are unique, deleting by them takes no other entry along.
THEOREM PurgeMatchesSearch == TrailSpec => PurgesTheFound
<1> DEFINE Found(t) ==
      LET b == stmt[t].before IN
      /\ {AuditLogDTO(e) : e \in Log'} = search([from |-> b])
      /\ search([to |-> b]) \cap {AuditLogDTO(e) : e \in Log'} = {}
<1>1. ASSUME TrailInd, NEW t \in Threads, purge(t) PROVE Found(t)
  <2> DEFINE b == stmt[t].before
  <2>1. b \in Nat /\ \A e \in trail : e.at \in Nat
    BY <1>1, TrailAssumption DEF purge, Executing, TrailInd, TrailTypeOK,
       Statement, Stamps, Entry
  <2>2. Log' = {e \in Log : ~(e.at < b)}
    <3>1. trail' = trail
      BY <1>1 DEF purge
    <3>2. \A e \in trail :
             e.lid \in {f.lid : f \in {g \in trail : g.at < b}} <=> e.at < b
      BY <1>1 DEF TrailInd, LogIds
    <3>3. purged' = purged \cup {f.lid : f \in {g \in trail : g.at < b}}
      BY <1>1 DEF purge
    <3> QED
      BY <3>1, <3>2, <3>3 DEF Log
  <2>3. Log' = {e \in Log : Matches(e, [from |-> b])}
    BY <2>1, <2>2 DEF Matches, Log
  <2>4. \A e \in Log : Matches(e, [to |-> b]) <=> e.at < b
    BY DEF Matches
  <2>5. {AuditLogDTO(e) : e \in Log'} = search([from |-> b])
    BY <2>3 DEF search
  <2>6. ASSUME NEW e \in Log, Matches(e, [to |-> b]), NEW f \in Log',
               AuditLogDTO(e) = AuditLogDTO(f)
        PROVE  FALSE
    <3>1. e.lid = f.lid
      BY <2>6 DEF AuditLogDTO
    <3>2. e = f
      BY <1>1, <2>2, <2>6, <3>1 DEF Log, TrailInd, LogIds
    <3> QED
      BY <2>2, <2>4, <2>6, <3>2
  <2>7. search([to |-> b]) \cap {AuditLogDTO(e) : e \in Log'} = {}
    BY <2>6 DEF search
  <2> QED
    BY <2>5, <2>7
<1>2. ASSUME TrailInd
      PROVE  [\A t \in Threads : purge(t) => Found(t)]_allVars
  BY <1>1, <1>2
<1> QED
  BY <1>2, TrailIndInit, TrailIndNext, PTL DEF TrailSpec, PurgesTheFound

-----------------------------------------------------------------------------
(***************************************************************************)
(* Whom the log names, when statements fail only on lost connections.      *)
(***************************************************************************)

\* An entry is written for the user its session was opened for, because a
\* live connection in a session's body carries exactly that user.
LEMMA NamedAsAskedNext ==
    ASSUME PoolInv, VarInv, NamedAsAsked, [TrailNext]_allVars
    PROVE  NamedAsAsked'
<1>1. CASE trail' = trail
  BY <1>1 DEF NamedAsAsked
<1>2. ASSUME NEW t \in Threads, NEW a, NEW i, NEW old, NEW new, NEW o,
             Executing(t, o), fn_audit_log(t, a, i, old, new)
      PROVE  NamedAsAsked'
  <2>1. appUser[pos[t]] = req[t].user
    BY <1>2 DEF Executing, Runs, PoolInv, HeldByPc, Holding, PCs, VarInv,
       SetSoFar
  <2> QED
    BY <1>2, <2>1 DEF fn_audit_log, NamedAsAsked
<1>3. ASSUME NEW t \in Threads, insert(t) PROVE NamedAsAsked'
  BY <1>2, <1>3 DEF insert
<1>4. ASSUME NEW t \in Threads, update(t) PROVE NamedAsAsked'
  BY <1>1, <1>2, <1>4 DEF update, NoAudit
<1>5. ASSUME NEW t \in Threads, remove(t) PROVE NamedAsAsked'
  BY <1>1, <1>2, <1>5 DEF remove, NoAudit
<1> QED
  BY <1>1, <1>3, <1>4, <1>5 DEF TrailNext, OpenSession, BeginStatement,
     Execute, purge, StatementThrows, SessionSteps, Tick, storeVars, allVars

\* entity_timestamps names the creator: a row has one creation in the log.
LEMMA CreatorNamed ==
    ASSUME TrailInd, NamedAsAsked
    PROVE  CreatedByCreator
<1> SUFFICES ASSUME NEW e \in Log, e.action = "C"
             PROVE  {ts.created_by : ts \in entity_timestamps(e.id)}
                       = {ActionBy(e.asked)}
  BY DEF CreatedByCreator
<1> DEFINE c == {f \in About(Log, e.id) : f.action = "C"}
<1>1. e.at \in Nat /\ e.by = ActionBy(e.asked)
  BY TrailAssumption
     DEF Log, TrailInd, TrailTypeOK, Entry, Stamps, NamedAsAsked
<1>2. c = {e}
  BY DEF About, Log, TrailInd, OneCreation
<1>3. {f \in c : \A g \in c : f.at <= g.at} = {e}
  BY <1>1, <1>2
<1>4. created_by(e.id) = {ActionBy(e.asked)}
  <2>1. created_by(e.id) = {f.by : f \in {g \in c : \A k \in c : g.at <= k.at}}
    BY DEF created_by
  <2> QED
    BY <1>1, <1>3, <2>1
<1> DEFINE u == IF updated_by(e.id) = {} THEN {NoUser} ELSE updated_by(e.id)
<1>5. u # {}
  OBVIOUS
<1> HIDE DEF u
<1>6. entity_timestamps(e.id)
        = {[created_by |-> x, updated_by |-> y] : x \in {ActionBy(e.asked)},
                                                  y \in u}
  BY <1>4 DEF entity_timestamps, u
<1>7. PICK y \in u : TRUE
  BY <1>5
<1>8. [created_by |-> ActionBy(e.asked), updated_by |-> y]
        \in entity_timestamps(e.id)
  BY <1>6
<1>9. \A ts \in entity_timestamps(e.id) : ts.created_by = ActionBy(e.asked)
  BY <1>6
<1> QED
  BY <1>8, <1>9

\* search by a user's name finds what was asked by that user: the name of
\* session_user is no user's.
LEMMA SearchFinds ==
    ASSUME TrailInd, NamedAsAsked
    PROVE  FoundByUser
<1> SUFFICES ASSUME NEW u \in Users, NEW a \in {"C", "U", "D"}
             PROVE  /\ search([action_by |-> u]) =
                         {AuditLogDTO(e) : e \in {g \in Log : g.asked = u}}
                    /\ search([action_by |-> u, action |-> a]) =
                         {AuditLogDTO(e) : e \in {g \in Log : g.asked = u
                                                              /\ g.action = a}}
  BY DEF FoundByUser
<1>1. \A e \in Log : e.by = u <=> e.asked = u
  BY PoolAssumption
     DEF Log, NamedAsAsked, ActionBy, TrailInd, TrailTypeOK, Entry
<1>2. {g \in Log : Matches(g, [action_by |-> u])} = {g \in Log : g.asked = u}
  BY <1>1 DEF Matches
<1>3. {g \in Log : Matches(g, [action_by |-> u, action |-> a])}
        = {g \in Log : g.asked = u /\ g.action = a}
  BY <1>1 DEF Matches
<1> QED
  BY <1>2, <1>3 DEF search

\* If statements fail only on lost connections, whoever reads the log finds
\* every entry under the user who asked for it.
THEOREM LogAttribution ==
    ASSUME "transient" \notin Faults
    PROVE  TrailSpec => []LogNamesUser
<1>1. TrailInit => PoolInv /\ VarInv /\ NamedAsAsked
  BY PoolInvInit, VarInvInit DEF TrailInit, NamedAsAsked
<1>2. PoolInv /\ VarInv /\ NamedAsAsked /\ [TrailNext]_allVars
        => PoolInv' /\ VarInv' /\ NamedAsAsked'
  BY TrailPoolInv, TrailVarInv, NamedAsAskedNext
<1>3. TrailInd /\ NamedAsAsked => LogNamesUser
  BY CreatorNamed, SearchFinds DEF LogNamesUser
<1> QED
  BY <1>1, <1>2, <1>3, TrailIndInit, TrailIndNext, PTL DEF TrailSpec
=============================================================================
