--------------------------- MODULE ContactProofs ----------------------------
(***************************************************************************)
(* Proofs about ContactStore and ContactQueries, for any number of rows,   *)
(* values and locales: foreign keys, checks and unique indexes hold after  *)
(* every cascade, the search vectors follow what they index, and the log   *)
(* misses no change; what the DAOs answer, in every state that the tables  *)
(* can get into, and what the materialized views may list.                 *)
(***************************************************************************)
EXTENDS ContactQueries, Induction

(***************************************************************************)
(* The schema.                                                             *)
(***************************************************************************)

\* A key is a table and an id of it.
LEMMA KeysAre ==
    /\ \A t \in Tables : \A i \in Ids(t) : <<t, i>> \in Keys
    /\ \A k \in Keys : /\ k[1] \in Tables /\ k[2] \in Ids(k[1])
                       /\ k = <<k[1], k[2]>>
  BY DEF Keys

\* Ids are positive: 0 is the null of a foreign key.
LEMMA IdsAre ==
    ASSUME NEW t \in Tables
    PROVE  /\ Ids(t) \subseteq Nat \ {0} /\ IdArg(t) \subseteq Nat
           /\ Ids(t) \subseteq IdArg(t)
  BY StoreAssumption DEF Ids, IdArg

\* The foreign keys of each table.
LEMMA RefsAre ==
    /\ RefsOf["person"] = {}
    /\ RefsOf["orgunit"] = {Ref("parent_id", "orgunit", "SET_NULL")}
    /\ RefsOf["localizedorgunit"] = {Ref("org_unit_id", "orgunit", "CASCADE")}
    /\ RefsOf["role"] = {Ref("org_unit_id", "orgunit", "CASCADE")}
    /\ RefsOf["localizedrole"] = {Ref("role_id", "role", "CASCADE")}
    /\ RefsOf["personorgrelation"] = {Ref("person_id", "person", "CASCADE"),
                                      Ref("org_unit_id", "orgunit", "CASCADE")}
    /\ RefsOf["personrole"] = {Ref("person_id", "person", "CASCADE"),
                               Ref("role_id", "role", "CASCADE")}
    /\ RefsOf["datavisibility"] =
         {Ref("owner_person_id", "person", "CASCADE"),
          Ref("viewer_person_id", "person", "CASCADE"),
          Ref("viewer_role_id", "role", "CASCADE"),
          Ref("viewer_org_unit_id", "orgunit", "CASCADE")}
    /\ RefsOf["phone"] = OwnerRefs
    /\ RefsOf["email"] = OwnerRefs
    /\ RefsOf["address"] = OwnerRefs
  BY DEF RefsOf, ParentRule

\* The foreign keys that cascade: never from a person or a unit, and from a
\* role or a localized name of a unit only to the unit.  The others are the
\* parents of units.
LEMMA ForeignKeyRules ==
    \A t \in Tables : \A f \in RefsOf[t] :
        /\ f.to \in {"person", "orgunit", "role"}
        /\ f.del \in {"CASCADE", "SET_NULL"}
        /\ f.del = "CASCADE" =>
             /\ t \notin {"person", "orgunit"}
             /\ t = "role" => f.to = "orgunit"
             /\ t = "localizedorgunit" =>
                  f.to = "orgunit" /\ f.col = "org_unit_id"
        /\ f.del = "SET_NULL" =>
             t = "orgunit" /\ f.to = "orgunit" /\ f.col = "parent_id"
<1> TAKE t \in Tables
<1> TAKE f \in RefsOf[t]
<1> USE RefsAre DEF OwnerRefs, Ref, OwnerRule
<1>1. CASE t = "person"
  BY <1>1
<1>2. CASE t = "orgunit"
  BY <1>2
<1>3. CASE t = "localizedorgunit"
  BY <1>3
<1>4. CASE t = "role"
  BY <1>4
<1>5. CASE t \in {"localizedrole", "personorgrelation", "personrole"}
  BY <1>5
<1>6. CASE t = "datavisibility"
  BY <1>6
<1>7. CASE t \in Owned
  BY <1>7 DEF Owned
<1> QED
  BY <1>1, <1>2, <1>3, <1>4, <1>5, <1>6, <1>7 DEF Tables

\* The foreign key columns of each table.
LEMMA ColumnsAre ==
    /\ Columns["person"] = {}
    /\ Columns["orgunit"] = {"parent_id"}
    /\ Columns["localizedorgunit"] = {"org_unit_id"}
    /\ Columns["role"] = {"org_unit_id"}
    /\ Columns["localizedrole"] = {"role_id"}
    /\ Columns["personorgrelation"] = {"person_id", "org_unit_id"}
    /\ Columns["personrole"] = {"person_id", "role_id"}
    /\ Columns["datavisibility"] =
         {"owner_person_id", "viewer_person_id", "viewer_role_id",
          "viewer_org_unit_id"}
    /\ \A t \in Owned : Columns[t] = {"person_id", "org_unit_id"}
<1>1. \A t \in Tables : Columns[t] = {f.col : f \in RefsOf[t]}
  BY DEF Columns
<1> QED
  BY <1>1 DEF RefsOf, OwnerRefs, Ref, Owned, Tables

-----------------------------------------------------------------------------
(***************************************************************************)
(* The inductive invariant: what each table's rows hold, the constraints,  *)
(* and what the search vectors were made of.                               *)
(***************************************************************************)

KeyOf(t) == IF t = "person" THEN KeyValues \cup {None}
            ELSE IF t = "orgunit" THEN {None}
            ELSE KeyValues \cup Locales \cup Categories \cup {None}
ValOf(t) == IF t \in {"person", "localizedorgunit"} THEN Values
            ELSE IF t = "orgunit" THEN Values \cup {None}
            ELSE Values \cup {None} \cup BOOLEAN
RowOf(t) == [ref : [Columns[t] -> Nat], key : KeyOf(t), val : ValOf(t),
             vec : SUBSET (Values \cup KeyValues)]

WellFormed ==
    /\ DOMAIN rows = Keys
    /\ \A k \in Keys : Live(k) => rows[k] \in RowOf(k[1])
    /\ nextId \in [Tables -> Nat]
    /\ \A k \in Keys : Live(k) => k[2] < nextId[k[1]]

\* The search vector that the triggers make of row r with id i.
Indexed(rs, t, i, r) ==
    /\ t = "person" => r.vec = {r.key, r.val} \ {None}
    /\ t = "orgunit" => r.vec = OrgName(rs, i) \cup ({r.val} \ {None})

Vectors == \A k \in Keys : Live(k) => Indexed(rows, k[1], k[2], rows[k])

StoreInd == WellFormed /\ RefIntegrity /\ Vectors

\* A row of some table is not NoRow.
LEMMA RowIsLive ==
    ASSUME NEW t \in Tables, NEW r \in RowOf(t)
    PROVE  r # NoRow
<1>1. r \in StoredRow
  BY DEF RowOf, StoredRow, KeyOf, ValOf
<1> QED
  BY <1>1, StoreAssumption

\* A clash is mutual.
LEMMA ApartSymmetric ==
    ASSUME NEW t, NEW o, NEW r, Apart(t, o, r)
    PROVE  Apart(t, r, o)
  BY DEF Apart

\* The statements that write one row: INSERT takes the next id, UPDATE an id
\* that has a row.
Writes(t, i, r) ==
    /\ t # "localizedorgunit" /\ i \in Ids(t) /\ r \in RowOf(t)
    /\ Legal(t, i, r) /\ Indexed(rows, t, i, r)
    /\ rows' = [rows EXCEPT ![<<t, i>>] = r]
    /\ \/ Live(<<t, i>>) /\ nextId' = nextId
       \/ ~Live(<<t, i>>) /\ i = nextId[t]
                          /\ nextId' = [nextId EXCEPT ![t] = i + 1]

\* Writing a row leaves every other row, and what is live, alone.
LEMMA WritesOne ==
    ASSUME StoreInd, NEW t \in Tables, NEW i, NEW r, Writes(t, i, r)
    PROVE  /\ <<t, i>> \in Keys /\ rows'[<<t, i>>] = r /\ Live(<<t, i>>)'
           /\ \A k \in Keys : k # <<t, i>> => rows'[k] = rows[k]
           /\ \A k \in Keys : Live(k) => Live(k)'
           /\ \A k \in Keys : Live(k)' => Live(k) \/ k = <<t, i>>
           /\ \A u \in Tables : LiveIds(u) \subseteq LiveIds(u)'
  BY KeysAre, RowIsLive DEF StoreInd, WellFormed, Writes, Live, LiveIds

\* Writing a legal row keeps the rows well formed.
LEMMA WritesWellFormed ==
    ASSUME StoreInd, NEW t \in Tables, NEW i, NEW r, Writes(t, i, r)
    PROVE  WellFormed'
<1>1. DOMAIN rows' = Keys
  BY DEF StoreInd, WellFormed, Writes
<1>2. \A k \in Keys : Live(k)' => rows'[k] \in RowOf(k[1])
  <2> SUFFICES ASSUME NEW k \in Keys, Live(k)' PROVE rows'[k] \in RowOf(k[1])
    OBVIOUS
  <2>1. CASE k = <<t, i>>
    <3>1. k[1] = t /\ rows'[k] = r /\ r \in RowOf(t)
      BY <2>1, WritesOne DEF Writes
    <3> QED
      BY <3>1
  <2>2. CASE k # <<t, i>>
    <3>1. rows'[k] = rows[k] /\ Live(k)
      BY <2>2, WritesOne
    <3> QED
      BY <3>1 DEF StoreInd, WellFormed
  <2> QED
    BY <2>1, <2>2
<1>3. i \in Nat /\ nextId \in [Tables -> Nat]
  BY IdsAre DEF Writes, StoreInd, WellFormed
<1>4. nextId' \in [Tables -> Nat] /\ \A u \in Tables : nextId[u] <= nextId'[u]
  BY <1>3 DEF Writes
<1>5. \A k \in Keys : Live(k)' => k[2] < nextId'[k[1]]
  <2> SUFFICES ASSUME NEW k \in Keys, Live(k)' PROVE k[2] < nextId'[k[1]]
    OBVIOUS
  <2>1. k[1] \in Tables /\ k[2] \in Nat
    BY KeysAre, IdsAre
  <2>2. CASE Live(k)
    BY <1>3, <1>4, <2>1, <2>2 DEF StoreInd, WellFormed
  <2>3. CASE k = <<t, i>> /\ ~Live(k)
    BY <1>3, <2>3 DEF Writes
  <2> QED
    BY <2>2, <2>3, WritesOne
<1> QED
  BY <1>1, <1>2, <1>4, <1>5 DEF WellFormed

\* Writing a legal row keeps every row legal: no live row is lost, and a row
\* that does not clash with the others makes none of them clash.
LEMMA WritesLegal ==
    ASSUME StoreInd, NEW t \in Tables, NEW i, NEW r, Writes(t, i, r)
    PROVE  RefIntegrity'
<1> SUFFICES ASSUME NEW k \in Keys, Live(k)'
             PROVE  Legal(k[1], k[2], rows[k])'
  BY DEF RefIntegrity
<1> DEFINE u == k[1]
           j == k[2]
<1>1. k = <<u, j>> /\ u \in Tables /\ j \in Ids(u)
  BY KeysAre
<1>2. Legal(u, j, rows'[k])
  <2>1. CASE k = <<t, i>>
    <3>1. u = t /\ j = i /\ rows'[k] = r /\ Legal(t, i, r)
      BY <2>1, WritesOne DEF Writes
    <3> QED
      BY <3>1
  <2>2. CASE k # <<t, i>>
    <3>1. rows'[k] = rows[k] /\ Live(k)
      BY <2>2, WritesOne
    <3> QED
      BY <3>1 DEF StoreInd, RefIntegrity
  <2> QED
    BY <2>1, <2>2
<1> HIDE DEF u, j
<1>3. \A f \in RefsOf[u] : f.to \in Tables
  BY <1>1, ForeignKeyRules DEF Tables
<1>4. RefsExist(u, rows[k])'
  BY <1>2, <1>3, WritesOne DEF Legal, RefsExist
<1>5. NoClash(u, j, rows[k])'
  <2> SUFFICES ASSUME NEW m \in LiveIds(u)' \ {j}
               PROVE  Apart(u, rows'[<<u, m>>], rows'[k])
    BY DEF NoClash, Apart
  <2>1. m \in Ids(u) /\ <<u, m>> \in Keys /\ <<u, m>> # k /\ Live(<<u, m>>)'
    BY <1>1, KeysAre DEF LiveIds
  <2>2. CASE <<u, m>> # <<t, i>>
    <3>1. rows'[<<u, m>>] = rows[<<u, m>>] /\ m \in LiveIds(u) \ {j}
      BY <2>1, <2>2, WritesOne DEF LiveIds
    <3> QED
      BY <1>2, <3>1 DEF Legal, NoClash
  <2>3. CASE <<u, m>> = <<t, i>>
    <3>1. u = t /\ m = i /\ rows'[<<u, m>>] = r
      BY <2>3, WritesOne
    <3>2. rows'[k] = rows[k] /\ j \in LiveIds(u) \ {m}
      BY <1>1, <2>1, <2>3, WritesOne DEF LiveIds
    <3>3. Apart(u, rows[<<u, j>>], r)
      BY <3>1, <3>2 DEF Writes, Legal, NoClash
    <3> QED
      BY <1>1, <3>1, <3>2, <3>3, ApartSymmetric
  <2> QED
    BY <2>2, <2>3
<1>6. Checks(u, rows[k])'
  BY <1>2 DEF Legal, Checks, OneOf
<1> QED
  BY <1>4, <1>5, <1>6 DEF Legal, u, j

\* The names of a unit are those of its live rows of T_LocalizedOrgUnit: if
\* these stay as they are, the names do.
LEMMA NamesKept ==
    ASSUME NEW rs, NEW qs, NEW o,
           \A k \in Keys : k[1] = "localizedorgunit" =>
              /\ qs[k] # NoRow /\ qs[k].ref["org_unit_id"] = o
                   <=> rs[k] # NoRow /\ rs[k].ref["org_unit_id"] = o
              /\ qs[k] # NoRow /\ qs[k].ref["org_unit_id"] = o => qs[k] = rs[k]
    PROVE  OrgName(qs, o) = OrgName(rs, o)
<1> DEFINE Named(ts) == {l \in Keys : /\ l[1] = "localizedorgunit"
                                      /\ ts[l] # NoRow
                                      /\ ts[l].ref["org_unit_id"] = o
                                      /\ ts[l].key = DefaultLocale}
<1>1. Named(qs) = Named(rs) /\ \A k \in Named(rs) : qs[k] = rs[k]
  OBVIOUS
<1>2. OrgName(rs, o) = {rs[k].val : k \in Named(rs)}
  BY DEF OrgName
<1>3. OrgName(qs, o) = {qs[k].val : k \in Named(qs)}
  BY DEF OrgName
<1> HIDE DEF Named
<1> QED
  BY <1>1, <1>2, <1>3

\* Names are values.
LEMMA NamesAreValues ==
    ASSUME NEW rs, NEW o,
           \A k \in Keys : k[1] = "localizedorgunit" /\ rs[k] # NoRow
                              => rs[k].val \in Values
    PROVE  OrgName(rs, o) \subseteq Values
  BY DEF OrgName

\* Writing a row of another table leaves the names of the units alone, so
\* every vector stays what the triggers would make of its row.
LEMMA WritesIndexed ==
    ASSUME StoreInd, NEW t \in Tables, NEW i, NEW r, Writes(t, i, r)
    PROVE  Vectors'
<1>1. \A k \in Keys : k[1] = "localizedorgunit" =>
         rows'[k] = rows[k] /\ (Live(k)' <=> Live(k))
  <2> SUFFICES ASSUME NEW k \in Keys, k[1] = "localizedorgunit"
               PROVE  rows'[k] = rows[k]
    BY DEF Live
  <2>1. k # <<t, i>>
    BY DEF Writes
  <2>2. rows' = [rows EXCEPT ![<<t, i>>] = r]
    BY DEF Writes
  <2>3. DOMAIN rows = Keys
    BY DEF StoreInd, WellFormed
  <2> QED
    BY <2>1, <2>2, <2>3
<1>2. \A o : OrgName(rows', o) = OrgName(rows, o)
  BY <1>1, NamesKept DEF Live
<1> SUFFICES ASSUME NEW k \in Keys, Live(k)'
             PROVE  Indexed(rows', k[1], k[2], rows'[k])
  BY DEF Vectors, Indexed, OrgName
<1>3. Indexed(rows, k[1], k[2], rows'[k])
  <2>1. CASE k = <<t, i>>
    <3>1. k[1] = t /\ k[2] = i /\ rows'[k] = r /\ Indexed(rows, t, i, r)
      BY <2>1, WritesOne DEF Writes
    <3> QED
      BY <3>1
  <2>2. CASE k # <<t, i>>
    <3>1. rows'[k] = rows[k] /\ Live(k)
      BY <2>2, WritesOne
    <3> QED
      BY <3>1 DEF StoreInd, Vectors
  <2> QED
    BY <2>1, <2>2
<1> QED
  BY <1>2, <1>3 DEF Indexed

-----------------------------------------------------------------------------
(***************************************************************************)
(* DELETE.                                                                 *)
(***************************************************************************)

\* The two rounds of Doomed are all there is: no row outside refers into the
\* set by a key that cascades.  Of persons and units only the one that the
\* statement names goes, and a name of a unit goes only with its unit.
LEMMA DoomedClosed ==
    ASSUME NEW k \in Keys, Live(k)
    PROVE  /\ k \in Doomed(k)
           /\ \A l \in Doomed(k) : l \in Keys /\ Live(l)
           /\ Referring(Doomed(k), "CASCADE") \subseteq Doomed(k)
           /\ \A l \in Doomed(k) \ {k} :
                /\ l[1] \notin {"person", "orgunit"}
                /\ l[1] = "localizedorgunit" =>
                     <<"orgunit", rows[l].ref["org_unit_id"]>> = k
<1> DEFINE first == {k} \cup Referring({k}, "CASCADE")
           all == first \cup Referring(first, "CASCADE")
<1>1. Doomed(k) = all
  BY DEF Doomed
<1>2. \A l \in all : l \in Keys /\ Live(l)
  BY DEF Referring
<1>3. \A S : \A l \in Referring(S, "CASCADE") :
         l[1] \in Tables /\ l[1] \notin {"person", "orgunit"}
  BY KeysAre, ForeignKeyRules DEF Referring
<1>4. \A l \in first : l[1] \in {"person", "orgunit"} => l = k
  BY <1>3
<1>5. \A l \in all \ {k} : l[1] \notin {"person", "orgunit"}
  BY <1>3
<1>6. \A l \in all \ {k} : l[1] \in {"role", "localizedorgunit"} => l \in first
  <2> SUFFICES ASSUME NEW l \in Referring(first, "CASCADE"),
                      l[1] \in {"role", "localizedorgunit"}
               PROVE  l \in first
    OBVIOUS
  <2>1. PICK f \in RefsOf[l[1]] :
           f.del = "CASCADE" /\ <<f.to, rows[l].ref[f.col]>> \in first
    BY DEF Referring
  <2>2. f.to = "orgunit"
    BY <1>3, <2>1, ForeignKeyRules
  <2>3. <<f.to, rows[l].ref[f.col]>> = k
    BY <1>4, <2>1, <2>2
  <2> QED
    BY <2>1, <2>3 DEF Referring
<1>7. \A l \in all \ {k} : l[1] = "localizedorgunit" =>
         <<"orgunit", rows[l].ref["org_unit_id"]>> = k
  <2> SUFFICES ASSUME NEW l \in all \ {k}, l[1] = "localizedorgunit"
               PROVE  <<"orgunit", rows[l].ref["org_unit_id"]>> = k
    OBVIOUS
  <2>1. l \in Referring({k}, "CASCADE")
    BY <1>6
  <2>2. PICK f \in RefsOf[l[1]] :
           f.del = "CASCADE" /\ <<f.to, rows[l].ref[f.col]>> \in {k}
    BY <2>1 DEF Referring
  <2> QED
    BY <1>3, <2>1, <2>2, ForeignKeyRules
<1>8. Referring(all, "CASCADE") \subseteq all
  <2> SUFFICES ASSUME NEW l \in Referring(all, "CASCADE") PROVE l \in all
    OBVIOUS
  <2>1. PICK f \in RefsOf[l[1]] :
           f.del = "CASCADE" /\ <<f.to, rows[l].ref[f.col]>> \in all
    BY DEF Referring
  <2>2. f.to \in {"person", "orgunit", "role"}
    BY <1>3, ForeignKeyRules
  <2>3. <<f.to, rows[l].ref[f.col]>> \in first
    <3> DEFINE m == <<f.to, rows[l].ref[f.col]>>
    <3>1. m \in all /\ m[1] = f.to
      BY <2>1
    <3> HIDE DEF m
    <3>2. CASE m = k
      BY <3>2 DEF m
    <3>3. CASE m # k
      BY <1>5, <1>6, <2>2, <3>1, <3>3 DEF m
    <3> QED
      BY <3>2, <3>3
  <2> QED
    BY <2>1, <2>3 DEF Referring
<1> HIDE DEF all
<1> QED
  BY <1>1, <1>2, <1>5, <1>7, <1>8 DEF all

\* The parent of unit l once row k is gone.
ParentAfter(l, k) == IF <<"orgunit", rows[l].ref["parent_id"]>> = k
                     THEN 0 ELSE rows[l].ref["parent_id"]

\* What a DELETE leaves: exactly the rows that were not doomed, unchanged but
\* for the parents that went away.
LEMMA DeletesRows ==
    ASSUME StoreInd, NEW t \in Tables, NEW i \in Ids(t), Delete(t, i)
    PROVE  /\ DOMAIN rows' = Keys
           /\ \A l \in Keys : Live(l)' <=> Live(l) /\ l \notin Doomed(<<t, i>>)
           /\ \A l \in Keys : Live(l)' /\ l[1] # "orgunit" => rows'[l] = rows[l]
           /\ \A l \in Keys : Live(l)' /\ l[1] = "orgunit" =>
                /\ rows'[l] \in RowOf("orgunit")
                /\ rows'[l].key = rows[l].key /\ rows'[l].val = rows[l].val
                /\ rows'[l].vec = rows[l].vec
                /\ rows'[l].ref["parent_id"] = ParentAfter(l, <<t, i>>)
<1> DEFINE k == <<t, i>>
           dead == Doomed(k)
           nulled == Referring(dead, "SET_NULL") \ dead
<1>1. k \in Keys /\ Live(k)
  BY KeysAre DEF Delete
<1>2. /\ \A l \in dead : l \in Keys /\ Live(l)
      /\ \A l \in dead \ {k} : l[1] \notin {"person", "orgunit"}
      /\ k \in dead
  BY <1>1, DoomedClosed
<1>3. rows' = [l \in Keys |-> IF l \in dead THEN NoRow
                              ELSE IF l \in nulled THEN SetNull(l, dead)
                              ELSE rows[l]]
  BY DEF Delete
<1> HIDE DEF k, dead
<1>4. \A l \in nulled : l \in Keys /\ Live(l) /\ l[1] = "orgunit"
  BY KeysAre, ForeignKeyRules DEF Referring
<1>5. ASSUME NEW l \in Keys, Live(l), l[1] = "orgunit"
      PROVE  /\ rows[l] \in RowOf("orgunit")
             /\ rows[l].ref = [c \in {"parent_id"} |-> rows[l].ref["parent_id"]]
             /\ rows[l].ref["parent_id"] \in Nat
             /\ l \in Referring(dead, "SET_NULL")
                  <=> <<"orgunit", rows[l].ref["parent_id"]>> = k
  <2>1. rows[l] \in RowOf("orgunit")
    BY <1>5 DEF StoreInd, WellFormed
  <2>2. rows[l].ref \in [{"parent_id"} -> Nat]
    BY <2>1, ColumnsAre DEF RowOf
  <2>3. \A f : f \in RefsOf[l[1]] <=> f = Ref("parent_id", "orgunit", "SET_NULL")
    BY <1>5, RefsAre
  <2>4. l \in Referring(dead, "SET_NULL")
          <=> <<"orgunit", rows[l].ref["parent_id"]>> \in dead
    <3> DEFINE g == Ref("parent_id", "orgunit", "SET_NULL")
    <3>1. g.col = "parent_id" /\ g.to = "orgunit" /\ g.del = "SET_NULL"
      BY DEF Ref
    <3>2. l \in Referring(dead, "SET_NULL") <=>
             \E f \in RefsOf[l[1]] : f.del = "SET_NULL"
                /\ <<f.to, rows[l].ref[f.col]>> \in dead
      BY <1>5 DEF Referring
    <3> HIDE DEF g
    <3> QED
      BY <2>3, <3>1, <3>2 DEF g
  <2>5. <<"orgunit", rows[l].ref["parent_id"]>> \in dead
          <=> <<"orgunit", rows[l].ref["parent_id"]>> = k
    <3> DEFINE p == <<"orgunit", rows[l].ref["parent_id"]>>
    <3>1. p[1] = "orgunit"
      OBVIOUS
    <3> HIDE DEF p
    <3>2. p \in dead <=> p = k
      BY <1>2, <3>1
    <3> QED
      BY <3>2 DEF p
  <2> QED
    BY <2>1, <2>2, <2>4, <2>5
<1>6. ASSUME NEW l \in nulled
      PROVE  SetNull(l, dead) = [rows[l] EXCEPT !.ref = [c \in {"parent_id"} |-> 0]]
  <2>1. l[1] = "orgunit" /\ Columns[l[1]] = {"parent_id"}
    BY <1>4, ColumnsAre
  <2>2. \E f \in RefsOf[l[1]] : f.del = "SET_NULL"
                                /\ <<f.to, rows[l].ref[f.col]>> \in dead
    BY DEF Referring
  <2>3. \E f \in RefsOf[l[1]] :
           /\ f.col = "parent_id" /\ f.del = "SET_NULL"
           /\ <<f.to, rows[l].ref["parent_id"]>> \in dead
    BY <2>1, <2>2, ForeignKeyRules DEF Tables
  <2> QED
    BY <2>1, <2>3 DEF SetNull
<1>7. ASSUME NEW l \in Keys, Live(l), l \notin dead, l[1] = "orgunit"
      PROVE  /\ rows'[l] \in RowOf("orgunit")
             /\ rows'[l].key = rows[l].key /\ rows'[l].val = rows[l].val
             /\ rows'[l].vec = rows[l].vec
             /\ rows'[l].ref["parent_id"] = ParentAfter(l, k)
  <2>1. CASE l \in nulled
    <3>1. rows'[l] = [rows[l] EXCEPT !.ref = [c \in {"parent_id"} |-> 0]]
      BY <1>3, <1>6, <1>7, <2>1
    <3> QED
      BY <1>5, <1>7, <2>1, <3>1, ColumnsAre DEF RowOf, ParentAfter
  <2>2. CASE l \notin nulled
    <3>1. rows'[l] = rows[l]
      BY <1>3, <1>7, <2>2
    <3> QED
      BY <1>5, <1>7, <2>2, <3>1 DEF ParentAfter
  <2> QED
    BY <2>1, <2>2
<1>8. ASSUME NEW l \in Keys, l \notin dead, l[1] # "orgunit"
      PROVE  rows'[l] = rows[l]
  BY <1>3, <1>4, <1>8
<1>9. ASSUME NEW l \in Keys
      PROVE  Live(l)' <=> Live(l) /\ l \notin dead
  <2>1. CASE l \in dead
    BY <1>3, <2>1 DEF Live
  <2>2. CASE l \notin dead /\ ~Live(l)
    BY <1>3, <1>4, <2>2 DEF Live
  <2>3. CASE l \notin dead /\ Live(l) /\ l[1] # "orgunit"
    BY <1>8, <2>3 DEF Live
  <2>4. CASE l \notin dead /\ Live(l) /\ l[1] = "orgunit"
    <3>1. rows'[l] \in RowOf("orgunit")
      BY <1>7, <2>4
    <3>2. rows'[l] # NoRow
      BY <3>1, RowIsLive DEF Tables
    <3> QED
      BY <2>4, <3>2 DEF Live
  <2> QED
    BY <2>1, <2>2, <2>3, <2>4
<1>10. DOMAIN rows' = Keys
  BY <1>3
<1> QED
  BY <1>7, <1>8, <1>9, <1>10 DEF k, dead

\* A DELETE keeps the rows well formed.
LEMMA DeletesWellFormed ==
    ASSUME StoreInd, NEW t \in Tables, NEW i \in Ids(t), Delete(t, i)
    PROVE  WellFormed'
<1>1. nextId' = nextId /\ DOMAIN rows' = Keys
  BY DeletesRows DEF Delete
<1>2. \A l \in Keys : Live(l)' => Live(l) /\ rows'[l] \in RowOf(l[1])
  <2> SUFFICES ASSUME NEW l \in Keys, Live(l)'
               PROVE  Live(l) /\ rows'[l] \in RowOf(l[1])
    OBVIOUS
  <2>1. Live(l) /\ rows[l] \in RowOf(l[1])
    BY DeletesRows DEF StoreInd, WellFormed
  <2>2. CASE l[1] = "orgunit"
    BY <2>1, <2>2, DeletesRows
  <2>3. CASE l[1] # "orgunit"
    <3>1. rows'[l] = rows[l]
      BY <2>3, DeletesRows
    <3> QED
      BY <2>1, <3>1
  <2> QED
    BY <2>2, <2>3, <2>1
<1> QED
  BY <1>1, <1>2 DEF WellFormed, StoreInd

\* After a DELETE no reference dangles: what referred to a row that went has
\* gone with it or has become a root.
LEMMA DeletesLegal ==
    ASSUME StoreInd, NEW t \in Tables, NEW i \in Ids(t), Delete(t, i)
    PROVE  RefIntegrity'
<1> DEFINE k == <<t, i>>
           dead == Doomed(k)
<1> SUFFICES ASSUME NEW l \in Keys, Live(l)'
             PROVE  Legal(l[1], l[2], rows[l])'
  BY DEF RefIntegrity
<1> DEFINE u == l[1]
           j == l[2]
<1>1. l = <<u, j>> /\ u \in Tables /\ j \in Ids(u)
  BY KeysAre
<1>2. k \in Keys /\ Live(k)
  BY KeysAre DEF Delete
<1>3. Live(l) /\ l \notin dead
  BY DeletesRows
<1>4. Legal(u, j, rows[l])
  BY <1>3 DEF StoreInd, RefIntegrity
<1>5. /\ Referring(dead, "CASCADE") \subseteq dead
      /\ \A m \in dead \ {k} : m[1] \notin {"person", "orgunit"}
  BY <1>2, DoomedClosed
<1> HIDE DEF u, j, k, dead
<1>6. \A v \in Tables : \A m \in LiveIds(v) :
         <<v, m>> \notin dead => m \in LiveIds(v)'
  BY KeysAre, DeletesRows DEF LiveIds, dead, k
<1>7. \A v \in Tables : LiveIds(v)' \subseteq LiveIds(v)
  BY KeysAre, DeletesRows DEF LiveIds
<1>8. RefsExist(u, rows[l])'
  <2> SUFFICES ASSUME NEW f \in RefsOf[u], rows'[l].ref[f.col] # 0
               PROVE  rows'[l].ref[f.col] \in LiveIds(f.to)'
    BY DEF RefsExist
  <2>1. f.to \in Tables
    BY <1>1, ForeignKeyRules DEF Tables
  <2>2. CASE f.del = "CASCADE"
    <3>1. u # "orgunit"
      BY <1>1, <2>2, ForeignKeyRules
    <3>2. rows'[l] = rows[l]
      BY <3>1, DeletesRows DEF u
    <3>3. rows[l].ref[f.col] \in LiveIds(f.to)
      BY <1>4, <3>2 DEF Legal, RefsExist
    <3>4. <<f.to, rows[l].ref[f.col]>> \notin dead
      BY <1>3, <1>5, <2>2 DEF Referring, u
    <3> QED
      BY <1>6, <2>1, <3>2, <3>3, <3>4
  <2>3. CASE f.del = "SET_NULL"
    <3>1. u = "orgunit" /\ f.to = "orgunit" /\ f.col = "parent_id"
      BY <1>1, <2>3, ForeignKeyRules
    <3> DEFINE p == rows[l].ref["parent_id"]
    <3>2. rows'[l].ref["parent_id"] = p /\ <<"orgunit", p>> # k
      <4>1. rows'[l].ref["parent_id"] # 0
        BY <3>1
      <4>2. rows'[l].ref["parent_id"] = ParentAfter(l, k)
        BY <3>1, DeletesRows DEF u, k
      <4> QED
        BY <4>1, <4>2 DEF ParentAfter
    <3> HIDE DEF p
    <3>3. p \in LiveIds("orgunit")
      BY <1>4, <3>1, <3>2 DEF Legal, RefsExist, p
    <3>4. <<"orgunit", p>> \notin dead
      BY <1>5, <3>2
    <3> QED
      BY <1>6, <2>1, <3>1, <3>2, <3>3, <3>4
  <2> QED
    BY <1>1, <2>2, <2>3, ForeignKeyRules
<1>9. CASE u = "orgunit"
  <2>1. Checks(u, rows[l])' /\ NoClash(u, j, rows[l])'
    BY <1>9 DEF Checks, NoClash, Apart, Owned
  <2> QED
    BY <1>8, <2>1 DEF Legal, u, j
<1>10. CASE u # "orgunit"
  <2>1. rows'[l] = rows[l]
    BY <1>10, DeletesRows DEF u
  <2>2. NoClash(u, j, rows[l])'
    <3> SUFFICES ASSUME NEW m \in LiveIds(u)' \ {j}
                 PROVE  Apart(u, rows'[<<u, m>>], rows'[l])
      BY DEF NoClash, Apart
    <3>1. m \in LiveIds(u) \ {j} /\ <<u, m>> \in Keys /\ Live(<<u, m>>)'
      BY <1>1, <1>7, KeysAre DEF LiveIds
    <3>2. rows'[<<u, m>>] = rows[<<u, m>>]
      BY <1>10, <3>1, DeletesRows
    <3> QED
      BY <1>4, <2>1, <3>1, <3>2 DEF Legal, NoClash
  <2>3. Checks(u, rows[l])'
    BY <1>4, <2>1 DEF Legal, Checks, OneOf
  <2> QED
    BY <1>8, <2>2, <2>3 DEF Legal, u, j
<1> QED
  BY <1>9, <1>10

\* After a DELETE the vectors still say what the rows hold: the names of a
\* unit that stays, stay.
LEMMA DeletesIndexed ==
    ASSUME StoreInd, NEW t \in Tables \ {"localizedorgunit"},
           NEW i \in Ids(t), Delete(t, i)
    PROVE  Vectors'
<1> SUFFICES ASSUME NEW l \in Keys, Live(l)'
             PROVE  Indexed(rows', l[1], l[2], rows'[l])
  BY DEF Vectors, Indexed, OrgName
<1> DEFINE k == <<t, i>>
<1>1. Live(l) /\ l \notin Doomed(k) /\ Indexed(rows, l[1], l[2], rows[l])
  BY DeletesRows DEF StoreInd, Vectors
<1>2. k \in Keys /\ Live(k)
  BY KeysAre DEF Delete
<1>3. CASE l[1] = "person"
  BY <1>1, <1>3, DeletesRows DEF Indexed
<1>4. CASE l[1] = "orgunit"
  <2>1. l = <<"orgunit", l[2]>> /\ l # k
    BY <1>1, <1>2, <1>4, KeysAre, DoomedClosed
  <2>2. ASSUME NEW m \in Keys, m[1] = "localizedorgunit"
        PROVE  /\ Live(m)' /\ rows'[m].ref["org_unit_id"] = l[2]
                    <=> Live(m) /\ rows[m].ref["org_unit_id"] = l[2]
               /\ Live(m)' => rows'[m] = rows[m]
    <3>1. Live(m)' => Live(m) /\ rows'[m] = rows[m]
      BY <2>2, DeletesRows
    <3>2. Live(m) /\ rows[m].ref["org_unit_id"] = l[2] => m \notin Doomed(k)
      <4>1. m # k
        BY <2>2
      <4> QED
        BY <1>2, <2>1, <2>2, <4>1, DoomedClosed
    <3> QED
      BY <3>1, <3>2, DeletesRows
  <2>3. OrgName(rows', l[2]) = OrgName(rows, l[2])
    BY <2>2, NamesKept DEF Live
  <2> QED
    BY <1>1, <1>4, <2>3, DeletesRows DEF Indexed
<1> QED
  BY <1>3, <1>4 DEF Indexed

-----------------------------------------------------------------------------
(***************************************************************************)
(* insert_localized, which also refreshes the unit it names.               *)
(***************************************************************************)

Localizes(o, l, v) ==
    LET t == "localizedorgunit"
        i == nextId[t]
        r == Row(Refs(t, [org_unit_id |-> o]), l, v)
    IN  /\ Room(t)
        /\ Legal(t, i, r)
        /\ rows' = Refresh([rows EXCEPT ![<<t, i>>] = r], o)
        /\ nextId' = [nextId EXCEPT ![t] = i + 1]

\* The new row names a unit that is there, and the unit's vector, and nothing
\* else of any row, is made again from the names it has now.
LEMMA LocalizesRows ==
    ASSUME StoreInd, NEW o \in IdArg("orgunit"), NEW l \in Locales,
           NEW v \in Values, Localizes(o, l, v)
    PROVE  LET t == "localizedorgunit"
               i == nextId[t]
               r == Row([c \in {"org_unit_id"} |-> o], l, v)
               k == <<t, i>>
               m == <<"orgunit", o>>
           IN  /\ k \in Keys /\ ~Live(k) /\ i \in Nat
               /\ m \in Keys /\ Live(m)
               /\ r \in RowOf(t) /\ Legal(t, i, r)
               /\ DOMAIN rows' = Keys
               /\ rows'[k] = r
               /\ rows'[m] = [rows[m] EXCEPT !.vec =
                                OrgName(rows', o) \cup ({rows[m].val} \ {None})]
               /\ \A n \in Keys \ {k, m} : rows'[n] = rows[n]
<1> DEFINE t == "localizedorgunit"
           i == nextId[t]
           r == Row([c \in {"org_unit_id"} |-> o], l, v)
           k == <<t, i>>
           m == <<"orgunit", o>>
           mid == [rows EXCEPT ![k] = r]
<1>1. t \in Tables /\ "orgunit" \in Tables
  BY DEF Tables
<1>2. Refs(t, [org_unit_id |-> o]) = [c \in {"org_unit_id"} |-> o]
  BY ColumnsAre DEF Refs
<1>3. /\ i \in Ids(t) /\ Legal(t, i, r)
      /\ rows' = Refresh(mid, o) /\ nextId' = [nextId EXCEPT ![t] = i + 1]
  BY <1>2 DEF Localizes, Room
<1>4. k \in Keys /\ i \in Nat /\ o \in Nat
  BY <1>1, <1>3, KeysAre, IdsAre
<1>5. ~Live(k)
  BY <1>1, <1>4 DEF StoreInd, WellFormed
<1>6. r.ref["org_unit_id"] = o /\ r.key = l /\ r.val = v
  BY DEF Row
<1>7. o \in LiveIds("orgunit")
  <2>1. o # 0
    BY <1>3, <1>6, ColumnsAre DEF Legal, Checks, Owned
  <2>2. Ref("org_unit_id", "orgunit", "CASCADE") \in RefsOf[t]
    BY RefsAre
  <2> QED
    BY <1>3, <1>6, <2>1, <2>2 DEF Legal, RefsExist, Ref
<1>8. m \in Keys /\ Live(m) /\ m # k
  BY <1>1, <1>7, KeysAre DEF LiveIds
<1>9. r \in RowOf(t)
  BY <1>4, ColumnsAre DEF Row, RowOf, KeyOf, ValOf
<1>10. DOMAIN mid = Keys /\ mid[k] = r /\ \A n \in Keys \ {k} : mid[n] = rows[n]
  BY <1>4 DEF StoreInd, WellFormed
<1> HIDE DEF r, k, m, mid
<1>11. rows' = [mid EXCEPT ![m] = fn_orgunit_search_vector(mid, o, mid[m])]
  BY <1>3 DEF Refresh, m
<1>12. /\ DOMAIN rows' = Keys
       /\ rows'[m] = [rows[m] EXCEPT !.vec =
                        OrgName(mid, o) \cup ({rows[m].val} \ {None})]
       /\ \A n \in Keys \ {m} : rows'[n] = mid[n]
  BY <1>8, <1>10, <1>11 DEF fn_orgunit_search_vector
<1>13. OrgName(rows', o) = OrgName(mid, o)
  <2>1. \A n \in Keys : n[1] = "localizedorgunit" => rows'[n] = mid[n]
    BY <1>12 DEF m
  <2> QED
    BY <2>1, NamesKept
<1> QED
  BY <1>3, <1>4, <1>5, <1>8, <1>9, <1>10, <1>12, <1>13 DEF r, k, m

\* A new name keeps the store as it should be, and takes no row away.
LEMMA LocalizesKeeps ==
    ASSUME StoreInd, NEW o \in IdArg("orgunit"), NEW l \in Locales,
           NEW v \in Values, Localizes(o, l, v)
    PROVE  StoreInd' /\ \A n \in Keys : Live(n) => Live(n)'
<1> DEFINE t == "localizedorgunit"
           i == nextId[t]
           r == Row([c \in {"org_unit_id"} |-> o], l, v)
           k == <<t, i>>
           m == <<"orgunit", o>>
<1>1. /\ k \in Keys /\ ~Live(k) /\ i \in Nat
      /\ m \in Keys /\ Live(m)
      /\ r \in RowOf(t) /\ Legal(t, i, r)
      /\ DOMAIN rows' = Keys
      /\ rows'[k] = r
      /\ rows'[m] = [rows[m] EXCEPT !.vec =
                       OrgName(rows', o) \cup ({rows[m].val} \ {None})]
      /\ \A n \in Keys \ {k, m} : rows'[n] = rows[n]
  BY LocalizesRows
<1>2. /\ t \in Tables /\ "orgunit" \in Tables /\ k[1] = t /\ k[2] = i
      /\ m[1] = "orgunit" /\ m[2] = o /\ k # m
  BY DEF Tables
<1>3. r.ref["org_unit_id"] = o /\ r.val = v
  BY DEF Row
<1>4. nextId' = [nextId EXCEPT ![t] = i + 1]
  BY DEF Localizes
<1> HIDE DEF t, i, r, k, m
<1>5. r # NoRow
  BY <1>1, <1>2, RowIsLive
<1>6. rows[m] \in RowOf("orgunit")
  BY <1>1, <1>2 DEF StoreInd, WellFormed
<1>7. OrgName(rows', o) \subseteq Values
  <2>1. \A n \in Keys : n[1] = "localizedorgunit" /\ rows'[n] # NoRow
                           => rows'[n].val \in Values
    <3> SUFFICES ASSUME NEW n \in Keys, n[1] = "localizedorgunit",
                        rows'[n] # NoRow
                 PROVE  rows'[n].val \in Values
      OBVIOUS
    <3>1. CASE n = k
      BY <1>1, <1>3, <3>1
    <3>2. CASE n # k
      <4>1. rows'[n] = rows[n] /\ Live(n)
        BY <1>1, <1>2, <3>2 DEF Live
      <4>2. rows[n] \in RowOf("localizedorgunit")
        BY <4>1 DEF StoreInd, WellFormed
      <4> QED
        BY <4>1, <4>2 DEF RowOf, ValOf
    <3> QED
      BY <3>1, <3>2
  <2> QED
    BY <2>1, NamesAreValues
<1>8. /\ rows'[m] \in RowOf("orgunit")
      /\ rows'[m].ref = rows[m].ref /\ rows'[m].key = rows[m].key
      /\ rows'[m].val = rows[m].val
      /\ rows'[m].vec = OrgName(rows', o) \cup ({rows[m].val} \ {None})
  BY <1>1, <1>6, <1>7 DEF RowOf, ValOf
<1>9. rows'[m] # NoRow
  BY <1>2, <1>8, RowIsLive
<1>10. \A n \in Keys : Live(n)' <=> Live(n) \/ n = k
  BY <1>1, <1>5, <1>9 DEF Live
<1>11. WellFormed'
  <2>1. \A n \in Keys : Live(n)' => rows'[n] \in RowOf(n[1])
    <3> SUFFICES ASSUME NEW n \in Keys, Live(n)' PROVE rows'[n] \in RowOf(n[1])
      OBVIOUS
    <3>1. CASE n = k
      BY <1>1, <1>2, <3>1
    <3>2. CASE n = m
      BY <1>2, <1>8, <3>2
    <3>3. CASE n \notin {k, m}
      <4>1. rows'[n] = rows[n] /\ Live(n)
        BY <1>1, <1>10, <3>3
      <4> QED
        BY <4>1 DEF StoreInd, WellFormed
    <3> QED
      BY <3>1, <3>2, <3>3
  <2>2. nextId' \in [Tables -> Nat] /\ \A u \in Tables : nextId[u] <= nextId'[u]
    BY <1>1, <1>2, <1>4 DEF StoreInd, WellFormed, i
  <2>3. \A n \in Keys : Live(n)' => n[2] < nextId'[n[1]]
    <3> SUFFICES ASSUME NEW n \in Keys, Live(n)' PROVE n[2] < nextId'[n[1]]
      OBVIOUS
    <3>1. n[1] \in Tables /\ n[2] \in Nat /\ nextId \in [Tables -> Nat]
      BY KeysAre, IdsAre DEF StoreInd, WellFormed
    <3>2. CASE Live(n)
      BY <2>2, <3>1, <3>2 DEF StoreInd, WellFormed
    <3>3. CASE n = k
      BY <1>1, <1>2, <1>4, <3>1, <3>3
    <3> QED
      BY <1>10, <3>2, <3>3
  <2> QED
    BY <1>1, <2>1, <2>2, <2>3 DEF WellFormed
<1>12. RefIntegrity'
  <2> SUFFICES ASSUME NEW n \in Keys, Live(n)'
               PROVE  Legal(n[1], n[2], rows[n])'
    BY DEF RefIntegrity
  <2> DEFINE u == n[1]
             j == n[2]
  <2>1. n = <<u, j>> /\ u \in Tables /\ j \in Ids(u)
    BY KeysAre
  <2>2. /\ Live(n) => Legal(u, j, rows[n])
        /\ n = k => u = t /\ j = i /\ rows'[n] = r
    BY <1>1, <1>2 DEF StoreInd, RefIntegrity
  <2> HIDE DEF u, j
  <2>3. \A w \in Tables : LiveIds(w) \subseteq LiveIds(w)'
    BY <1>10, KeysAre DEF LiveIds
  <2>4. \A f \in RefsOf[u] : f.to \in Tables
    BY <2>1, ForeignKeyRules DEF Tables
  <2>5. /\ n # k => rows'[n].ref = rows[n].ref /\ rows'[n].key = rows[n].key
        /\ n \notin {k, m} => rows'[n] = rows[n]
    BY <1>1, <1>8
  <2>6. RefsExist(u, rows'[n]) /\ Checks(u, rows'[n])
    <3>1. CASE n = k
      <4>1. Legal(u, j, rows'[n])
        BY <1>1, <2>2, <3>1
      <4> QED
        BY <4>1 DEF Legal
    <3>2. CASE n # k
      <4>1. Legal(u, j, rows[n]) /\ rows'[n].ref = rows[n].ref
        BY <1>10, <2>2, <2>5, <3>2
      <4> QED
        BY <4>1 DEF Legal, RefsExist, Checks, OneOf
    <3> QED
      BY <3>1, <3>2
  <2>7. RefsExist(u, rows[n])'
    BY <2>3, <2>4, <2>6 DEF RefsExist
  <2>8. Checks(u, rows[n])'
    BY <2>6 DEF Checks, OneOf
  <2>9. NoClash(u, j, rows[n])'
    <3> SUFFICES ASSUME NEW x \in LiveIds(u)' \ {j}
                 PROVE  Apart(u, rows'[<<u, x>>], rows'[n])
      BY DEF NoClash, Apart
    <3>1. x \in Ids(u) /\ <<u, x>> \in Keys /\ <<u, x>> # n /\ Live(<<u, x>>)'
      BY <2>1, KeysAre DEF LiveIds
    <3>2. CASE u = "orgunit"
      BY <3>2 DEF Apart
    <3>3. CASE u # "orgunit" /\ n = k
      <4>1. rows'[<<u, x>>] = rows[<<u, x>>] /\ x \in LiveIds(u) \ {j}
        BY <1>1, <1>2, <1>10, <3>1, <3>3 DEF LiveIds
      <4>2. Legal(u, j, rows'[n])
        BY <1>1, <2>2, <3>3
      <4> QED
        BY <4>1, <4>2 DEF Legal, NoClash
    <3>4. CASE u # "orgunit" /\ n # k /\ <<u, x>> = k
      <4>1. rows'[n] = rows[n] /\ Live(n) /\ n # m
        BY <1>2, <1>10, <2>1, <2>5, <3>4
      <4>2. u = t /\ x = i /\ rows'[<<u, x>>] = r
        BY <1>1, <3>4 DEF k
      <4>3. j \in LiveIds(t) \ {i}
        BY <2>1, <3>1, <4>1, <4>2 DEF LiveIds
      <4>4. Apart(t, rows[<<t, j>>], r)
        BY <1>1, <4>3 DEF Legal, NoClash
      <4>5. Apart(u, rows[n], r)
        BY <2>1, <4>2, <4>4
      <4> QED
        BY <4>1, <4>2, <4>5, ApartSymmetric
    <3>5. CASE u # "orgunit" /\ n # k /\ <<u, x>> # k
      <4>1. rows'[n] = rows[n] /\ Live(n)
        BY <1>2, <1>10, <2>1, <2>5, <3>5
      <4>2. rows'[<<u, x>>] = rows[<<u, x>>] /\ x \in LiveIds(u) \ {j}
        BY <1>1, <1>2, <1>10, <3>1, <3>5 DEF LiveIds
      <4> QED
        BY <2>2, <4>1, <4>2 DEF Legal, NoClash
    <3> QED
      BY <3>2, <3>3, <3>4, <3>5
  <2> QED
    BY <2>7, <2>8, <2>9 DEF Legal, u, j
<1>13. Vectors'
  <2> SUFFICES ASSUME NEW n \in Keys, Live(n)'
               PROVE  Indexed(rows', n[1], n[2], rows'[n])
    BY DEF Vectors, Indexed, OrgName
  <2>1. CASE n = k
    BY <1>2, <2>1 DEF Indexed, t
  <2>2. CASE n = m
    BY <1>2, <1>8, <2>2 DEF Indexed
  <2>3. CASE n \notin {k, m}
    <3>1. Live(n) /\ rows'[n] = rows[n] /\ Indexed(rows, n[1], n[2], rows[n])
      BY <1>1, <1>10, <2>3 DEF StoreInd, Vectors
    <3>2. CASE n[1] = "orgunit"
      <4>1. n[2] # o
        BY <2>3, <3>2, KeysAre DEF m
      <4>2. \A x \in Keys : x[1] = "localizedorgunit" =>
               \/ x = k /\ rows'[x].ref["org_unit_id"] = o /\ rows[x] = NoRow
               \/ rows'[x] = rows[x]
        BY <1>1, <1>2, <1>3 DEF Live
      <4>3. OrgName(rows', n[2]) = OrgName(rows, n[2])
        BY <4>1, <4>2, NamesKept
      <4> QED
        BY <3>1, <3>2, <4>3 DEF Indexed
    <3>3. CASE n[1] # "orgunit"
      BY <3>1, <3>3 DEF Indexed
    <3> QED
      BY <3>2, <3>3
  <2> QED
    BY <2>1, <2>2, <2>3
<1> QED
  BY <1>10, <1>11, <1>12, <1>13 DEF StoreInd

-----------------------------------------------------------------------------
(***************************************************************************)
(* The operations of the DAOs, by what they do to the rows.                *)
(***************************************************************************)

\* The log has an entry for the row that is written.
WriteLogged(t, i) ==
    t \in Audited =>
       [key |-> <<t, i>>, action |-> IF Live(<<t, i>>) THEN "U" ELSE "C"] \in log'

\* What fn_audit_log is told, of audited tables, is in the log.
LEMMA AuditLogWrites ==
    ASSUME NEW S, fn_audit_log(S), NEW k, NEW a, <<k, a>> \in S, k[1] \in Audited
    PROVE  [key |-> k, action |-> a] \in log'
<1>1. <<k, a>>[1] = k /\ <<k, a>>[2] = a
  OBVIOUS
<1> QED
  BY <1>1 DEF fn_audit_log

\* An INSERT writes the row under the next id.
LEMMA InsertWrites ==
    ASSUME StoreInd, NEW t \in Tables \ {"localizedorgunit"},
           NEW r \in RowOf(t), Indexed(rows, t, nextId[t], r), Insert(t, r)
    PROVE  Writes(t, nextId[t], r) /\ WriteLogged(t, nextId[t])
<1> DEFINE i == nextId[t]
<1>1. i \in Ids(t) /\ <<t, i>> \in Keys /\ i \in Nat
  BY KeysAre, IdsAre DEF Insert, Room
<1>2. ~Live(<<t, i>>)
  BY <1>1 DEF StoreInd, WellFormed
<1>3. Writes(t, i, r)
  BY <1>1, <1>2 DEF Insert, Writes
<1>4. fn_audit_log({<<<<t, i>>, "C">>})
  BY DEF Insert
<1>5. t \in Audited => [key |-> <<t, i>>, action |-> "C"] \in log'
  <2> DEFINE k == <<t, i>>
             S == {<<k, "C">>}
  <2>1. fn_audit_log(S) /\ <<k, "C">> \in S /\ k[1] = t
    BY <1>4
  <2> HIDE DEF k, S
  <2>2. t \in Audited => [key |-> k, action |-> "C"] \in log'
    BY <2>1, AuditLogWrites
  <2> QED
    BY <2>2 DEF k
<1> QED
  BY <1>2, <1>3, <1>5 DEF WriteLogged

\* An UPDATE writes a row that is there.
LEMMA UpdateWrites ==
    ASSUME NEW t \in Tables \ {"localizedorgunit"}, NEW i \in Ids(t),
           NEW r \in RowOf(t), Indexed(rows, t, i, r), Update(t, i, r)
    PROVE  Writes(t, i, r) /\ WriteLogged(t, i)
<1>1. fn_audit_log({<<<<t, i>>, "U">>})
  BY DEF Update
<1>2. t \in Audited => [key |-> <<t, i>>, action |-> "U"] \in log'
  <2> DEFINE k == <<t, i>>
             S == {<<k, "U">>}
  <2>1. fn_audit_log(S) /\ <<k, "U">> \in S /\ k[1] = t
    BY <1>1
  <2> HIDE DEF k, S
  <2>2. t \in Audited => [key |-> k, action |-> "U"] \in log'
    BY <2>1, AuditLogWrites
  <2> QED
    BY <2>2 DEF k
<1> QED
  BY <1>2 DEF Update, Writes, WriteLogged

\* The rows that PersonDAO and OrgDAO write.
LEMMA EntityRows ==
    /\ \A i : \A v \in Values, k \in KeyValues \cup {None} :
          /\ PersonRow(k, v) \in RowOf("person")
          /\ Indexed(rows, "person", i, PersonRow(k, v))
    /\ StoreInd => \A o : \A p \in Nat, v \in Values \cup {None} :
          /\ OrgRow(o, p, v) \in RowOf("orgunit")
          /\ Indexed(rows, "orgunit", o, OrgRow(o, p, v))
<1>1. ASSUME NEW i, NEW v \in Values, NEW k \in KeyValues \cup {None}
      PROVE  /\ PersonRow(k, v) \in RowOf("person")
             /\ Indexed(rows, "person", i, PersonRow(k, v))
  <2>1. PersonRow(k, v) = [ref |-> <<>>, key |-> k, val |-> v,
                           vec |-> {k, v} \ {None}]
    BY DEF PersonRow, fn_person_search_vector, Row
  <2>2. <<>> \in [Columns["person"] -> Nat]
    BY ColumnsAre
  <2> QED
    BY <2>1, <2>2 DEF RowOf, KeyOf, ValOf, Indexed
<1>2. ASSUME StoreInd, NEW o, NEW p \in Nat, NEW v \in Values \cup {None}
      PROVE  /\ OrgRow(o, p, v) \in RowOf("orgunit")
             /\ Indexed(rows, "orgunit", o, OrgRow(o, p, v))
  <2> DEFINE x == Refs("orgunit", [parent_id |-> p])
  <2>1. OrgRow(o, p, v) = [ref |-> x, key |-> None, val |-> v,
                           vec |-> OrgName(rows, o) \cup ({v} \ {None})]
    BY DEF OrgRow, fn_orgunit_search_vector, Row
  <2>2. x \in [Columns["orgunit"] -> Nat]
    BY ColumnsAre DEF Refs
  <2>3. OrgName(rows, o) \subseteq Values
    <3>1. \A k \in Keys : k[1] = "localizedorgunit" /\ rows[k] # NoRow
                             => rows[k].val \in Values
      BY <1>2 DEF StoreInd, WellFormed, Live, RowOf, ValOf
    <3> QED
      BY <3>1, NamesAreValues
  <2> HIDE DEF x
  <2> QED
    BY <2>1, <2>2, <2>3 DEF RowOf, KeyOf, ValOf, Indexed
<1> QED
  BY <1>1, <1>2

\* A row of any other table needs only its references and its content.
LEMMA OtherRows ==
    ASSUME NEW t \in Tables \ {"person", "orgunit", "localizedorgunit"},
           NEW x \in [Columns[t] -> Nat],
           NEW k \in KeyValues \cup Locales \cup Categories \cup {None},
           NEW v \in Values \cup {None} \cup BOOLEAN
    PROVE  Row(x, k, v) \in RowOf(t) /\ \A i : Indexed(rows, t, i, Row(x, k, v))
  BY DEF Row, RowOf, KeyOf, ValOf, Indexed

\* Every operation writes one row, deletes with what hangs on it, or adds a
\* name to a unit.
LEMMA StepKinds ==
    ASSUME StoreInd, Next
    PROVE  \/ \E t \in Tables : \E i, r : Writes(t, i, r) /\ WriteLogged(t, i)
           \/ \E t \in Tables \ {"localizedorgunit"} :
                 \E i \in Ids(t) : Delete(t, i)
           \/ \E o \in IdArg("orgunit"), l \in Locales, v \in Values :
                 /\ Localizes(o, l, v)
                 /\ [key |-> <<"orgunit", o>>, action |-> "U"] \in log'
<1> DEFINE W == \E t \in Tables : \E i, r : Writes(t, i, r) /\ WriteLogged(t, i)
<1>1. ASSUME NEW t \in Tables \ {"localizedorgunit"}, NEW r \in RowOf(t),
             Indexed(rows, t, nextId[t], r), Insert(t, r)
      PROVE  W
  BY <1>1, InsertWrites
<1>2. ASSUME NEW t \in Tables \ {"localizedorgunit"}, NEW i \in Ids(t),
             NEW r \in RowOf(t), Indexed(rows, t, i, r), Update(t, i, r)
      PROVE  W
  BY <1>2, UpdateWrites
<1>3. ASSUME NEW t \in Tables \ {"person", "orgunit", "localizedorgunit"},
             NEW x \in [Columns[t] -> Nat],
             NEW k \in KeyValues \cup Locales \cup Categories \cup {None},
             NEW v \in Values \cup {None} \cup BOOLEAN,
             Insert(t, Row(x, k, v))
      PROVE  W
  BY <1>1, <1>3, OtherRows
<1> HIDE DEF W
<1>4. /\ IdArg("person") \subseteq Nat /\ IdArg("orgunit") \subseteq Nat
      /\ IdArg("role") \subseteq Nat /\ Ids("person") \subseteq Nat
      /\ Ids("orgunit") \subseteq Nat
  BY IdsAre DEF Tables
<1>5. ASSUME insert_person \/ update_person
      PROVE  W
  <2>1. ASSUME NEW k \in KeyValues \cup {None}, NEW v \in Values,
               Insert("person", PersonRow(k, v))
        PROVE  W
    BY <1>1, <2>1, EntityRows DEF Tables
  <2>2. ASSUME NEW i \in Ids("person"), NEW k \in KeyValues \cup {None},
               NEW v \in Values, Update("person", i, PersonRow(k, v))
        PROVE  W
    BY <1>2, <2>2, EntityRows DEF Tables
  <2> QED
    BY <1>5, <2>1, <2>2 DEF insert_person, update_person
<1>6. ASSUME insert_orgunit \/ update_orgunit
      PROVE  W
  <2>1. ASSUME NEW p \in IdArg("orgunit"), NEW v \in Values \cup {None},
               Insert("orgunit", OrgRow(nextId["orgunit"], p, v))
        PROVE  W
    BY <1>1, <1>4, <2>1, EntityRows DEF Tables
  <2>2. ASSUME NEW o \in Ids("orgunit"), NEW p \in IdArg("orgunit"),
               NEW v \in Values \cup {None},
               Update("orgunit", o, OrgRow(o, p, v))
        PROVE  W
    BY <1>2, <1>4, <2>2, EntityRows DEF Tables
  <2> QED
    BY <1>6, <2>1, <2>2 DEF insert_orgunit, update_orgunit
<1>7. ASSUME insert_phone \/ insert_email \/ insert_address
      PROVE  W
  <2>1. ASSUME NEW t \in Owned, NEW o \in Owners
        PROVE  /\ t \in Tables \ {"person", "orgunit", "localizedorgunit"}
               /\ o \in [Columns[t] -> Nat]
    <3>1. t \in Tables \ {"person", "orgunit", "localizedorgunit"}
      BY DEF Owned, Tables
    <3>2. PICK p, q \in Nat : o = [person_id |-> p, org_unit_id |-> q]
      BY <1>4 DEF Owners
    <3>3. o \in [{"person_id", "org_unit_id"} -> Nat]
      BY <3>2
    <3> QED
      BY <3>1, <3>3, ColumnsAre
  <2>2. ASSUME NEW t \in Owned, NEW o \in Owners, NEW k \in KeyValues \cup {None},
               NEW v \in Values \cup {None}, Insert(t, Row(o, k, v))
        PROVE  W
    BY <1>3, <2>1, <2>2
  <2>3. {"phone", "email", "address"} \subseteq Owned
    BY DEF Owned
  <2> QED
    BY <1>7, <2>2, <2>3 DEF insert_phone, insert_email, insert_address
<1>8. ASSUME insert_role \/ insert_localized_role
      PROVE  W
  <2>1. {"role", "localizedrole"} \subseteq
           Tables \ {"person", "orgunit", "localizedorgunit"}
    BY DEF Tables
  <2>2. ASSUME NEW o \in IdArg("orgunit"),
               Insert("role", Row(Refs("role", [org_unit_id |-> o]), None, None))
        PROVE  W
    <3>1. Refs("role", [org_unit_id |-> o]) \in [Columns["role"] -> Nat]
      BY <1>4, ColumnsAre DEF Refs
    <3> QED
      BY <1>3, <2>1, <2>2, <3>1
  <2>3. ASSUME NEW r \in IdArg("role"), NEW l \in Locales, NEW v \in Values,
               Insert("localizedrole",
                      Row(Refs("localizedrole", [role_id |-> r]), l, v))
        PROVE  W
    <3>1. Refs("localizedrole", [role_id |-> r]) \in [Columns["localizedrole"] -> Nat]
      BY <1>4, ColumnsAre DEF Refs
    <3> QED
      BY <1>3, <2>1, <2>3, <3>1
  <2> QED
    BY <1>8, <2>2, <2>3 DEF insert_role, insert_localized_role
<1>9. ASSUME insert_person_org_relation \/ assign_role
      PROVE  W
  <2>1. {"personorgrelation", "personrole"} \subseteq
           Tables \ {"person", "orgunit", "localizedorgunit"}
    BY DEF Tables
  <2>2. ASSUME NEW p \in IdArg("person"), NEW o \in IdArg("orgunit"),
               NEW k \in KeyValues,
               Insert("personorgrelation",
                      Row([person_id |-> p, org_unit_id |-> o], k, None))
        PROVE  W
    <3>1. [person_id |-> p, org_unit_id |-> o]
             \in [Columns["personorgrelation"] -> Nat]
      BY <1>4, ColumnsAre
    <3> QED
      BY <1>3, <2>1, <2>2, <3>1
  <2>3. ASSUME NEW p \in IdArg("person"), NEW r \in IdArg("role"),
               Insert("personrole",
                      Row([person_id |-> p, role_id |-> r], None, None))
        PROVE  W
    <3>1. [person_id |-> p, role_id |-> r] \in [Columns["personrole"] -> Nat]
      BY <1>4, ColumnsAre
    <3> QED
      BY <1>3, <2>1, <2>3, <3>1
  <2> QED
    BY <1>9, <2>2, <2>3 DEF insert_person_org_relation, assign_role
<1>10. ASSUME insert_visibility
      PROVE  W
  <2>1. PICK w \in IdArg("person"), p \in IdArg("person"), r \in IdArg("role"),
             o \in IdArg("orgunit"), c \in Categories, can \in BOOLEAN :
           Insert("datavisibility", Row(FirstViewer(w, p, r, o), c, can))
    BY <1>10 DEF insert_visibility
  <2>2. FirstViewer(w, p, r, o) \in [Columns["datavisibility"] -> Nat]
    BY <1>4, ColumnsAre DEF FirstViewer
  <2>3. "datavisibility" \in Tables \ {"person", "orgunit", "localizedorgunit"}
    BY DEF Tables
  <2> QED
    BY <1>3, <2>1, <2>2, <2>3
<1>11. CASE \/ remove_person \/ remove_orgunit \/ remove_role
            \/ remove_phone \/ remove_email \/ remove_address
            \/ unassign_role \/ remove_visibility
  BY <1>11 DEF remove_person, remove_orgunit, remove_role, remove_phone,
     remove_email, remove_address, unassign_role, remove_visibility, Tables,
     Owned
<1>12. CASE insert_localized
  <2>1. PICK o \in IdArg("orgunit"), l \in Locales, v \in Values :
           /\ Localizes(o, l, v)
           /\ fn_audit_log({<<<<"localizedorgunit", nextId["localizedorgunit"]>>, "C">>,
                            <<<<"orgunit", o>>, "U">>})
    BY <1>12 DEF insert_localized, Localizes
  <2>2. [key |-> <<"orgunit", o>>, action |-> "U"] \in log'
    <3> DEFINE k == <<"orgunit", o>>
               S == {<<<<"localizedorgunit", nextId["localizedorgunit"]>>, "C">>,
                     <<k, "U">>}
    <3>1. fn_audit_log(S) /\ <<k, "U">> \in S /\ k[1] \in Audited
      BY <2>1 DEF Audited, Tables
    <3> HIDE DEF k, S
    <3>2. [key |-> k, action |-> "U"] \in log'
      BY <3>1, AuditLogWrites
    <3> QED
      BY <3>2 DEF k
  <2> QED
    BY <2>1, <2>2
<1> QED
  BY <1>5, <1>6, <1>7, <1>8, <1>9, <1>10, <1>11, <1>12 DEF Next, W

-----------------------------------------------------------------------------
(***************************************************************************)
(* The theorems.                                                           *)
(***************************************************************************)

\* The empty store satisfies the inductive invariant.
LEMMA StoreIndInit ==
    ASSUME Init
    PROVE  StoreInd
<1>1. \A k \in Keys : ~Live(k)
  BY DEF Init, Live
<1>2. WellFormed
  BY <1>1 DEF Init, WellFormed
<1>3. RefIntegrity /\ Vectors
  BY <1>1 DEF RefIntegrity, Vectors
<1> QED
  BY <1>2, <1>3 DEF StoreInd

\* Every statement keeps the inductive invariant.
LEMMA StoreIndNext ==
    ASSUME StoreInd, [Next]_vars
    PROVE  StoreInd'
<1>1. CASE UNCHANGED vars
  <2>1. rows' = rows /\ nextId' = nextId
    BY <1>1 DEF vars
  <2>2. WellFormed'
    BY <2>1 DEF StoreInd, WellFormed, Live
  <2>3. RefIntegrity'
    BY <2>1 DEF StoreInd, RefIntegrity, Legal, RefsExist, NoClash, LiveIds, Live
  <2>4. Vectors'
    BY <2>1 DEF StoreInd, Vectors, Live
  <2> QED
    BY <2>2, <2>3, <2>4 DEF StoreInd
<1>2. CASE Next
  <2>1. ASSUME NEW t \in Tables, NEW i, NEW r, Writes(t, i, r)
        PROVE  StoreInd'
    BY <2>1, WritesWellFormed, WritesLegal, WritesIndexed DEF StoreInd
  <2>2. ASSUME NEW t \in Tables \ {"localizedorgunit"}, NEW i \in Ids(t),
               Delete(t, i)
        PROVE  StoreInd'
    BY <2>2, DeletesWellFormed, DeletesLegal, DeletesIndexed DEF StoreInd
  <2> QED
    BY <1>2, <2>1, <2>2, StepKinds, LocalizesKeeps
<1> QED
  BY <1>1, <1>2

\* What the inductive invariant says of a state.
LEMMA StoreIndImplies ==
    ASSUME StoreInd
    PROVE  StoreInv
<1>1. TypeOK
  <2>1. ASSUME NEW k \in Keys, Live(k)
        PROVE  /\ rows[k].ref \in [Columns[k[1]] -> Nat]
               /\ rows[k].key \in KeyValues \cup Locales \cup Categories \cup {None}
               /\ rows[k].val \in Values \cup {None} \cup BOOLEAN
               /\ rows[k].vec \subseteq Values \cup KeyValues
    <3>1. rows[k] \in RowOf(k[1])
      BY <2>1 DEF StoreInd, WellFormed
    <3> QED
      BY <3>1 DEF RowOf, KeyOf, ValOf
  <2> QED
    BY <2>1 DEF TypeOK, StoreInd, WellFormed
<1>2. VectorFresh
  <2>1. ASSUME NEW o \in LiveIds("orgunit")
        PROVE  LET r     == rows[<<"orgunit", o>>]
                   names == {rows[k].val : k \in {m \in KeysOf("localizedorgunit") :
                                 /\ rows[m].ref["org_unit_id"] = o
                                 /\ rows[m].key = DefaultLocale}}
               IN  r.vec = names \cup ({r.val} \ {None})
    <3> DEFINE k == <<"orgunit", o>>
               A == {m \in KeysOf("localizedorgunit") :
                        /\ rows[m].ref["org_unit_id"] = o
                        /\ rows[m].key = DefaultLocale}
               B == {l \in Keys : /\ l[1] = "localizedorgunit"
                                  /\ rows[l] # NoRow
                                  /\ rows[l].ref["org_unit_id"] = o
                                  /\ rows[l].key = DefaultLocale}
    <3>1. k \in Keys /\ Live(k) /\ k[1] = "orgunit" /\ k[2] = o
      BY <2>1, KeysAre DEF LiveIds, Tables
    <3>2. Indexed(rows, k[1], k[2], rows[k])
      BY <3>1 DEF StoreInd, Vectors
    <3>3. rows[k].vec = OrgName(rows, o) \cup ({rows[k].val} \ {None})
      BY <3>1, <3>2 DEF Indexed
    <3>4. \A m \in KeysOf("localizedorgunit") :
             m \in Keys /\ m[1] = "localizedorgunit" /\ Live(m)
      <4>1. "localizedorgunit" \in Tables
        BY DEF Tables
      <4> QED
        BY <4>1, KeysAre DEF KeysOf, LiveIds
    <3>5. \A m \in Keys : m[1] = "localizedorgunit" /\ Live(m) =>
             m \in KeysOf("localizedorgunit")
      BY KeysAre DEF KeysOf, LiveIds
    <3>6. A = B
      BY <3>4, <3>5 DEF Live
    <3> HIDE DEF A, B
    <3>7. OrgName(rows, o) = {rows[m].val : m \in A}
      BY <3>6 DEF OrgName, B
    <3> QED
      BY <3>3, <3>7 DEF A
  <2> QED
    BY <2>1 DEF VectorFresh
<1> QED
  BY <1>1, <1>2 DEF StoreInv

\* Rows keep their form, and the search vector of every unit is made of its
\* keywords and its default name, whatever was written, deleted or set to
\* null, and in whatever order (fn_orgunit_search_vector,
\* fn_localized_orgunit_refresh_search).
THEOREM StoreSafety == Spec => []StoreInv
<1>1. Init => StoreInd
  BY StoreIndInit
<1>2. StoreInd /\ [Next]_vars => StoreInd'
  BY StoreIndNext
<1>3. StoreInd => StoreInv
  BY StoreIndImplies
<1> QED
  BY <1>1, <1>2, <1>3, PTL DEF Spec

\* No foreign key dangles, and every check and unique index holds, after
\* every cascade of ON DELETE CASCADE and SET NULL.
THEOREM ReferencesHold == Spec => []RefIntegrity
<1>1. Init => StoreInd
  BY StoreIndInit
<1>2. StoreInd /\ [Next]_vars => StoreInd'
  BY StoreIndNext
<1>3. StoreInd => RefIntegrity
  BY DEF StoreInd
<1> QED
  BY <1>1, <1>2, <1>3, PTL DEF Spec

\* A change to a row that a DELETE makes is in the log: "D" for the rows that
\* go, "U" for the units whose parent goes.
LEMMA DeletesLogged ==
    ASSUME StoreInd, NEW t \in Tables, NEW i \in Ids(t), Delete(t, i),
           NEW k \in Keys, k[1] \in Audited, rows'[k] # rows[k]
    PROVE  [key |-> k, action |-> ChangeOf(rows[k], rows'[k])] \in log'
<1> DEFINE d == <<t, i>>
           dead == Doomed(d)
           nulled == Referring(dead, "SET_NULL") \ dead
           S == {<<l, "D">> : l \in dead} \cup {<<l, "U">> : l \in nulled}
<1>1. /\ fn_audit_log(S)
      /\ k \in dead \cup nulled
      /\ k \in dead => rows'[k] = NoRow
  BY DEF Delete
<1>2. d \in Keys /\ Live(d)
  BY KeysAre DEF Delete
<1>3. \A l \in dead : Live(l)
  BY <1>2, DoomedClosed
<1>4. \A l \in nulled : Live(l)
  BY DEF Referring
<1>5. \A l \in Keys : Live(l)' <=> Live(l) /\ l \notin dead
  BY DeletesRows
<1>6. <<k, IF k \in dead THEN "D" ELSE "U">> \in S
  BY <1>1
<1> HIDE DEF S, dead, nulled
<1>7. CASE k \in dead
  <2>1. ChangeOf(rows[k], rows'[k]) = "D"
    BY <1>1, <1>3, <1>7 DEF ChangeOf, Live
  <2>2. [key |-> k, action |-> "D"] \in log'
    BY <1>1, <1>6, <1>7, AuditLogWrites
  <2> QED
    BY <2>1, <2>2
<1>8. CASE k \notin dead
  <2>1. Live(k) /\ Live(k)'
    BY <1>1, <1>4, <1>5, <1>8
  <2>2. ChangeOf(rows[k], rows'[k]) = "U"
    BY <2>1 DEF ChangeOf, Live
  <2>3. [key |-> k, action |-> "U"] \in log'
    BY <1>1, <1>6, <1>8, AuditLogWrites
  <2> QED
    BY <2>2, <2>3
<1> QED
  BY <1>7, <1>8

\* The audit trigger misses nothing: every change of a row of an audited
\* table is in the log with its action, the changes that cascades, SET NULL
\* and the refresh trigger make included (fn_audit_log).
THEOREM ChangesAudited == Spec => AuditedChanges
<1> DEFINE Logged == \A k \in Keys :
              k[1] \in Audited /\ rows'[k] # rows[k] =>
                [key |-> k, action |-> ChangeOf(rows[k], rows'[k])] \in log'
<1>1. ASSUME StoreInd, Next, NEW k \in Keys, k[1] \in Audited, rows'[k] # rows[k]
      PROVE  [key |-> k, action |-> ChangeOf(rows[k], rows'[k])] \in log'
  <2>1. ASSUME NEW t \in Tables, NEW i, NEW r, Writes(t, i, r), WriteLogged(t, i)
        PROVE  [key |-> k, action |-> ChangeOf(rows[k], rows'[k])] \in log'
    <3>1. k = <<t, i>>
      BY <1>1, <2>1, WritesOne
    <3>2. Live(k)' /\ k[1] = t
      BY <1>1, <2>1, <3>1, WritesOne DEF Live
    <3>3. ChangeOf(rows[k], rows'[k]) = IF Live(k) THEN "U" ELSE "C"
      BY <3>2 DEF ChangeOf, Live
    <3> QED
      BY <1>1, <2>1, <3>1, <3>2, <3>3 DEF WriteLogged
  <2>2. ASSUME NEW t \in Tables \ {"localizedorgunit"}, NEW i \in Ids(t),
               Delete(t, i)
        PROVE  [key |-> k, action |-> ChangeOf(rows[k], rows'[k])] \in log'
    BY <1>1, <2>2, DeletesLogged
  <2>3. ASSUME NEW o \in IdArg("orgunit"), NEW l \in Locales, NEW v \in Values,
               Localizes(o, l, v),
               [key |-> <<"orgunit", o>>, action |-> "U"] \in log'
        PROVE  [key |-> k, action |-> ChangeOf(rows[k], rows'[k])] \in log'
    <3> DEFINE n == <<"localizedorgunit", nextId["localizedorgunit"]>>
               m == <<"orgunit", o>>
    <3>1. /\ m \in Keys /\ Live(m)
          /\ rows'[m] = [rows[m] EXCEPT !.vec =
                           OrgName(rows', o) \cup ({rows[m].val} \ {None})]
          /\ \A q \in Keys \ {n, m} : rows'[q] = rows[q]
      BY <1>1, <2>3, LocalizesRows
    <3>2. n[1] = "localizedorgunit" /\ "localizedorgunit" \notin Audited
      BY DEF Audited
    <3>3. k = m
      BY <1>1, <3>1, <3>2
    <3>4. rows'[m] # NoRow
      BY <1>1, <2>3, <3>1, LocalizesKeeps DEF Live
    <3>5. ChangeOf(rows[k], rows'[k]) = "U"
      BY <3>1, <3>3, <3>4 DEF ChangeOf, Live
    <3> QED
      BY <2>3, <3>3, <3>5
  <2> QED
    BY <1>1, <2>1, <2>2, <2>3, StepKinds
<1>2. StoreInd /\ [Next]_vars => [Logged]_vars
  BY <1>1
<1>3. Init => StoreInd
  BY StoreIndInit
<1>4. StoreInd /\ [Next]_vars => StoreInd'
  BY StoreIndNext
<1> QED
  BY <1>2, <1>3, <1>4, PTL DEF Spec, AuditedChanges

\* Removing a person or a unit never takes another one with it; the units
\* right below a removed unit become roots, and no other parent changes
\* (ON DELETE SET NULL of T_OrgUnit.parent_id against all the CASCADEs).
THEOREM EntitiesStay == Spec => EntitiesSurvive
<1> DEFINE Stay(k) == \A e \in Entities \ {k} : Live(e) =>
              /\ rows'[e] # NoRow
              /\ e[1] = "orgunit" =>
                   rows'[e].ref["parent_id"] =
                      IF <<"orgunit", ParentOf(e[2])>> = k THEN 0
                      ELSE ParentOf(e[2])
           Survive == \A k \in Entities : Live(k) /\ rows'[k] = NoRow => Stay(k)
<1>1. ASSUME StoreInd, Next, NEW k \in Entities, Live(k), rows'[k] = NoRow
      PROVE  Stay(k)
  <2>0. k \in Keys /\ k[1] \in {"person", "orgunit"} /\ ~Live(k)'
    BY <1>1 DEF Entities, Live
  <2>1. ASSUME NEW t \in Tables, NEW i, NEW r, Writes(t, i, r)
        PROVE  FALSE
    BY <1>1, <2>0, <2>1, WritesOne
  <2>2. ASSUME NEW t \in Tables \ {"localizedorgunit"}, NEW i \in Ids(t),
               Delete(t, i)
        PROVE  Stay(k)
    <3> DEFINE d == <<t, i>>
    <3>1. d \in Keys /\ Live(d)
      BY <2>2, KeysAre DEF Delete
    <3>2. \A l \in Keys : Live(l)' <=> Live(l) /\ l \notin Doomed(d)
      BY <1>1, <2>2, DeletesRows
    <3>3. \A l \in Entities : l \in Doomed(d) => l = d
      BY <3>1, DoomedClosed DEF Entities
    <3>4. k = d
      BY <1>1, <2>0, <3>2, <3>3
    <3>5. ASSUME NEW e \in Entities \ {k}, Live(e)
          PROVE  /\ rows'[e] # NoRow
                 /\ e[1] = "orgunit" =>
                      rows'[e].ref["parent_id"] = ParentAfter(e, d)
      <4>1. e \in Keys /\ Live(e)'
        BY <3>2, <3>3, <3>4, <3>5 DEF Entities
      <4> QED
        BY <1>1, <2>2, <4>1, DeletesRows DEF Live
    <3>6. ASSUME NEW e \in Entities, e[1] = "orgunit"
          PROVE  ParentAfter(e, d) = IF <<"orgunit", ParentOf(e[2])>> = k THEN 0
                                     ELSE ParentOf(e[2])
      <4>1. e = <<"orgunit", e[2]>>
        BY <3>6, KeysAre DEF Entities
      <4>2. ParentOf(e[2]) = rows[e].ref["parent_id"]
        BY <4>1 DEF ParentOf
      <4> QED
        BY <3>4, <4>2 DEF ParentAfter
    <3> QED
      BY <3>5, <3>6
  <2>3. ASSUME NEW o \in IdArg("orgunit"), NEW l \in Locales, NEW v \in Values,
               Localizes(o, l, v)
        PROVE  FALSE
    BY <1>1, <2>0, <2>3, LocalizesKeeps DEF Live
  <2> QED
    BY <1>1, <2>1, <2>2, <2>3, StepKinds
<1>2. StoreInd /\ [Next]_vars => [Survive]_vars
  BY <1>1
<1>3. Init => StoreInd
  BY StoreIndInit
<1>4. StoreInd /\ [Next]_vars => StoreInd'
  BY StoreIndNext
<1> QED
  BY <1>2, <1>3, <1>4, PTL DEF Spec, EntitiesSurvive

-----------------------------------------------------------------------------
(***************************************************************************)
(* What is read.                                                           *)
(***************************************************************************)

\* Reading, and refreshing the views, leave the tables alone: what is proved
\* of the tables holds whatever else runs.
THEOREM QueriesImplement == QuerySpec => Spec
<1>1. QueryInit => Init
  BY DEF QueryInit
<1>2. [QueryNext]_queryVars => [Next]_vars
  <2>1. RefreshOne => UNCHANGED vars
    BY DEF RefreshOne
  <2>2. RefreshCommits => UNCHANGED vars
    BY DEF RefreshCommits
  <2>3. UNCHANGED queryVars => UNCHANGED vars
    BY DEF queryVars
  <2> QED
    BY <2>1, <2>2, <2>3 DEF QueryNext
<1> QED
  BY <1>1, <1>2, PTL DEF QuerySpec, Spec

\* The inductive invariant of the tables holds here too.
LEMMA QueriesKeepStore == QuerySpec => []StoreInd
<1>1. Init => StoreInd
  BY StoreIndInit
<1>2. StoreInd /\ [Next]_vars => StoreInd'
  BY StoreIndNext
<1> QED
  BY <1>1, <1>2, QueriesImplement, PTL DEF Spec

-----------------------------------------------------------------------------
(***************************************************************************)
(* Reading and writing back.                                               *)
(***************************************************************************)

\* A live row is a row of its table, legal and indexed.
LEMMA LiveRow ==
    ASSUME StoreInd, NEW t \in Tables, NEW i \in LiveIds(t)
    PROVE  /\ i \in Ids(t) /\ <<t, i>> \in Keys /\ Live(<<t, i>>)
           /\ rows[<<t, i>>] \in RowOf(t)
           /\ Legal(t, i, rows[<<t, i>>])
           /\ Indexed(rows, t, i, rows[<<t, i>>])
<1> DEFINE k == <<t, i>>
<1>1. i \in Ids(t) /\ k \in Keys /\ Live(k) /\ k[1] = t /\ k[2] = i
  BY KeysAre DEF LiveIds
<1> HIDE DEF k
<1>2. rows[k] \in RowOf(k[1]) /\ Legal(k[1], k[2], rows[k])
      /\ Indexed(rows, k[1], k[2], rows[k])
  BY <1>1 DEF StoreInd, WellFormed, RefIntegrity, Vectors
<1> QED
  BY <1>1, <1>2 DEF k

\* A null that is read as an empty string is written as a null.
LEMMA NullsComeBack ==
    ASSUME NEW v \in Values \cup KeyValues \cup {None}
    PROVE  NULLIF(COALESCE(v)) = v
  BY QueriesAssumption DEF NULLIF, COALESCE

\* The row that PersonDAO writes.
LEMMA PersonRowIs ==
    ASSUME NEW k, NEW v
    PROVE  PersonRow(k, v) = [ref |-> <<>>, key |-> k, val |-> v,
                              vec |-> {k, v} \ {None}]
<1> DEFINE r == Row(<<>>, k, v)
<1>1. r = [ref |-> <<>>, key |-> k, val |-> v, vec |-> {}]
  BY DEF Row
<1>2. r.key = k /\ r.val = v
  BY <1>1
<1>3. PersonRow(k, v) = [r EXCEPT !.vec = {r.key, r.val} \ {None}]
  BY DEF PersonRow, fn_person_search_vector
<1> HIDE DEF r
<1> QED
  BY <1>1, <1>2, <1>3

\* find_by_id and update of PersonDAO and OrgDAO are inverse to each other on
\* every row the store can hold, search vectors and nulls included.
THEOREM WritesBack == QuerySpec => []WriteBackNeutral
<1>1. ASSUME StoreInd
      PROVE  WriteBackNeutral
  <2>1. ASSUME NEW i \in Ids("person"), Live(<<"person", i>>)
        PROVE  StoredPerson(find_person(i)) = rows[<<"person", i>>]
    <3> DEFINE r == rows[<<"person", i>>]
    <3>1. r \in RowOf("person") /\ Indexed(rows, "person", i, r)
      BY <1>1, <2>1, LiveRow DEF LiveIds, Tables
    <3>2. /\ r.key \in KeyValues \cup {None}
          /\ r.vec = {r.key, r.val} \ {None}
          /\ r.ref \in [{} -> Nat]
          /\ r = [ref |-> r.ref, key |-> r.key, val |-> r.val, vec |-> r.vec]
      BY <3>1, ColumnsAre DEF RowOf, KeyOf, Indexed
    <3>3. r.ref = <<>>
      BY <3>2
    <3>4. find_person(i) = [id |-> i, name |-> r.val,
                            federal_tax_id |-> COALESCE(r.key)]
      BY <2>1 DEF find_person, Optional, PersonDTO
    <3>5. StoredPerson(find_person(i)) = PersonRow(r.key, r.val)
      BY <3>2, <3>4, NullsComeBack DEF StoredPerson
    <3>6. PersonRow(r.key, r.val) =
             [ref |-> <<>>, key |-> r.key, val |-> r.val,
              vec |-> {r.key, r.val} \ {None}]
      BY PersonRowIs
    <3> QED
      BY <3>2, <3>3, <3>5, <3>6
  <2>2. ASSUME NEW o \in Ids("orgunit"), Live(<<"orgunit", o>>)
        PROVE  StoredOrg(find_orgunit(o)) = rows[<<"orgunit", o>>]
    <3> DEFINE r == rows[<<"orgunit", o>>]
               x == Refs("orgunit", [parent_id |-> r.ref["parent_id"]])
    <3>1. r \in RowOf("orgunit") /\ Indexed(rows, "orgunit", o, r)
      BY <1>1, <2>2, LiveRow DEF LiveIds, Tables
    <3>2. /\ r.key = None /\ r.val \in Values \cup {None}
          /\ r.vec = OrgName(rows, o) \cup ({r.val} \ {None})
          /\ r.ref \in [{"parent_id"} -> Nat]
          /\ r = [ref |-> r.ref, key |-> r.key, val |-> r.val, vec |-> r.vec]
      BY <3>1, ColumnsAre DEF RowOf, KeyOf, ValOf, Indexed
    <3>3. x = r.ref
      BY <3>2, ColumnsAre DEF Refs
    <3>4. find_orgunit(o) = [id |-> o, parent_id |-> r.ref["parent_id"],
                             keywords |-> COALESCE(r.val)]
      BY <2>2 DEF find_orgunit, Optional, OrgUnitDTO, ParentOf
    <3>5. StoredOrg(find_orgunit(o)) = OrgRow(o, r.ref["parent_id"], r.val)
      BY <3>2, <3>4, NullsComeBack DEF StoredOrg
    <3>6. OrgRow(o, r.ref["parent_id"], r.val) =
             [ref |-> x, key |-> None, val |-> r.val,
              vec |-> OrgName(rows, o) \cup ({r.val} \ {None})]
      BY DEF OrgRow, fn_orgunit_search_vector, Row
    <3> HIDE DEF x
    <3> QED
      BY <3>2, <3>3, <3>5, <3>6
  <2>3. /\ \A i \in Ids("person") : ~Live(<<"person", i>>) => find_person(i) = NoRow
        /\ \A o \in Ids("orgunit") : ~Live(<<"orgunit", o>>) => find_orgunit(o) = NoRow
    BY DEF find_person, find_orgunit, Optional
  <2> QED
    BY <2>1, <2>2, <2>3 DEF WriteBackNeutral
<1> QED
  BY <1>1, QueriesKeepStore, PTL

-----------------------------------------------------------------------------
(***************************************************************************)
(* What is listed for a person, and who may see what.                      *)
(***************************************************************************)

\* A row that WhereRef finds names a live row by the column.
LEMMA FoundRefers ==
    ASSUME StoreInd, NEW t \in Tables, NEW f \in RefsOf[t], NEW p,
           NEW i \in WhereRef(t, f.col, p)
    PROVE  /\ i \in LiveIds(t) /\ p # 0
           /\ rows[<<t, i>>].ref[f.col] = p
           /\ p \in LiveIds(f.to)
<1>1. i \in LiveIds(t) /\ p # 0 /\ rows[<<t, i>>].ref[f.col] = p
  BY DEF WhereRef, Col
<1>2. Legal(t, i, rows[<<t, i>>])
  BY <1>1, LiveRow
<1>3. p \in LiveIds(f.to)
  BY <1>1, <1>2 DEF Legal, RefsExist
<1> QED
  BY <1>1, <1>3

\* The columns that name a person.
LEMMA PersonColumns ==
    /\ \A t \in Owned \cup {"personorgrelation", "personrole"} :
          t \in Tables /\ "person_id" \in Columns[t]
          /\ \E f \in RefsOf[t] : f.col = "person_id" /\ f.to = "person"
    /\ "datavisibility" \in Tables
    /\ \A c \in {"owner_person_id", "viewer_person_id"} :
          c \in Columns["datavisibility"]
          /\ \E f \in RefsOf["datavisibility"] : f.col = c /\ f.to = "person"
<1> DEFINE f(c) == Ref(c, "person", "CASCADE")
<1>1. \A c : f(c).col = c /\ f(c).to = "person"
  BY DEF Ref
<1>2. \A t \in Owned : t \in Tables /\ "person_id" \in Columns[t]
                      /\ f("person_id") \in RefsOf[t]
  BY RefsAre, ColumnsAre DEF OwnerRefs, OwnerRule, Owned, Tables
<1>3. \A t \in {"personorgrelation", "personrole"} :
         t \in Tables /\ "person_id" \in Columns[t] /\ f("person_id") \in RefsOf[t]
  BY RefsAre, ColumnsAre DEF Tables
<1>4. \A c \in {"owner_person_id", "viewer_person_id"} :
         c \in Columns["datavisibility"] /\ f(c) \in RefsOf["datavisibility"]
  BY RefsAre, ColumnsAre
<1>5. "datavisibility" \in Tables
  BY DEF Tables
<1> HIDE DEF f
<1> QED
  BY <1>1, <1>2, <1>3, <1>4, <1>5

\* A row found by a column that names a person.
LEMMA FoundForPerson ==
    ASSUME StoreInd, NEW t, NEW c, NEW p, NEW i \in WhereRef(t, c, p),
           \/ t \in Owned \cup {"personorgrelation", "personrole"} /\ c = "person_id"
           \/ t = "datavisibility" /\ c \in {"owner_person_id", "viewer_person_id"}
    PROVE  /\ t \in Tables /\ c \in Columns[t]
           /\ i \in LiveIds(t) /\ p # 0 /\ p \in LiveIds("person")
           /\ rows[<<t, i>>].ref[c] = p
<1>1. PICK f \in RefsOf[t] : f.col = c /\ f.to = "person"
  BY PersonColumns
<1>2. t \in Tables /\ c \in Columns[t]
  BY PersonColumns
<1> QED
  BY <1>1, <1>2, FoundRefers

\* A DTO has the row's own reference in each column.
LEMMA DTOColumn ==
    ASSUME NEW t \in Tables, NEW i, NEW content, NEW c \in Columns[t],
           c \notin DOMAIN content, c # "id"
    PROVE  RowDTO(<<t, i>>, content)[c] = rows[<<t, i>>].ref[c]
<1>1. <<t, i>>[1] = t
  OBVIOUS
<1> QED
  BY <1>1 DEF RowDTO

\* If exactly one of two columns is set, the other is not.
LEMMA OneOfTwo ==
    ASSUME NEW r, NEW a, NEW b, a # b, OneOf(r, {a, b}), r.ref[a] # 0
    PROVE  r.ref[b] = 0
<1> SUFFICES ASSUME r.ref[b] # 0 PROVE FALSE
  OBVIOUS
<1>1. {c \in {a, b} : r.ref[c] # 0} = {a} \cup {b}
  OBVIOUS
<1>2. IsFiniteSet({a}) /\ Cardinality({a}) = 1
  BY FS_Singleton
<1>3. Cardinality({a} \cup {b}) = 1 + 1
  BY <1>2, FS_AddElement
<1> QED
  BY <1>1, <1>3 DEF OneOf

\* What is listed of a person's phones, e-mail and postal addresses.
LEMMA OwnedListed ==
    ASSUME StoreInd, NEW t \in Owned, NEW p, NEW i \in WhereRef(t, "person_id", p),
           NEW content, {"person_id", "org_unit_id"} \cap DOMAIN content = {}
    PROVE  /\ RowDTO(<<t, i>>, content).person_id = p
           /\ RowDTO(<<t, i>>, content).org_unit_id = 0
           /\ p \in LiveIds("person")
<1> DEFINE r == rows[<<t, i>>]
<1>1. /\ t \in Tables /\ "person_id" \in Columns[t] /\ i \in LiveIds(t)
      /\ p # 0 /\ p \in LiveIds("person") /\ r.ref["person_id"] = p
  BY FoundForPerson
<1>2. "org_unit_id" \in Columns[t]
  BY ColumnsAre
<1>3. Legal(t, i, r)
  BY <1>1, LiveRow
<1>4. OneOf(r, {"person_id", "org_unit_id"})
  BY <1>3 DEF Legal, Checks, Owned
<1> HIDE DEF r
<1>5. r.ref["org_unit_id"] = 0
  BY <1>1, <1>4, OneOfTwo
<1> QED
  BY <1>1, <1>2, <1>5, DTOColumn DEF r

\* The lists of ContactDAO and RoleDAO are the owner's, and only the owner's.
LEMMA ListsAreOwned ==
    ASSUME StoreInd
    PROVE  ListedForOwner
<1> SUFFICES ASSUME NEW p \in IdArg("person")
             PROVE  LET listed == phones_for_person(p) \cup emails_for_person(p)
                                  \cup addresses_for_person(p)
                    IN  /\ \A d \in listed : d.person_id = p /\ d.org_unit_id = 0
                        /\ \A d \in relations_for_person(p) \cup roles_for_person(p) :
                              d.person_id = p
                        /\ p \notin LiveIds("person") =>
                              /\ listed = {}
                              /\ relations_for_person(p) \cup roles_for_person(p) = {}
                              /\ rules_for_owner(p) = {}
  BY DEF ListedForOwner
<1>1. \A d \in phones_for_person(p) :
         d.person_id = p /\ d.org_unit_id = 0 /\ p \in LiveIds("person")
  <2> SUFFICES ASSUME NEW i \in WhereRef("phone", "person_id", p)
               PROVE  /\ PhoneDTO(i).person_id = p /\ PhoneDTO(i).org_unit_id = 0
                      /\ p \in LiveIds("person")
    BY DEF phones_for_person
  <2> DEFINE content == [number |-> rows[<<"phone", i>>].val]
  <2>1. "phone" \in Owned /\ {"person_id", "org_unit_id"} \cap DOMAIN content = {}
    BY DEF Owned
  <2>2. PhoneDTO(i) = RowDTO(<<"phone", i>>, content)
    BY DEF PhoneDTO
  <2> HIDE DEF content
  <2> QED
    BY <2>1, <2>2, OwnedListed
<1>2. \A d \in emails_for_person(p) :
         d.person_id = p /\ d.org_unit_id = 0 /\ p \in LiveIds("person")
  <2> SUFFICES ASSUME NEW i \in WhereRef("email", "person_id", p)
               PROVE  /\ EmailDTO(i).person_id = p /\ EmailDTO(i).org_unit_id = 0
                      /\ p \in LiveIds("person")
    BY DEF emails_for_person
  <2> DEFINE content == [email |-> rows[<<"email", i>>].key]
  <2>1. "email" \in Owned /\ {"person_id", "org_unit_id"} \cap DOMAIN content = {}
    BY DEF Owned
  <2>2. EmailDTO(i) = RowDTO(<<"email", i>>, content)
    BY DEF EmailDTO
  <2> HIDE DEF content
  <2> QED
    BY <2>1, <2>2, OwnedListed
<1>3. \A d \in addresses_for_person(p) :
         d.person_id = p /\ d.org_unit_id = 0 /\ p \in LiveIds("person")
  <2> SUFFICES ASSUME NEW i \in WhereRef("address", "person_id", p)
               PROVE  /\ AddressDTO(i).person_id = p /\ AddressDTO(i).org_unit_id = 0
                      /\ p \in LiveIds("person")
    BY DEF addresses_for_person
  <2> DEFINE content == [street |-> rows[<<"address", i>>].val]
  <2>1. "address" \in Owned /\ {"person_id", "org_unit_id"} \cap DOMAIN content = {}
    BY DEF Owned
  <2>2. AddressDTO(i) = RowDTO(<<"address", i>>, content)
    BY DEF AddressDTO
  <2> HIDE DEF content
  <2> QED
    BY <2>1, <2>2, OwnedListed
<1>4. \A d \in relations_for_person(p) : d.person_id = p /\ p \in LiveIds("person")
  <2> SUFFICES ASSUME NEW i \in WhereRef("personorgrelation", "person_id", p)
               PROVE  PersonOrgRelationDTO(i).person_id = p /\ p \in LiveIds("person")
    BY DEF relations_for_person
  <2> DEFINE t == "personorgrelation"
             content == [relationship |-> rows[<<t, i>>].key]
  <2>1. "person_id" \notin DOMAIN content
    OBVIOUS
  <2>2. PersonOrgRelationDTO(i) = RowDTO(<<t, i>>, content)
    BY DEF PersonOrgRelationDTO
  <2>3. /\ t \in Tables /\ "person_id" \in Columns[t]
        /\ p \in LiveIds("person") /\ rows[<<t, i>>].ref["person_id"] = p
    BY FoundForPerson
  <2> HIDE DEF content, t
  <2> QED
    BY <2>1, <2>2, <2>3, DTOColumn
<1>5. \A d \in roles_for_person(p) : d.person_id = p /\ p \in LiveIds("person")
  <2> SUFFICES ASSUME NEW i \in WhereRef("personrole", "person_id", p)
               PROVE  PersonRoleDTO(i).person_id = p /\ p \in LiveIds("person")
    BY DEF roles_for_person
  <2> DEFINE t == "personrole"
  <2>1. PersonRoleDTO(i) = RowDTO(<<t, i>>, <<>>) /\ "person_id" \notin DOMAIN <<>>
    BY DEF PersonRoleDTO
  <2>2. /\ t \in Tables /\ "person_id" \in Columns[t]
        /\ p \in LiveIds("person") /\ rows[<<t, i>>].ref["person_id"] = p
    BY FoundForPerson
  <2> HIDE DEF t
  <2> QED
    BY <2>1, <2>2, DTOColumn
<1>6. \A d \in rules_for_owner(p) : p \in LiveIds("person")
  BY FoundForPerson DEF rules_for_owner
<1> QED
  BY <1>1, <1>2, <1>3, <1>4, <1>5, <1>6

\* can_view and the list of an owner's rules say the same.
LEMMA ViewIsExact ==
    ASSUME StoreInd
    PROVE  ViewExact
<1> SUFFICES ASSUME NEW owner \in IdArg("person"), NEW viewer \in IdArg("person"),
                    NEW c \in Categories
             PROVE  can_view(owner, viewer, c) =
                      /\ {owner, viewer} \subseteq LiveIds("person")
                      /\ \E r \in rules_for_owner(owner) :
                            /\ r.viewer_person_id = viewer
                            /\ r.data_category \in {c, All} /\ r.can_view
  BY DEF ViewExact
<1> DEFINE t == "datavisibility"
           content(i) == [data_category |-> rows[<<t, i>>].key,
                          can_view |-> rows[<<t, i>>].val]
           O == WhereRef(t, "owner_person_id", owner)
           V == WhereRef(t, "viewer_person_id", viewer)
<1>1. \A i \in O : owner \in LiveIds("person") /\ i \in LiveIds(t)
  BY FoundForPerson
<1>2. \A i \in V : viewer \in LiveIds("person")
  BY FoundForPerson
<1>3. ASSUME NEW i \in O
      PROVE  /\ DataVisibilityDTO(i).data_category = rows[<<t, i>>].key
             /\ DataVisibilityDTO(i).can_view = rows[<<t, i>>].val
             /\ DataVisibilityDTO(i).viewer_person_id = viewer
                  => (viewer \in LiveIds("person") => i \in V)
             /\ i \in V => DataVisibilityDTO(i).viewer_person_id = viewer
  <2>1. DataVisibilityDTO(i) = RowDTO(<<t, i>>, content(i))
    BY DEF DataVisibilityDTO
  <2>2. /\ content(i).data_category = rows[<<t, i>>].key
        /\ content(i).can_view = rows[<<t, i>>].val
        /\ DOMAIN content(i) = {"data_category", "can_view"}
    OBVIOUS
  <2> HIDE DEF content
  <2>3. /\ RowDTO(<<t, i>>, content(i))["data_category"] = rows[<<t, i>>].key
        /\ RowDTO(<<t, i>>, content(i))["can_view"] = rows[<<t, i>>].val
    BY <2>2 DEF RowDTO
  <2>4. t \in Tables /\ "viewer_person_id" \in Columns[t]
    BY PersonColumns
  <2>5. RowDTO(<<t, i>>, content(i))["viewer_person_id"]
           = rows[<<t, i>>].ref["viewer_person_id"]
    BY <2>2, <2>4, DTOColumn
  <2>6. viewer \in LiveIds("person") => viewer # 0
    BY IdsAre DEF LiveIds, Tables
  <2> QED
    BY <1>1, <2>1, <2>3, <2>5, <2>6 DEF WhereRef, Col
<1>4. can_view(owner, viewer, c) <=>
         \E i \in O \cap V : rows[<<t, i>>].key \in {c, All} /\ rows[<<t, i>>].val
  BY DEF can_view
<1>5. (\E r \in rules_for_owner(owner) :
            /\ r.viewer_person_id = viewer
            /\ r.data_category \in {c, All} /\ r.can_view)
       <=> \E i \in O :
             /\ DataVisibilityDTO(i).viewer_person_id = viewer
             /\ DataVisibilityDTO(i).data_category \in {c, All}
             /\ DataVisibilityDTO(i).can_view
  BY DEF rules_for_owner
<1> HIDE DEF O, V, t
<1> QED
  BY <1>1, <1>2, <1>3, <1>4, <1>5 DEF can_view

\* What the DAOs list for a person, and what can_view allows, depends on the
\* rows of that person and on no other, and nothing of it outlives the person.
THEOREM OwnersAnswered == QuerySpec => []OwnerAnswers
<1>1. StoreInd => OwnerAnswers
  BY ListsAreOwned, ViewIsExact DEF OwnerAnswers
<1> QED
  BY <1>1, QueriesKeepStore, PTL

-----------------------------------------------------------------------------
(***************************************************************************)
(* Search.                                                                 *)
(***************************************************************************)

\* The image of a finite set is finite, and no larger.
LEMMA ImageFinite ==
    ASSUME NEW S, IsFiniteSet(S), NEW f, DOMAIN f = S
    PROVE  LET T == {f[x] : x \in S}
           IN  IsFiniteSet(T) /\ Cardinality(T) <= Cardinality(S)
<1> DEFINE T == {f[x] : x \in S}
           g == [x \in S |-> f[x]]
<1>1. g \in Surjection(S, T)
  BY DEF Surjection
<1> QED
  BY <1>1, FS_Surjection

\* There are n numbers from 1 to n.
LEMMA IntervalSize ==
    ASSUME NEW n \in Nat
    PROVE  IsFiniteSet(1..n) /\ Cardinality(1..n) = n
<1>1. IsFiniteSet(1..n) /\ Cardinality(1..n) = IF 1 > n THEN 0 ELSE n - 1 + 1
  BY FS_Interval
<1> QED
  BY <1>1

\* A limit that is not reached leaves everything.
LEMMA LimitedAll ==
    ASSUME NEW S, IsFiniteSet(S), NEW n \in Nat, Cardinality(S) <= n
    PROVE  Limited(S, n) = {S}
<1>1. Cardinality(S) \in Nat
  BY FS_CardinalityType
<1>2. \A T \in SUBSET S : Cardinality(T) = Cardinality(S) => T = S
  BY FS_Subset
<1> QED
  BY <1>1, <1>2 DEF Limited

\* A limit of one leaves one, if there is one.
LEMMA LimitedOne ==
    ASSUME NEW S, IsFiniteSet(S), NEW T \in Limited(S, 1)
    PROVE  T \subseteq S /\ Cardinality(T) = IF S = {} THEN 0 ELSE 1
<1>1. Cardinality(S) \in Nat /\ (Cardinality(S) = 0 <=> S = {})
  BY FS_CardinalityType, FS_EmptySet
<1> QED
  BY <1>1 DEF Limited

\* A unit with a name in a locale has one there, and NameIn is it.
LEMMA NameIsOne ==
    ASSUME StoreInd, NEW o \in LiveIds("orgunit"), NamedIn(o, DefaultLocale)
    PROVE  OrgName(rows, o) = {NameIn(o, DefaultLocale)}
<1> DEFINE t == "localizedorgunit"
           n == NameIn(o, DefaultLocale)
           Is(i) == /\ i \in LiveIds(t)
                    /\ rows[<<t, i>>].ref["org_unit_id"] = o
                    /\ rows[<<t, i>>].key = DefaultLocale
<1>1. t \in Tables /\ o # 0
  BY IdsAre DEF Tables, LiveIds
<1>2. PICK i : Is(i)
  BY DEF NamedIn
<1>3. rows[<<t, i>>].val \in Values
  <2>1. rows[<<t, i>>] \in RowOf(t)
    BY <1>1, <1>2, LiveRow
  <2> QED
    BY <2>1 DEF RowOf, ValOf
<1>4. \E v \in Values : \E j \in WhereRef(t, "org_unit_id", o) :
         rows[<<t, j>>].key = DefaultLocale /\ rows[<<t, j>>].val = v
  BY <1>1, <1>2, <1>3 DEF WhereRef, Col
<1>5. n = CHOOSE v \in Values : \E j \in WhereRef(t, "org_unit_id", o) :
         rows[<<t, j>>].key = DefaultLocale /\ rows[<<t, j>>].val = v
  BY DEF NameIn
<1>6. \E j \in WhereRef(t, "org_unit_id", o) :
         rows[<<t, j>>].key = DefaultLocale /\ rows[<<t, j>>].val = n
  BY <1>4, <1>5
<1>7. PICK j : Is(j) /\ rows[<<t, j>>].val = n
  BY <1>6 DEF WhereRef, Col
<1>8. ASSUME NEW m, Is(m)
      PROVE  m = j
  <2> DEFINE q == rows[<<t, m>>]
             r == rows[<<t, j>>]
  <2>1. q \in RowOf(t) /\ r \in RowOf(t) /\ Legal(t, j, r)
    BY <1>1, <1>7, <1>8, LiveRow
  <2>2. q.ref \in [{"org_unit_id"} -> Nat] /\ r.ref \in [{"org_unit_id"} -> Nat]
    BY <2>1, ColumnsAre DEF RowOf
  <2>3. q.ref = r.ref /\ q.key = r.key
    BY <1>7, <1>8, <2>2
  <2>4. ~Apart(t, q, r)
    BY <2>3 DEF Apart
  <2> QED
    BY <1>8, <2>1, <2>4 DEF Legal, NoClash
<1>9. ASSUME NEW x
      PROVE  x \in OrgName(rows, o) <=> x = n
  <2>1. ASSUME NEW k \in Keys, k[1] = t, rows[k] # NoRow,
               rows[k].ref["org_unit_id"] = o, rows[k].key = DefaultLocale
        PROVE  rows[k].val = n
    <3>1. k = <<t, k[2]>> /\ k[2] \in Ids(t)
      BY <2>1, KeysAre
    <3>2. Is(k[2])
      BY <2>1, <3>1 DEF LiveIds, Live
    <3> QED
      BY <1>7, <1>8, <3>1, <3>2
  <2>2. <<t, j>> \in Keys /\ <<t, j>>[1] = t /\ rows[<<t, j>>] # NoRow
    BY <1>1, <1>7, KeysAre DEF LiveIds, Live
  <2> QED
    BY <1>7, <2>1, <2>2 DEF OrgName
<1> QED
  BY <1>9

\* The persons and the units that the vectors say match.
LEMMA MatchesExact ==
    ASSUME StoreInd, NEW q \in Values \cup KeyValues
    PROVE  /\ PersonMatches(q) =
                {i \in LiveIds("person") :
                   q \in {rows[<<"person", i>>].key, rows[<<"person", i>>].val}}
           /\ OrgMatches(q) =
                {o \in LiveIds("orgunit") :
                   /\ NamedIn(o, DefaultLocale)
                   /\ q \in {NameIn(o, DefaultLocale), rows[<<"orgunit", o>>].val}}
<1>1. q # None
  BY QueriesAssumption
<1>2. ASSUME NEW i \in LiveIds("person")
      PROVE  q \in rows[<<"person", i>>].vec <=>
               q \in {rows[<<"person", i>>].key, rows[<<"person", i>>].val}
  <2>1. Indexed(rows, "person", i, rows[<<"person", i>>])
    BY LiveRow DEF Tables
  <2> QED
    BY <1>1, <2>1 DEF Indexed
<1>3. ASSUME NEW o \in LiveIds("orgunit"), NamedIn(o, DefaultLocale)
      PROVE  q \in rows[<<"orgunit", o>>].vec <=>
               q \in {NameIn(o, DefaultLocale), rows[<<"orgunit", o>>].val}
  <2>1. Indexed(rows, "orgunit", o, rows[<<"orgunit", o>>])
    BY LiveRow DEF Tables
  <2>2. OrgName(rows, o) = {NameIn(o, DefaultLocale)}
    BY <1>3, NameIsOne
  <2> QED
    BY <1>1, <2>1, <2>2 DEF Indexed
<1> QED
  BY <1>2, <1>3 DEF PersonMatches, OrgMatches

\* What SearchDAO finds is what the rows say now: the search vectors are
\* neither stale nor wide, a unit has one default name, and the limit takes
\* nothing away that it need not.
THEOREM SearchIsExact == QuerySpec => []SearchExact
<1>1. ASSUME StoreInd
      PROVE  SearchExact
  <2> SUFFICES ASSUME NEW q \in Values \cup KeyValues
               PROVE  LET all == MaxIds["person"] + MaxIds["orgunit"]
            persons == {[id |-> i, name |-> rows[<<"person", i>>].val] :
                i \in {j \in LiveIds("person") :
                   q \in {rows[<<"person", j>>].key, rows[<<"person", j>>].val}}}
            units == {[id |-> o, name |-> NameIn(o, DefaultLocale)] :
                o \in {u \in LiveIds("orgunit") :
                   /\ NamedIn(u, DefaultLocale)
                   /\ q \in {NameIn(u, DefaultLocale), rows[<<"orgunit", u>>].val}}}
        IN  /\ search_persons(q, all) = {persons}
            /\ search_orgunits(q, all) = {units}
            /\ \A found \in search_contacts(q, 1) :
                  /\ Cardinality(found) = IF persons \cup units = {} THEN 0 ELSE 1
                  /\ \A f \in found :
                        [id |-> f.entity_id, name |-> f.display_name] \in
                            IF f.entity_type = "Person" THEN persons ELSE units
    BY DEF SearchExact
  <2> DEFINE all == MaxIds["person"] + MaxIds["orgunit"]
             P == PersonMatches(q)
             U == OrgMatches(q)
             persons == {PersonSearchResultDTO(i) : i \in P}
             units == {OrgSearchResultDTO(o) : o \in U}
             both == {SearchResultDTO("Person", PersonSearchResultDTO(i)) : i \in P}
                     \cup {SearchResultDTO("OrgUnit", OrgSearchResultDTO(o)) : o \in U}
  <2>1. /\ MaxIds["person"] \in Nat /\ MaxIds["orgunit"] \in Nat /\ all \in Nat
        /\ P \subseteq 1..MaxIds["person"] /\ U \subseteq 1..MaxIds["orgunit"]
    BY StoreAssumption DEF Tables, PersonMatches, OrgMatches, LiveIds, Ids
  <2>2. /\ IsFiniteSet(P) /\ Cardinality(P) <= all /\ Cardinality(P) \in Nat
        /\ IsFiniteSet(U) /\ Cardinality(U) <= all /\ Cardinality(U) \in Nat
    <3>1. /\ IsFiniteSet(1..MaxIds["person"])
          /\ Cardinality(1..MaxIds["person"]) = MaxIds["person"]
          /\ IsFiniteSet(1..MaxIds["orgunit"])
          /\ Cardinality(1..MaxIds["orgunit"]) = MaxIds["orgunit"]
      BY <2>1, IntervalSize
    <3>2. /\ IsFiniteSet(P) /\ Cardinality(P) <= MaxIds["person"]
          /\ IsFiniteSet(U) /\ Cardinality(U) <= MaxIds["orgunit"]
      BY <2>1, <3>1, FS_Subset
    <3>3. Cardinality(P) \in Nat /\ Cardinality(U) \in Nat
      BY <3>2, FS_CardinalityType
    <3> QED
      BY <2>1, <3>2, <3>3
  <2> HIDE DEF P, U
  <2>3. /\ IsFiniteSet(persons) /\ Cardinality(persons) <= all
        /\ IsFiniteSet(units) /\ Cardinality(units) <= all
    <3> DEFINE f == [i \in P |-> PersonSearchResultDTO(i)]
               g == [o \in U |-> OrgSearchResultDTO(o)]
    <3>1. /\ DOMAIN f = P /\ {f[i] : i \in P} = persons
          /\ DOMAIN g = U /\ {g[o] : o \in U} = units
      OBVIOUS
    <3> HIDE DEF f, g, persons, units
    <3>2. /\ IsFiniteSet(persons) /\ Cardinality(persons) <= Cardinality(P)
          /\ IsFiniteSet(units) /\ Cardinality(units) <= Cardinality(U)
      BY <2>2, <3>1, ImageFinite
    <3>3. Cardinality(persons) \in Nat /\ Cardinality(units) \in Nat
      BY <3>2, FS_CardinalityType
    <3> QED
      BY <2>1, <2>2, <3>2, <3>3
  <2>4. IsFiniteSet(both)
    <3> DEFINE f == [i \in P |-> SearchResultDTO("Person", PersonSearchResultDTO(i))]
               g == [o \in U |-> SearchResultDTO("OrgUnit", OrgSearchResultDTO(o))]
               A == {f[i] : i \in P}
               B == {g[o] : o \in U}
    <3>1. DOMAIN f = P /\ DOMAIN g = U /\ both = A \cup B
      OBVIOUS
    <3> HIDE DEF f, g, both
    <3>2. IsFiniteSet(A) /\ IsFiniteSet(B)
      BY <2>2, <3>1, ImageFinite
    <3> QED
      BY <3>1, <3>2, FS_Union
  <2>5. /\ search_persons(q, all) = {persons}
        /\ search_orgunits(q, all) = {units}
    <3>1. search_persons(q, all) = Limited(persons, all)
      BY DEF search_persons, P
    <3>2. search_orgunits(q, all) = Limited(units, all)
      BY DEF search_orgunits, U
    <3> HIDE DEF persons, units, all
    <3> QED
      BY <2>1, <2>3, <3>1, <3>2, LimitedAll
  <2>6. ASSUME NEW found \in search_contacts(q, 1)
        PROVE  /\ Cardinality(found) = IF persons \cup units = {} THEN 0 ELSE 1
               /\ \A f \in found :
                     [id |-> f.entity_id, name |-> f.display_name] \in
                         IF f.entity_type = "Person" THEN persons ELSE units
    <3>1. search_contacts(q, 1) = Limited(both, 1)
      BY DEF search_contacts, P, U
    <3>2. (both = {}) <=> (persons \cup units = {})
      OBVIOUS
    <3>3. ASSUME NEW f \in both
          PROVE  [id |-> f.entity_id, name |-> f.display_name] \in
                     IF f.entity_type = "Person" THEN persons ELSE units
      <4>1. CASE \E i \in P : f = SearchResultDTO("Person", PersonSearchResultDTO(i))
        <5>1. PICK i \in P : f = SearchResultDTO("Person", PersonSearchResultDTO(i))
          BY <4>1
        <5>2. /\ f.entity_type = "Person"
              /\ [id |-> f.entity_id, name |-> f.display_name] = PersonSearchResultDTO(i)
          BY <5>1 DEF SearchResultDTO, PersonSearchResultDTO
        <5> QED
          BY <5>2
      <4>2. CASE \E o \in U : f = SearchResultDTO("OrgUnit", OrgSearchResultDTO(o))
        <5>1. PICK o \in U : f = SearchResultDTO("OrgUnit", OrgSearchResultDTO(o))
          BY <4>2
        <5>2. /\ f.entity_type = "OrgUnit"
              /\ [id |-> f.entity_id, name |-> f.display_name] = OrgSearchResultDTO(o)
          BY <5>1 DEF SearchResultDTO, OrgSearchResultDTO
        <5> QED
          BY <5>2
      <4> QED
        BY <4>1, <4>2
    <3> HIDE DEF both, persons, units
    <3>4. found \subseteq both /\ Cardinality(found) = IF both = {} THEN 0 ELSE 1
      BY <2>4, <2>6, <3>1, LimitedOne
    <3> QED
      BY <3>2, <3>3, <3>4
  <2>7. /\ persons = {[id |-> i, name |-> rows[<<"person", i>>].val] :
              i \in {j \in LiveIds("person") :
                 q \in {rows[<<"person", j>>].key, rows[<<"person", j>>].val}}}
        /\ units = {[id |-> o, name |-> NameIn(o, DefaultLocale)] :
              o \in {u \in LiveIds("orgunit") :
                 /\ NamedIn(u, DefaultLocale)
                 /\ q \in {NameIn(u, DefaultLocale), rows[<<"orgunit", u>>].val}}}
    BY <1>1, MatchesExact DEF PersonSearchResultDTO, OrgSearchResultDTO, P, U
  <2> HIDE DEF persons, units
  <2> QED
    BY <2>5, <2>6, <2>7
<1> QED
  BY <1>1, QueriesKeepStore, PTL

-----------------------------------------------------------------------------
(***************************************************************************)
(* The hierarchy.  Nothing here needs an invariant: the recursive query is *)
(* right on any content of the tables.                                     *)
(***************************************************************************)

Units == LiveIds("orgunit")
Depths == 1..(MaxIds["orgunit"] + 1)

\* The units are among the ids, and 0 is none of them.
LEMMA UnitsAre ==
    /\ MaxIds["orgunit"] \in Nat
    /\ Units \subseteq 1..MaxIds["orgunit"]
    /\ 0 \notin Units
  BY StoreAssumption DEF Tables, Units, LiveIds, Ids

\* The recursion of fn_org_hierarchy is well defined: a depth holds units, the
\* first the roots, and every other one the children of the one before.
LEMMA HierarchyIs ==
    ASSUME NEW l
    PROVE  /\ fn_org_hierarchy(l) \in [Depths -> SUBSET Units]
           /\ \A n \in Depths :
                fn_org_hierarchy(l)[n] =
                   IF n = 1 THEN Roots(l)
                   ELSE ChildrenOf(fn_org_hierarchy(l)[n - 1], l)
<1> DEFINE X == SUBSET Units
           G == [S \in X |-> ChildrenOf(S, l)]
           t == fn_org_hierarchy(l)
<1>1. Roots(l) \in X /\ G \in [X -> X]
  BY DEF Roots, ChildrenOf, Units
<1>2. MaxIds["orgunit"] + 1 \in Nat
  BY UnitsAre
<1>3. PICK g \in [Depths -> X] :
         \A n \in Depths : g[n] = IF n = 1 THEN Roots(l) ELSE G[g[n - 1]]
  <2> DEFINE m == MaxIds["orgunit"] + 1
             r == Roots(l)
  <2>1. m \in Nat /\ r \in X /\ Depths = 1..m
    BY <1>1, <1>2 DEF Depths
  <2> HIDE DEF X, G, m, r
  <2>2. \E g \in [1..m -> X] : Recurs(g, m, r, G)
    BY <1>1, <2>1, RecursionExists
  <2> QED
    BY <2>1, <2>2 DEF r, Recurs
<1>4. g = [n \in Depths |-> IF n = 1 THEN Roots(l) ELSE ChildrenOf(g[n - 1], l)]
  <2>1. \A n \in Depths : n # 1 => n - 1 \in Depths /\ g[n - 1] \in X
    BY <1>2 DEF Depths
  <2> QED
    BY <1>3, <2>1
<1>5. t = [n \in Depths |-> IF n = 1 THEN Roots(l) ELSE ChildrenOf(t[n - 1], l)]
  BY <1>4 DEF fn_org_hierarchy, Depths
<1>6. \A S : ChildrenOf(S, l) \in X
  BY DEF ChildrenOf, Units
<1> HIDE DEF t, X
<1>7. t \in [Depths -> X]
  BY <1>1, <1>5, <1>6
<1>8. \A n \in Depths : t[n] = IF n = 1 THEN Roots(l) ELSE ChildrenOf(t[n - 1], l)
  BY <1>5
<1> QED
  BY <1>7, <1>8 DEF t, X

\* p is a chain of parents from o to a root, all of its n units named in l.
Chain(p, o, l, n) ==
    /\ p \in [1..n -> Units]
    /\ p[1] = o
    /\ \A j \in 1..n - 1 : p[j + 1] = ParentOf(p[j])
    /\ ParentOf(p[n]) = 0
    /\ \A j \in 1..n : NamedIn(p[j], l)

\* A chain of one unit is a root; a longer one goes on from the parent.
LEMMA ChainStep ==
    ASSUME NEW o \in Units, NEW l, NEW n \in Nat \ {0}
    PROVE  /\ NamedPath(o, l, 1) <=> ParentOf(o) = 0 /\ NamedIn(o, l)
           /\ NamedPath(o, l, n + 1) <=>
                /\ NamedIn(o, l) /\ ParentOf(o) \in Units
                /\ NamedPath(ParentOf(o), l, n)
<1>0. \A q, m : NamedPath(q, l, m) <=> \E p : Chain(p, q, l, m)
  BY DEF NamedPath, Chain, Units
<1>1. ASSUME NEW p, Chain(p, o, l, 1)
      PROVE  ParentOf(o) = 0 /\ NamedIn(o, l)
  BY <1>1 DEF Chain
<1>2. ASSUME ParentOf(o) = 0, NamedIn(o, l)
      PROVE  Chain([j \in 1..1 |-> o], o, l, 1)
  BY <1>2 DEF Chain
<1>3. ASSUME NEW p, Chain(p, o, l, n + 1)
      PROVE  /\ NamedIn(o, l) /\ ParentOf(o) \in Units
             /\ Chain([j \in 1..n |-> p[j + 1]], ParentOf(o), l, n)
  <2> DEFINE q == [j \in 1..n |-> p[j + 1]]
  <2>1. /\ p \in [1..(n + 1) -> Units] /\ p[1] = o
        /\ \A j \in 1..n : p[j + 1] = ParentOf(p[j])
        /\ ParentOf(p[n + 1]) = 0
        /\ \A j \in 1..(n + 1) : NamedIn(p[j], l)
    BY <1>3 DEF Chain
  <2>2. 1 \in 1..n /\ n \in 1..n /\ 2 \in 1..(n + 1) /\ 1 \in 1..(n + 1) /\ 1 + 1 = 2
    OBVIOUS
  <2>3. NamedIn(o, l) /\ p[2] = ParentOf(o) /\ ParentOf(o) \in Units
    BY <2>1, <2>2
  <2>4. \A j \in 1..n : j + 1 \in 1..(n + 1) /\ q[j] = p[j + 1]
    OBVIOUS
  <2>5. q \in [1..n -> Units] /\ q[1] = ParentOf(o) /\ q[n] = p[n + 1]
    BY <2>1, <2>2, <2>3, <2>4
  <2>6. \A j \in 1..n - 1 : q[j + 1] = ParentOf(q[j])
    <3> SUFFICES ASSUME NEW j \in 1..n - 1 PROVE q[j + 1] = ParentOf(q[j])
      OBVIOUS
    <3>1. j \in 1..n /\ j + 1 \in 1..n
      OBVIOUS
    <3> HIDE DEF q
    <3> QED
      BY <2>1, <2>4, <3>1
  <2> HIDE DEF q
  <2>7. Chain(q, ParentOf(o), l, n)
    BY <2>1, <2>4, <2>5, <2>6 DEF Chain
  <2> QED
    BY <2>3, <2>7 DEF q
<1>4. ASSUME NamedIn(o, l), ParentOf(o) \in Units, NEW q, Chain(q, ParentOf(o), l, n)
      PROVE  Chain([j \in 1..(n + 1) |-> IF j = 1 THEN o ELSE q[j - 1]], o, l, n + 1)
  <2> DEFINE p == [j \in 1..(n + 1) |-> IF j = 1 THEN o ELSE q[j - 1]]
  <2>1. /\ q \in [1..n -> Units] /\ q[1] = ParentOf(o)
        /\ \A j \in 1..n - 1 : q[j + 1] = ParentOf(q[j])
        /\ ParentOf(q[n]) = 0
        /\ \A j \in 1..n : NamedIn(q[j], l)
    BY <1>4 DEF Chain
  <2>2. \A j \in 1..n : j + 1 \in 1..(n + 1) /\ p[j + 1] = q[j]
    OBVIOUS
  <2>3. p \in [1..(n + 1) -> Units] /\ p[1] = o /\ p[n + 1] = q[n]
    <3>1. \A j \in 1..(n + 1) : j # 1 => j - 1 \in 1..n
      OBVIOUS
    <3> QED
      BY <2>1, <3>1
  <2>4. \A j \in 1..(n + 1) : j = 1 \/ \E i \in 1..n : j = i + 1
    <3> SUFFICES ASSUME NEW j \in 1..(n + 1), j # 1 PROVE \E i \in 1..n : j = i + 1
      OBVIOUS
    <3>1. j - 1 \in 1..n /\ j = (j - 1) + 1
      OBVIOUS
    <3> QED
      BY <3>1
  <2> HIDE DEF p
  <2>5. ASSUME NEW j \in 1..(n + 1)
        PROVE  NamedIn(p[j], l)
    <3>1. CASE j = 1
      BY <1>4, <2>3, <3>1
    <3>2. CASE j # 1
      <4>1. PICK i \in 1..n : j = i + 1
        BY <2>4, <3>2
      <4>2. p[j] = q[i] /\ NamedIn(q[i], l)
        BY <2>1, <2>2, <4>1
      <4> QED
        BY <4>2
    <3> QED
      BY <3>1, <3>2
  <2>6. \A j \in 1..n : p[j + 1] = ParentOf(p[j])
    <3> SUFFICES ASSUME NEW j \in 1..n PROVE p[j + 1] = ParentOf(p[j])
      OBVIOUS
    <3>1. CASE j = 1
      BY <2>1, <2>2, <2>3, <3>1
    <3>2. CASE j # 1
      <4>1. j - 1 \in 1..n - 1 /\ j - 1 \in 1..n /\ (j - 1) + 1 = j
        BY <3>2
      <4>2. q[j] = ParentOf(q[j - 1]) /\ p[j] = q[j - 1]
        BY <2>1, <2>2, <4>1
      <4> QED
        BY <2>2, <4>2
    <3> QED
      BY <3>1, <3>2
  <2>7. \A j \in 1..(n + 1) - 1 : j \in 1..n
    OBVIOUS
  <2>8. Chain(p, o, l, n + 1)
    BY <2>1, <2>3, <2>5, <2>6, <2>7 DEF Chain
  <2> QED
    BY <2>8 DEF p
<1> QED
  BY <1>0, <1>1, <1>2, <1>3, <1>4

\* The units at depth n are those whose chain of parents has n units.
LEMMA DepthIsPath ==
    ASSUME NEW l, NEW n \in Depths
    PROVE  fn_org_hierarchy(l)[n] = {o \in Units : NamedPath(o, l, n)}
<1> DEFINE t == fn_org_hierarchy(l)
           S == {m \in Nat : m + 1 \in Depths =>
                   t[m + 1] = {o \in Units : NamedPath(o, l, m + 1)}}
<1>1. /\ t \in [Depths -> SUBSET Units]
      /\ \A m \in Depths : t[m] = IF m = 1 THEN Roots(l) ELSE ChildrenOf(t[m - 1], l)
  BY HierarchyIs
<1>2. \A m \in Depths : m \in Nat \ {0}
  BY UnitsAre DEF Depths
<1> HIDE DEF t
<1>3. 0 \in S
  <2>1. Roots(l) = {o \in Units : NamedPath(o, l, 1)}
    BY ChainStep DEF Roots, Units
  <2> QED
    BY <1>1, <2>1
<1>4. ASSUME NEW m \in Nat, m \in S
      PROVE  m + 1 \in S
  <2> SUFFICES ASSUME m + 1 + 1 \in Depths
               PROVE  t[m + 1 + 1] = {o \in Units : NamedPath(o, l, m + 1 + 1)}
    OBVIOUS
  <2>1. m + 1 \in Depths /\ m + 1 + 1 # 1 /\ (m + 1 + 1) - 1 = m + 1
    BY UnitsAre DEF Depths
  <2>2. t[m + 1] = {o \in Units : NamedPath(o, l, m + 1)}
    BY <1>4, <2>1
  <2>3. t[m + 1 + 1] = ChildrenOf(t[m + 1], l)
    BY <1>1, <2>1
  <2>4. m + 1 \in Nat \ {0}
    OBVIOUS
  <2>5. ChildrenOf(t[m + 1], l) = {o \in Units : NamedPath(o, l, m + 1 + 1)}
    BY <2>2, <2>4, ChainStep DEF ChildrenOf, Units
  <2> QED
    BY <2>3, <2>5
<1>5. n - 1 \in Nat /\ n - 1 + 1 = n
  BY <1>2
<1>6. n - 1 \in S
  <2> HIDE DEF S
  <2> QED
    BY <1>3, <1>4, <1>5, NatInductive
<1> QED
  BY <1>5, <1>6 DEF t

\* From a unit there is one chain of parents: two that reach a root are equally
\* long.
LEMMA ChainsAgree ==
    ASSUME NEW o, NEW l, NEW m \in Nat \ {0}, NEW n \in Nat \ {0}, m < n,
           NEW p, Chain(p, o, l, m), NEW q, Chain(q, o, l, n)
    PROVE  FALSE
<1>1. /\ p \in [1..m -> Units] /\ p[1] = o
      /\ \A j \in 1..m - 1 : p[j + 1] = ParentOf(p[j])
      /\ ParentOf(p[m]) = 0
  BY DEF Chain
<1>2. /\ q \in [1..n -> Units] /\ q[1] = o
      /\ \A j \in 1..n - 1 : q[j + 1] = ParentOf(q[j])
  BY DEF Chain
<1> DEFINE S == {k \in Nat : k + 1 <= m => p[k + 1] = q[k + 1]}
<1>3. 0 \in S
  BY <1>1, <1>2
<1>4. ASSUME NEW k \in Nat, k \in S
      PROVE  k + 1 \in S
  <2> SUFFICES ASSUME k + 1 + 1 <= m PROVE p[k + 1 + 1] = q[k + 1 + 1]
    OBVIOUS
  <2>1. k + 1 \in 1..m - 1 /\ k + 1 \in 1..n - 1 /\ k + 1 <= m
    OBVIOUS
  <2>2. p[k + 1] = q[k + 1]
    BY <1>4, <2>1
  <2> QED
    BY <1>1, <1>2, <2>1, <2>2
<1>5. m - 1 \in S
  <2>1. m - 1 \in Nat
    OBVIOUS
  <2> HIDE DEF S
  <2> QED
    BY <1>3, <1>4, <2>1, NatInductive
<1>6. p[m] = q[m] /\ m \in 1..n - 1 /\ m + 1 \in 1..n
  <2>1. m - 1 + 1 = m
    OBVIOUS
  <2> QED
    BY <1>5, <2>1
<1>7. q[m + 1] = 0
  BY <1>1, <1>2, <1>6
<1> QED
  BY <1>2, <1>6, <1>7, UnitsAre

\* A chain may be entered at any of its units.
LEMMA ChainEntered ==
    ASSUME NEW o, NEW l, NEW n \in Nat \ {0}, NEW p, Chain(p, o, l, n),
           NEW x \in 1..n
    PROVE  Chain([j \in 1..(n - x + 1) |-> p[j + x - 1]], p[x], l, n - x + 1)
<1> DEFINE m == n - x + 1
           q == [j \in 1..m |-> p[j + x - 1]]
<1>1. /\ p \in [1..n -> Units]
      /\ \A j \in 1..n - 1 : p[j + 1] = ParentOf(p[j])
      /\ ParentOf(p[n]) = 0
      /\ \A j \in 1..n : NamedIn(p[j], l)
  BY DEF Chain
<1>2. /\ \A j \in 1..m : j + x - 1 \in 1..n /\ q[j] = p[j + x - 1]
      /\ m \in Nat \ {0} /\ m + x - 1 = n /\ 1 \in 1..m /\ m \in 1..m /\ 1 + x - 1 = x
  OBVIOUS
<1>3. ASSUME NEW j \in 1..m - 1
      PROVE  q[j + 1] = ParentOf(q[j])
  <2>1. /\ j \in 1..m /\ j + 1 \in 1..m
        /\ j + x - 1 \in 1..n - 1 /\ (j + 1) + x - 1 = (j + x - 1) + 1
    BY <1>2
  <2> HIDE DEF q, m
  <2> QED
    BY <1>1, <1>2, <2>1
<1>4. q \in [1..m -> Units]
  BY <1>1, <1>2
<1> HIDE DEF q, m
<1>5. Chain(q, p[x], l, m)
  BY <1>1, <1>2, <1>3, <1>4 DEF Chain
<1> QED
  BY <1>5 DEF q, m

\* No chain has more units than there are, cycles of parents or not.
LEMMA ChainsAreShort ==
    ASSUME NEW o, NEW l, NEW p, Chain(p, o, l, MaxIds["orgunit"] + 1)
    PROVE  FALSE
<1> DEFINE M == MaxIds["orgunit"]
           n == M + 1
<1>1. M \in Nat /\ n \in Nat /\ n \in Nat \ {0} /\ M < n
  BY UnitsAre
<1>2. p \in [1..n -> 1..M]
  BY UnitsAre DEF Chain
<1>3. Chain(p, o, l, n)
  OBVIOUS
<1> HIDE DEF M, n
<1>4. /\ IsFiniteSet(1..n) /\ IsFiniteSet(1..M)
      /\ Cardinality(1..M) < Cardinality(1..n)
  BY <1>1, IntervalSize
<1>5. PICK x, y \in 1..n : x # y /\ p[x] = p[y]
  BY <1>2, <1>4, FS_PigeonHole
<1>6. ASSUME NEW a \in 1..n, NEW b \in 1..n, a < b, p[a] = p[b]
      PROVE  FALSE
  <2>1. /\ n - a + 1 \in Nat \ {0} /\ n - b + 1 \in Nat \ {0}
        /\ n - b + 1 < n - a + 1
    BY <1>1, <1>6
  <2>2. /\ Chain([j \in 1..(n - a + 1) |-> p[j + a - 1]], p[a], l, n - a + 1)
        /\ Chain([j \in 1..(n - b + 1) |-> p[j + b - 1]], p[b], l, n - b + 1)
    BY <1>1, <1>3, ChainEntered
  <2> DEFINE q == [j \in 1..(n - a + 1) |-> p[j + a - 1]]
             r == [j \in 1..(n - b + 1) |-> p[j + b - 1]]
             u == n - a + 1
             v == n - b + 1
  <2>3. /\ Chain(q, p[a], l, u) /\ Chain(r, p[a], l, v)
        /\ u \in Nat \ {0} /\ v \in Nat \ {0} /\ v < u
    BY <1>6, <2>1, <2>2
  <2> HIDE DEF q, r, u, v
  <2> QED
    BY <2>3, ChainsAgree
<1>7. x < y \/ y < x
  BY <1>1, <1>5
<1> QED
  BY <1>5, <1>6, <1>7

\* The recursive query ends, and lists each unit at the length of its chain.
LEMMA HierarchyIsExact == HierarchyExact
<1> SUFFICES ASSUME NEW l \in Locales
             PROVE  /\ fn_org_hierarchy(l)[MaxIds["orgunit"] + 1] = {}
                    /\ \A n \in 1..MaxIds["orgunit"] :
                          fn_org_hierarchy(l)[n] =
                             {o \in LiveIds("orgunit") : NamedPath(o, l, n)}
                    /\ \A m, n \in DOMAIN fn_org_hierarchy(l) :
                          m # n => fn_org_hierarchy(l)[m]
                                      \cap fn_org_hierarchy(l)[n] = {}
  BY DEF HierarchyExact
<1> DEFINE t == fn_org_hierarchy(l)
           M == MaxIds["orgunit"]
<1>1. /\ M \in Nat /\ M + 1 \in Depths /\ 1..M \subseteq Depths
      /\ Depths \subseteq Nat \ {0}
  BY UnitsAre DEF Depths
<1>2. DOMAIN t = Depths
  BY HierarchyIs
<1>3. \A n \in Depths : t[n] = {o \in Units : NamedPath(o, l, n)}
  BY DepthIsPath
<1>4. \A o, n : NamedPath(o, l, n) <=> \E p : Chain(p, o, l, n)
  BY DEF NamedPath, Chain, Units
<1>5. \A o : ~NamedPath(o, l, M + 1)
  BY <1>4, ChainsAreShort
<1>6. ASSUME NEW m \in Depths, NEW n \in Depths, NEW o, m < n
      PROVE  ~(NamedPath(o, l, m) /\ NamedPath(o, l, n))
  BY <1>1, <1>4, <1>6, ChainsAgree
<1>7. ASSUME NEW m \in Depths, NEW n \in Depths, m # n
      PROVE  t[m] \cap t[n] = {}
  <2>1. m < n \/ n < m
    BY <1>1, <1>7
  <2> HIDE DEF t
  <2> QED
    BY <1>3, <1>6, <2>1
<1>8. t[M + 1] = {}
  <2> HIDE DEF t
  <2> QED
    BY <1>1, <1>3, <1>5
<1>9. \A n \in 1..M : t[n] = {o \in LiveIds("orgunit") : NamedPath(o, l, n)}
  BY <1>1, <1>3 DEF Units
<1> QED
  BY <1>2, <1>7, <1>8, <1>9

\* A row of the hierarchy is a unit at a depth of the tree.
LEMMA HierarchyRow ==
    ASSUME NEW l, NEW h
    PROVE  h \in hierarchy(l) <=>
             \E n \in Ids("orgunit") : \E o \in fn_org_hierarchy(l)[n] :
                h = OrgHierarchyDTO(o, l, n)
  BY DEF hierarchy

\* A unit is listed below its parent, which is listed too.
LEMMA HierarchyIsLinked == HierarchyLinked
<1> SUFFICES ASSUME NEW l \in Locales, NEW h \in hierarchy(l)
             PROVE  /\ (h.depth = 1) = (h.unit.parent_id = 0)
                    /\ h.depth > 1 =>
                          /\ h.unit \in find_children(h.unit.parent_id)
                          /\ \E g \in hierarchy(l) :
                                g.unit.id = h.unit.parent_id /\ g.depth = h.depth - 1
  BY DEF HierarchyLinked
<1> DEFINE t == fn_org_hierarchy(l)
<1>0. PICK n \in Ids("orgunit") : \E o \in t[n] : h = OrgHierarchyDTO(o, l, n)
  BY HierarchyRow
<1>1. PICK o \in t[n] : h = OrgHierarchyDTO(o, l, n)
  BY <1>0
<1>2. /\ t \in [Depths -> SUBSET Units]
      /\ \A m \in Depths : t[m] = IF m = 1 THEN Roots(l) ELSE ChildrenOf(t[m - 1], l)
  BY HierarchyIs
<1>3. /\ n \in Depths /\ n \in Nat /\ n >= 1
      /\ n # 1 => n - 1 \in Depths /\ n - 1 \in Ids("orgunit")
  BY UnitsAre DEF Depths, Ids
<1>4. /\ h.depth = n /\ h.unit = OrgUnitDTO(o) /\ h.unit.parent_id = ParentOf(o)
  BY <1>1 DEF OrgHierarchyDTO, OrgUnitDTO
<1> HIDE DEF t
<1>5. CASE n = 1
  BY <1>1, <1>2, <1>3, <1>4, <1>5 DEF Roots
<1>6. CASE n # 1
  <2>1. o \in Units /\ ParentOf(o) \in t[n - 1] /\ ParentOf(o) \in Units
    BY <1>1, <1>2, <1>3, <1>6 DEF ChildrenOf
  <2>2. ParentOf(o) # 0
    BY <2>1, UnitsAre
  <2>3. OrgUnitDTO(o) \in find_children(ParentOf(o))
    BY <2>1, <2>2 DEF find_children, WhereRef, Col, ParentOf, Units
  <2> DEFINE g == OrgHierarchyDTO(ParentOf(o), l, n - 1)
  <2>4. g \in hierarchy(l)
    BY <1>3, <1>6, <2>1, HierarchyRow DEF t
  <2>5. g.unit.id = ParentOf(o) /\ g.depth = n - 1
    BY DEF OrgHierarchyDTO, OrgUnitDTO
  <2> HIDE DEF g
  <2> QED
    BY <1>4, <1>6, <2>2, <2>3, <2>4, <2>5
<1> QED
  BY <1>5, <1>6

\* OrgDAO::hierarchy, whatever the parents have been set to: the recursion
\* ends even on cycles, and lists exactly the units that hang from a root,
\* each once, at its depth and below its parent.
THEOREM HierarchyIsSound == QuerySpec => []HierarchySound
<1>1. HierarchySound
  BY HierarchyIsExact, HierarchyIsLinked DEF HierarchySound
<1> QED
  BY <1>1, PTL

-----------------------------------------------------------------------------
(***************************************************************************)
(* The materialized views.                                                 *)
(***************************************************************************)

\* The units that were removed and whose ids are never given out again.
Removed == {o \in Ids("orgunit") \ LiveIds("orgunit") : o < nextId["orgunit"]}

\* What a running refresh has so far lists no unit that was gone before it.
RefreshInv ==
    /\ gone \subseteq Removed
    /\ \A l \in DOMAIN pending : \A h \in pending[l] : h.unit.id \notin gone

\* A unit that was removed stays removed.
LEMMA RemovedStays ==
    ASSUME StoreInd, [Next]_vars
    PROVE  Removed \subseteq Removed'
<1> SUFFICES ASSUME NEW o \in Removed PROVE o \in Removed'
  OBVIOUS
<1> DEFINE u == "orgunit"
           m == <<u, o>>
<1>1. /\ u \in Tables /\ o \in Ids(u) /\ m \in Keys /\ ~Live(m) /\ o < nextId[u]
      /\ m[1] = u /\ m[2] = o /\ o \in Nat
  BY KeysAre, IdsAre DEF Removed, LiveIds, Tables
<1>2. nextId \in [Tables -> Nat]
  BY DEF StoreInd, WellFormed
<1>3. ASSUME ~Live(m)', o < nextId'[u]
      PROVE  o \in Removed'
  BY <1>1, <1>3 DEF Removed, LiveIds
<1>4. CASE UNCHANGED vars
  BY <1>1, <1>3, <1>4 DEF vars, Live
<1>5. ASSUME NEW t \in Tables, NEW i, NEW r, Writes(t, i, r)
      PROVE  o \in Removed'
  <2>1. nextId[u] <= nextId'[u]
    BY <1>1, <1>2, <1>5 DEF Writes
  <2>2. nextId'[u] \in Nat
    BY <1>1, <1>2, <1>5 DEF Writes
  <2>3. m # <<t, i>>
    BY <1>1, <1>2, <1>5 DEF Writes
  <2>4. ~Live(m)'
    BY <1>1, <1>5, <2>3, WritesOne
  <2> QED
    BY <1>1, <1>2, <1>3, <2>1, <2>2, <2>4
<1>6. ASSUME NEW t \in Tables \ {"localizedorgunit"}, NEW i \in Ids(t), Delete(t, i)
      PROVE  o \in Removed'
  <2>1. ~Live(m)'
    BY <1>1, <1>6, DeletesRows
  <2>2. nextId' = nextId
    BY <1>6 DEF Delete
  <2> QED
    BY <1>1, <1>3, <2>1, <2>2
<1>7. ASSUME NEW q \in IdArg("orgunit"), NEW l \in Locales, NEW v \in Values,
             Localizes(q, l, v)
      PROVE  o \in Removed'
  <2> DEFINE k == <<"localizedorgunit", nextId["localizedorgunit"]>>
             n == <<"orgunit", q>>
  <2>1. Live(n) /\ \A x \in Keys \ {k, n} : rows'[x] = rows[x]
    BY <1>7, LocalizesRows
  <2>2. m # n /\ m # k
    BY <1>1, <2>1
  <2>3. ~Live(m)'
    BY <1>1, <2>1, <2>2 DEF Live
  <2>4. nextId'[u] = nextId[u]
    BY <1>1, <1>2, <1>7 DEF Localizes
  <2> QED
    BY <1>1, <1>3, <2>3, <2>4
<1> QED
  BY <1>4, <1>5, <1>6, <1>7, StepKinds

\* The hierarchy lists units that are there.
LEMMA HierarchyLive ==
    ASSUME NEW l, NEW h \in hierarchy(l)
    PROVE  h.unit.id \in LiveIds("orgunit")
<1>0. PICK n \in Ids("orgunit") :
         \E o \in fn_org_hierarchy(l)[n] : h = OrgHierarchyDTO(o, l, n)
  BY HierarchyRow
<1>1. PICK o \in fn_org_hierarchy(l)[n] : h = OrgHierarchyDTO(o, l, n)
  BY <1>0
<1>2. n \in Depths
  BY UnitsAre DEF Depths, Ids
<1>3. o \in Units
  BY <1>1, <1>2, HierarchyIs
<1>4. h.unit.id = o
  BY <1>1 DEF OrgHierarchyDTO, OrgUnitDTO
<1> QED
  BY <1>3, <1>4 DEF Units

\* A refresh keeps what it has, and adds only units that are there.
LEMMA RefreshInvNext ==
    ASSUME StoreInd, RefreshInv, [QueryNext]_queryVars
    PROVE  RefreshInv'
<1>1. CASE UNCHANGED queryVars
  BY <1>1 DEF queryVars, mvVars, vars, RefreshInv, Removed, LiveIds, Live
<1>2. CASE Next /\ UNCHANGED mvVars
  BY <1>2, RemovedStays DEF RefreshInv, mvVars
<1>3. CASE RefreshOne
  <2> DEFINE l == CHOOSE m \in Locales \ DOMAIN pending : TRUE
  <2>1. /\ pending' = [m \in DOMAIN pending \cup {l} |->
                         IF m = l THEN hierarchy(l) ELSE pending[m]]
        /\ gone' = IF Refreshing THEN gone ELSE Removed
        /\ UNCHANGED vars
    BY <1>3 DEF RefreshOne, Removed
  <2> HIDE DEF l
  <2>2. Removed' = Removed
    BY <2>1 DEF vars, Removed, LiveIds, Live
  <2>3. gone' \subseteq Removed
    BY <2>1 DEF RefreshInv
  <2>4. ASSUME NEW m \in DOMAIN pending', NEW h \in pending'[m]
        PROVE  h.unit.id \notin gone'
    <3>1. CASE m = l
      <4>1. h.unit.id \in LiveIds("orgunit")
        BY <2>1, <2>4, <3>1, HierarchyLive
      <4> QED
        BY <2>3, <4>1 DEF Removed
    <3>2. CASE m # l
      <4>1. m \in DOMAIN pending /\ h \in pending[m]
        BY <2>1, <2>4, <3>2
      <4>2. gone' = gone
        BY <2>1, <4>1 DEF Refreshing
      <4> QED
        BY <4>1, <4>2 DEF RefreshInv
    <3> QED
      BY <3>1, <3>2
  <2> QED
    BY <2>2, <2>3, <2>4 DEF RefreshInv
<1>4. CASE RefreshCommits
  <2>1. gone' = {} /\ pending' = <<>>
    BY <1>4 DEF RefreshCommits
  <2> QED
    BY <2>1 DEF RefreshInv
<1> QED
  BY <1>1, <1>2, <1>3, <1>4 DEF QueryNext

\* A refresh of the views that commits shows no unit that was removed before
\* it began, in no locale, although others write between two locales: ids
\* are never given out twice (fn_refresh_locale_mvs).
THEOREM ViewsAreNotOlder == QuerySpec => ViewsNotOlder
<1> DEFINE Newer == refreshes' # refreshes =>
              \A l \in Locales : \A h \in mvs'[l] : h.unit.id \notin gone
<1>1. QueryInit => RefreshInv
  BY DEF QueryInit, RefreshInv
<1>2. StoreInd /\ RefreshInv /\ [QueryNext]_queryVars => RefreshInv'
  BY RefreshInvNext
<1>3. RefreshInv /\ [QueryNext]_queryVars => [Newer]_queryVars
  <2> SUFFICES ASSUME RefreshInv, QueryNext, refreshes' # refreshes
               PROVE  \A l \in Locales : \A h \in mvs'[l] : h.unit.id \notin gone
    OBVIOUS
  <2>1. RefreshCommits
    BY DEF QueryNext, mvVars, RefreshOne
  <2>2. mvs' = pending /\ DOMAIN pending = Locales
    BY <2>1 DEF RefreshCommits, Committed
  <2> QED
    BY <2>2 DEF RefreshInv
<1> QED
  BY <1>1, <1>2, <1>3, QueriesKeepStore, PTL DEF QuerySpec, ViewsNotOlder
=============================================================================
