---------------------------- MODULE ContactStore ----------------------------
(***************************************************************************)
(* The contact database: the tables of contact_ddl.sql with their foreign  *)
(* keys, unique indexes and triggers, and the write operations of          *)
(* PersonDAO, OrgDAO, ContactDAO, RoleDAO and VisibilityDAO.               *)
(*                                                                         *)
(* An operation is one SQL statement in a transaction of its own, with     *)
(* everything it sets off: BEFORE triggers, cascaded deletes, SET NULL,    *)
(* the refresh trigger of localized names and the row-level audit trigger. *)
(* A statement that violates a constraint, and a DAO call that returns 0   *)
(* without sending a statement, change nothing and are not steps.          *)
(*                                                                         *)
(* T_SocialMedia and T_Website have no DAO and stay empty; they are left   *)
(* out.  T_Locale and T_ContactQualifier are seeded and never change.      *)
(***************************************************************************)
EXTENDS Naturals, FiniteSets

CONSTANTS
    MaxIds,         \* bound: rows each table's sequence gives out
    MaxRows,        \* bound: rows all sequences together give out
    Values,         \* names, keywords, numbers and other free content
    KeyValues,      \* tax ids, e-mail addresses, relationships
    Categories,     \* values of data_category
    All,            \* the category 'All'
    Locales,        \* T_Locale
    DefaultLocale,  \* the locale with is_default = TRUE
    None,           \* a null column
    NoRow           \* no row with this id

Owned    == {"phone", "email", "address"}
Tables   == {"person", "orgunit", "localizedorgunit", "role",
             "localizedrole", "personorgrelation", "personrole",
             "datavisibility"} \cup Owned

\* The tables create_audit_log is called for.
Audited == Tables \ {"localizedorgunit", "localizedrole"}

Ref(c, to, d) == [col |-> c, to |-> to, del |-> d]

\* Mutant: sub-units go with their parent.
ParentRule_Cascade == "CASCADE"

\* T_OrgUnit.parent_id ... ON DELETE SET NULL
ParentRule == "SET_NULL"

\* T_Phone, T_Email, T_Address: person_id and org_unit_id ON DELETE CASCADE
OwnerRule == "CASCADE"

OwnerRefs == {Ref("person_id", "person", OwnerRule),
              Ref("org_unit_id", "orgunit", OwnerRule)}

\* REFERENCES ... ON DELETE ..., table by table.
RefsOf ==
    [person            |-> {},
     orgunit           |-> {Ref("parent_id", "orgunit", ParentRule)},
     localizedorgunit  |-> {Ref("org_unit_id", "orgunit", "CASCADE")},
     role              |-> {Ref("org_unit_id", "orgunit", "CASCADE")},
     localizedrole     |-> {Ref("role_id", "role", "CASCADE")},
     personorgrelation |-> {Ref("person_id", "person", "CASCADE"),
                            Ref("org_unit_id", "orgunit", "CASCADE")},
     personrole        |-> {Ref("person_id", "person", "CASCADE"),
                            Ref("role_id", "role", "CASCADE")},
     datavisibility    |-> {Ref("owner_person_id", "person", "CASCADE"),
                            Ref("viewer_person_id", "person", "CASCADE"),
                            Ref("viewer_role_id", "role", "CASCADE"),
                            Ref("viewer_org_unit_id", "orgunit", "CASCADE")},
     phone |-> OwnerRefs, email |-> OwnerRefs, address |-> OwnerRefs]

Columns == [t \in Tables |-> {f.col : f \in RefsOf[t]}]
Ids(t)  == 1..MaxIds[t]
Keys    == UNION {{<<t, i>> : i \in Ids(t)} : t \in Tables}

VARIABLES
    rows,    \* the content of every table, by table and id
    nextId,  \* the sequences: ids are never given out twice
    log      \* the audit entries the last statement wrote

vars == <<rows, nextId, log>>

\* ref: the foreign key columns, 0 for NULL; key: what unique indexes
\* compare; val: the rest; vec: search_vector, the set of its lexemes.
Row(r, k, v) == [ref |-> r, key |-> k, val |-> v, vec |-> {}]

\* Any row of any table.
StoredRow ==
    [ref : UNION {[Columns[t] -> Nat] : t \in Tables},
     key : KeyValues \cup Locales \cup Categories \cup {None},
     val : Values \cup {None} \cup BOOLEAN,
     vec : SUBSET (Values \cup KeyValues)]

ASSUME StoreAssumption == MaxIds \in [Tables -> Nat] /\ NoRow \notin StoredRow

Live(k)   == rows[k] # NoRow
LiveIds(t) == {i \in Ids(t) : Live(<<t, i>>)}
KeysOf(t) == {<<t, i>> : i \in LiveIds(t)}

\* The type invariant.
TypeOK ==
    /\ DOMAIN rows = Keys
    /\ \A k \in Keys : Live(k) =>
          /\ rows[k].ref \in [Columns[k[1]] -> Nat]
          /\ rows[k].key \in KeyValues \cup Locales \cup Categories \cup {None}
          /\ rows[k].val \in Values \cup {None} \cup BOOLEAN
          /\ rows[k].vec \subseteq Values \cup KeyValues
    /\ nextId \in [Tables -> Nat]
    /\ \A k \in Keys : Live(k) => k[2] < nextId[k[1]]

Init ==
    /\ rows = [k \in Keys |-> NoRow]
    /\ nextId = [t \in Tables |-> 1]
    /\ log = {}

-----------------------------------------------------------------------------
(***************************************************************************)
(* Triggers and constraints.                                               *)
(***************************************************************************)

\* fn_audit_log, for every row the statement changed in an audited table.
fn_audit_log(changes) ==
    log' = {[key |-> c[1], action |-> c[2]] :
               c \in {d \in changes : d[1][1] \in Audited}}

\* fn_person_search_vector: names, tax id and keywords of the new row.
fn_person_search_vector(r) ==
    [r EXCEPT !.vec = {r.key, r.val} \ {None}]

\* The name of unit o in the default locale, if it has one.
OrgName(rs, o) ==
    {rs[k].val : k \in {l \in Keys : /\ l[1] = "localizedorgunit"
                                    /\ rs[l] # NoRow
                                    /\ rs[l].ref["org_unit_id"] = o
                                    /\ rs[l].key = DefaultLocale}}

\* fn_orgunit_search_vector: default name, tax id and keywords.
fn_orgunit_search_vector(rs, o, r) ==
    [r EXCEPT !.vec = OrgName(rs, o) \cup ({r.val} \ {None})]

\* Foreign keys: every column that is not null names a row.
RefsExist(t, r) ==
    \A f \in RefsOf[t] : r.ref[f.col] # 0 => r.ref[f.col] \in LiveIds(f.to)

\* Unique indexes: tax id and e-mail address by themselves, the others
\* together with the references.
Apart(t, o, r) ==
    CASE t \in {"person", "email"} -> r.key = None \/ o.key # r.key
      [] t \in {"localizedorgunit", "localizedrole",
                "personorgrelation", "personrole"} ->
            <<o.ref, o.key>> # <<r.ref, r.key>>
      [] OTHER -> TRUE

NoClash(t, i, r) == \A j \in LiveIds(t) \ {i} : Apart(t, rows[<<t, j>>], r)

\* chk_*_owner and chk_single_viewer: exactly one of the columns is set.
OneOf(r, cols) == Cardinality({c \in cols : r.ref[c] # 0}) = 1

Checks(t, r) ==
    CASE t \in Owned -> OneOf(r, {"person_id", "org_unit_id"})
      [] t = "datavisibility" ->
            /\ OneOf(r, {"viewer_person_id", "viewer_role_id",
                         "viewer_org_unit_id"})
            /\ r.ref["owner_person_id"] # 0
      [] t \in {"orgunit", "role"} -> TRUE
      [] OTHER -> \A c \in Columns[t] : r.ref[c] # 0    \* NOT NULL

Legal(t, i, r) == RefsExist(t, r) /\ NoClash(t, i, r) /\ Checks(t, r)

-----------------------------------------------------------------------------
(***************************************************************************)
(* Statements.                                                             *)
(***************************************************************************)

\* The bounds on rows.
Room(t) ==
    /\ nextId[t] \in Ids(t)
    /\ Cardinality({k \in Keys : k[2] < nextId[k[1]]}) < MaxRows

\* INSERT INTO t: the next id of the sequence, if the row is legal.
Insert(t, r) ==
    LET i == nextId[t] IN
    /\ Room(t)
    /\ Legal(t, i, r)
    /\ rows' = [rows EXCEPT ![<<t, i>>] = r]
    /\ nextId' = [nextId EXCEPT ![t] = i + 1]
    /\ fn_audit_log({<<<<t, i>>, "C">>})

\* UPDATE t ... WHERE id = i: all columns of a row that exists.
Update(t, i, r) ==
    /\ Live(<<t, i>>)
    /\ Legal(t, i, r)
    /\ rows' = [rows EXCEPT ![<<t, i>>] = r]
    /\ fn_audit_log({<<<<t, i>>, "U">>})
    /\ UNCHANGED nextId

\* The rows that refer to a row of S by a foreign key with rule d.
Referring(S, d) ==
    {k \in {l \in Keys : Live(l)} :
        \E f \in RefsOf[k[1]] :
            f.del = d /\ <<f.to, rows[k].ref[f.col]>> \in S}

\* Mutant: what refers to a row that goes by cascade stays.
Doomed_OneLevel(k) == {k} \cup Referring({k}, "CASCADE")

\* The rows that a DELETE of k takes with it.  Two rounds are enough: the
\* longest chain of ON DELETE CASCADE is unit, role, assignment.
Doomed(k) ==
    LET first == {k} \cup Referring({k}, "CASCADE")
    IN  first \cup Referring(first, "CASCADE")

\* ON DELETE SET NULL for a row that refers to a deleted one.
SetNull(k, S) ==
    [rows[k] EXCEPT !.ref =
        [c \in Columns[k[1]] |->
            IF \E f \in RefsOf[k[1]] :
                  /\ f.col = c /\ f.del = "SET_NULL"
                  /\ <<f.to, rows[k].ref[c]>> \in S
            THEN 0 ELSE rows[k].ref[c]]]

\* Mutant: the audit trigger sees only the row the statement names.
Delete_OwnEntryOnly(t, i) ==
    LET gone    == Doomed(<<t, i>>)
        nulled  == Referring(gone, "SET_NULL") \ gone
    IN  /\ Live(<<t, i>>)
        /\ rows' = [k \in Keys |-> IF k \in gone THEN NoRow
                                   ELSE IF k \in nulled THEN SetNull(k, gone)
                                   ELSE rows[k]]
        /\ fn_audit_log({<<<<t, i>>, "D">>})
        /\ UNCHANGED nextId

\* DELETE FROM t WHERE id = i.
Delete(t, i) ==
    LET gone    == Doomed(<<t, i>>)
        nulled  == Referring(gone, "SET_NULL") \ gone
    IN  /\ Live(<<t, i>>)
        /\ rows' = [k \in Keys |-> IF k \in gone THEN NoRow
                                   ELSE IF k \in nulled THEN SetNull(k, gone)
                                   ELSE rows[k]]
        /\ fn_audit_log({<<k, "D">> : k \in gone}
                        \cup {<<k, "U">> : k \in nulled})
        /\ UNCHANGED nextId

Refs(t, f) == [c \in Columns[t] |-> IF c \in DOMAIN f THEN f[c] ELSE 0]

\* An id argument: 0 for "none", and ids that may or may not have a row.
IdArg(t) == 0..MaxIds[t]

-----------------------------------------------------------------------------
(***************************************************************************)
(* PersonDAO and OrgDAO.                                                   *)
(***************************************************************************)

PersonRow(k, v) == fn_person_search_vector(Row(<<>>, k, v))

insert_person ==
    \E k \in KeyValues \cup {None}, v \in Values :
        Insert("person", PersonRow(k, v))

update_person ==
    \E i \in Ids("person"), k \in KeyValues \cup {None}, v \in Values :
        Update("person", i, PersonRow(k, v))

remove_person == \E i \in Ids("person") : Delete("person", i)

OrgRow(o, parent, v) ==
    fn_orgunit_search_vector(rows, o,
        Row(Refs("orgunit", [parent_id |-> parent]), None, v))

\* A parent of 0 is stored as NULL.
insert_orgunit ==
    \E parent \in IdArg("orgunit"), v \in Values \cup {None} :
        Insert("orgunit", OrgRow(nextId["orgunit"], parent, v))

\* Any unit may become the parent of any other, itself included.
update_orgunit ==
    \E o \in Ids("orgunit"), parent \in IdArg("orgunit"),
       v \in Values \cup {None} :
        Update("orgunit", o, OrgRow(o, parent, v))

remove_orgunit == \E o \in Ids("orgunit") : Delete("orgunit", o)

\* Mutant: no trigger refreshes the unit.
Refresh_None(rs, o) == rs

\* fn_localized_orgunit_refresh_search: UPDATE T_OrgUnit SET keywords =
\* keywords, which fires the unit's own search vector trigger.
Refresh(rs, o) ==
    [rs EXCEPT ![<<"orgunit", o>>] = fn_orgunit_search_vector(rs, o, @)]

insert_localized ==
    \E o \in IdArg("orgunit"), l \in Locales, v \in Values :
        LET t == "localizedorgunit"
            i == nextId[t]
            r == Row(Refs(t, [org_unit_id |-> o]), l, v)
        IN  /\ Room(t)
            /\ Legal(t, i, r)
            /\ rows' = Refresh([rows EXCEPT ![<<t, i>>] = r], o)
            /\ nextId' = [nextId EXCEPT ![t] = i + 1]
            /\ fn_audit_log({<<<<t, i>>, "C">>, <<<<"orgunit", o>>, "U">>})

-----------------------------------------------------------------------------
(***************************************************************************)
(* ContactDAO: phones, e-mail addresses and postal addresses of a person   *)
(* or a unit.  No statement is sent unless exactly one owner is given.     *)
(***************************************************************************)

Owners ==
    {[person_id |-> p, org_unit_id |-> 0] : p \in Ids("person")}
    \cup {[person_id |-> 0, org_unit_id |-> o] : o \in Ids("orgunit")}

insert_phone ==
    \E o \in Owners, v \in Values : Insert("phone", Row(o, None, v))

insert_email ==
    \E o \in Owners, k \in KeyValues : Insert("email", Row(o, k, None))

insert_address ==
    \E o \in Owners, v \in Values : Insert("address", Row(o, None, v))

remove_phone   == \E i \in Ids("phone") : Delete("phone", i)
remove_email   == \E i \in Ids("email") : Delete("email", i)
remove_address == \E i \in Ids("address") : Delete("address", i)

-----------------------------------------------------------------------------
(***************************************************************************)
(* RoleDAO.                                                                *)
(***************************************************************************)

insert_role ==
    \E o \in IdArg("orgunit") :
        Insert("role", Row(Refs("role", [org_unit_id |-> o]), None, None))

insert_localized_role ==
    \E r \in IdArg("role"), l \in Locales, v \in Values :
        Insert("localizedrole",
               Row(Refs("localizedrole", [role_id |-> r]), l, v))

remove_role == \E r \in Ids("role") : Delete("role", r)

insert_person_org_relation ==
    \E p \in IdArg("person"), o \in IdArg("orgunit"), k \in KeyValues :
        Insert("personorgrelation",
               Row([person_id |-> p, org_unit_id |-> o], k, None))

assign_role ==
    \E p \in IdArg("person"), r \in IdArg("role") :
        Insert("personrole", Row([person_id |-> p, role_id |-> r], None, None))

unassign_role == \E i \in Ids("personrole") : Delete("personrole", i)

-----------------------------------------------------------------------------
(***************************************************************************)
(* VisibilityDAO.                                                          *)
(***************************************************************************)

\* The owner, and the viewer that is stored: the first of person, role and
\* unit that is not 0.
FirstViewer(owner, p, r, o) ==
    [owner_person_id    |-> owner,
     viewer_person_id   |-> p,
     viewer_role_id     |-> IF p = 0 THEN r ELSE 0,
     viewer_org_unit_id |-> IF p = 0 /\ r = 0 THEN o ELSE 0]

insert_visibility ==
    \E owner \in IdArg("person"), p \in IdArg("person"), r \in IdArg("role"),
       o \in IdArg("orgunit"), c \in Categories, can \in BOOLEAN :
        /\ {p, r, o} # {0}
        /\ Insert("datavisibility", Row(FirstViewer(owner, p, r, o), c, can))

remove_visibility == \E i \in Ids("datavisibility") : Delete("datavisibility", i)

-----------------------------------------------------------------------------
Next ==
    \/ insert_person \/ update_person \/ remove_person
    \/ insert_orgunit \/ update_orgunit \/ remove_orgunit \/ insert_localized
    \/ insert_phone \/ insert_email \/ insert_address
    \/ remove_phone \/ remove_email \/ remove_address
    \/ insert_role \/ insert_localized_role \/ remove_role
    \/ insert_person_org_relation \/ assign_role \/ unassign_role
    \/ insert_visibility \/ remove_visibility

Spec == Init /\ [][Next]_vars

-----------------------------------------------------------------------------
(***************************************************************************)
(* OrgDAO::hierarchy.                                                      *)
(***************************************************************************)

ParentOf(o) == rows[<<"orgunit", o>>].ref["parent_id"]

\* JOIN T_LocalizedOrgUnit and T_Locale: the unit has a name in locale l.
NamedIn(o, l) ==
    \E i \in LiveIds("localizedorgunit") :
        LET r == rows[<<"localizedorgunit", i>>]
        IN  r.ref["org_unit_id"] = o /\ r.key = l

\* Mutant: the recursion starts at every unit.
Roots_Any(l) == {o \in LiveIds("orgunit") : NamedIn(o, l)}

\* The two terms of the recursive query org_tree.
Roots(l) == {o \in LiveIds("orgunit") : ParentOf(o) = 0 /\ NamedIn(o, l)}
ChildrenOf(S, l) ==
    {o \in LiveIds("orgunit") : ParentOf(o) \in S /\ NamedIn(o, l)}

\* fn_org_hierarchy: the units found at each depth.  Depths beyond the
\* number of units are there to see whether the recursion has ended.
fn_org_hierarchy(l) ==
    LET org_tree[n \in 1..MaxIds["orgunit"] + 1] ==
            IF n = 1 THEN Roots(l) ELSE ChildrenOf(org_tree[n - 1], l)
    IN  org_tree

-----------------------------------------------------------------------------
(***************************************************************************)
(* Correctness.                                                            *)
(***************************************************************************)

\* Whatever is deleted, in whatever order: no row refers to a row that is
\* gone, and the constraints that held when a row was written (one owner,
\* one viewer, unique keys) still hold after every cascade and SET NULL.
RefIntegrity ==
    \A k \in Keys : Live(k) => Legal(k[1], k[2], rows[k])

\* The search vector of a unit follows its keywords and its name in the
\* default locale, whichever of the two was written last, and is not
\* touched by names in other locales or by a parent that goes away.
VectorFresh ==
    \A o \in LiveIds("orgunit") :
        LET r     == rows[<<"orgunit", o>>]
            names == {rows[k].val : k \in {m \in KeysOf("localizedorgunit") :
                          /\ rows[m].ref["org_unit_id"] = o
                          /\ rows[m].key = DefaultLocale}}
        IN  r.vec = names \cup ({r.val} \ {None})

\* Rows are well formed, and their search vectors say what they hold.
StoreInv == TypeOK /\ VectorFresh

\* The action code of a change, by what was there before and after.
ChangeOf(before, after) == CASE before = NoRow -> "C"
                             [] after = NoRow -> "D"
                             [] OTHER -> "U"

\* A statement's changes to audited tables are all in the log, each with its
\* action: also the rows changed by cascades, SET NULL and triggers.
AuditedChanges ==
    [][\A k \in Keys :
          k[1] \in Audited /\ rows'[k] # rows[k] =>
            [key |-> k, action |-> ChangeOf(rows[k], rows'[k])] \in log']_vars

Entities == {k \in Keys : k[1] \in {"person", "orgunit"}}

\* Removing a person or a unit removes no other person or unit; the units
\* below a removed one become roots, and nobody else moves.
EntitiesSurvive ==
    [][\A k \in Entities :
          Live(k) /\ rows'[k] = NoRow =>
            \A e \in Entities \ {k} : Live(e) =>
              /\ rows'[e] # NoRow
              /\ e[1] = "orgunit" =>
                   rows'[e].ref["parent_id"] =
                      IF <<"orgunit", ParentOf(e[2])>> = k THEN 0
                      ELSE ParentOf(e[2])]_vars

\* The chain of parents from o to a root, all of its units named in l.
NamedPath(o, l, n) ==
    \E p \in [1..n -> LiveIds("orgunit")] :
        /\ p[1] = o
        /\ \A j \in 1..n - 1 : p[j + 1] = ParentOf(p[j])
        /\ ParentOf(p[n]) = 0
        /\ \A j \in 1..n : NamedIn(p[j], l)

\* OrgDAO::hierarchy ends and is exact, whatever update has made of the
\* parents, cycles included: a unit is listed at depth n if and only if its
\* chain of parents reaches a root in n steps over units that all have a
\* name in the locale.  So a unit is listed at most once, a unit on or
\* below a cycle never, and one unnamed unit hides everything below it.
HierarchyExact ==
    \A l \in Locales :
        LET org_tree == fn_org_hierarchy(l) IN
        /\ org_tree[MaxIds["orgunit"] + 1] = {}
        /\ \A n \in 1..MaxIds["orgunit"] :
              org_tree[n] = {o \in LiveIds("orgunit") : NamedPath(o, l, n)}
        /\ \A m, n \in DOMAIN org_tree :
              m # n => org_tree[m] \cap org_tree[n] = {}
=============================================================================
