--------------------------- MODULE ContactQueries ---------------------------
(***************************************************************************)
(* What the DAOs read from the contact database: lookups, lists, access    *)
(* checks and searches as functions of the tables, and LocaleDAO with the  *)
(* materialized views of the org hierarchy.                                *)
(*                                                                         *)
(* fn_refresh_locale_mvs is one transaction, but each REFRESH in it sees   *)
(* the tables as they are when it begins: statements of others may commit  *)
(* between two locales.  What it wrote is seen when it commits.            *)
(***************************************************************************)
EXTENDS ContactStore

CONSTANTS
    MaxRefresh,  \* bound: calls of refresh_materialized_views
    MaxUnder     \* bound: rows that the sequences give out around a refresh

Empty == ""

\* An empty keyword or tax id is stored as a null, which is no value.
ASSUME QueriesAssumption ==
    /\ DefaultLocale \in Locales
    /\ {Empty, None} \cap (Values \cup KeyValues) = {} /\ None # Empty
    /\ MaxRefresh \in Nat /\ MaxUnder \in Nat

VARIABLES
    mvs,        \* by locale: MV_OrgHierarchy_*, as by fn_org_hierarchy
    pending,    \* by locale: what the running refresh has for it so far
    refreshes,  \* calls of refresh_materialized_views so far
    gone        \* history: the units that were removed when the refresh began

mvVars    == <<mvs, pending, refreshes, gone>>
queryVars == <<vars, mvVars>>

NULLIF(v)   == IF v = Empty THEN None ELSE v
COALESCE(v) == IF v = None THEN Empty ELSE v

Col(k, c) == rows[k].ref[c]

\* The rows of t whose column c is i; a column that is null equals nothing.
WhereRef(t, c, i) == {j \in LiveIds(t) : Col(<<t, j>>, c) = i /\ i # 0}

\* A SELECT by id: the row as a DTO, or nullopt.
Optional(t, i, dto) == IF Live(<<t, i>>) THEN dto ELSE NoRow

-----------------------------------------------------------------------------
(***************************************************************************)
(* PersonDAO.                                                              *)
(***************************************************************************)

\* Mutant: two columns are read in the wrong order.
PersonDTO_Swapped(i) ==
    LET r == rows[<<"person", i>>]
    IN  [id |-> i, name |-> COALESCE(r.key), federal_tax_id |-> r.val]

\* name stands for the names, which are not null.
PersonDTO(i) ==
    LET r == rows[<<"person", i>>]
    IN  [id |-> i, name |-> r.val, federal_tax_id |-> COALESCE(r.key)]

\* The row that PersonDAO::update makes of a DTO.
StoredPerson(dto) == PersonRow(NULLIF(dto.federal_tax_id), dto.name)

find_person(i) == Optional("person", i, PersonDTO(i))

-----------------------------------------------------------------------------
(***************************************************************************)
(* OrgDAO and RoleDAO.                                                     *)
(***************************************************************************)

OrgUnitDTO(o) ==
    [id |-> o, parent_id |-> ParentOf(o),
     keywords |-> COALESCE(rows[<<"orgunit", o>>].val)]

\* The row that OrgDAO::update makes of a DTO.
StoredOrg(dto) == OrgRow(dto.id, dto.parent_id, NULLIF(dto.keywords))

find_orgunit(o) == Optional("orgunit", o, OrgUnitDTO(o))

find_children(o) == {OrgUnitDTO(c) : c \in WhereRef("orgunit", "parent_id", o)}

\* The name of unit o in locale l.
NameIn(o, l) ==
    CHOOSE v \in Values :
        \E i \in WhereRef("localizedorgunit", "org_unit_id", o) :
            LET r == rows[<<"localizedorgunit", i>>] IN r.key = l /\ r.val = v

OrgHierarchyDTO(o, l, n) ==
    [unit |-> OrgUnitDTO(o), name |-> NameIn(o, l), depth |-> n]

\* hierarchy: a row for each unit at each depth.
hierarchy(l) ==
    UNION {{OrgHierarchyDTO(o, l, n) : o \in fn_org_hierarchy(l)[n]} :
              n \in Ids("orgunit")}

RoleDTO(r) == [id |-> r, org_unit_id |-> Col(<<"role", r>>, "org_unit_id")]

find_role_by_id(r) == Optional("role", r, RoleDTO(r))

\* A row with its own id, those of its foreign key columns, and content.
RowDTO(k, content) ==
    [c \in Columns[k[1]] \cup {"id"} \cup DOMAIN content |->
        IF c \in DOMAIN content THEN content[c]
        ELSE IF c = "id" THEN k[2] ELSE rows[k].ref[c]]

PersonOrgRelationDTO(i) ==
    LET k == <<"personorgrelation", i>>
    IN  RowDTO(k, [relationship |-> rows[k].key])
PersonRoleDTO(i) == RowDTO(<<"personrole", i>>, <<>>)

relations_for_person(p) ==
    {PersonOrgRelationDTO(i) : i \in WhereRef("personorgrelation", "person_id", p)}
roles_for_person(p) ==
    {PersonRoleDTO(i) : i \in WhereRef("personrole", "person_id", p)}

-----------------------------------------------------------------------------
(***************************************************************************)
(* ContactDAO and VisibilityDAO.                                           *)
(***************************************************************************)

PhoneDTO(i)   == RowDTO(<<"phone", i>>, [number |-> rows[<<"phone", i>>].val])
EmailDTO(i)   == RowDTO(<<"email", i>>, [email |-> rows[<<"email", i>>].key])
AddressDTO(i) == RowDTO(<<"address", i>>, [street |-> rows[<<"address", i>>].val])

phones_for_person(p)    == {PhoneDTO(i) : i \in WhereRef("phone", "person_id", p)}
emails_for_person(p)    == {EmailDTO(i) : i \in WhereRef("email", "person_id", p)}
addresses_for_person(p) == {AddressDTO(i) : i \in WhereRef("address", "person_id", p)}

DataVisibilityDTO(i) ==
    LET k == <<"datavisibility", i>>
    IN  RowDTO(k, [data_category |-> rows[k].key, can_view |-> rows[k].val])

rules_for_owner(p) ==
    {DataVisibilityDTO(i) : i \in WhereRef("datavisibility", "owner_person_id", p)}

\* Mutant: the rules of all owners count.
can_view_AnyOwner(owner, viewer, c) ==
    \E i \in WhereRef("datavisibility", "viewer_person_id", viewer) :
        LET r == rows[<<"datavisibility", i>>]
        IN  r.key \in {c, All} /\ r.val

can_view(owner, viewer, c) ==
    \E i \in WhereRef("datavisibility", "owner_person_id", owner)
             \cap WhereRef("datavisibility", "viewer_person_id", viewer) :
        LET r == rows[<<"datavisibility", i>>]
        IN  r.key \in {c, All} /\ r.val

-----------------------------------------------------------------------------
(***************************************************************************)
(* SearchDAO.  A query is one lexeme; ORDER BY rank LIMIT leaves any of    *)
(* the matches of that number.                                             *)
(***************************************************************************)

Limited(S, limit) ==
    {T \in SUBSET S : Cardinality(T) = IF Cardinality(S) < limit
                                       THEN Cardinality(S) ELSE limit}

PersonMatches(q) == {i \in LiveIds("person") : q \in rows[<<"person", i>>].vec}

\* Mutant: the keywords are searched, not the vector.
OrgMatches_Keywords(q) ==
    {o \in LiveIds("orgunit") :
        q = rows[<<"orgunit", o>>].val /\ NamedIn(o, DefaultLocale)}

\* The JOINs leave only units with a name in the default locale.
OrgMatches(q) ==
    {o \in LiveIds("orgunit") :
        q \in rows[<<"orgunit", o>>].vec /\ NamedIn(o, DefaultLocale)}

PersonSearchResultDTO(i) == [id |-> i, name |-> rows[<<"person", i>>].val]
OrgSearchResultDTO(o)    == [id |-> o, name |-> NameIn(o, DefaultLocale)]
SearchResultDTO(t, d) ==
    [entity_type |-> t, entity_id |-> d.id, display_name |-> d.name]

search_persons(q, limit) ==
    Limited({PersonSearchResultDTO(i) : i \in PersonMatches(q)}, limit)
search_orgunits(q, limit) ==
    Limited({OrgSearchResultDTO(o) : o \in OrgMatches(q)}, limit)
search_contacts(q, limit) ==
    Limited({SearchResultDTO("Person", PersonSearchResultDTO(i)) : i \in PersonMatches(q)}
            \cup {SearchResultDTO("OrgUnit", OrgSearchResultDTO(o)) : o \in OrgMatches(q)},
            limit)

-----------------------------------------------------------------------------
(***************************************************************************)
(* LocaleDAO.                                                              *)
(***************************************************************************)

LocaleDTO(l) == [code |-> l, is_default |-> (l = DefaultLocale)]

list_locales    == {LocaleDTO(l) : l \in Locales}
find_by_code(c) == IF c \in Locales THEN LocaleDTO(c) ELSE NoRow
get_default     == LocaleDTO(DefaultLocale)

Refreshing == DOMAIN pending # {}

\* The rows given out stay within the bound of a refresh.
Few(ids) == Cardinality({k \in Keys : k[2] < ids[k[1]]}) <= MaxUnder

QueryInit ==
    /\ Init
    /\ mvs = [l \in Locales |-> {}]  \* the schema has no units
    /\ pending = <<>> /\ refreshes = 0 /\ gone = {}

\* refresh_materialized_views: one locale after another, then the commit.
RefreshOne ==
    /\ refreshes < MaxRefresh /\ Few(nextId)
    /\ DOMAIN pending # Locales
    /\ LET l == CHOOSE m \in Locales \ DOMAIN pending : TRUE
       IN  pending' = [m \in DOMAIN pending \cup {l} |->
                         IF m = l THEN hierarchy(l) ELSE pending[m]]
    /\ gone' = IF Refreshing THEN gone
               ELSE {o \in Ids("orgunit") \ LiveIds("orgunit") : o < nextId["orgunit"]}
    /\ UNCHANGED <<vars, mvs, refreshes>>

\* Mutant: the new rows are added to the old ones.
Committed_Added == [l \in Locales |-> mvs[l] \cup pending[l]]

Committed == pending

RefreshCommits ==
    /\ DOMAIN pending = Locales
    /\ mvs' = Committed
    /\ pending' = <<>> /\ gone' = {}
    /\ refreshes' = refreshes + 1
    /\ UNCHANGED vars

QueryNext ==
    \/ /\ Next /\ (Refreshing \/ refreshes > 0 => Few(nextId'))
       /\ UNCHANGED mvVars
    \/ RefreshOne
    \/ RefreshCommits

QuerySpec == QueryInit /\ [][QueryNext]_queryVars

-----------------------------------------------------------------------------
(***************************************************************************)
(* Correctness.                                                            *)
(***************************************************************************)

\* A DTO that was read and is written back unchanged leaves the row as it
\* is, whatever the row has been through: nulls, parents that were removed
\* and search vectors included.  A row that is gone is not found.
WriteBackNeutral ==
    /\ \A i \in Ids("person") :
          IF Live(<<"person", i>>)
          THEN StoredPerson(find_person(i)) = rows[<<"person", i>>]
          ELSE find_person(i) = NoRow
    /\ \A o \in Ids("orgunit") :
          IF Live(<<"orgunit", o>>)
          THEN StoredOrg(find_orgunit(o)) = rows[<<"orgunit", o>>]
          ELSE find_orgunit(o) = NoRow

\* A phone, an e-mail address, a postal address, a relation or a role is
\* listed for the person that its DTO names and for nobody else, however
\* the ids of persons and units coincide; for a person that is gone nothing
\* is listed.  (What a unit owns is in no list.)
ListedForOwner ==
    \A p \in IdArg("person") :
        LET listed == phones_for_person(p) \cup emails_for_person(p)
                      \cup addresses_for_person(p)
        IN  /\ \A d \in listed : d.person_id = p /\ d.org_unit_id = 0
            /\ \A d \in relations_for_person(p) \cup roles_for_person(p) :
                  d.person_id = p
            /\ p \notin LiveIds("person") =>
                  /\ listed = {}
                  /\ relations_for_person(p) \cup roles_for_person(p) = {}
                  /\ rules_for_owner(p) = {}

\* can_view says what the rules that the owner sees say of the viewer; a
\* rule for a role or a unit, whose DTO has the viewer_person_id 0, gives
\* nobody access here.  Nobody sees a person that is gone, and the rules of
\* a viewer that is gone are gone too.
ViewExact ==
    \A owner, viewer \in IdArg("person"), c \in Categories :
        can_view(owner, viewer, c) =
            /\ {owner, viewer} \subseteq LiveIds("person")
            /\ \E r \in rules_for_owner(owner) :
                  /\ r.viewer_person_id = viewer
                  /\ r.data_category \in {c, All} /\ r.can_view

\* What is listed for a person and what a person may see depends on the rows
\* of that person and on no other.
OwnerAnswers == ListedForOwner /\ ViewExact

\* A person is found by what its row says now, and a unit by its keywords
\* and its default name, if it has one; a search of both finds all that the
\* two searches find, and with a limit some of it.
SearchExact ==
    \A q \in Values \cup KeyValues :
        LET all == MaxIds["person"] + MaxIds["orgunit"]
            persons == {[id |-> i, name |-> rows[<<"person", i>>].val] :
                i \in {j \in LiveIds("person") :
                   q \in {rows[<<"person", j>>].key, rows[<<"person", j>>].val}}}
            units == {[id |-> o, name |-> NameIn(o, DefaultLocale)] :
                o \in {u \in LiveIds("orgunit") :
                   /\ NamedIn(u, DefaultLocale)
                   /\ q \in {NameIn(u, DefaultLocale), rows[<<"orgunit", u>>].val}}}
        IN  /\ search_persons(q, all) = {persons}
            /\ search_orgunits(q, all) = {units}
            /\ \A found \in search_contacts(q, 1) :
                  /\ Cardinality(found) = IF persons \cup units = {} THEN 0 ELSE 1
                  /\ \A f \in found :
                        [id |-> f.entity_id, name |-> f.display_name] \in
                            IF f.entity_type = "Person" THEN persons ELSE units

\* A unit in the hierarchy of a locale stands one below its parent, which
\* is listed too, and find_children of the parent finds it.
HierarchyLinked ==
    \A l \in Locales : \A h \in hierarchy(l) :
        /\ (h.depth = 1) = (h.unit.parent_id = 0)
        /\ h.depth > 1 =>
              /\ h.unit \in find_children(h.unit.parent_id)
              /\ \E g \in hierarchy(l) :
                    g.unit.id = h.unit.parent_id /\ g.depth = h.depth - 1

\* The hierarchy of OrgDAO: the recursive query ends, lists what hangs from a
\* root, each unit at its depth, and agrees with find_children.
HierarchySound == HierarchyExact /\ HierarchyLinked

\* When a refresh has committed, no view lists a unit that was removed
\* before the refresh began, in any locale.  (Units removed since then may
\* be listed, and in one locale only.)
ViewsNotOlder ==
    [][refreshes' # refreshes =>
         \A l \in Locales : \A h \in mvs'[l] : h.unit.id \notin gone]_queryVars
=============================================================================
