----------------------------- MODULE FlowFilters -----------------------------
(***************************************************************************)
(* How searchFlows turns its filters into sets of flow versions: the       *)
(* helpers of flows/strategy/impl/utils.ts and the conditions the search   *)
(* strategies send to the database.  A flow version is the pair of its id  *)
(* and its versionID (the code writes it "id:versionID").                  *)
(*                                                                         *)
(* The tables come in one record db:                                       *)
(*   rows, deleted, active   rows of flow, with deletedAt, activeStatus    *)
(*   cats                    categoryRef rows of objectType 'flow'         *)
(*   objects                 flowObject rows                               *)
(*   links                   flowLink rows with depth > 0, <<parent, child>> *)
(*   externals               externalReference rows                        *)
(*   nested                  the rows of reportDetail, externalReference   *)
(*                           and legacy that a nested filter matches       *)
(***************************************************************************)
EXTENDS Integers, FiniteSets, Sequences, SequencesExt

CONSTANTS
  Flow,             \* flow ids
  MaxVersion,       \* versionIDs are 1..MaxVersion
  Category,         \* category ids
  CategoryGroup,    \* category.group
  CategoryName,     \* category.name
  ShortcutMatches,  \* the categories whose name includes a shortcut's word
  ObjectType,       \* organization, location, plan, usageYear, ...
  ObjectID,         \* ids of those
  None              \* undefined: the argument was not given

Entity == Flow \X (1..MaxVersion)
Direction == {"source", "destination"}
ObjectGroup == ObjectType \X Direction
Object == [type : ObjectType, direction : Direction, id : ObjectID]
NestedKey == {"reporterRefCode", "sourceSystemID", "systemID", "legacyID"}

Database ==
  [rows : SUBSET Entity, deleted : SUBSET Entity, active : SUBSET Entity,
   cats : SUBSET (Entity \X Category), objects : SUBSET (Entity \X Object),
   links : SUBSET (Flow \X Flow), externals : SUBSET Entity,
   nested : [NestedKey -> SUBSET Entity]]

ASSUME CategoryAssumption ==
  /\ MaxVersion \in Nat
  /\ DOMAIN CategoryGroup = Category /\ DOMAIN CategoryName = Category
  /\ None \notin Category \cup Seq(Object) \cup {"externalReference", "unknown"}
  /\ None \notin Range(CategoryGroup) /\ None \notin Range(CategoryName)
  /\ \A s \in DOMAIN ShortcutMatches : ShortcutMatches[s] \subseteq Category

-----------------------------------------------------------------------------
(* intersectSets                                                           *)

\* Mutant: the sets are united.
Intersect2_Union(a, b) == a \cup b

\* Sets without elements are left out, and an intersection that has become
\* empty counts as one that has not begun.
Intersect2(a, b) ==
  IF b = {} THEN a ELSE IF a = {} THEN b ELSE a \cap b

-----------------------------------------------------------------------------
(* Conditions on flow rows: prepareFlowConditions and                      *)
(* prepareFlowStatusConditions.                                            *)

FlowFilter == [ids : {None} \cup SUBSET Flow, active : {None} \cup BOOLEAN]

StatusOK(version, status) ==
  CASE status = "new" -> version = 1
    [] status = "updated" -> version > 1
    [] OTHER -> TRUE      \* no status given, or null

FlowRows(db, filter, status) ==
  {e \in db.rows \ db.deleted :
     /\ filter # None =>
          /\ filter.ids # None => e[1] \in filter.ids
          /\ filter.active # None => (e \in db.active) = filter.active
     /\ StatusOK(e[2], status)}

-----------------------------------------------------------------------------
(* Categories.                                                             *)

\* A flowCategoryFilter names a category by its id or by group and name.
CategoryFilter ==
  [id : {None} \cup Category, group : {None} \cup Range(CategoryGroup),
   name : {None} \cup Range(CategoryName)]

IdsOf(filters) == {c.id : c \in ToSet(filters)} \ {None}
Named(c) == c.id = None /\ c.group # None /\ c.name # None
NamedOf(filters) == {c \in ToSet(filters) : Named(c)}

\* The entries are written to the same Cond.AND: the group that entered the
\* map last is the one that stays.
EntersLast(filters, g) ==
  \A c \in NamedOf(filters) : c.group # g =>
    \E i \in DOMAIN filters :
      /\ Named(filters[i]) /\ filters[i].group = c.group
      /\ \A j \in DOMAIN filters :
           Named(filters[j]) /\ filters[j].group = g => i < j

NamesIn(filters, g) == {c.name : c \in {d \in NamedOf(filters) : d.group = g}}

\* mapFlowCategoryConditionsToWhereClause: the categories it selects.
SelectedCategories(filters) ==
  {k \in Category :
     /\ IdsOf(filters) # {} => k \in IdsOf(filters)
     /\ NamedOf(filters) # {} =>
          /\ EntersLast(filters, CategoryGroup[k])
          /\ CategoryName[k] \in NamesIn(filters, CategoryGroup[k])}

\* The categoryRef rows fetched: those of the categories asked for, or all.
FetchedRefs(db, required, forbidden) ==
  {r \in db.cats : required \cup forbidden # {} => r[2] \in required \cup forbidden}

CategoryRows(db, required, forbidden) ==
  LET fetched == FetchedRefs(db, required, forbidden) IN
    {e \in {r[1] : r \in fetched} :
       /\ \A c \in forbidden : <<e, c>> \notin fetched
       /\ \A c \in required : <<e, c>> \in fetched}

-----------------------------------------------------------------------------
(* Flow objects.                                                           *)

GroupOf(o) == <<o.type, o.direction>>
TypeOf(o) == o.type

FirstOf(s, Key(_), x) == SelectInSeq(s, LAMBDA y : Key(y) = x)

\* mapFlowFiltersToFlowObjectFiltersGrouped: a Map of Maps, both in the order
\* in which their keys were first set.
Before(filters, g, h) ==
  \/ FirstOf(filters, TypeOf, g[1]) < FirstOf(filters, TypeOf, h[1])
  \/ g[1] = h[1] /\ FirstOf(filters, GroupOf, g) < FirstOf(filters, GroupOf, h)

\* The one order of the groups, as a set.
Grouped(filters) ==
  {order \in SetToSeqs({GroupOf(o) : o \in ToSet(filters)}) :
     \A i, j \in DOMAIN order : i < j => Before(filters, order[i], order[j])}

OfGroup(filters, group) == {o \in ToSet(filters) : GroupOf(o) = group}

\* The flow versions with one of the objects.
ObjectRows(db, objects) == {r[1] : r \in {x \in db.objects : x[2] \in objects}}

\* getFlowFromFlowObjects: grouped by version, counted against the number of
\* ids in all the filters.
ParentRows(db, filters) ==
  {e \in Entity :
     /\ \E o \in ToSet(filters) : <<e, o>> \in db.objects
     /\ Cardinality({o \in ToSet(filters) : <<e, o>> \in db.objects})
          = Len(filters)}

\* Mutant: the links are followed the other way.
ChildrenOf_Parents(db, parents) ==
  {l[1] : l \in {x \in db.links : x[2] \in {e[1] : e \in parents}}}

ChildrenOf(db, parents) ==
  {l[2] : l \in {x \in db.links : x[1] \in {e[1] : e \in parents}}}

ActiveRows(db, flows) == {e \in db.rows \cap db.active : e[1] \in flows}

-----------------------------------------------------------------------------
(* The order of the answer.                                                *)

\* A sort key is None (a column of flow, or the default), a group of flow
\* objects, an external reference, which has no direction, or "unknown" (an
\* entity or a column that does not exist).
SortKey == {None, "externalReference", "unknown"} \cup ObjectGroup

\* getFlowIDsFromEntity throws for the entities and columns it does not know.
Sortable(key) == key # "unknown"

\* Mutant: the keys are built without the versionID.
SortRows_NoVersion(db, key) ==
  {<<e[1], 0>> : e \in
     CASE key = None -> db.rows
       [] key = "externalReference" -> db.externals
       [] OTHER -> {r[1] : r \in {x \in db.objects : GroupOf(x[2]) = key}}}

\* getFlows without conditions or getFlowIDsFromEntity: the flow versions
\* that have a place in the order at all.
SortRows(db, key) ==
  CASE key = None -> db.rows
    [] key = "externalReference" -> db.externals
    [] OTHER -> {r[1] : r \in {x \in db.objects : GroupOf(x[2]) = key}}
=============================================================================
