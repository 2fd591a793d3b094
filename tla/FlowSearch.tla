----------------------------- MODULE FlowSearch ------------------------------
(***************************************************************************)
(* How one searchFlows request finds its flow versions:                    *)
(* FlowSearchService.search up to the strategy, OnlyFlowFiltersStrategy and *)
(* SearchFlowByFiltersStrategy with the three strategies it calls.  The    *)
(* queries of a request are issued together and awaited with Promise.all:  *)
(* the five branches advance in any order, one query per action, and other *)
(* services write the tables in between.  FlowPages models what happens    *)
(* to the set found here: sorting, paging, batches.                        *)
(***************************************************************************)
EXTENDS FlowFilters

CONSTANTS
  Requests,    \* the tables a call meets, its arguments, and how many flow
               \* versions other services write while it runs
  RecentYear   \* ids of the usageYear rows from 2021 to the current year

\* The flags are the shortcuts that are given, TRUE or FALSE.
SearchFlowsArgs ==
  [flow : {None} \cup FlowFilter, status : {None, "new", "updated"},
   category : {None} \cup Seq(CategoryFilter),
   nested : {None} \cup Seq(NestedKey), object : {None} \cup Seq(Object),
   flags : UNION {[given -> BOOLEAN] : given \in SUBSET DOMAIN ShortcutMatches},
   children : BOOLEAN, sort : SortKey,
   batches : BOOLEAN]   \* searchFlowsBatches

ASSUME SearchAssumption ==
  /\ Requests \subseteq Database \X SearchFlowsArgs \X Nat
  /\ RecentYear \subseteq ObjectID /\ IsFiniteSet(RecentYear)
  /\ "usageYear" \in ObjectType
  /\ None \notin {"new", "updated"}

Branch == {"category", "nested", "object", "flow", "sort"}

VARIABLES
  db,         \* the tables
  edited,     \* history: the flow versions written since the request began
  edits,      \* how many flow versions may still be written
  asked,      \* history: the arguments of the request
  phase,      \* what the request is at
  args,       \* the same with the defaults filled in
  shortcuts,  \* shortcutFilters: pairs of a category and IN (TRUE) or NOT_IN
  step,       \* the next query of every branch
  selected,   \* categoriesIds of the category branch
  groups,     \* the groups of object filters still to be queried
  keys,       \* the nested filters still to be queried
  found,      \* what the branches have found so far
  parents,    \* the parked parents the object filters match
  children,   \* the children of their links
  refs        \* sortedFlows, as a set: the flow versions found

requestVars == <<shortcuts, selected, groups, keys, parents, children>>
tables == <<db, edited, edits, asked>>
vars == <<tables, phase, args, step, found, refs, requestVars>>

Phase == {"idle", "shortcuts", "onlyFlow", "gather", "parents", "links",
          "children", "done", "failed"}
Step == {"unused", "categories", "query", "lookup", "end"}

Required == selected \cup {s[1] : s \in {x \in shortcuts : x[2]}}
Forbidden == {s[1] : s \in {x \in shortcuts : ~x[2]}}

Init ==
  /\ \E q \in Requests : db = q[1] /\ args = q[2] /\ edits = q[3]
  /\ asked = args
  /\ edited = {}
  /\ phase = "idle"
  /\ shortcuts = {}
  /\ step = [b \in Branch |-> "unused"]
  /\ selected = {}
  /\ groups = <<>>
  /\ keys = <<>>
  /\ found = [b \in Branch |-> {}]
  /\ parents = {}
  /\ children = {}
  /\ refs = {}

-----------------------------------------------------------------------------
(* FlowSearchService.search.                                               *)

\* searchBatches: object filters that name no usage year are completed.
NeedsYears(a) ==
  /\ a.batches
  /\ a.object # None
  /\ \A o \in ToSet(a.object) : o.type # "usageYear"

\* Mutant: only the source.
YearFilters_Source(years) ==
  [i \in 1..Len(years) |->
     [type |-> "usageYear", direction |-> "source", id |-> years[i]]]

\* For every year a filter of either direction.
YearFilters(years) ==
  [i \in 1..(2 * Len(years)) |->
     [type |-> "usageYear",
      direction |-> IF i % 2 = 1 THEN "source" ELSE "destination",
      id |-> years[(i + 1) \div 2]]]

FindUsageYears ==
  /\ phase = "idle"
  /\ NeedsYears(args)
  /\ phase' = "shortcuts"
  /\ \E years \in SetToSeqs(RecentYear) :
       args' = [args EXCEPT !.object = @ \o YearFilters(years)]
  /\ UNCHANGED <<tables, step, found, refs, requestVars>>

Search ==
  /\ phase = "idle"
  /\ ~NeedsYears(args)
  /\ phase' = "shortcuts"
  /\ UNCHANGED <<tables, args, step, found, refs, requestVars>>

\* Flows pending review are inactive, unless the caller says otherwise.
WithPendingDefault(a, used) ==
  IF /\ used # {}
     /\ "Pending" \in DOMAIN a.flags /\ a.flags["Pending"]
     /\ a.flow = None \/ a.flow.active = None
    THEN [a EXCEPT !.flow = IF a.flow = None
                              THEN [ids |-> None, active |-> FALSE]
                              ELSE [a.flow EXCEPT !.active = FALSE]]
    ELSE a

\* determineStrategy: nothing but conditions on flow rows, or none at all.
OnlyFlowFilters(a, used) ==
  /\ a.sort = None
  /\ a.object = None /\ a.category = None /\ a.nested = None
  /\ used = {}

FirstSteps(a, used) ==
  [category |-> IF a.category # None /\ a.category # <<>> THEN "categories"
                ELSE IF used # {} THEN "query" ELSE "unused",
   nested   |-> IF a.nested = None THEN "unused"
                ELSE IF a.nested = <<>> THEN "end" ELSE "query",
   object   |-> IF a.object = None \/ a.object = <<>> THEN "unused" ELSE "query",
   flow     |-> IF a.flow = None /\ a.status = None THEN "unused" ELSE "query",
   sort     |-> "query"]

\* The categories mapShortcutFilters finds: per shortcut the first one whose
\* name includes its word, in whatever order the database returns them.
MapShortcuts ==
  /\ phase = "shortcuts"
  /\ LET named == {s \in DOMAIN args.flags : ShortcutMatches[s] # {}} IN
       \E pick \in [named -> Category] :
         /\ \A s \in named : pick[s] \in ShortcutMatches[s]
         /\ LET used == {<<pick[s], args.flags[s]>> : s \in named}
                a == WithPendingDefault(args, used) IN
              /\ args' = a
              /\ shortcuts' = used
              /\ IF OnlyFlowFilters(a, used)
                   THEN /\ phase' = "onlyFlow"
                        /\ UNCHANGED <<step, groups, keys>>
                   ELSE /\ phase' = "gather"
                        /\ step' = FirstSteps(a, used)
                        /\ groups' \in IF a.object = None THEN {<<>>}
                                                          ELSE Grouped(a.object)
                        /\ keys' = IF a.nested = None THEN <<>> ELSE a.nested
  /\ UNCHANGED <<tables, selected, found, parents, children, refs>>

SearchOnlyFlows ==
  /\ phase = "onlyFlow"
  /\ phase' = "done"
  /\ refs' = FlowRows(db, args.flow, args.status)
  /\ UNCHANGED <<tables, args, step, found, requestVars>>

-----------------------------------------------------------------------------
(* The branches of SearchFlowByFiltersStrategy.                            *)

Ready(branch, s) == phase = "gather" /\ step[branch] = s

Answer(branch, next, rows) ==
  /\ step' = [step EXCEPT ![branch] = next]
  /\ found' = [found EXCEPT ![branch] = rows]

FindCategories ==
  /\ Ready("category", "categories")
  /\ selected' = SelectedCategories(args.category)
  /\ step' = [step EXCEPT !["category"] = "query"]
  /\ UNCHANGED <<tables, phase, args, found, refs, shortcuts, groups, keys,
                 parents, children>>

FindCategoryRefs ==
  /\ Ready("category", "query")
  /\ Answer("category", "end", CategoryRows(db, Required, Forbidden))
  /\ UNCHANGED <<tables, phase, args, refs, requestVars>>

\* One query per group, intersected with what the groups before found.
FindObjects ==
  /\ Ready("object", "query")
  /\ Answer("object", IF Len(groups) = 1 THEN "end" ELSE "query",
       Intersect2(found["object"],
                  ObjectRows(db, OfGroup(args.object, Head(groups)))))
  /\ groups' = Tail(groups)
  /\ UNCHANGED <<tables, phase, args, refs, shortcuts, selected, keys,
                 parents, children>>

\* The rows a nested filter matches; a legacy id stands for version 1.
NestedRows(key) ==
  IF key = "legacyID" THEN {<<e[1], 1>> : e \in db.nested[key]}
                      ELSE db.nested[key]

FindNested ==
  /\ Ready("nested", "query")
  /\ LET rows == Intersect2(found["nested"], NestedRows(Head(keys))) IN
       Answer("nested", IF Len(keys) > 1 THEN "query"
                        ELSE IF rows = {} THEN "end" ELSE "lookup", rows)
  /\ keys' = Tail(keys)
  /\ UNCHANGED <<tables, phase, args, refs, shortcuts, selected, groups,
                 parents, children>>

\* progresiveSearch without conditions: the flow rows themselves.
LookupNested ==
  /\ Ready("nested", "lookup")
  /\ Answer("nested", "end", found["nested"] \cap db.rows)
  /\ UNCHANGED <<tables, phase, args, refs, requestVars>>

FindFlows ==
  /\ Ready("flow", "query")
  /\ Answer("flow", "end", FlowRows(db, args.flow, args.status))
  /\ UNCHANGED <<tables, phase, args, refs, requestVars>>

FindSortOrder ==
  /\ Ready("sort", "query")
  /\ IF Sortable(args.sort)
       THEN phase' = phase /\ Answer("sort", "end", SortRows(db, args.sort))
       ELSE phase' = "failed" /\ UNCHANGED <<step, found>>
  /\ UNCHANGED <<tables, args, refs, requestVars>>

-----------------------------------------------------------------------------
(* After Promise.all.                                                      *)

Used == {b \in Branch \ {"sort"} : step[b] # "unused"}

\* intersectSets of the four sets, then of the result and the sorted set.
Candidates(sets) ==
  Intersect2(Intersect2(Intersect2(sets["category"], sets["flow"]),
                        sets["nested"]), sets["object"])
Sorted(sets) ==
  IF Candidates(sets) = {} THEN {}
  ELSE IF sets["sort"] = {} THEN Candidates(sets)
  ELSE Candidates(sets) \cap sets["sort"]

Combine ==
  /\ phase = "gather"
  /\ \A b \in Branch : step[b] \in {"unused", "end"}
  /\ IF \E b \in Used : found[b] = {}
       THEN phase' = "done" /\ refs' = {}
       ELSE IF args.children /\ "object" \in Used
         THEN phase' = "parents" /\ UNCHANGED refs
         ELSE phase' = "done" /\ refs' = Sorted(found)
  /\ UNCHANGED <<tables, args, step, found, requestVars>>

\* getParkedParentsChildrenByFlowObjectFilter.
FindParents ==
  /\ phase = "parents"
  /\ phase' = "links"
  /\ parents' = ParentRows(db, args.object)
  /\ UNCHANGED <<tables, args, step, found, refs, shortcuts, selected,
                 groups, keys, children>>

FindLinks ==
  /\ phase = "links"
  /\ phase' = "children"
  /\ children' = ChildrenOf(db, parents)
  /\ UNCHANGED <<tables, args, step, found, refs, shortcuts, selected,
                 groups, keys, parents>>

\* Mutant: the children replace what the object filters found.
FindChildren_Replace ==
  /\ phase = "children"
  /\ phase' = "done"
  /\ LET sets == [found EXCEPT !["object"] = ActiveRows(db, children)] IN
       /\ found' = sets
       /\ refs' = Sorted(sets)
  /\ UNCHANGED <<tables, args, step, requestVars>>

FindChildren ==
  /\ phase = "children"
  /\ phase' = "done"
  /\ LET sets == [found EXCEPT !["object"] = @ \cup ActiveRows(db, children)] IN
       /\ found' = sets
       /\ refs' = Sorted(sets)
  /\ UNCHANGED <<tables, args, step, requestVars>>

-----------------------------------------------------------------------------
(* The services that write flows (external).                               *)

Busy == phase \notin {"idle", "done", "failed"}

Write(rows, new) ==
  /\ Busy
  /\ rows \cap edited = {}
  /\ edited' = edited \cup rows
  /\ Cardinality(rows) <= edits
  /\ edits' = edits - Cardinality(rows)
  /\ db' = new
  /\ UNCHANGED <<asked, phase, args, step, found, refs, requestVars>>

SoftDelete(e) ==
  /\ e \in db.rows \ db.deleted
  /\ Write({e}, [db EXCEPT !.deleted = @ \cup {e}])

Categorise(e, c) ==
  /\ e \in db.rows
  /\ Write({e}, [db EXCEPT !.cats = IF <<e, c>> \in @ THEN @ \ {<<e, c>>}
                                                    ELSE @ \cup {<<e, c>>}])

\* A flow that is edited gets a new version, with the old one's references.
InsertVersion(e) ==
  /\ e \in db.rows \cap db.active
  /\ e[2] < MaxVersion
  /\ LET new == <<e[1], e[2] + 1>>
         copy(table) == table \cup {<<new, r[2]>> : r \in {x \in table : x[1] = e}}
     IN
       /\ new \notin db.rows
       /\ Write({e, new}, [db EXCEPT !.rows = @ \cup {new},
                                    !.active = (@ \ {e}) \cup {new},
                                    !.cats = copy(@), !.objects = copy(@)])

Edit ==
  \/ \E e \in Entity : SoftDelete(e) \/ InsertVersion(e)
  \/ \E e \in Entity, c \in Category : Categorise(e, c)

Gather ==
  \/ FindCategories \/ FindCategoryRefs
  \/ FindObjects
  \/ FindNested \/ LookupNested
  \/ FindFlows
  \/ FindSortOrder

Next ==
  \/ FindUsageYears \/ Search
  \/ MapShortcuts
  \/ SearchOnlyFlows
  \/ Gather
  \/ Combine
  \/ FindParents \/ FindLinks \/ FindChildren
  \/ Edit

Spec == Init /\ [][Next]_vars

-----------------------------------------------------------------------------
(* Properties.                                                             *)

\* Every variable keeps its type.
TypeOK ==
  /\ db \in Database
  /\ edited \subseteq Entity
  /\ edits \in Nat
  /\ asked \in SearchFlowsArgs
  /\ phase \in Phase
  /\ args \in SearchFlowsArgs
  /\ shortcuts \subseteq Category \X BOOLEAN
  /\ step \in [Branch -> Step]
  /\ selected \subseteq Category
  /\ \A i \in DOMAIN groups : groups[i] \in ObjectGroup
  /\ \A i \in DOMAIN keys : keys[i] \in NestedKey
  /\ found \in [Branch -> SUBSET Entity]
  /\ parents \subseteq Entity
  /\ children \subseteq Flow
  /\ refs \subseteq Entity

\* What the filters ask of a flow version, read off the tables.
PassesFlow(e) ==
  /\ args.flow # None \/ args.status # None => e \in db.rows \ db.deleted
  /\ args.flow # None =>
       /\ args.flow.ids # None => e[1] \in args.flow.ids
       /\ args.flow.active # None => (e \in db.active <=> args.flow.active)
  /\ args.status = "new" => e[2] = 1
  /\ args.status = "updated" => e[2] # 1

WantedCategories ==
  {s[1] : s \in {x \in shortcuts : x[2]}} \cup
  IF args.category = None THEN {}
  ELSE {k \in Category : \E c \in ToSet(args.category) :
          \/ c.id = k
          \/ /\ c.id = None
             /\ c.group = CategoryGroup[k] /\ c.name = CategoryName[k]}

PassesCategories(e) ==
  /\ \A c \in WantedCategories : <<e, c>> \in db.cats
  /\ \A c \in Forbidden : <<e, c>> \notin db.cats

\* One of the filters of every group; in batches, "both source and destination
\* since 2021 and after" (flow-search-service.ts:471) unless a year is named.
PassesObjects(e) ==
  asked.object # None =>
    /\ \A o \in ToSet(asked.object) :
         \E p \in ToSet(asked.object) :
           GroupOf(p) = GroupOf(o) /\ <<e, p>> \in db.objects
    /\ NeedsYears(asked) /\ RecentYear # {} =>
         \A d \in Direction : \E y \in RecentYear :
           <<e, [type |-> "usageYear", direction |-> d, id |-> y]>> \in db.objects

PassesNested(e) ==
  args.nested # None =>
    /\ e \in db.rows
    /\ \A k \in ToSet(args.nested) :
         IF k = "legacyID" THEN e[2] = 1 /\ e[1] \in {x[1] : x \in db.nested[k]}
                           ELSE e \in db.nested[k]

\* An order by an entity's column only has flows with such an entity.
HasPlace(e) ==
  /\ args.sort = "externalReference" => e \in db.externals
  /\ args.sort # None /\ args.sort # "externalReference" =>
       \E o \in Object : GroupOf(o) = args.sort /\ <<e, o>> \in db.objects

Matches(e) ==
  /\ PassesFlow(e) /\ PassesCategories(e) /\ PassesObjects(e) /\ PassesNested(e)
  /\ HasPlace(e)

\* The category filters the code can answer: some category is required, one
\* is named by its id or by name and group, and names come from one group.
PlainCategories ==
  /\ step["category"] # "unused" => WantedCategories # {}
  /\ args.category \notin {None, <<>>} =>
       \/ NamedOf(args.category) = {} /\ IdsOf(args.category) # {}
       \/ /\ NamedOf(args.category) # {} /\ IdsOf(args.category) = {}
          /\ \A c, d \in NamedOf(args.category) : c.group = d.group

\* A search by an entity's column answers nothing unless something filters,
\* and nested filters without a value match nothing.
Filtered ==
  /\ step["sort"] = "unused" \/ Used # {}
  /\ args.nested # <<>>
Unedited == (db.rows \ db.deleted) \ edited

\* Whatever is written while the branches run, a flow version that was left
\* alone and passes every filter is found (five independent queries, their
\* intersection and the sort order must all keep it).
AllMatchesFound ==
  phase = "done" /\ Filtered /\ PlainCategories =>
    \A e \in Unedited : Matches(e) => e \in refs

\* And if there is one, nothing left alone is found that fails a filter: the
\* intersection that restarts when it becomes empty never restarts then.
OnlyMatchesFound ==
  /\ phase = "done" /\ Filtered /\ PlainCategories /\ ~args.children
  /\ \E e \in Unedited : Matches(e)
  => \A e \in refs \ edited : Matches(e)

\* Children of parked flows: a flow version that passes every other filter is
\* found for the sake of a parent that has the objects, which takes five
\* queries after one another.  Of two ids of one group the parent must have
\* both, and of the years a batch adds as well: the property leaves them out.
ChildrenFound ==
  /\ phase = "done" /\ PlainCategories /\ args.nested # <<>>
  /\ args.children /\ args.object \notin {None, <<>>}
  /\ \A i, j \in DOMAIN args.object :
       GroupOf(args.object[i]) = GroupOf(args.object[j]) => i = j
  => \A e \in Unedited \cap db.active : \A l \in db.links :
       /\ l[2] = e[1]
       /\ \E p \in Entity \ edited : p[1] = l[1] /\ PassesObjects(p)
       /\ PassesFlow(e) /\ PassesCategories(e) /\ PassesNested(e) /\ HasPlace(e)
       => e \in refs

\* When some flow version is in the answer of every branch, intersectSets is
\* the intersection of those answers, in spite of leaving out empty sets.
Passing == {e \in found["sort"] : \A b \in Used : e \in found[b]}
FoundExactly ==
  phase = "done" /\ Used # {} /\ Passing # {} => refs = Passing

\* search-flow-by-filters-strategy-impl.ts:239 intersects the sets "to obtain
\* the flowIDs that match all the filters".
AnswerPassesAllFilters ==
  phase = "done" => \A e \in refs, b \in Used : e \in found[b]

\* get-flowIds-flow-category-conditions-strategy-impl.ts:67 keeps "flows that
\* contain all required IN categories and none of the forbidden" ones.
CleanFlowsFound ==
  step["category"] = "end" =>
    \A e \in db.rows : PassesCategories(e) => e \in found["category"]

\* utils.ts:132: each entry of the group names adds a condition.
EveryGroupApplies ==
  args.category # None =>
    \A k \in selected, c \in NamedOf(args.category) :
      CategoryGroup[k] = c.group /\ CategoryName[k] \in NamesIn(args.category, c.group)
=============================================================================
