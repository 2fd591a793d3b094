--------------------------- MODULE FlowEnrichment ----------------------------
(***************************************************************************)
(* FlowSearchService.search once it has the flows of a page: it queries    *)
(* what belongs to them and builds one Flow of the schema for each.  The   *)
(* queries come in three stages, each awaited with Promise.all, and then   *)
(* one chain of queries per flow version, all chains at once.  Every query *)
(* is an action; other services insert and delete rows in between.  One    *)
(* rejected query fails the whole page.                                    *)
(***************************************************************************)
EXTENDS PageTables

CONSTANTS
  Requests     \* the pages asked for, with the tables they meet

\* Other services write up to edits times, and only the rows in writable.
Request ==
  [db : SUBSET Row, page : SUBSET FlowVersion, edits : Nat,
   writable : SUBSET Row]

ASSUME RequestsAssumption == Requests \subseteq Request

VARIABLES
  db,        \* the rows in the database
  always,    \* history: the rows that were there since the request began
  ever,      \* history: the rows that were there at some moment since
  current,   \* history: the plans that had a current version since
  edits,     \* the writes of other services still to come
  writable,  \* the rows they may write
  page,      \* the flow versions on the page
  withParents,  \* includeChildrenOfParkedFlows
  stage,     \* what the request awaits
  pending,   \* the queries of the stage that have not been answered
  got,       \* the rows the queries have answered
  plans,     \* plansMap: of a flow and a direction, the plan version shown
  channel,   \* the channel of a report detail
  chain,     \* the local variables of a flow version's chain of queries
  rejected   \* history: whether a query was rejected

rows == <<db, always, ever, current, edits>>
request == <<page, withParents, writable>>
vars == <<rows, request, stage, pending, got, plans, channel, chain, rejected>>

Stage == {"rows", "links", "nested", "items", "answered", "failed"}
FirstQueries == {"externalReferences", "flowObjects"}
NestedQueries ==
  {"categoryRefs", "organizations", "locations", "plans", "planVersions",
   "usageYears", "reportDetails"}
Query == FirstQueries \cup NestedQueries \cup {"flowLinks", "categories"}
ChainStep == {"idle", "channelRefs", "channels", "parked", "actives",
              "parentRefs", "sources", "organizations", "end"}

Chain ==
  [at : ChainStep, refs : SUBSET DetailRef, parked : SUBSET Category,
   actives : SUBSET ActiveFlow, todo : SUBSET Flow,
   parents : SUBSET FlowVersion, sources : SUBSET FlowObject,
   organizations : SUBSET Organization]
NewChain ==
  [at |-> "idle", refs |-> {}, parked |-> {}, actives |-> {}, todo |-> {},
   parents |-> {}, sources |-> {}, organizations |-> {}]

HasCurrent(present) == {p \in Plan : \E v \in present \cap PlanVersion : PlanOf[v] = p}

Init ==
  /\ \E q \in Requests : /\ db = q.db /\ page = q.page
                         /\ edits = q.edits /\ writable = q.writable
  /\ withParents \in BOOLEAN
  /\ always = db
  /\ ever = db
  /\ current = HasCurrent(db)
  /\ stage = "rows"
  /\ pending = FirstQueries
  /\ got = [q \in Query |-> {}]
  /\ plans = [k \in Flow \X Directions |-> None]
  /\ channel = [d \in ReportDetail |-> None]
  /\ chain = [fv \in FlowVersion |-> NewChain]
  /\ rejected = FALSE

-----------------------------------------------------------------------------
(* The queries of the page.                                                *)

FlowIds == {fv[1] : fv \in page}

\* The versions of a flow that are on the page: most maps the services build
\* have the flow id as their key.
Mates(flow) == {fv \in page : fv[1] = flow}

Find(query, wanted) ==
  /\ query \in pending
  /\ pending' = pending \ {query}
  /\ got' = [got EXCEPT ![query] = wanted \cap db]
  /\ UNCHANGED <<rows, request, stage, plans, channel, chain, rejected>>

\* Mutant: the versionID is not part of the condition.
FindExternalReferences_AnyVersion ==
  Find("externalReferences",
       {x \in ExternalReference : Owner[x][1] \in {fv[1] : fv \in page}})

FindExternalReferences ==
  Find("externalReferences", {x \in ExternalReference : Owner[x] \in page})

FindFlowObjects ==
  Find("flowObjects", {o \in FlowObject : Owner[o] \in page})

\* Mutant: links are only looked up by their parent.
FindFlowLinks_Parents ==
  Find("flowLinks", {l \in FlowLink : ParentOf[l] \in FlowIds})

FindFlowLinks ==
  Find("flowLinks", {l \in FlowLink : {ParentOf[l], ChildOf[l]} \cap FlowIds # {}})

\* The categories themselves are the second query of getCategoriesForFlows.
FindCategoryRefs ==
  /\ "categoryRefs" \in pending
  /\ pending' = (pending \ {"categoryRefs"}) \cup {"categories"}
  /\ got' = [got EXCEPT !["categoryRefs"] =
                          {r \in FlowRef : RefersTo[r][1] \in FlowIds} \cap db]
  /\ UNCHANGED <<rows, request, stage, plans, channel, chain, rejected>>

FindCategories ==
  Find("categories", {CategoryOf[r] : r \in got["categoryRefs"]})

Linked == {ObjectOf[o] : o \in got["flowObjects"]}

FindOrganizations == Find("organizations", Linked \cap Organization)
FindLocations == Find("locations", Linked \cap Location)
FindUsageYears == Find("usageYears", Linked \cap UsageYear)
FindPlans == Find("plans", Linked \cap Plan)

FindPlanVersions ==
  Find("planVersions", {v \in PlanVersion : PlanOf[v] \in Linked})

FindReportDetails ==
  Find("reportDetails", {d \in ReportDetail : Owner[d] \in page})

-----------------------------------------------------------------------------
(* The stages: what the code does when Promise.all is fulfilled.           *)

AwaitRows ==
  /\ stage = "rows"
  /\ pending = {}
  /\ stage' = "links"
  /\ pending' = {"flowLinks"}
  /\ UNCHANGED <<rows, request, got, plans, channel, chain, rejected>>

AwaitLinks ==
  /\ stage = "links"
  /\ pending = {}
  /\ stage' = "nested"
  /\ pending' = NestedQueries
  /\ UNCHANGED <<rows, request, got, plans, channel, chain, rejected>>

\* organizeObjectsByUniqueProperty is external: two rows of one key may make
\* it throw.
Ambiguous(found, key) ==
  \E x, y \in found : x # y /\ key[x] = key[y]

\* The plan versions getPlansForFlows may show for a flow in a direction.
\* Its test "plan.id === plan.id" compares a plan with itself, so the first
\* plan in the order of the database is the only one of its direction.
PlanChoices(flow, direction) ==
  {v \in got["planVersions"] :
     /\ PlanOf[v] \in got["plans"]
     /\ \E o \in got["flowObjects"] : /\ ObjectOf[o] = PlanOf[v]
                                      /\ Owner[o][1] = flow
                                      /\ Direction[o] = direction}

PlanKeys == FlowIds \X Directions

\* Mutant: the test does not compare directions either.
PlansShown_OnePerFlow(shown) ==
  \A k \in PlanKeys :
    IF \/ PlanChoices(k[1], k[2]) = {}
       \/ k[2] = "destination" /\ PlanChoices(k[1], "source") # {}
      THEN shown[k] = None
      ELSE shown[k] \in PlanChoices(k[1], k[2])

PlansShown(shown) ==
  \A k \in PlanKeys :
    IF PlanChoices(k[1], k[2]) = {} THEN shown[k] = None
                                    ELSE shown[k] \in PlanChoices(k[1], k[2])

DetailsOf(fv) == {d \in got["reportDetails"] : Owner[d][1] = fv[1]}

ParentIDs(fv) == Parents(got["flowLinks"], fv[1])

\* Mutant: parked parents are looked up whether asked for or not.
AfterChannels_Always(fv) ==
  IF ParentIDs(fv) # {} THEN "parked" ELSE "end"

AfterChannels(fv) ==
  IF withParents /\ ParentIDs(fv) # {} THEN "parked" ELSE "end"

FirstStep(fv) ==
  IF DetailsOf(fv) # {} THEN "channelRefs" ELSE AfterChannels(fv)

AwaitNested ==
  /\ stage = "nested"
  /\ pending = {}
  /\ \/ /\ Ambiguous(got["planVersions"], PlanOf)
        /\ stage' = "failed"
        /\ UNCHANGED <<plans, chain>>
     \/ /\ stage' = "items"
        /\ \E shown \in [PlanKeys -> PlanVersion \cup {None}] :
             /\ PlansShown(shown)
             /\ plans' = [k \in Flow \X Directions |->
                            IF k \in PlanKeys THEN shown[k] ELSE None]
        /\ chain' = [fv \in FlowVersion |->
                       IF fv \in page THEN [NewChain EXCEPT !.at = FirstStep(fv)]
                                      ELSE NewChain]
  /\ UNCHANGED <<rows, request, pending, got, channel, rejected>>

AwaitItems ==
  /\ stage = "items"
  /\ \A fv \in page : chain[fv].at = "end"
  /\ stage' = "answered"
  /\ UNCHANGED <<rows, request, pending, got, plans, channel, chain, rejected>>

-----------------------------------------------------------------------------
(* addChannelToReportDetails: the first copy of a report detail gets the   *)
(* name of a category it refers to.  The chains of two versions of a flow  *)
(* write to the same report details.                                       *)

AtStep(fv, step) == stage = "items" /\ fv \in page /\ chain[fv].at = step

FindChannelRefs(fv) ==
  /\ AtStep(fv, "channelRefs")
  /\ chain' = [chain EXCEPT ![fv].at = "channels",
                            ![fv].refs = {r \in DetailRef \cap db :
                                            RefersTo[r] \in DetailsOf(fv)}]
  /\ UNCHANGED <<rows, request, stage, pending, got, plans, channel, rejected>>

\* Mutant: the categories of all report details found.
ChannelChoices_AnyDetail(fv, d) == CategoriesBy(chain[fv].refs, db)

ChannelChoices(fv, d) ==
  CategoriesBy({r \in chain[fv].refs : RefersTo[r] = d}, db)

SetChannels(fv, set) ==
  \A d \in ReportDetail :
    IF d \in DetailsOf(fv) /\ ChannelChoices(fv, d) # {}
      THEN set[d] \in ChannelChoices(fv, d)
      ELSE set[d] = channel[d]

FindChannels(fv) ==
  /\ AtStep(fv, "channels")
  /\ chain' = [chain EXCEPT ![fv].at = AfterChannels(fv)]
  /\ channel' \in [ReportDetail -> Category \cup {None}]
  /\ SetChannels(fv, channel')
  /\ UNCHANGED <<rows, request, stage, pending, got, plans, rejected>>

-----------------------------------------------------------------------------
(* getParkedParents.                                                       *)

FindParkedCategory(fv) ==
  /\ AtStep(fv, "parked")
  /\ chain' = [chain EXCEPT ![fv].at = "actives",
                            ![fv].parked = {ParkedCategory} \cap db]
  /\ UNCHANGED <<rows, request, stage, pending, got, plans, channel, rejected>>

FlowOf(a) == Owner[a][1]

FindActiveParents(fv) ==
  /\ AtStep(fv, "actives")
  /\ LET found == {a \in ActiveFlow \cap db : FlowOf(a) \in ParentIDs(fv)} IN
       \/ /\ Ambiguous(found, [a \in ActiveFlow |-> FlowOf(a)])
          /\ stage' = "failed"
          /\ UNCHANGED chain
       \/ /\ chain' = [chain EXCEPT ![fv].at = "parentRefs",
                                    ![fv].actives = found,
                                    ![fv].todo = ParentIDs(fv)]
          /\ UNCHANGED stage
  /\ UNCHANGED <<rows, request, pending, got, plans, channel, rejected>>

\* Mutant: every category of the parent will do.
SaysParked_AnyCategory(fv, version, r) == RefersTo[r] = version

\* The rows of a parent version that say it is parked.  Without a category
\* Parked the condition on categoryID is undefined, and what that selects is
\* decided by hpc-api-core.
SaysParked(fv, version, r) ==
  /\ RefersTo[r] = version
  /\ CategoryOf[r] \in chain[fv].parked \/ chain[fv].parked = {}

\* Mutant: a parent is not taken off the list.
Proceed_SameParent(fv, parent, parents) ==
  chain' = [chain EXCEPT ![fv].parents = parents]

Proceed(fv, parent, parents) ==
  LET left == chain[fv].todo \ {parent} IN
    chain' = [chain EXCEPT
      ![fv].todo = left,
      ![fv].parents = parents,
      ![fv].at = IF left # {} THEN "parentRefs"
                 ELSE IF parents # {} THEN "sources" ELSE "organizations"]

\* One query per parent, one parent after the other.  A parent without an
\* active version fails the page.
FindParentRefs(fv) ==
  /\ AtStep(fv, "parentRefs")
  /\ \E parent \in chain[fv].todo :
       LET versions == {Owner[a] : a \in {x \in chain[fv].actives :
                                            FlowOf(x) = parent}} IN
         \/ versions = {} /\ stage' = "failed" /\ UNCHANGED chain
         \/ \E version \in versions :
              /\ \/ /\ \E r \in FlowRef \cap db : SaysParked(fv, version, r)
                    /\ Proceed(fv, parent, chain[fv].parents \cup {version})
                 \/ /\ \/ chain[fv].parked = {}
                       \/ ~\E r \in FlowRef \cap db : SaysParked(fv, version, r)
                    /\ Proceed(fv, parent, chain[fv].parents)
              /\ UNCHANGED stage
  /\ UNCHANGED <<rows, request, pending, got, plans, channel, rejected>>

IsSourceOf(o, version) ==
  Owner[o] = version /\ Direction[o] = "source" /\ ObjectOf[o] \in Organization

\* findOne: any one of the source organizations of a parked parent.
FindSource(fv) ==
  /\ AtStep(fv, "sources")
  /\ \E version \in chain[fv].parents :
       LET found == {o \in FlowObject \cap db : IsSourceOf(o, version)}
           left == chain[fv].parents \ {version} IN
         \E one \in {{o} : o \in found} \cup (IF found = {} THEN {{}} ELSE {}) :
           chain' = [chain EXCEPT
             ![fv].parents = left,
             ![fv].sources = @ \cup one,
             ![fv].at = IF left = {} THEN "organizations" ELSE "sources"]
  /\ UNCHANGED <<rows, request, stage, pending, got, plans, channel, rejected>>

\* Mutant: the ids of the flow objects are kept.
FindSourceOrganizations_Objects(fv) ==
  /\ AtStep(fv, "organizations")
  /\ chain' = [chain EXCEPT ![fv].at = "end",
                            ![fv].organizations = chain[fv].sources \cap db]
  /\ UNCHANGED <<rows, request, stage, pending, got, plans, channel, rejected>>

FindSourceOrganizations(fv) ==
  /\ AtStep(fv, "organizations")
  /\ chain' = [chain EXCEPT ![fv].at = "end",
                            ![fv].organizations =
                              {ObjectOf[o] : o \in chain[fv].sources} \cap db]
  /\ UNCHANGED <<rows, request, stage, pending, got, plans, channel, rejected>>

-----------------------------------------------------------------------------
(* Rejected queries, and the other services (external).                    *)

Running == stage \notin {"answered", "failed"}

\* What the other queries answer then is dropped.
Reject ==
  /\ \/ pending # {}
     \/ stage = "items" /\ \E fv \in page : chain[fv].at # "end"
  /\ stage' = "failed"
  /\ pending' = {}
  /\ rejected' = TRUE
  /\ UNCHANGED <<rows, request, got, plans, channel, chain>>

Write(present) ==
  /\ Running
  /\ edits > 0
  /\ edits' = edits - 1
  /\ db' = present
  /\ always' = always \cap present
  /\ ever' = ever \cup present
  /\ current' = current \cap HasCurrent(present)
  /\ UNCHANGED <<request, stage, pending, got, plans, channel, chain, rejected>>

Insert == \E r \in writable \ db : Write(db \cup {r})
Delete == \E r \in writable \cap db : Write(db \ {r})

-----------------------------------------------------------------------------
(* buildFlowDTO.                                                           *)

\* Mutant: the categories of all versions of the flow.
OwnCategories_AllVersions(fv) ==
  CategoriesBy({r \in got["categoryRefs"] : RefersTo[r][1] = fv[1]},
               got["categories"])

\* Categories are kept by flow id and versionID, everything else by flow id.
OwnCategories(fv) ==
  CategoriesBy({r \in got["categoryRefs"] : RefersTo[r] = fv},
               got["categories"])

\* reportDetails are added once for every version of the flow on the page;
\* only the first copy of a report detail gets a channel.
Copies(fv) == DetailsOf(fv) \X (1..Cardinality(Mates(fv[1])))
ChannelOf(copy) == IF copy[2] = 1 THEN channel[copy[1]] ELSE None

ItemOf(fv) ==
  [externalReferences |->
     {x \in got["externalReferences"] : Owner[x][1] = fv[1]},
   reportDetails |-> DetailsOf(fv),
   categories |-> OwnCategories(fv),
   entities |->
     Links({o \in got["flowObjects"] : Owner[o][1] = fv[1]},
           got["organizations"] \cup got["locations"] \cup got["usageYears"]),
   childIDs |-> Children(got["flowLinks"], fv[1]),
   parentIDs |-> ParentIDs(fv)]

-----------------------------------------------------------------------------
Work ==
  \/ FindExternalReferences \/ FindFlowObjects \/ FindFlowLinks
  \/ FindCategoryRefs \/ FindCategories \/ FindOrganizations \/ FindLocations
  \/ FindUsageYears \/ FindPlans \/ FindPlanVersions \/ FindReportDetails
  \/ AwaitRows \/ AwaitLinks \/ AwaitNested \/ AwaitItems
  \/ \E fv \in FlowVersion :
       \/ FindChannelRefs(fv) \/ FindChannels(fv)
       \/ FindParkedCategory(fv) \/ FindActiveParents(fv) \/ FindParentRefs(fv)
       \/ FindSource(fv) \/ FindSourceOrganizations(fv)

Next == Work \/ Reject \/ Insert \/ Delete

Spec == Init /\ [][Next]_vars

\* The database answers and the event loop goes on.
FairSpec == Spec /\ WF_vars(Work)

-----------------------------------------------------------------------------
(* Properties.                                                             *)

TypeOK ==
  /\ db \in SUBSET Row /\ always \in SUBSET Row /\ ever \in SUBSET Row
  /\ current \in SUBSET Plan
  /\ edits \in Nat
  /\ writable \in SUBSET Row
  /\ page \in SUBSET FlowVersion
  /\ withParents \in BOOLEAN
  /\ stage \in Stage
  /\ pending \in SUBSET Query
  /\ got \in [Query -> SUBSET Row]
  /\ plans \in [Flow \X Directions -> PlanVersion \cup {None}]
  /\ channel \in [ReportDetail -> Category \cup {None}]
  /\ chain \in [FlowVersion -> Chain]
  /\ rejected \in BOOLEAN

Answered == stage = "answered"
Sole(fv) == Mates(fv[1]) = {fv}

\* No row of an Item is lost (external references, report details, categories,
\* organizations, locations, usage years and links): one that stayed in the
\* database while the request ran is on the page, although each query sees
\* another moment and the ids a query asks for come from an earlier one.  Plans
\* are not among them: getPlansForFlows keeps one of a direction.
RowsKept ==
  Answered => \A fv \in page : Within(Deserved(always, fv), ItemOf(fv))

\* No row of an Item is invented: a flow version shows only what belonged to
\* it at some moment; when another version of the flow is on the
\* page, it may show what belongs to that one, but not its categories.
NothingForeign ==
  Answered => \A fv \in page :
    /\ Sole(fv) => Within(ItemOf(fv), Deserved(ever, fv))
    /\ ItemOf(fv).categories \subseteq Deserved(ever, fv).categories
    /\ \A k \in Field : ItemOf(fv)[k] \subseteq
                          UNION {Deserved(ever, mate)[k] : mate \in Mates(fv[1])}

\* A flow linked to a plan shows a plan in that direction, even while the
\* plan is being published and its current version changes (getPlansForFlows
\* reads plans and current versions in two queries).
PlansKeepShowing ==
  Answered =>
    /\ \A o \in always \cap FlowObject :
         Owner[o] \in page /\ ObjectOf[o] \in always \cap current
           => plans[<<Owner[o][1], Direction[o]>>] # None
    /\ \A k \in Flow \X Directions : plans[k] # None =>
         /\ plans[k] \in ever
         /\ \E o \in ever \cap FlowObject :
              /\ Owner[o] \in page /\ FlowOf(o) = k[1]
              /\ Direction[o] = k[2] /\ ObjectOf[o] = PlanOf[plans[k]]

\* The channel of a report detail is the name of a category it refers to, and
\* no channel is missing, whichever chain of queries wrote it last; among the
\* copies of a report detail this holds of the first.
ChannelsShown ==
  Answered => \A fv \in page : \A copy \in Copies(fv) :
    /\ /\ Sole(fv) \/ copy[2] = 1
       /\ \E r \in always \cap DetailRef :
            RefersTo[r] = copy[1] /\ CategoryOf[r] \in always
       => ChannelOf(copy) # None
    /\ ChannelOf(copy) # None =>
         \E r \in ever \cap DetailRef : /\ RefersTo[r] = copy[1]
                                       /\ CategoryOf[r] = ChannelOf(copy)
                                       /\ ChannelOf(copy) \in ever

\* What makes a parent a parked one with a given source organization.
ParkedSource(present, parent, o) ==
  /\ o \in present \cap FlowObject
  /\ IsSourceOf(o, Owner[o])
  /\ ObjectOf[o] \in present
  /\ FlowOf(o) = parent
  /\ \E a \in present \cap ActiveFlow : Owner[a] = Owner[o]
  /\ \E r \in present \cap FlowRef :
       RefersTo[r] = Owner[o] /\ CategoryOf[r] = ParkedCategory

\* parkedParentSource names the source organization of every parent whose one
\* active version stayed parked with that organization alone, and only
\* organizations of parents that were parked, as long as there is a category
\* Parked.
SourcesShown ==
  Answered /\ withParents /\ ParkedCategory \in always =>
    \A fv \in page :
      /\ \A l \in always \cap FlowLink : \A o \in FlowObject :
           /\ ChildOf[l] = fv[1] /\ ParkedSource(always, ParentOf[l], o)
           /\ \A a \in ever \cap ActiveFlow : FlowOf(a) = FlowOf(o)
                                             => Owner[a] = Owner[o]
           /\ \A p \in ever \cap FlowObject : IsSourceOf(p, Owner[o]) => p = o
           => ObjectOf[o] \in chain[fv].organizations
      /\ \A e \in chain[fv].organizations :
           \E l \in ever \cap FlowLink : \E o \in FlowObject :
             /\ ChildOf[l] = fv[1] /\ ObjectOf[o] = e
             /\ ParkedSource(ever, ParentOf[l], o)

\* A page fails only if a query was rejected, a plan had two current versions
\* or a flow two active ones at some moment, or children of parked flows were
\* asked for and a parent of a flow was without an active version.
FailsForCause ==
  stage = "failed" =>
    \/ rejected
    \/ Ambiguous(ever \cap PlanVersion, PlanOf)
    \/ /\ withParents
       /\ \E l \in ever \cap FlowLink :
            /\ ChildOf[l] \in FlowIds
            /\ \/ ~\E a \in always \cap ActiveFlow : FlowOf(a) = ParentOf[l]
               \/ \E a, b \in ever \cap ActiveFlow :
                    a # b /\ FlowOf(a) = ParentOf[l] /\ FlowOf(b) = ParentOf[l]

\* Without a snapshot, completing a page is still a regular read: between
\* what stayed and what was ever there.
Reader == INSTANCE PageReader WITH
  status <- IF Running THEN "pending" ELSE stage,
  items <- [fv \in page |-> IF Answered THEN ItemOf(fv) ELSE [k \in Field |-> {}]]
ReaderSpec == Reader!Spec

\* Every page is answered or refused.
PageEnds == Running ~> ~Running
=============================================================================
