------------------------ MODULE FlowEnrichment_proofs -------------------------
(***************************************************************************)
(* What a page says of its flows, for every set of tables, every page and  *)
(* every order of the queries and of the writes of other services.         *)
(***************************************************************************)
EXTENDS FlowEnrichment, FiniteSetTheorems, TLAPS

-----------------------------------------------------------------------------
(* The steps, by what they change.                                         *)

\* What a query asks for, by the answers it builds upon.
Asked(q) ==
  CASE q = "externalReferences" -> {x \in ExternalReference : Owner[x] \in page}
    [] q = "flowObjects" -> {o \in FlowObject : Owner[o] \in page}
    [] q = "flowLinks" ->
         {l \in FlowLink : {ParentOf[l], ChildOf[l]} \cap FlowIds # {}}
    [] q = "categoryRefs" -> {r \in FlowRef : RefersTo[r][1] \in FlowIds}
    [] q = "categories" -> {CategoryOf[r] : r \in got["categoryRefs"]}
    [] q = "organizations" -> Linked \cap Organization
    [] q = "locations" -> Linked \cap Location
    [] q = "usageYears" -> Linked \cap UsageYear
    [] q = "plans" -> Linked \cap Plan
    [] q = "planVersions" -> {v \in PlanVersion : PlanOf[v] \in Linked}
    [] q = "reportDetails" -> {d \in ReportDetail : Owner[d] \in page}

After(q) ==
  IF q = "categoryRefs" THEN (pending \ {q}) \cup {"categories"} ELSE pending \ {q}

Answers(q) ==
  /\ q \in pending
  /\ pending' = After(q)
  /\ got' = [got EXCEPT ![q] = Asked(q) \cap db]
  /\ UNCHANGED <<rows, request, stage, plans, channel, chain, rejected>>

OnChain(fv) ==
  \/ FindChannelRefs(fv) \/ FindChannels(fv)
  \/ FindParkedCategory(fv) \/ FindActiveParents(fv) \/ FindParentRefs(fv)
  \/ FindSource(fv) \/ FindSourceOrganizations(fv)

Queries ==
  \/ FindExternalReferences \/ FindFlowObjects \/ FindFlowLinks
  \/ FindCategoryRefs \/ FindCategories \/ FindOrganizations \/ FindLocations
  \/ FindUsageYears \/ FindPlans \/ FindPlanVersions \/ FindReportDetails

\* Every query answers what it asks for of the rows in the database.
LEMMA QueriesAnswer == Queries => \E q \in Query : Answers(q)
<1> USE DEF Answers, After, Query, FirstQueries, NestedQueries
<1>1. FindExternalReferences => Answers("externalReferences")
  BY DEF FindExternalReferences, Find, Asked
<1>2. FindFlowObjects => Answers("flowObjects")
  BY DEF FindFlowObjects, Find, Asked
<1>3. FindFlowLinks => Answers("flowLinks")
  BY DEF FindFlowLinks, Find, Asked
<1>4. FindCategoryRefs => Answers("categoryRefs")
  BY DEF FindCategoryRefs, Asked
<1>5. FindCategories => Answers("categories")
  BY DEF FindCategories, Find, Asked
<1>6. FindOrganizations => Answers("organizations")
  BY DEF FindOrganizations, Find, Asked
<1>7. FindLocations => Answers("locations")
  BY DEF FindLocations, Find, Asked
<1>8. FindUsageYears => Answers("usageYears")
  BY DEF FindUsageYears, Find, Asked
<1>9. FindPlans => Answers("plans")
  BY DEF FindPlans, Find, Asked
<1>10. FindPlanVersions => Answers("planVersions")
  BY DEF FindPlanVersions, Find, Asked
<1>11. FindReportDetails => Answers("reportDetails")
  BY DEF FindReportDetails, Find, Asked
<1> HIDE DEF Answers
<1> QED
  BY <1>1, <1>2, <1>3, <1>4, <1>5, <1>6, <1>7, <1>8, <1>9, <1>10, <1>11 DEF Queries

\* Every step is of one of eight kinds.
LEMMA StepCases ==
  ASSUME TypeOK, [Next]_vars
  PROVE  \/ UNCHANGED vars
         \/ \E q \in Query : Answers(q)
         \/ AwaitRows \/ AwaitLinks \/ AwaitNested \/ AwaitItems
         \/ \E fv \in FlowVersion : OnChain(fv)
         \/ Reject
         \/ \E present \in SUBSET Row : Write(present)
<1>1. Insert \/ Delete => \E present \in SUBSET Row : Write(present)
  BY DEF Insert, Delete, TypeOK
<1>2. Work => \/ Queries \/ AwaitRows \/ AwaitLinks \/ AwaitNested \/ AwaitItems
              \/ \E fv \in FlowVersion : OnChain(fv)
  BY DEF Work, Queries, OnChain
<1> QED BY <1>1, <1>2, QueriesAnswer DEF Next

-----------------------------------------------------------------------------
(* Types, the histories, and what every query answers at most.             *)

History ==
  /\ always \subseteq db /\ db \subseteq ever
  /\ current \subseteq HasCurrent(db)

PendingOK ==
  /\ stage = "rows" => pending \subseteq FirstQueries
  /\ stage = "links" => pending \subseteq {"flowLinks"}
  /\ stage = "nested" => /\ pending \subseteq NestedQueries \cup {"categories"}
                         /\ "categories" \in pending => "categoryRefs" \notin pending
  /\ stage \in {"items", "answered", "failed"} => pending = {}

\* The rows of its table a query may answer.
Table(q) ==
  CASE q \in {"externalReferences", "flowObjects", "flowLinks", "categoryRefs",
              "reportDetails"} -> Asked(q)
    [] q = "categories" -> Category
    [] q = "organizations" -> Organization
    [] q = "locations" -> Location
    [] q = "usageYears" -> UsageYear
    [] q = "plans" -> Plan
    [] q = "planVersions" -> PlanVersion

Upper == \A q \in Query : got[q] \subseteq Table(q) \cap ever

SourcesKind ==
  \A fv \in FlowVersion : \A o \in chain[fv].sources : ObjectOf[o] \in Organization

Base == TypeOK /\ History /\ PendingOK /\ Upper /\ SourcesKind

LEMMA AskedTable ==
  ASSUME Upper, NEW q \in Query PROVE Asked(q) \subseteq Table(q)
<1>1. got["categoryRefs"] \subseteq FlowRef
  BY DEF Upper, Table, Asked, Query, FirstQueries, NestedQueries
<1>2. {CategoryOf[r] : r \in got["categoryRefs"]} \subseteq Category
  BY <1>1, KeysAssumption DEF CategoryRef
<1> QED BY <1>2 DEF Table, Asked, Query, FirstQueries, NestedQueries

LEMMA TablesAreRows ==
  ASSUME NEW q \in Query PROVE Table(q) \subseteq Row
BY DEF Table, Asked, Query, FirstQueries, NestedQueries, Row, OwnedRow, Entity, CategoryRef

LEMMA FlowIdsFlow == ASSUME TypeOK PROVE FlowIds \subseteq Flow
BY DEF TypeOK, FlowIds, Flow

LEMMA InitBase == Init => Base
<1> SUFFICES ASSUME Init PROVE Base
  OBVIOUS
<1>1. PICK q \in Requests : /\ db = q.db /\ page = q.page
                            /\ edits = q.edits /\ writable = q.writable
  BY DEF Init
<1>2. q \in Request
  BY RequestsAssumption
<1>3. HasCurrent(db) \subseteq Plan
  BY DEF HasCurrent
<1>4. TypeOK
  BY <1>1, <1>2, <1>3 DEF Init, TypeOK, Request, Stage, Query, Chain, NewChain, ChainStep
<1> QED BY <1>4 DEF Base, Init, History, PendingOK, Upper, SourcesKind, NewChain

\* The tables do not change with the state of the request.
LEMMA TableStable ==
  ASSUME page' = page, NEW q \in Query PROVE Table(q)' = Table(q)
BY DEF Table, Asked, FlowIds, Query, FirstQueries, NestedQueries

LEMMA AnswersBase ==
  ASSUME Base, NEW q \in Query, Answers(q) PROVE Base'
<1> USE DEF Base, Answers
<1>1. Asked(q) \cap db \subseteq Table(q) \cap ever /\ Table(q) \subseteq Row
  BY AskedTable, TablesAreRows DEF History
<1>2. TypeOK'
  BY <1>1 DEF TypeOK, rows, request, After, Query
<1>3. Upper'
  <2> SUFFICES ASSUME NEW p \in Query PROVE got'[p] \subseteq Table(p)' \cap ever'
    BY DEF Upper
  <2>1. Table(p)' = Table(p) /\ ever' = ever
    BY TableStable DEF request, rows
  <2>2. got'[p] = IF p = q THEN Asked(q) \cap db ELSE got[p]
    BY DEF TypeOK
  <2> QED BY <1>1, <2>1, <2>2 DEF Upper
<1>4. PendingOK'
  BY DEF PendingOK, After, FirstQueries, NestedQueries, TypeOK, Stage
<1> QED BY <1>2, <1>3, <1>4 DEF History, SourcesKind, rows, HasCurrent

LEMMA ParentIDsFlow ==
  ASSUME Base, NEW fv \in FlowVersion PROVE ParentIDs(fv) \subseteq Flow
<1>1. got["flowLinks"] \subseteq FlowLink
  BY DEF Base, Upper, Table, Asked, Query
<1> QED BY <1>1, KeysAssumption DEF ParentIDs, Parents

LEMMA StageBase ==
  ASSUME Base, AwaitRows \/ AwaitLinks \/ AwaitNested \/ AwaitItems PROVE Base'
<1> USE DEF Base
<1>1. UNCHANGED <<rows, request, got>>
  BY DEF AwaitRows, AwaitLinks, AwaitNested, AwaitItems
<1>2. History' /\ Upper'
  BY <1>1, TableStable DEF History, Upper, HasCurrent, rows, request
<1>3. ASSUME AwaitRows \/ AwaitLinks \/ AwaitItems PROVE TypeOK' /\ PendingOK' /\ SourcesKind'
  <2>1. stage' \in Stage /\ pending' \in SUBSET Query /\ PendingOK'
    BY <1>3 DEF AwaitRows, AwaitLinks, AwaitItems, TypeOK, PendingOK, Stage, Query,
       FirstQueries, NestedQueries
  <2>2. UNCHANGED <<plans, channel, chain, rejected>>
    BY <1>3 DEF AwaitRows, AwaitLinks, AwaitItems
  <2> QED BY <1>1, <2>1, <2>2 DEF TypeOK, SourcesKind, rows, request
<1>4. CASE AwaitNested
  <2>1. PendingOK'
    BY <1>4 DEF AwaitNested, PendingOK
  <2>2. chain' \in [FlowVersion -> Chain] /\ SourcesKind'
    <3>1. /\ NewChain \in Chain /\ NewChain.sources = {}
          /\ \A fv : /\ [NewChain EXCEPT !.at = FirstStep(fv)] \in Chain
                     /\ [NewChain EXCEPT !.at = FirstStep(fv)].sources = {}
      BY DEF NewChain, Chain, ChainStep, FirstStep, AfterChannels
    <3>2. \/ chain' = chain
          \/ chain' = [fv \in FlowVersion |->
                         IF fv \in page THEN [NewChain EXCEPT !.at = FirstStep(fv)]
                                        ELSE NewChain]
      BY <1>4 DEF AwaitNested
    <3>3. CASE chain' = chain
      BY <3>3 DEF SourcesKind, TypeOK
    <3>4. ASSUME chain' # chain PROVE /\ chain' \in [FlowVersion -> Chain]
                                      /\ \A fv \in FlowVersion : chain'[fv].sources = {}
      <4> DEFINE first(fv) == [NewChain EXCEPT !.at = FirstStep(fv)]
      <4>1. chain' = [fv \in FlowVersion |-> IF fv \in page THEN first(fv) ELSE NewChain]
        BY <3>2, <3>4
      <4>2. \A fv : first(fv) \in Chain /\ first(fv).sources = {}
        BY <3>1
      <4> HIDE DEF first
      <4> QED BY <3>1, <4>1, <4>2
    <3> QED BY <3>3, <3>4 DEF SourcesKind
  <2>3. plans' \in [Flow \X Directions -> PlanVersion \cup {None}]
    <3>1. CASE plans' = plans
      BY <3>1 DEF TypeOK
    <3>2. CASE plans' # plans
      <4>1. PICK shown \in [PlanKeys -> PlanVersion \cup {None}] :
              plans' = [k \in Flow \X Directions |->
                          IF k \in PlanKeys THEN shown[k] ELSE None]
        BY <1>4, <3>2 DEF AwaitNested
      <4> QED BY <4>1
    <3> QED BY <3>1, <3>2
  <2>4. TypeOK'
    BY <1>1, <1>4, <2>2, <2>3 DEF AwaitNested, TypeOK, Stage, rows, request
  <2> QED BY <1>2, <2>1, <2>2, <2>4
<1> QED BY <1>2, <1>3, <1>4

\* The chains change nothing but themselves, the channels and, when they
\* fail, the stage.
LEMMA ChainFrame ==
  ASSUME NEW fv \in FlowVersion, OnChain(fv)
  PROVE  /\ stage = "items" /\ stage' \in {"items", "failed"} /\ fv \in page
         /\ UNCHANGED <<rows, request, pending, got, plans, rejected>>
         /\ stage' = "failed" => chain' = chain /\ channel' = channel
BY DEF OnChain, AtStep, FindChannelRefs, FindChannels, FindParkedCategory,
   FindActiveParents, FindParentRefs, FindSource, FindSourceOrganizations

\* What the chain of fv holds next.
Becomes(fv, c) == chain' = [chain EXCEPT ![fv] = c]

LEMMA ChannelRefsBecome ==
  ASSUME TypeOK, NEW fv \in FlowVersion, FindChannelRefs(fv)
  PROVE  Becomes(fv, [chain[fv] EXCEPT
           !.at = "channels",
           !.refs = {r \in DetailRef \cap db : RefersTo[r] \in DetailsOf(fv)}])
BY DEF FindChannelRefs, Becomes, TypeOK

LEMMA ChannelsBecome ==
  ASSUME TypeOK, NEW fv \in FlowVersion, FindChannels(fv)
  PROVE  Becomes(fv, [chain[fv] EXCEPT !.at = AfterChannels(fv)])
BY DEF FindChannels, Becomes, TypeOK

LEMMA ParkedCategoryBecomes ==
  ASSUME TypeOK, NEW fv \in FlowVersion, FindParkedCategory(fv)
  PROVE  Becomes(fv, [chain[fv] EXCEPT !.at = "actives",
                                       !.parked = {ParkedCategory} \cap db])
BY DEF FindParkedCategory, Becomes, TypeOK

ActivesOf(fv) == {a \in ActiveFlow \cap db : FlowOf(a) \in ParentIDs(fv)}

LEMMA ActiveParentsBecome ==
  ASSUME TypeOK, NEW fv \in FlowVersion, FindActiveParents(fv)
  PROVE  \/ /\ Ambiguous(ActivesOf(fv), [a \in ActiveFlow |-> FlowOf(a)])
            /\ stage' = "failed" /\ chain' = chain
         \/ /\ stage' = "items"
            /\ Becomes(fv, [chain[fv] EXCEPT !.at = "parentRefs",
                                             !.actives = ActivesOf(fv),
                                             !.todo = ParentIDs(fv)])
BY DEF FindActiveParents, AtStep, Becomes, ActivesOf, TypeOK

Versions(fv, parent) ==
  {Owner[a] : a \in {x \in chain[fv].actives : FlowOf(x) = parent}}

\* The locals once a parent has been looked at.
Proceeded(fv, parent, parents) ==
  [chain[fv] EXCEPT
     !.todo = chain[fv].todo \ {parent},
     !.parents = parents,
     !.at = IF chain[fv].todo \ {parent} # {} THEN "parentRefs"
            ELSE IF parents # {} THEN "sources" ELSE "organizations"]

Says(fv, version) == \E r \in FlowRef \cap db : SaysParked(fv, version, r)

LEMMA ProceedBecomes ==
  ASSUME TypeOK, NEW fv \in FlowVersion, NEW parent, NEW parents,
         Proceed(fv, parent, parents)
  PROVE  Becomes(fv, Proceeded(fv, parent, parents))
BY DEF Proceed, Proceeded, Becomes, TypeOK

LEMMA ParentRefsBecome ==
  ASSUME TypeOK, NEW fv \in FlowVersion, FindParentRefs(fv)
  PROVE  \E parent \in chain[fv].todo :
           \/ Versions(fv, parent) = {} /\ stage' = "failed" /\ chain' = chain
           \/ /\ stage' = "items"
              /\ \E version \in Versions(fv, parent) :
                   \/ /\ Says(fv, version)
                      /\ Becomes(fv, Proceeded(fv, parent,
                                               chain[fv].parents \cup {version}))
                   \/ /\ chain[fv].parked = {} \/ ~Says(fv, version)
                      /\ Becomes(fv, Proceeded(fv, parent, chain[fv].parents))
<1>1. PICK parent \in chain[fv].todo :
        \/ Versions(fv, parent) = {} /\ stage' = "failed" /\ UNCHANGED chain
        \/ \E version \in Versions(fv, parent) :
             /\ \/ /\ Says(fv, version)
                   /\ Proceed(fv, parent, chain[fv].parents \cup {version})
                \/ /\ chain[fv].parked = {} \/ ~Says(fv, version)
                   /\ Proceed(fv, parent, chain[fv].parents)
             /\ UNCHANGED stage
  BY DEF FindParentRefs, Versions, Says
<1>2. stage = "items"
  BY DEF FindParentRefs, AtStep
<1> QED BY <1>1, <1>2, ProceedBecomes

SourcesOf(version) == {o \in FlowObject \cap db : IsSourceOf(o, version)}

LEMMA SourceBecomes ==
  ASSUME TypeOK, NEW fv \in FlowVersion, FindSource(fv)
  PROVE  \E version \in chain[fv].parents :
         \E one \in SUBSET SourcesOf(version) :
           /\ SourcesOf(version) # {} => one # {}
           /\ Becomes(fv, [chain[fv] EXCEPT
                !.parents = chain[fv].parents \ {version},
                !.sources = chain[fv].sources \cup one,
                !.at = IF chain[fv].parents \ {version} = {}
                         THEN "organizations" ELSE "sources"])
<1>1. PICK version \in chain[fv].parents :
        \E one \in {{o} : o \in SourcesOf(version)}
                     \cup (IF SourcesOf(version) = {} THEN {{}} ELSE {}) :
          chain' = [chain EXCEPT
            ![fv].parents = chain[fv].parents \ {version},
            ![fv].sources = @ \cup one,
            ![fv].at = IF chain[fv].parents \ {version} = {}
                         THEN "organizations" ELSE "sources"]
  BY DEF FindSource, SourcesOf
<1>2. PICK one \in {{o} : o \in SourcesOf(version)}
                     \cup (IF SourcesOf(version) = {} THEN {{}} ELSE {}) :
        chain' = [chain EXCEPT
          ![fv].parents = chain[fv].parents \ {version},
          ![fv].sources = @ \cup one,
          ![fv].at = IF chain[fv].parents \ {version} = {}
                       THEN "organizations" ELSE "sources"]
  BY <1>1
<1>3. one \in SUBSET SourcesOf(version) /\ (SourcesOf(version) # {} => one # {})
  BY <1>2
<1>4. Becomes(fv, [chain[fv] EXCEPT
        !.parents = chain[fv].parents \ {version},
        !.sources = chain[fv].sources \cup one,
        !.at = IF chain[fv].parents \ {version} = {}
                 THEN "organizations" ELSE "sources"])
  <2>1. chain[fv] \in Chain
    BY DEF TypeOK
  <2> QED BY <1>2, <2>1 DEF Becomes, TypeOK, Chain
<1> QED BY <1>3, <1>4

LEMMA SourceOrganizationsBecome ==
  ASSUME TypeOK, NEW fv \in FlowVersion, FindSourceOrganizations(fv)
  PROVE  Becomes(fv, [chain[fv] EXCEPT
           !.at = "end",
           !.organizations = {ObjectOf[o] : o \in chain[fv].sources} \cap db])
BY DEF FindSourceOrganizations, Becomes, TypeOK

LEMMA NewLocals ==
  ASSUME TypeOK, SourcesKind, NEW fv \in FlowVersion, NEW c \in Chain,
         \A o \in c.sources : ObjectOf[o] \in Organization, Becomes(fv, c)
  PROVE  chain' \in [FlowVersion -> Chain] /\ SourcesKind'
BY DEF TypeOK, SourcesKind, Becomes

LEMMA ProceededTyped ==
  ASSUME TypeOK, SourcesKind, NEW fv \in FlowVersion, NEW parent,
         NEW parents \in SUBSET FlowVersion
  PROVE  /\ Proceeded(fv, parent, parents) \in Chain
         /\ Proceeded(fv, parent, parents).sources = chain[fv].sources
<1>1. chain[fv] \in Chain /\ chain[fv].todo \ {parent} \in SUBSET Flow
  BY DEF TypeOK, Chain
<1> QED BY <1>1 DEF Proceeded, Chain, ChainStep

LEMMA ChainBase ==
  ASSUME Base, NEW fv \in FlowVersion, OnChain(fv) PROVE Base'
<1> USE DEF Base
<1>1. /\ stage = "items" /\ stage' \in {"items", "failed"}
      /\ UNCHANGED <<rows, request, pending, got, plans, rejected>>
  BY ChainFrame
<1>2. History' /\ Upper' /\ PendingOK'
  BY <1>1, TableStable DEF History, Upper, PendingOK, HasCurrent, rows, request
<1>3. /\ chain \in [FlowVersion -> Chain] /\ chain[fv] \in Chain
      /\ channel \in [ReportDetail -> Category \cup {None}]
      /\ \A o \in chain[fv].sources : ObjectOf[o] \in Organization
  BY DEF TypeOK, SourcesKind
<1>4. channel' \in [ReportDetail -> Category \cup {None}]
  BY <1>3 DEF OnChain, FindChannelRefs, FindChannels, FindParkedCategory,
     FindActiveParents, FindParentRefs, FindSource, FindSourceOrganizations
<1> DEFINE Typed == chain' \in [FlowVersion -> Chain] /\ SourcesKind'
<1>5. ASSUME chain' = chain PROVE Typed
  BY <1>3, <1>5 DEF SourcesKind
<1>6. ASSUME FindChannelRefs(fv) PROVE Typed
  <2> DEFINE c == [chain[fv] EXCEPT
           !.at = "channels",
           !.refs = {r \in DetailRef \cap db : RefersTo[r] \in DetailsOf(fv)}]
  <2>1. c \in Chain /\ c.sources = chain[fv].sources
    BY <1>3 DEF Chain, ChainStep
  <2>2. Becomes(fv, c)
    BY <1>6, ChannelRefsBecome
  <2> HIDE DEF c
  <2> QED BY <1>3, <2>1, <2>2, NewLocals
<1>7. ASSUME FindChannels(fv) PROVE Typed
  <2> DEFINE c == [chain[fv] EXCEPT !.at = AfterChannels(fv)]
  <2>1. c \in Chain /\ c.sources = chain[fv].sources
    BY <1>3 DEF Chain, ChainStep, AfterChannels
  <2>2. Becomes(fv, c)
    BY <1>7, ChannelsBecome
  <2> HIDE DEF c
  <2> QED BY <1>3, <2>1, <2>2, NewLocals
<1>8. ASSUME FindParkedCategory(fv) PROVE Typed
  <2> DEFINE c == [chain[fv] EXCEPT !.at = "actives",
                                    !.parked = {ParkedCategory} \cap db]
  <2>1. {ParkedCategory} \cap db \in SUBSET Category
    BY KeysAssumption
  <2>2. c \in Chain /\ c.sources = chain[fv].sources
    BY <1>3, <2>1 DEF Chain, ChainStep
  <2>3. Becomes(fv, c)
    BY <1>8, ParkedCategoryBecomes
  <2> HIDE DEF c
  <2> QED BY <1>3, <2>2, <2>3, NewLocals
<1>9. ASSUME FindActiveParents(fv), chain' # chain PROVE Typed
  <2> DEFINE c == [chain[fv] EXCEPT !.at = "parentRefs",
                                    !.actives = ActivesOf(fv),
                                    !.todo = ParentIDs(fv)]
  <2>1. ParentIDs(fv) \in SUBSET Flow /\ ActivesOf(fv) \in SUBSET ActiveFlow
    BY ParentIDsFlow DEF ActivesOf
  <2>2. c \in Chain /\ c.sources = chain[fv].sources
    BY <1>3, <2>1 DEF Chain, ChainStep
  <2>3. Becomes(fv, c)
    BY <1>9, ActiveParentsBecome
  <2> HIDE DEF c
  <2> QED BY <1>3, <2>2, <2>3, NewLocals
<1>10. ASSUME FindParentRefs(fv), chain' # chain PROVE Typed
  <2>1. PICK parent \in chain[fv].todo : \E version \in Versions(fv, parent) :
          \/ Becomes(fv, Proceeded(fv, parent, chain[fv].parents \cup {version}))
          \/ Becomes(fv, Proceeded(fv, parent, chain[fv].parents))
    BY <1>10, ParentRefsBecome
  <2>2. Versions(fv, parent) \subseteq FlowVersion
    BY <1>3, KeysAssumption DEF Versions, Chain, OwnedRow
  <2>3. PICK parents \in SUBSET FlowVersion :
          Becomes(fv, Proceeded(fv, parent, parents))
    BY <1>3, <2>1, <2>2 DEF Chain
  <2> QED BY <1>3, <2>3, ProceededTyped, NewLocals
<1>11. ASSUME FindSource(fv) PROVE Typed
  <2>1. PICK version \in chain[fv].parents : \E one \in SUBSET SourcesOf(version) :
          Becomes(fv, [chain[fv] EXCEPT
            !.parents = chain[fv].parents \ {version},
            !.sources = chain[fv].sources \cup one,
            !.at = IF chain[fv].parents \ {version} = {}
                     THEN "organizations" ELSE "sources"])
    BY <1>11, SourceBecomes
  <2>5. PICK one \in SUBSET SourcesOf(version) : Becomes(fv, [chain[fv] EXCEPT
            !.parents = chain[fv].parents \ {version},
            !.sources = chain[fv].sources \cup one,
            !.at = IF chain[fv].parents \ {version} = {}
                     THEN "organizations" ELSE "sources"])
    BY <2>1
  <2> DEFINE c == [chain[fv] EXCEPT
            !.parents = chain[fv].parents \ {version},
            !.sources = chain[fv].sources \cup one,
            !.at = IF chain[fv].parents \ {version} = {}
                     THEN "organizations" ELSE "sources"]
  <2>2. /\ chain[fv].parents \ {version} \in SUBSET FlowVersion
        /\ chain[fv].sources \cup one \in SUBSET FlowObject
        /\ \A o \in one : ObjectOf[o] \in Organization
    BY <1>3 DEF Chain, SourcesOf, IsSourceOf
  <2>3. c \in Chain /\ c.sources = chain[fv].sources \cup one
    BY <1>3, <2>2 DEF Chain, ChainStep
  <2>4. Becomes(fv, c)
    BY <2>5
  <2> HIDE DEF c
  <2> QED BY <1>3, <2>2, <2>3, <2>4, NewLocals
<1>12. ASSUME FindSourceOrganizations(fv) PROVE Typed
  <2> DEFINE c == [chain[fv] EXCEPT
           !.at = "end",
           !.organizations = {ObjectOf[o] : o \in chain[fv].sources} \cap db]
  <2>1. {ObjectOf[o] : o \in chain[fv].sources} \cap db \in SUBSET Organization
    BY <1>3
  <2>2. c \in Chain /\ c.sources = chain[fv].sources
    BY <1>3, <2>1 DEF Chain, ChainStep
  <2>3. Becomes(fv, c)
    BY <1>12, SourceOrganizationsBecome
  <2> HIDE DEF c
  <2> QED BY <1>3, <2>2, <2>3, NewLocals
<1>13. Typed
  BY <1>5, <1>6, <1>7, <1>8, <1>9, <1>10, <1>11, <1>12 DEF OnChain
<1> QED BY <1>1, <1>2, <1>4, <1>13 DEF TypeOK, Stage, rows, request

LEMMA WriteBase ==
  ASSUME Base, NEW present \in SUBSET Row, Write(present) PROVE Base'
<1> USE DEF Base, Write
<1>1. HasCurrent(present) \subseteq Plan
  BY DEF HasCurrent
<1>2. TypeOK'
  BY <1>1 DEF TypeOK, request
<1>3. Upper'
  BY TableStable DEF Upper, History, request
<1>4. current' \subseteq HasCurrent(db)'
  BY DEF HasCurrent
<1> QED BY <1>2, <1>3, <1>4 DEF History, PendingOK, SourcesKind, request

LEMMA NextBase == Base /\ [Next]_vars => Base'
<1> SUFFICES ASSUME Base, [Next]_vars PROVE Base'
  OBVIOUS
<1>1. CASE UNCHANGED vars
  BY <1>1, TableStable DEF Base, TypeOK, History, PendingOK, Upper, SourcesKind,
     HasCurrent, vars, rows, request
<1>2. CASE Reject
  BY <1>2, TableStable DEF Reject, Base, TypeOK, Stage, History, PendingOK, Upper,
     SourcesKind, HasCurrent, rows, request
<1> QED
  BY <1>1, <1>2, StepCases, AnswersBase, StageBase, ChainBase, WriteBase DEF Base

\* Every variable keeps its type: what a chain of queries passes on, from the
\* links to the parents, their flow objects and their organizations, are ids
\* of the right tables.
THEOREM TypeCorrect == Spec => []TypeOK
<1>1. Spec => []Base
  BY InitBase, NextBase, PTL DEF Spec
<1>2. Base => TypeOK
  BY DEF Base
<1> QED BY <1>1, <1>2, PTL

-----------------------------------------------------------------------------
(* What every query answers at least: the rows asked for that stayed.      *)

Done ==
  CASE stage = "rows" -> FirstQueries \ pending
    [] stage = "links" -> FirstQueries \cup ({"flowLinks"} \ pending)
    [] stage = "nested" ->
         FirstQueries \cup {"flowLinks"} \cup (NestedQueries \ pending) \cup
         {q \in {"categories"} : {"categoryRefs", "categories"} \cap pending = {}}
    [] stage \in {"items", "answered"} -> Query
    [] OTHER -> {}

Lower == \A q \in Done : Asked(q) \cap always \subseteq got[q]

\* A plan whose current version changes has no version that stays, but one
\* whenever the database is asked.
PlansLower ==
  "planVersions" \in Done =>
    \A p \in current \cap Linked : \E v \in got["planVersions"] : PlanOf[v] = p

Complete == Base /\ Lower /\ PlansLower

LEMMA DoneQuery == Done \subseteq Query
BY DEF Done, Query, FirstQueries, NestedQueries

\* A query does not depend on its own answer, nor on answers still to come.
LEMMA AskedStable ==
  ASSUME page' = page, NEW p \in Query,
         p = "categories" => got'["categoryRefs"] = got["categoryRefs"],
         p \in NestedQueries \ {"categoryRefs", "reportDetails"}
           => got'["flowObjects"] = got["flowObjects"]
  PROVE  Asked(p)' = Asked(p)
BY DEF Asked, Linked, FlowIds, Query, FirstQueries, NestedQueries

LEMMA InitComplete == Init => Complete
BY InitBase DEF Complete, Init, Lower, PlansLower, Done

LEMMA AnswersComplete ==
  ASSUME Complete, NEW q \in Query, Answers(q) PROVE Lower' /\ PlansLower'
<1> USE DEF Complete, Base
<1>1. /\ q \in pending /\ pending' = After(q)
      /\ UNCHANGED <<always, db, current, stage, page>>
      /\ \A p \in Query : got'[p] = IF p = q THEN Asked(q) \cap db ELSE got[p]
  BY DEF Answers, rows, request, TypeOK
<1>2. stage \in {"rows", "links", "nested"}
  BY <1>1 DEF PendingOK, TypeOK, Stage
<1>3. Done' \subseteq Done \cup {q} /\ q \notin Done
  BY <1>1, <1>2 DEF Done, After, PendingOK, FirstQueries, NestedQueries
<1>4. ASSUME NEW p \in Done \cup {q} PROVE Asked(p)' = Asked(p)
  <2>1. p \in Query
    BY DoneQuery
  <2>2. p = "categories" => q # "categoryRefs"
    BY <1>1, <1>2 DEF Done, PendingOK, FirstQueries, NestedQueries
  <2>3. p \in NestedQueries \ {"categoryRefs", "reportDetails"} => q # "flowObjects"
    BY <1>1, <1>2 DEF Done, PendingOK, FirstQueries, NestedQueries
  <2> QED BY <1>1, <2>1, <2>2, <2>3, AskedStable DEF Query, FirstQueries, NestedQueries
<1>5. Lower'
  <2> SUFFICES ASSUME NEW p \in Done' PROVE Asked(p)' \cap always' \subseteq got'[p]
    BY DEF Lower
  <2>1. CASE p = q
    BY <2>1, <1>1, <1>4 DEF History
  <2>2. CASE p # q
    BY <2>2, <1>1, <1>3, <1>4, DoneQuery DEF Lower
  <2> QED BY <2>1, <2>2
<1>6. PlansLower'
  <2> SUFFICES ASSUME "planVersions" \in Done', NEW p \in current \cap Linked'
               PROVE  \E v \in got'["planVersions"] : PlanOf[v] = p
    BY <1>1 DEF PlansLower
  <2>1. q # "flowObjects"
    BY <1>1, <1>2, <1>3 DEF Done, PendingOK, FirstQueries, NestedQueries
  <2>2. Linked' = Linked
    BY <2>1, <1>1 DEF Linked, Query, FirstQueries
  <2>3. CASE q = "planVersions"
    <3>1. got'["planVersions"] = {v \in PlanVersion : PlanOf[v] \in Linked} \cap db
      BY <1>1, <2>3 DEF Asked
    <3>2. \E v \in db \cap PlanVersion : PlanOf[v] = p
      BY DEF History, HasCurrent
    <3> QED BY <2>2, <3>1, <3>2
  <2>4. CASE q # "planVersions"
    BY <2>2, <2>4, <1>1, <1>3, DoneQuery DEF PlansLower
  <2> QED BY <2>3, <2>4
<1> QED BY <1>5, <1>6

\* Other steps answer no query; waiting for all of them loses none.
LEMMA OtherComplete ==
  ASSUME Complete, got' = got, page' = page, always' \subseteq always,
         current' \subseteq current, Done' \subseteq Done
  PROVE  Lower' /\ PlansLower'
<1>1. \A q \in Query : Asked(q)' = Asked(q)
  BY AskedStable
<1> QED BY <1>1, DoneQuery DEF Complete, Lower, PlansLower, Linked

LEMMA NextComplete == Complete /\ [Next]_vars => Complete'
<1> SUFFICES ASSUME Complete, [Next]_vars PROVE Complete'
  OBVIOUS
<1>1. Base'
  BY NextBase DEF Complete
<1>2. CASE UNCHANGED vars
  BY <1>1, <1>2, OtherComplete DEF Complete, vars, rows, request, Done
<1>3. CASE \E q \in Query : Answers(q)
  BY <1>1, <1>3, AnswersComplete DEF Complete
<1>4. CASE AwaitRows \/ AwaitLinks \/ AwaitNested \/ AwaitItems
  <2>1. /\ got' = got /\ page' = page /\ always' = always /\ current' = current
    BY <1>4 DEF AwaitRows, AwaitLinks, AwaitNested, AwaitItems, rows, request
  <2>2. Done' \subseteq Done
    BY <1>4 DEF AwaitRows, AwaitLinks, AwaitNested, AwaitItems, Done, Query,
       FirstQueries, NestedQueries
  <2> QED BY <1>1, <2>1, <2>2, OtherComplete DEF Complete
<1>5. ASSUME NEW fv \in FlowVersion, OnChain(fv) PROVE Complete'
  <2>1. Done' \subseteq Done /\ got' = got /\ page' = page /\ always' = always /\ current' = current
    BY <1>5, ChainFrame DEF Done, rows, request
  <2> QED BY <1>1, <2>1, OtherComplete DEF Complete
<1>6. CASE Reject
  <2>1. Done' \subseteq Done /\ got' = got /\ page' = page /\ always' = always /\ current' = current
    BY <1>6 DEF Reject, Done, rows, request
  <2> QED BY <1>1, <2>1, OtherComplete DEF Complete
<1>7. ASSUME NEW present \in SUBSET Row, Write(present) PROVE Complete'
  <2>1. /\ Done' = Done /\ got' = got /\ page' = page
        /\ always' \subseteq always /\ current' \subseteq current
    BY <1>7 DEF Write, Done, request
  <2> QED BY <1>1, <2>1, OtherComplete DEF Complete
<1> QED
  BY <1>2, <1>3, <1>4, <1>5, <1>6, <1>7, StepCases DEF Complete, Base

-----------------------------------------------------------------------------
(* The page: everything that stayed is on it, and nothing foreign.         *)

\* The answer holds what the rows that stayed say.
LEMMA KeptItem ==
  ASSUME Complete, stage \in {"items", "answered"}, NEW fv \in page
  PROVE  Within(Deserved(always, fv), ItemOf(fv))
<1> USE DEF Complete, Base
<1>1. fv[1] \in FlowIds
  BY DEF FlowIds
<1>2. \A q \in Query : Asked(q) \cap always \subseteq got[q]
  BY DEF Lower, Done
<1>3. {x \in always \cap ExternalReference : Owner[x] = fv}
        \subseteq {x \in got["externalReferences"] : Owner[x][1] = fv[1]}
  BY <1>2 DEF Asked, Query, FirstQueries
<1>4. {x \in always \cap ReportDetail : Owner[x] = fv} \subseteq DetailsOf(fv)
  BY <1>2 DEF Asked, Query, NestedQueries, DetailsOf
<1>5. CategoriesBy({r \in always \cap FlowRef : RefersTo[r] = fv}, always \cap Category)
        \subseteq OwnCategories(fv)
  <2>1. \A r \in always \cap FlowRef : RefersTo[r] = fv => r \in got["categoryRefs"]
    BY <1>1, <1>2 DEF Asked, Query, NestedQueries
  <2>2. \A r \in got["categoryRefs"] : CategoryOf[r] \in always => CategoryOf[r] \in got["categories"]
    BY <1>2 DEF Asked, Query
  <2> QED BY <2>1, <2>2 DEF CategoriesBy, OwnCategories
<1>6. Links({o \in always \cap FlowObject : Owner[o] = fv}, always \cap Entity)
        \subseteq Links({o \in got["flowObjects"] : Owner[o][1] = fv[1]},
                        got["organizations"] \cup got["locations"] \cup got["usageYears"])
  <2>1. \A o \in always \cap FlowObject : Owner[o] = fv => o \in got["flowObjects"]
    BY <1>2 DEF Asked, Query, FirstQueries
  <2>2. \A o \in got["flowObjects"] : ObjectOf[o] \in always \cap Entity =>
          ObjectOf[o] \in got["organizations"] \cup got["locations"] \cup got["usageYears"]
    <3>1. \A o \in got["flowObjects"] : ObjectOf[o] \in Linked
      BY DEF Linked
    <3> QED BY <1>2, <3>1 DEF Asked, Query, NestedQueries, Entity
  <2> QED BY <2>1, <2>2 DEF Links
<1>7. /\ Children(always \cap FlowLink, fv[1]) \subseteq Children(got["flowLinks"], fv[1])
      /\ Parents(always \cap FlowLink, fv[1]) \subseteq ParentIDs(fv)
  <2>1. \A l \in always \cap FlowLink : ParentOf[l] = fv[1] \/ ChildOf[l] = fv[1]
                                          => l \in got["flowLinks"]
    BY <1>1, <1>2 DEF Asked, Query
  <2> QED BY <2>1 DEF Children, Parents, ParentIDs
<1>8. Deserved(always, fv)["externalReferences"] \subseteq ItemOf(fv)["externalReferences"]
  BY <1>3 DEF Deserved, ItemOf
<1>9. Deserved(always, fv)["reportDetails"] \subseteq ItemOf(fv)["reportDetails"]
  BY <1>4 DEF Deserved, ItemOf
<1>10. Deserved(always, fv)["categories"] \subseteq ItemOf(fv)["categories"]
  BY <1>5 DEF Deserved, ItemOf
<1>11. Deserved(always, fv)["entities"] \subseteq ItemOf(fv)["entities"]
  BY <1>6 DEF Deserved, ItemOf
<1>12. Deserved(always, fv)["childIDs"] \subseteq ItemOf(fv)["childIDs"]
  BY <1>7 DEF Deserved, ItemOf
<1>13. Deserved(always, fv)["parentIDs"] \subseteq ItemOf(fv)["parentIDs"]
  BY <1>7 DEF Deserved, ItemOf
<1> QED BY <1>8, <1>9, <1>10, <1>11, <1>12, <1>13 DEF Within, Field

\* Everything else on the page belongs to one of the versions of the flow that
\* are on it, and the categories to the version itself.
LEMMA NoForeignItem ==
  ASSUME Base, NEW fv \in page
  PROVE  /\ \A k \in Field : ItemOf(fv)[k] \subseteq
                               UNION {Deserved(ever, mate)[k] : mate \in Mates(fv[1])}
         /\ ItemOf(fv).categories \subseteq Deserved(ever, fv).categories
<1> USE DEF Base
<1>1. \A q \in Query : got[q] \subseteq Table(q) \cap ever
  BY DEF Upper
<1>2. \A flowVersion \in page : flowVersion[1] = fv[1] => flowVersion \in Mates(fv[1])
  BY DEF Mates
<1> DEFINE all(k) == UNION {Deserved(ever, mate)[k] : mate \in Mates(fv[1])}
<1>3. {x \in got["externalReferences"] : Owner[x][1] = fv[1]} \subseteq all("externalReferences")
  <2> SUFFICES ASSUME NEW x \in got["externalReferences"], Owner[x][1] = fv[1]
               PROVE  x \in Deserved(ever, Owner[x])["externalReferences"]
                        /\ Owner[x] \in Mates(fv[1])
    OBVIOUS
  <2> QED BY <1>1, <1>2 DEF Table, Asked, Query, FirstQueries, Deserved
<1>4. DetailsOf(fv) \subseteq all("reportDetails")
  <2> SUFFICES ASSUME NEW x \in got["reportDetails"], Owner[x][1] = fv[1]
               PROVE  x \in Deserved(ever, Owner[x])["reportDetails"]
                        /\ Owner[x] \in Mates(fv[1])
    BY DEF DetailsOf
  <2> QED BY <1>1, <1>2 DEF Table, Asked, Query, NestedQueries, Deserved
<1>5. OwnCategories(fv) \subseteq Deserved(ever, fv).categories
  <2>1. got["categoryRefs"] \subseteq FlowRef \cap ever /\ got["categories"] \subseteq Category \cap ever
    BY <1>1 DEF Table, Asked, Query, NestedQueries
  <2> QED BY <2>1 DEF OwnCategories, CategoriesBy, Deserved
<1>6. Links({o \in got["flowObjects"] : Owner[o][1] = fv[1]},
            got["organizations"] \cup got["locations"] \cup got["usageYears"])
        \subseteq all("entities")
  <2>1. got["organizations"] \cup got["locations"] \cup got["usageYears"] \subseteq Entity \cap ever
    BY <1>1 DEF Table, Query, NestedQueries, Entity
  <2> SUFFICES ASSUME NEW o \in got["flowObjects"], Owner[o][1] = fv[1],
                      ObjectOf[o] \in Entity \cap ever
               PROVE  <<Direction[o], ObjectOf[o]>> \in Deserved(ever, Owner[o])["entities"]
                        /\ Owner[o] \in Mates(fv[1])
    BY <2>1 DEF Links
  <2>2. o \in FlowObject \cap ever /\ Owner[o] \in page
    BY <1>1 DEF Table, Asked, Query, FirstQueries
  <2> QED BY <1>2, <2>2 DEF Deserved, Links
<1>7. /\ Children(got["flowLinks"], fv[1]) \subseteq Deserved(ever, fv).childIDs
      /\ ParentIDs(fv) \subseteq Deserved(ever, fv).parentIDs
  <2>1. got["flowLinks"] \subseteq FlowLink \cap ever
    BY <1>1 DEF Table, Asked, Query
  <2> QED BY <2>1 DEF Children, Parents, ParentIDs, Deserved
<1>8. \A k \in Field : Deserved(ever, fv)[k] \subseteq all(k)
  BY <1>2
<1>9. \A k \in Field : ItemOf(fv)[k] \subseteq all(k)
  <2>1. Deserved(ever, fv).categories \subseteq all("categories")
    BY <1>8 DEF Field
  <2>2. /\ Deserved(ever, fv).childIDs \subseteq all("childIDs")
        /\ Deserved(ever, fv).parentIDs \subseteq all("parentIDs")
    BY <1>8 DEF Field
  <2> HIDE DEF all
  <2>3. ItemOf(fv)["externalReferences"] \subseteq all("externalReferences")
    BY <1>3, <2>1, <2>2 DEF ItemOf
  <2>4. ItemOf(fv)["reportDetails"] \subseteq all("reportDetails")
    BY <1>4, <2>1, <2>2 DEF ItemOf
  <2>5. ItemOf(fv)["categories"] \subseteq all("categories")
    BY <1>5, <2>1, <2>2 DEF ItemOf
  <2>6. ItemOf(fv)["entities"] \subseteq all("entities")
    BY <1>6, <2>1, <2>2 DEF ItemOf
  <2>7. ItemOf(fv)["childIDs"] \subseteq all("childIDs")
    BY <1>7, <2>1, <2>2 DEF ItemOf
  <2>8. ItemOf(fv)["parentIDs"] \subseteq all("parentIDs")
    BY <1>7, <2>1, <2>2 DEF ItemOf
  <2> QED BY <2>3, <2>4, <2>5, <2>6, <2>7, <2>8 DEF Field
<1> QED BY <1>5, <1>9 DEF ItemOf

\* Of the only version of a flow on the page, nothing else is shown.
LEMMA SoleItem ==
  ASSUME Base, NEW fv \in page, Sole(fv)
  PROVE  Within(ItemOf(fv), Deserved(ever, fv))
<1>1. \A k \in Field : UNION {Deserved(ever, mate)[k] : mate \in Mates(fv[1])}
                         = Deserved(ever, fv)[k]
  BY DEF Sole
<1> QED BY <1>1, NoForeignItem DEF Within

LEMMA Completes == Spec => []Complete
BY InitComplete, NextComplete, PTL DEF Spec

\* No row of an Item that stayed in the database is missing from a page,
\* although some fifteen queries read it at different moments, the later ones
\* by the ids the earlier ones returned.  Plans are not part of an Item.
THEOREM RowsKeptHolds == Spec => []RowsKept
<1>1. Complete => RowsKept
  BY KeptItem DEF RowsKept, Answered
<1> QED BY <1>1, Completes, PTL

\* No row of an Item is shown for a flow it never belonged to; two versions of
\* a flow on one page share everything but their categories.
THEOREM NothingForeignHolds == Spec => []NothingForeign
<1>1. Complete => NothingForeign
  BY NoForeignItem, SoleItem DEF NothingForeign, Complete
<1> QED BY <1>1, Completes, PTL

-----------------------------------------------------------------------------
(* The refinement: completing a page is a regular read.                    *)

Shown == [fv \in page |-> IF Answered THEN ItemOf(fv) ELSE [k \in Field |-> {}]]
Status == IF Running THEN "pending" ELSE stage

LEMMA ItemTyped == ASSUME Base, NEW fv \in page PROVE ItemOf(fv) \in Item
<1> USE DEF Base
<1>1. \A q \in Query : got[q] \subseteq Table(q)
  BY DEF Upper
<1>2. got["externalReferences"] \subseteq ExternalReference /\ DetailsOf(fv) \subseteq ReportDetail
  BY <1>1 DEF Table, Asked, Query, FirstQueries, NestedQueries, DetailsOf
<1>3. OwnCategories(fv) \subseteq Category
  BY <1>1 DEF OwnCategories, CategoriesBy, Table, Query
<1>4. Links({o \in got["flowObjects"] : Owner[o][1] = fv[1]},
            got["organizations"] \cup got["locations"] \cup got["usageYears"])
        \subseteq Directions \X Entity
  <2>1. got["organizations"] \cup got["locations"] \cup got["usageYears"] \subseteq Entity
    BY <1>1 DEF Table, Query, NestedQueries, Entity
  <2>2. \A o \in got["flowObjects"] : Direction[o] \in Directions
    BY <1>1, KeysAssumption DEF Table, Asked, Query, FirstQueries
  <2> QED BY <2>1, <2>2 DEF Links
<1>5. Children(got["flowLinks"], fv[1]) \subseteq Flow /\ ParentIDs(fv) \subseteq Flow
  BY <1>1, KeysAssumption DEF Table, Asked, Query, Children, Parents, ParentIDs
<1> QED BY <1>2, <1>3, <1>4, <1>5 DEF ItemOf, Item

LEMMA RefinesInit == Init => Reader!Init
<1> SUFFICES ASSUME Init PROVE Reader!Init
  OBVIOUS
<1>1. db \in SUBSET Reader!Row /\ page \in SUBSET FlowVersion
  BY InitBase DEF Base, TypeOK, Row, OwnedRow, CategoryRef, Entity,
     Reader!Row, Reader!OwnedRow, Reader!CategoryRef, Reader!Entity
<1>2. Running /\ ~Answered
  BY DEF Init, Running, Answered
<1> QED BY <1>1, <1>2 DEF Init, Reader!Init, Reader!Empty, Reader!Field, Field

\* A step within the work on a page shows nothing.
LEMMA Unseen ==
  ASSUME Running, Running', UNCHANGED <<rows, request>>
  PROVE  UNCHANGED Reader!vars
<1>1. ~Answered /\ ~Answered' /\ page' = page
  BY DEF Running, Answered, request
<1>2. Shown' = Shown
  BY <1>1 DEF Shown
<1> QED BY <1>2 DEF Running, Reader!vars, rows, request, Shown

LEMMA RefusalRefines ==
  ASSUME Running, stage' = "failed", UNCHANGED <<rows, request>>
  PROVE  Reader!Fail
<1>1. ~Answered /\ ~Answered' /\ page' = page /\ ~Running'
  BY DEF Running, Answered, request
<1>2. Shown' = Shown
  BY <1>1 DEF Shown
<1> QED BY <1>1, <1>2 DEF Reader!Fail, rows, request, Shown

LEMMA WriteRefines ==
  ASSUME Base, NEW present \in SUBSET Row, Write(present) PROVE Reader!Write
<1>1. Running /\ Running' /\ ~Answered /\ ~Answered' /\ page' = page
  BY DEF Write, Running, Answered, request
<1>2. Shown' = Shown
  BY <1>1 DEF Shown
<1>3. db' \in SUBSET Reader!Row
  BY DEF Write, Row, OwnedRow, CategoryRef, Entity,
     Reader!Row, Reader!OwnedRow, Reader!CategoryRef, Reader!Entity
<1> QED BY <1>1, <1>2, <1>3 DEF Reader!Write, Write, Shown

LEMMA ReplyRefines == ASSUME Complete, AwaitItems PROVE Reader!Reply
<1>1. Running /\ stage = "items" /\ Answered' /\ ~Running' /\ UNCHANGED <<rows, page, got>>
  BY DEF AwaitItems, Running, Answered, request
<1>2. Shown' = [fv \in page |-> ItemOf(fv)]
  BY <1>1 DEF Shown, ItemOf, DetailsOf, OwnCategories, ParentIDs
<1>3. Shown' \in [page -> Item]
  BY <1>2, ItemTyped DEF Complete
<1>4. \A fv \in page : Within(Deserved(always, fv), Shown'[fv])
  BY <1>1, <1>2, KeptItem
<1>5. \A fv \in page : Sole(fv) => Within(Shown'[fv], Deserved(ever, fv))
  BY <1>2, SoleItem DEF Complete
<1>6. /\ Shown' \in [page -> Reader!Item]
      /\ \A fv \in page :
           /\ Reader!Within(Reader!Deserved(always, fv), Shown'[fv])
           /\ Sole(fv) => Reader!Within(Shown'[fv], Reader!Deserved(ever, fv))
  <2>1. Reader!Item = Item
    BY DEF Reader!Item, Item, Reader!Directions, Directions, Reader!Entity, Entity,
       Reader!Flow, Flow
  <2>2. \A item, other : Reader!Within(item, other) <=> Within(item, other)
    BY DEF Reader!Within, Within, Reader!Field, Field
  <2>3. \A present, fv : Reader!Deserved(present, fv) = Deserved(present, fv)
    BY DEF Reader!Deserved, Deserved, Reader!CategoriesBy, CategoriesBy, Reader!Links,
       Links, Reader!Children, Children, Reader!Parents, Parents, Reader!Entity, Entity
  <2> QED BY <1>3, <1>4, <1>5, <2>1, <2>2, <2>3
<1>7. \A fv \in page : Reader!Sole(fv) => Sole(fv)
  BY DEF Reader!Sole, Sole, Mates
<1> QED
  BY <1>1, <1>6, <1>7 DEF Reader!Reply, Shown, rows, request, AwaitItems

LEMMA RefinesNext == Complete /\ [Next]_vars => [Reader!Next]_(Reader!vars)
<1> SUFFICES ASSUME Complete, [Next]_vars PROVE Reader!Next \/ UNCHANGED Reader!vars
  OBVIOUS
<1> USE DEF Reader!Next
<1>1. CASE UNCHANGED vars
  <2>1. Shown' = Shown
    BY <1>1 DEF Shown, Answered, ItemOf, DetailsOf, OwnCategories, ParentIDs, vars,
       rows, request
  <2> QED BY <1>1, <2>1 DEF Reader!vars, Shown, Running, vars, rows, request
<1>2. CASE \E q \in Query : Answers(q)
  <2>1. Running /\ Running' /\ UNCHANGED <<rows, request>>
    BY <1>2 DEF Answers, Running, Complete, Base, PendingOK
  <2> QED BY <2>1, Unseen
<1>3. CASE AwaitRows \/ AwaitLinks
  <2>1. Running /\ Running' /\ UNCHANGED <<rows, request>>
    BY <1>3 DEF AwaitRows, AwaitLinks, Running
  <2> QED BY <2>1, Unseen
<1>4. CASE AwaitNested
  <2>1. Running /\ (Running' \/ stage' = "failed") /\ UNCHANGED <<rows, request>>
    BY <1>4 DEF AwaitNested, Running
  <2> QED BY <2>1, Unseen, RefusalRefines
<1>5. CASE AwaitItems
  BY <1>5, ReplyRefines
<1>6. ASSUME NEW fv \in FlowVersion, OnChain(fv)
      PROVE  Reader!Next \/ UNCHANGED Reader!vars
  <2>1. Running /\ (Running' \/ stage' = "failed") /\ UNCHANGED <<rows, request>>
    BY <1>6, ChainFrame DEF Running
  <2> QED BY <2>1, Unseen, RefusalRefines
<1>7. CASE Reject
  <2>1. Running /\ stage' = "failed" /\ UNCHANGED <<rows, request>>
    BY <1>7 DEF Reject, Running, Complete, Base, PendingOK
  <2> QED BY <2>1, RefusalRefines
<1>8. CASE \E present \in SUBSET Row : Write(present)
  BY <1>8, WriteRefines DEF Complete
<1> QED
  BY <1>1, <1>2, <1>3, <1>4, <1>5, <1>6, <1>7, <1>8, StepCases DEF Complete, Base

\* Completing a page implements a single read of what the rows that stayed
\* say and the rows that were ever there allow, whatever order the queries of
\* the page and the writes of other services take.
THEOREM ImplementsReader == Spec => ReaderSpec
<1>1. Init => Reader!Init
  BY RefinesInit
<1>2. Complete /\ [Next]_vars => [Reader!Next]_(Reader!vars)
  BY RefinesNext
<1> QED BY <1>1, <1>2, Completes, PTL DEF Spec, ReaderSpec, Reader!Spec

-----------------------------------------------------------------------------
(* Once the chains run: the steps that are left.                           *)

InItems == stage \in {"items", "answered"}

\* Waiting, answering and the writes of other services leave the request alone.
Quiet ==
  /\ InItems
  /\ stage' = "answered" =>
       stage = "answered" \/ \A fv \in page : chain[fv].at = "end"
  /\ UNCHANGED <<request, got, plans, channel, chain>>
  /\ always' \subseteq always /\ ever \subseteq ever'

LEMMA ItemsCases ==
  ASSUME Complete, [Next]_vars, InItems'
  PROVE  AwaitNested \/ Quiet \/ \E fv \in FlowVersion : OnChain(fv)
<1> USE DEF Complete, Base
<1>1. CASE UNCHANGED vars
  BY <1>1 DEF Quiet, InItems, vars, rows, request
<1>2. ~\E q \in Query : Answers(q)
  BY DEF Answers, PendingOK, InItems
<1>3. ~AwaitRows /\ ~AwaitLinks /\ ~Reject
  BY DEF AwaitRows, AwaitLinks, Reject, InItems
<1>4. CASE AwaitItems
  BY <1>4 DEF AwaitItems, Quiet, InItems, rows, request
<1>5. ASSUME NEW present \in SUBSET Row, Write(present) PROVE Quiet
  BY <1>5 DEF Write, Quiet, InItems, rows, request
<1> QED BY <1>1, <1>2, <1>3, <1>4, <1>5, StepCases

\* Only a step from "nested" to "items" starts chains.
LEMMA ItemsBegin ==
  ASSUME AwaitNested, InItems'
  PROVE  /\ chain' = [fv \in FlowVersion |->
                        IF fv \in page THEN [NewChain EXCEPT !.at = FirstStep(fv)]
                                       ELSE NewChain]
         /\ \E shown \in [PlanKeys -> PlanVersion \cup {None}] :
              /\ PlansShown(shown)
              /\ plans' = [k \in Flow \X Directions |->
                             IF k \in PlanKeys THEN shown[k] ELSE None]
         /\ stage = "nested" /\ stage' = "items"
         /\ UNCHANGED <<rows, request, got, channel>>
BY DEF AwaitNested, InItems

-----------------------------------------------------------------------------
(* The plans of a page.                                                    *)

PlansFit ==
  InItems => \A k \in Flow \X Directions :
    IF k \in PlanKeys /\ PlanChoices(k[1], k[2]) # {}
      THEN plans[k] \in PlanChoices(k[1], k[2])
      ELSE plans[k] = None

LEMMA NextPlansFit == Complete /\ PlansFit /\ [Next]_vars => PlansFit'
<1> SUFFICES ASSUME Complete, PlansFit, [Next]_vars, InItems'
             PROVE  \A k \in Flow \X Directions :
                      IF k \in PlanKeys' /\ PlanChoices(k[1], k[2])' # {}
                        THEN plans'[k] \in PlanChoices(k[1], k[2])'
                        ELSE plans'[k] = None
  BY DEF PlansFit
<1>1. got' = got /\ page' = page
  BY ItemsCases, ItemsBegin, ChainFrame DEF Quiet, request
<1>2. PlanKeys' = PlanKeys /\ \A f, d : PlanChoices(f, d)' = PlanChoices(f, d)
  BY <1>1 DEF PlanKeys, FlowIds, PlanChoices
<1>3. CASE AwaitNested
  <2>1. PICK shown \in [PlanKeys -> PlanVersion \cup {None}] :
          /\ PlansShown(shown)
          /\ plans' = [k \in Flow \X Directions |->
                         IF k \in PlanKeys THEN shown[k] ELSE None]
    BY <1>3, ItemsBegin
  <2> QED BY <1>2, <2>1 DEF PlansShown
<1>4. CASE InItems /\ plans' = plans
  BY <1>2, <1>4 DEF PlansFit
<1>5. AwaitNested \/ (InItems /\ plans' = plans)
  BY ItemsCases, ChainFrame DEF Quiet, InItems
<1> QED BY <1>3, <1>4, <1>5

\* A flow linked to a plan shows one of its plans in that direction, through
\* every publication of the plan, and never a plan it is not linked to.
THEOREM PlansKeepShowingHolds == Spec => []PlansKeepShowing
<1>1. Init => PlansFit
  BY DEF Init, PlansFit, InItems
<1>2. Complete /\ PlansFit => PlansKeepShowing
  <2> SUFFICES ASSUME Complete, PlansFit, Answered PROVE PlansKeepShowing
    BY DEF PlansKeepShowing
  <2> USE DEF Complete, Base
  <2>1. \A q \in Query : Asked(q) \cap always \subseteq got[q] /\ got[q] \subseteq Table(q) \cap ever
    BY DEF Lower, Upper, Done, Answered
  <2>2. /\ got["flowObjects"] \subseteq FlowObject \cap ever
        /\ \A o \in got["flowObjects"] : Owner[o] \in page
        /\ got["planVersions"] \subseteq PlanVersion \cap ever
    BY <2>1 DEF Table, Asked, Query, FirstQueries, NestedQueries
  <2>3. ASSUME NEW o \in always \cap FlowObject, Owner[o] \in page,
               ObjectOf[o] \in always \cap current
        PROVE  plans[<<Owner[o][1], Direction[o]>>] # None
    <3> DEFINE k == <<Owner[o][1], Direction[o]>>
    <3>1. k \in PlanKeys /\ k \in Flow \X Directions
      BY <2>3, FlowIdsFlow, KeysAssumption DEF PlanKeys, FlowIds
    <3>2. o \in got["flowObjects"] /\ ObjectOf[o] \in Linked
      BY <2>1, <2>3 DEF Asked, Query, FirstQueries, Linked
    <3>3. ObjectOf[o] \in got["plans"]
      BY <2>1, <2>3, <3>2 DEF Asked, Query, NestedQueries, TypeOK
    <3>4. PICK v \in got["planVersions"] : PlanOf[v] = ObjectOf[o]
      BY <2>3, <3>2 DEF PlansLower, Done, Answered, Query, NestedQueries
    <3>5. v \in PlanChoices(k[1], k[2])
      BY <3>2, <3>3, <3>4 DEF PlanChoices
    <3>6. plans[k] \in PlanChoices(k[1], k[2])
      BY <3>1, <3>5 DEF PlansFit, Answered, InItems
    <3>7. plans[k] \in PlanVersion
      BY <2>2, <3>6 DEF PlanChoices
    <3> QED BY <3>7, TablesAssumption
  <2>4. ASSUME NEW k \in Flow \X Directions, plans[k] # None
        PROVE  /\ plans[k] \in ever
               /\ \E o \in ever \cap FlowObject :
                    /\ Owner[o] \in page /\ FlowOf(o) = k[1]
                    /\ Direction[o] = k[2] /\ ObjectOf[o] = PlanOf[plans[k]]
    <3>1. plans[k] \in PlanChoices(k[1], k[2])
      BY <2>4 DEF PlansFit, Answered, InItems
    <3> QED BY <2>2, <3>1 DEF PlanChoices, FlowOf
  <2> QED BY <2>3, <2>4 DEF PlansKeepShowing
<1> QED BY <1>1, <1>2, Completes, NextPlansFit, PTL DEF Spec

-----------------------------------------------------------------------------
(* The channels of report details.                                         *)

\* The steps of a chain once the channels are set.
Late == {"parked", "actives", "parentRefs", "sources", "organizations", "end"}

LEMMA OthersKeep ==
  ASSUME TypeOK, NEW fv \in FlowVersion, OnChain(fv)
  PROVE  /\ \A g \in FlowVersion : g # fv => chain'[g] = chain[g]
         /\ FindChannels(fv) \/ channel' = channel
BY DEF TypeOK, OnChain, FindChannelRefs, FindChannels, FindParkedCategory,
   FindActiveParents, FindParentRefs, Proceed, FindSource, FindSourceOrganizations

LEMMA LateSteps ==
  ASSUME TypeOK, NEW fv \in FlowVersion, OnChain(fv), InItems'
  PROVE  \/ FindChannelRefs(fv) \/ FindChannels(fv)
         \/ chain[fv].at \in Late /\ chain'[fv].at \in Late
<1> USE DEF AtStep, Becomes, Late
<1>1. chain \in [FlowVersion -> Chain] /\ chain[fv] \in Chain /\ stage' # "failed"
  BY DEF TypeOK, InItems
<1>2. CASE FindParkedCategory(fv)
  BY <1>1, <1>2, ParkedCategoryBecomes DEF FindParkedCategory, Chain
<1>3. CASE FindActiveParents(fv)
  <2> DEFINE c == [chain[fv] EXCEPT !.at = "parentRefs",
                                    !.actives = ActivesOf(fv),
                                    !.todo = ParentIDs(fv)]
  <2>1. c.at = "parentRefs"
    BY <1>1 DEF Chain
  <2>2. Becomes(fv, c)
    BY <1>1, <1>3, ActiveParentsBecome
  <2> HIDE DEF c
  <2>3. chain'[fv] = c
    BY <1>1, <2>2
  <2> QED BY <1>3, <2>1, <2>3 DEF FindActiveParents
<1>4. CASE FindParentRefs(fv)
  <2>1. PICK parent \in chain[fv].todo : \E version \in Versions(fv, parent) :
          \/ Becomes(fv, Proceeded(fv, parent, chain[fv].parents \cup {version}))
          \/ Becomes(fv, Proceeded(fv, parent, chain[fv].parents))
    BY <1>1, <1>4, ParentRefsBecome
  <2>2. \A parents : Proceeded(fv, parent, parents).at \in Late
    BY <1>1 DEF Proceeded, Chain
  <2>3. chain'[fv].at \in Late
    BY <1>1, <2>1, <2>2
  <2> QED BY <1>4, <2>3 DEF FindParentRefs
<1>5. CASE FindSource(fv)
  <2>1. chain'[fv].at \in {"organizations", "sources"}
    BY <1>1, <1>5 DEF FindSource, Chain
  <2> QED BY <1>5, <2>1 DEF FindSource
<1>6. CASE FindSourceOrganizations(fv)
  BY <1>1, <1>6, SourceOrganizationsBecome DEF FindSourceOrganizations, Chain
<1> QED BY <1>2, <1>3, <1>4, <1>5, <1>6 DEF OnChain

ChannelDue(d) ==
  \E r \in always \cap DetailRef : RefersTo[r] = d /\ CategoryOf[r] \in always

ChannelMeant(d) ==
  \E r \in ever \cap DetailRef :
    RefersTo[r] = d /\ CategoryOf[r] = channel[d] /\ channel[d] \in ever

RefsOf(fv, present) == {r \in DetailRef \cap present : RefersTo[r] \in DetailsOf(fv)}

RefsFit ==
  InItems => \A fv \in page : chain[fv].at = "channels" =>
    /\ RefsOf(fv, always) \subseteq chain[fv].refs
    /\ chain[fv].refs \subseteq RefsOf(fv, ever)

ChannelsMeant == \A d \in ReportDetail : channel[d] # None => ChannelMeant(d)

ChannelsSet ==
  InItems => \A fv \in page : chain[fv].at \notin {"channelRefs", "channels"} =>
    \A d \in DetailsOf(fv) : ChannelDue(d) => channel[d] # None

AllAtEnd == stage = "answered" => \A fv \in page : chain[fv].at = "end"

Channelled == Complete /\ AllAtEnd /\ RefsFit /\ ChannelsMeant /\ ChannelsSet

LEMMA DetailsTyped ==
  ASSUME Base, NEW fv PROVE DetailsOf(fv) \subseteq ReportDetail
<1>1. got["reportDetails"] \subseteq ReportDetail
  BY DEF Base, Upper, Table, Asked, Query, NestedQueries
<1> QED BY <1>1 DEF DetailsOf

LEMMA BeginChannels ==
  ASSUME Channelled, AwaitNested, InItems'
  PROVE  AllAtEnd' /\ RefsFit' /\ ChannelsSet'
<1>1. /\ \A fv \in page : chain'[fv].at = FirstStep(fv)
      /\ stage' = "items" /\ page' = page /\ got' = got
  <2>1. \A fv : [NewChain EXCEPT !.at = FirstStep(fv)].at = FirstStep(fv)
    BY DEF NewChain
  <2>2. page \subseteq FlowVersion
    BY DEF Channelled, Complete, Base, TypeOK
  <2>3. \A fv \in page : chain'[fv] = [NewChain EXCEPT !.at = FirstStep(fv)]
    BY <2>2, ItemsBegin
  <2> QED BY <2>1, <2>3, ItemsBegin DEF request
<1>2. \A fv \in page : /\ chain'[fv].at # "channels"
                       /\ DetailsOf(fv) # {} => chain'[fv].at = "channelRefs"
  BY <1>1 DEF FirstStep, AfterChannels
<1> QED BY <1>1, <1>2 DEF AllAtEnd, RefsFit, ChannelsSet, DetailsOf

LEMMA QuietChannels ==
  ASSUME Channelled, Quiet PROVE AllAtEnd' /\ RefsFit' /\ ChannelsSet'
<1>1. \A fv : /\ DetailsOf(fv)' = DetailsOf(fv)
              /\ RefsOf(fv, always)' \subseteq RefsOf(fv, always)
              /\ RefsOf(fv, ever) \subseteq RefsOf(fv, ever)'
  BY DEF Quiet, DetailsOf, RefsOf
<1>2. \A d : ChannelDue(d)' => ChannelDue(d)
  BY DEF Quiet, ChannelDue
<1>3. AllAtEnd'
  BY DEF Channelled, AllAtEnd, Quiet, request
<1>4. RefsFit'
  BY <1>1 DEF Channelled, RefsFit, Quiet, request
<1>5. ChannelsSet'
  BY <1>1, <1>2 DEF Channelled, ChannelsSet, Quiet, request
<1> QED BY <1>3, <1>4, <1>5

LEMMA ChainChannels ==
  ASSUME Channelled, NEW fv \in FlowVersion, OnChain(fv), InItems'
  PROVE  AllAtEnd' /\ RefsFit' /\ ChannelsSet'
<1> USE DEF Channelled, Complete, Base
<1>1. /\ stage = "items" /\ stage' = "items" /\ InItems /\ fv \in page
      /\ UNCHANGED <<page, got, always, ever, db>>
      /\ page \subseteq FlowVersion /\ chain \in [FlowVersion -> Chain]
  BY ChainFrame DEF InItems, rows, request, TypeOK
<1>2. /\ \A g : DetailsOf(g)' = DetailsOf(g)
      /\ \A g : RefsOf(g, always)' = RefsOf(g, always)
      /\ \A g : RefsOf(g, ever)' = RefsOf(g, ever)
      /\ \A d : ChannelDue(d)' = ChannelDue(d)
  BY <1>1 DEF DetailsOf, RefsOf, ChannelDue
<1>3. \A g \in page : g # fv => chain'[g] = chain[g]
  BY <1>1, OthersKeep
<1>4. AllAtEnd'
  BY <1>1 DEF AllAtEnd
<1>5. CASE FindChannelRefs(fv)
  <2>1. chain[fv] \in Chain
    BY <1>1
  <2>2. chain'[fv].at = "channels" /\ chain'[fv].refs = RefsOf(fv, db)
    <3> DEFINE c == [chain[fv] EXCEPT
             !.at = "channels",
             !.refs = {r \in DetailRef \cap db : RefersTo[r] \in DetailsOf(fv)}]
    <3>1. c.at = "channels" /\ c.refs = RefsOf(fv, db)
      BY <2>1 DEF Chain, RefsOf
    <3>2. Becomes(fv, c)
      BY <1>5, ChannelRefsBecome
    <3> HIDE DEF c
    <3> QED BY <1>1, <3>1, <3>2 DEF Becomes
  <2>3. RefsOf(fv, always) \subseteq RefsOf(fv, db) /\ RefsOf(fv, db) \subseteq RefsOf(fv, ever)
    BY DEF History, RefsOf
  <2>4. channel' = channel
    BY <1>5 DEF FindChannelRefs
  <2> QED BY <1>1, <1>2, <1>3, <1>4, <2>2, <2>3, <2>4 DEF RefsFit, ChannelsSet
<1>6. CASE FindChannels(fv)
  <2>1. chain[fv] \in Chain
    BY <1>1
  <2>2. chain'[fv].at \in {"parked", "end"} /\ SetChannels(fv, channel')
    BY <1>1, <1>6, <2>1, ChannelsBecome DEF Becomes, Chain, AfterChannels, FindChannels
  <2>3. RefsFit'
    BY <1>1, <1>2, <1>3, <2>2 DEF RefsFit
  <2>4. \A d \in DetailsOf(fv) : ChannelDue(d) => ChannelChoices(fv, d) # {}
    <3> SUFFICES ASSUME NEW d \in DetailsOf(fv), NEW r \in always \cap DetailRef,
                        RefersTo[r] = d, CategoryOf[r] \in always
                 PROVE  CategoryOf[r] \in ChannelChoices(fv, d)
      BY DEF ChannelDue
    <3>1. r \in chain[fv].refs
      BY <1>1, <1>6 DEF RefsFit, RefsOf, FindChannels, AtStep
    <3> QED BY <3>1 DEF ChannelChoices, CategoriesBy, History
  <2>5. \A d \in ReportDetail : None \notin ChannelChoices(fv, d)
    <3>1. chain[fv].refs \subseteq DetailRef
      BY <2>1 DEF Chain
    <3> QED BY <3>1, KeysAssumption, TablesAssumption DEF ChannelChoices, CategoriesBy, CategoryRef
  <2>6. \A d \in ReportDetail : channel[d] # None => channel'[d] # None
    BY <2>2, <2>5 DEF SetChannels
  <2>7. \A d \in DetailsOf(fv) : ChannelDue(d) => channel'[d] # None
    BY <2>2, <2>4, <2>5, DetailsTyped DEF SetChannels
  <2>8. ChannelsSet'
    BY <1>1, <1>2, <1>3, <2>6, <2>7, DetailsTyped DEF ChannelsSet
  <2> QED BY <1>4, <2>3, <2>8
<1>7. ASSUME ~FindChannelRefs(fv), ~FindChannels(fv)
      PROVE  RefsFit' /\ ChannelsSet'
  <2>1. chain[fv].at \in Late /\ chain'[fv].at \in Late /\ channel' = channel
    BY <1>7, LateSteps, OthersKeep
  <2> QED BY <1>1, <1>2, <1>3, <2>1 DEF RefsFit, ChannelsSet, Late
<1> QED BY <1>4, <1>5, <1>6, <1>7

\* A channel that is set is the name of a category the row refers to.
LEMMA NextMeant ==
  ASSUME Channelled, [Next]_vars PROVE ChannelsMeant'
<1> USE DEF Channelled, Complete, Base
<1>1. ever \subseteq ever'
  BY StepCases, ChainFrame DEF vars, rows, Answers, AwaitRows, AwaitLinks, AwaitNested,
     AwaitItems, Reject, Write
<1>2. channel' = channel \/ \E fv \in FlowVersion : FindChannels(fv)
  BY StepCases, OthersKeep DEF vars, Answers, AwaitRows, AwaitLinks, AwaitNested,
     AwaitItems, Reject, Write
<1>3. CASE channel' = channel
  BY <1>1, <1>3 DEF ChannelsMeant, ChannelMeant
<1>4. ASSUME NEW fv \in FlowVersion, FindChannels(fv) PROVE ChannelsMeant'
  <2>1. /\ SetChannels(fv, channel') /\ ever' = ever /\ InItems /\ fv \in page
        /\ chain[fv].at = "channels"
    BY <1>4 DEF FindChannels, AtStep, InItems, rows
  <2>2. chain[fv].refs \subseteq RefsOf(fv, ever)
    BY <2>1 DEF RefsFit
  <2> SUFFICES ASSUME NEW d \in ReportDetail, channel'[d] # None PROVE ChannelMeant(d)'
    BY DEF ChannelsMeant
  <2>3. CASE channel'[d] \in ChannelChoices(fv, d)
    BY <2>1, <2>2, <2>3 DEF ChannelChoices, CategoriesBy, ChannelMeant, RefsOf, History
  <2>4. CASE channel'[d] = channel[d]
    BY <2>1, <2>4 DEF ChannelsMeant, ChannelMeant
  <2> QED BY <2>1, <2>3, <2>4 DEF SetChannels
<1> QED BY <1>2, <1>3, <1>4

LEMMA NextChannelled == Channelled /\ [Next]_vars => Channelled'
<1> SUFFICES ASSUME Channelled, [Next]_vars PROVE Channelled'
  OBVIOUS
<1>1. Complete' /\ ChannelsMeant'
  BY NextComplete, NextMeant DEF Channelled
<1>2. CASE InItems'
  BY <1>1, <1>2, ItemsCases, BeginChannels, QuietChannels, ChainChannels DEF Channelled
<1>3. CASE ~InItems'
  BY <1>1, <1>3 DEF Channelled, AllAtEnd, RefsFit, ChannelsSet, InItems
<1> QED BY <1>2, <1>3

LEMMA AlwaysChannelled == Spec => []Channelled
<1>1. Init => Channelled
  BY InitComplete DEF Init, Channelled, AllAtEnd, RefsFit, ChannelsMeant, ChannelsSet, InItems
<1> QED BY <1>1, NextChannelled, PTL DEF Spec

\* No channel is missing and none is invented, although the chains of the
\* versions of a flow overwrite each other's.
THEOREM ChannelsShownHolds == Spec => []ChannelsShown
<1>1. Channelled => ChannelsShown
  <2> SUFFICES ASSUME Channelled, Answered, NEW fv \in page, NEW copy \in Copies(fv)
               PROVE  /\ /\ Sole(fv) \/ copy[2] = 1
                         /\ ChannelDue(copy[1])
                         => ChannelOf(copy) # None
                      /\ ChannelOf(copy) # None =>
                           \E r \in ever \cap DetailRef :
                             /\ RefersTo[r] = copy[1]
                             /\ CategoryOf[r] = ChannelOf(copy)
                             /\ ChannelOf(copy) \in ever
    BY DEF ChannelsShown, ChannelDue
  <2> USE DEF Channelled, Complete, Base
  <2>1. copy[1] \in DetailsOf(fv) /\ copy[2] \in 1..Cardinality(Mates(fv[1]))
    BY DEF Copies
  <2>2. copy[1] \in ReportDetail
    BY <2>1, DetailsTyped
  <2>3. Sole(fv) => copy[2] = 1
    <3>1. Cardinality({fv}) = 1
      BY FS_Singleton
    <3> QED BY <2>1, <3>1 DEF Sole
  <2>4. ChannelDue(copy[1]) => channel[copy[1]] # None
    BY <2>1 DEF ChannelsSet, AllAtEnd, Answered, InItems
  <2>5. channel[copy[1]] # None => ChannelMeant(copy[1])
    BY <2>2 DEF ChannelsMeant
  <2> QED BY <2>3, <2>4, <2>5 DEF ChannelOf, ChannelMeant
<1> QED BY <1>1, AlwaysChannelled, PTL

-----------------------------------------------------------------------------
(* The parked parents.                                                     *)

Looking == {"parked", "actives", "parentRefs", "sources", "organizations"}
ActivesIn(fv, present) ==
  {a \in ActiveFlow \cap present : FlowOf(a) \in ParentIDs(fv)}

Asking(fv) == chain[fv].at \in Looking => withParents

LooksAt(fv) ==
  chain[fv].at = "parentRefs" =>
    /\ chain[fv].todo \subseteq ParentIDs(fv)
    /\ ActivesIn(fv, always) \subseteq chain[fv].actives
    /\ chain[fv].actives \subseteq ActivesIn(fv, ever)

ParkedKnown(fv) ==
  chain[fv].at \in {"actives", "parentRefs"} => chain[fv].parked = {ParkedCategory}

\* A flow version that was a parked parent of fv at some moments.
WasParent(fv, version) ==
  /\ \E l \in ever \cap FlowLink : ChildOf[l] = fv[1] /\ ParentOf[l] = version[1]
  /\ \E a \in ever \cap ActiveFlow : Owner[a] = version
  /\ \E r \in ever \cap FlowRef : RefersTo[r] = version /\ CategoryOf[r] = ParkedCategory

WasSource(fv, o) ==
  o \in ever \cap FlowObject /\ IsSourceOf(o, Owner[o]) /\ WasParent(fv, Owner[o])

SourcesMeant(fv) ==
  /\ \A version \in chain[fv].parents : WasParent(fv, version)
  /\ \A o \in chain[fv].sources : WasSource(fv, o)
  /\ \A e \in chain[fv].organizations :
       e \in ever /\ \E o \in FlowObject : WasSource(fv, o) /\ ObjectOf[o] = e

\* The source that must be named: nothing else may be found in its place.
Single(o) ==
  /\ \A a \in ever \cap ActiveFlow : FlowOf(a) = FlowOf(o) => Owner[a] = Owner[o]
  /\ \A p \in ever \cap FlowObject : IsSourceOf(p, Owner[o]) => p = o

Due(fv, l, o) ==
  /\ l \in always \cap FlowLink /\ ChildOf[l] = fv[1]
  /\ ParkedSource(always, ParentOf[l], o) /\ Single(o)

OnItsWay(fv, l, o) ==
  /\ chain[fv].at = "parentRefs" =>
       ParentOf[l] \in chain[fv].todo \/ Owner[o] \in chain[fv].parents
  /\ chain[fv].at = "sources" => Owner[o] \in chain[fv].parents \/ o \in chain[fv].sources
  /\ chain[fv].at = "organizations" => o \in chain[fv].sources
  /\ chain[fv].at = "end" => ObjectOf[o] \in chain[fv].organizations

SourcesDue(fv) ==
  withParents => \A l \in FlowLink : \A o \in FlowObject : Due(fv, l, o) => OnItsWay(fv, l, o)

Local(fv) ==
  /\ Asking(fv) /\ LooksAt(fv)
  /\ ParkedCategory \in always => ParkedKnown(fv) /\ SourcesMeant(fv) /\ SourcesDue(fv)

Parented == Channelled /\ (InItems => \A fv \in page : Local(fv))

\* Other chains and other services cannot break what a chain knows.
LEMMA LocalKeeps ==
  ASSUME NEW g, chain'[g] = chain[g], UNCHANGED <<request, got>>,
         always' \subseteq always, ever \subseteq ever', Local(g)
  PROVE  Local(g)'
<1>1. ParentIDs(g)' = ParentIDs(g) /\ page' = page /\ withParents' = withParents
  BY DEF ParentIDs, request
<1>2. Asking(g)' /\ LooksAt(g)'
  BY <1>1 DEF Local, Asking, LooksAt, ActivesIn
<1>3. \A version : WasParent(g, version) => WasParent(g, version)'
  BY DEF WasParent
<1>4. \A o : WasSource(g, o) => WasSource(g, o)'
  BY <1>3 DEF WasSource
<1>5. \A l, o : Due(g, l, o)' => Due(g, l, o)
  <2>1. \A o : Single(o)' => Single(o)
    BY DEF Single
  <2>2. \A p, o : ParkedSource(always, p, o)' => ParkedSource(always, p, o)
    BY DEF ParkedSource
  <2> QED BY <2>1, <2>2 DEF Due
<1>6. \A l, o : OnItsWay(g, l, o) => OnItsWay(g, l, o)'
  BY DEF OnItsWay
<1>7. SourcesMeant(g) => SourcesMeant(g)'
  BY <1>3, <1>4 DEF SourcesMeant
<1>8. SourcesDue(g) => SourcesDue(g)'
  BY <1>1, <1>5, <1>6 DEF SourcesDue
<1> QED BY <1>2, <1>7, <1>8 DEF Local, ParkedKnown

LEMMA LinkedParent ==
  ASSUME Complete, InItems, NEW fv \in page, NEW l \in always \cap FlowLink,
         ChildOf[l] = fv[1]
  PROVE  ParentOf[l] \in ParentIDs(fv)
<1>1. fv[1] \in FlowIds
  BY DEF FlowIds
<1>2. l \in got["flowLinks"]
  BY <1>1 DEF Complete, Lower, Done, InItems, Asked, Query
<1> QED BY <1>2 DEF ParentIDs, Parents

LEMMA ParentLinked ==
  ASSUME Base, NEW fv \in page, NEW parent \in ParentIDs(fv)
  PROVE  \E l \in ever \cap FlowLink :
           ChildOf[l] = fv[1] /\ ParentOf[l] = parent /\ ChildOf[l] \in FlowIds
<1>1. got["flowLinks"] \subseteq FlowLink \cap ever
  BY DEF Base, Upper, Table, Asked, Query
<1> QED BY <1>1 DEF ParentIDs, Parents, FlowIds

LEMMA BeginParents ==
  ASSUME Parented, AwaitNested, InItems', NEW fv \in page PROVE Local(fv)'
<1> USE DEF Parented, Channelled, Complete, Base
<1>1. /\ chain'[fv] = [NewChain EXCEPT !.at = FirstStep(fv)]
      /\ UNCHANGED <<page, withParents, got, always, db>> /\ InItems'
  <2>1. page \subseteq FlowVersion
    BY DEF TypeOK
  <2> QED BY <2>1, ItemsBegin DEF request, rows
<1>2. /\ chain'[fv].at = FirstStep(fv) /\ chain'[fv].parents = {}
      /\ chain'[fv].sources = {} /\ chain'[fv].organizations = {}
  BY <1>1 DEF NewChain
<1>3. /\ FirstStep(fv) \in {"channelRefs", "parked", "end"}
      /\ FirstStep(fv) = "parked" => withParents
      /\ FirstStep(fv) = "end" => ~withParents \/ ParentIDs(fv) = {}
  BY DEF FirstStep, AfterChannels
<1>4. Complete' /\ fv \in page'
  BY <1>1, NextComplete DEF Next, Work
<1>5. \A l \in FlowLink, o \in FlowObject : Due(fv, l, o)' => ParentIDs(fv) # {}
  <2>1. ParentIDs(fv)' = ParentIDs(fv)
    BY <1>1 DEF ParentIDs
  <2>2. fv[1] \in FlowIds
    BY DEF FlowIds
  <2>3. \A l \in always \cap FlowLink : ChildOf[l] = fv[1] => l \in got["flowLinks"]
    BY <2>2, <1>1, ItemsBegin DEF Lower, Done, Asked, Query
  <2> QED BY <1>1, <2>3 DEF Due, ParentIDs, Parents
<1>6. SourcesDue(fv)'
  BY <1>1, <1>2, <1>3, <1>5 DEF SourcesDue, OnItsWay
<1> QED
  BY <1>1, <1>2, <1>3, <1>6 DEF Local, Asking, LooksAt, ParkedKnown, SourcesMeant, Looking

\* What every step of the chain of fv finds.
LEMMA OwnChain ==
  ASSUME Parented, NEW fv \in FlowVersion, OnChain(fv), InItems'
  PROVE  /\ stage = "items" /\ stage' = "items" /\ InItems /\ fv \in page
         /\ chain \in [FlowVersion -> Chain] /\ chain[fv] \in Chain /\ Local(fv)
         /\ UNCHANGED <<rows, request, got>>
         /\ ParentIDs(fv)' = ParentIDs(fv)
         /\ \A v : WasParent(fv, v)' = WasParent(fv, v)
         /\ \A o : WasSource(fv, o)' = WasSource(fv, o)
         /\ \A l, o : Due(fv, l, o)' = Due(fv, l, o)
<1>1. /\ stage = "items" /\ stage' = "items" /\ InItems /\ fv \in page
      /\ UNCHANGED <<rows, request, got>>
  BY ChainFrame DEF InItems
<1>2. chain \in [FlowVersion -> Chain] /\ chain[fv] \in Chain /\ Local(fv)
  BY <1>1 DEF Parented, Channelled, Complete, Base, TypeOK
<1>3. /\ ParentIDs(fv)' = ParentIDs(fv)
      /\ \A v : WasParent(fv, v)' = WasParent(fv, v)
      /\ \A o : WasSource(fv, o)' = WasSource(fv, o)
      /\ \A l, o : Due(fv, l, o)' = Due(fv, l, o)
  BY <1>1 DEF ParentIDs, WasParent, WasSource, Due, ParkedSource, Single, rows
<1> QED BY <1>1, <1>2, <1>3

\* The steps that touch neither parents, sources nor organizations.
LEMMA EarlyLocal ==
  ASSUME Parented, NEW fv \in FlowVersion, InItems',
         FindChannelRefs(fv) \/ FindChannels(fv) \/ FindParkedCategory(fv)
  PROVE  Local(fv)'
<1>1. OnChain(fv)
  BY DEF OnChain
<1> USE OwnChain, <1>1
<1>2. /\ chain'[fv].parents = chain[fv].parents /\ chain'[fv].sources = chain[fv].sources
      /\ chain'[fv].organizations = chain[fv].organizations
      /\ \/ chain'[fv].at = "channels"
         \/ FindChannels(fv) /\ chain'[fv].at = AfterChannels(fv)
         \/ /\ chain[fv].at = "parked" /\ chain'[fv].at = "actives"
            /\ chain'[fv].parked = {ParkedCategory} \cap db
  <2>1. CASE FindChannelRefs(fv)
    BY <2>1 DEF FindChannelRefs, Chain
  <2>2. CASE FindChannels(fv)
    BY <2>2 DEF FindChannels, Chain
  <2>3. CASE FindParkedCategory(fv)
    BY <2>3 DEF FindParkedCategory, AtStep, Chain
  <2> QED BY <2>1, <2>2, <2>3
<1>3. withParents' = withParents /\ always' = always /\ always \subseteq db
  BY DEF request, rows, Parented, Channelled, Complete, Base, History
<1>4. /\ AfterChannels(fv) \in {"parked", "end"}
      /\ AfterChannels(fv) = "parked" => withParents
      /\ AfterChannels(fv) = "end" => ~withParents \/ ParentIDs(fv) = {}
  BY DEF AfterChannels
<1>5. Asking(fv)' /\ LooksAt(fv)'
  BY <1>2, <1>3, <1>4 DEF Local, Asking, LooksAt, Looking
<1>6. ParkedCategory \in always => ParkedKnown(fv)'
  BY <1>2, <1>3, <1>4 DEF ParkedKnown
<1>7. SourcesMeant(fv) => SourcesMeant(fv)'
  <2>1. ever' = ever
    BY DEF rows
  <2> QED BY <1>2, <2>1 DEF SourcesMeant
<1>8. SourcesDue(fv)'
  <2> SUFFICES ASSUME withParents, NEW l \in FlowLink, NEW o \in FlowObject, Due(fv, l, o)
               PROVE  OnItsWay(fv, l, o)'
    BY <1>3 DEF SourcesDue
  <2>1. ParentIDs(fv) # {}
    BY LinkedParent DEF Due, Parented, Channelled
  <2> QED BY <1>2, <1>4, <2>1 DEF OnItsWay
<1> QED BY <1>3, <1>5, <1>6, <1>7, <1>8 DEF Local

LEMMA ActiveParentsLocal ==
  ASSUME Parented, NEW fv \in FlowVersion, InItems', FindActiveParents(fv)
  PROVE  Local(fv)'
<1>1. OnChain(fv)
  BY DEF OnChain
<1> USE OwnChain, <1>1
<1>2. /\ chain[fv].at = "actives" /\ chain'[fv].at = "parentRefs"
      /\ chain'[fv].actives = ActivesOf(fv) /\ chain'[fv].todo = ParentIDs(fv)
      /\ chain'[fv].parked = chain[fv].parked
      /\ chain'[fv].parents = chain[fv].parents /\ chain'[fv].sources = chain[fv].sources
      /\ chain'[fv].organizations = chain[fv].organizations
  <2> DEFINE c == [chain[fv] EXCEPT !.at = "parentRefs",
                                    !.actives = ActivesOf(fv),
                                    !.todo = ParentIDs(fv)]
  <2>1. /\ c.at = "parentRefs" /\ c.actives = ActivesOf(fv) /\ c.todo = ParentIDs(fv)
        /\ c.parked = chain[fv].parked
        /\ c.parents = chain[fv].parents /\ c.sources = chain[fv].sources
        /\ c.organizations = chain[fv].organizations
    BY DEF Chain
  <2>2. Becomes(fv, c)
    BY ActiveParentsBecome DEF Parented, Channelled, Complete, Base
  <2> HIDE DEF c
  <2>3. chain'[fv] = c
    BY <2>2 DEF Becomes
  <2> QED BY <2>1, <2>3 DEF FindActiveParents, AtStep
<1>3. /\ withParents' = withParents /\ always' = always /\ ever' = ever
      /\ always \subseteq db /\ db \subseteq ever
  BY DEF request, rows, Parented, Channelled, Complete, Base, History
<1>4. Asking(fv)' /\ LooksAt(fv)'
  BY <1>2, <1>3 DEF Local, Asking, LooksAt, Looking, ActivesIn, ActivesOf
<1>5. ParkedKnown(fv) => ParkedKnown(fv)'
  BY <1>2 DEF ParkedKnown
<1>6. SourcesMeant(fv) => SourcesMeant(fv)'
  BY <1>2, <1>3 DEF SourcesMeant
<1>7. SourcesDue(fv)'
  <2> SUFFICES ASSUME NEW l \in FlowLink, NEW o \in FlowObject, Due(fv, l, o)
               PROVE  OnItsWay(fv, l, o)'
    BY <1>3 DEF SourcesDue
  <2>1. ParentOf[l] \in ParentIDs(fv)
    BY LinkedParent DEF Due, Parented, Channelled
  <2> QED BY <1>2, <2>1 DEF OnItsWay
<1> QED BY <1>3, <1>4, <1>5, <1>6, <1>7 DEF Local

LEMMA ParentRefsLocal ==
  ASSUME Parented, NEW fv \in FlowVersion, InItems', FindParentRefs(fv)
  PROVE  Local(fv)'
<1>1. OnChain(fv)
  BY DEF OnChain
<1> USE OwnChain, <1>1
<1>2. chain[fv].at = "parentRefs"
  BY DEF FindParentRefs, AtStep
<1>3. /\ withParents' = withParents /\ always' = always /\ ever' = ever
      /\ always \subseteq db /\ db \subseteq ever
  BY DEF request, rows, Parented, Channelled, Complete, Base, History
<1>4. PICK parent \in chain[fv].todo : \E version \in Versions(fv, parent) :
        \/ /\ Says(fv, version)
           /\ Becomes(fv, Proceeded(fv, parent, chain[fv].parents \cup {version}))
        \/ /\ chain[fv].parked = {} \/ ~Says(fv, version)
           /\ Becomes(fv, Proceeded(fv, parent, chain[fv].parents))
  BY ParentRefsBecome DEF InItems, Parented, Channelled, Complete, Base
<1>5. PICK version \in Versions(fv, parent) :
        \/ /\ Says(fv, version)
           /\ Becomes(fv, Proceeded(fv, parent, chain[fv].parents \cup {version}))
        \/ /\ chain[fv].parked = {} \/ ~Says(fv, version)
           /\ Becomes(fv, Proceeded(fv, parent, chain[fv].parents))
  BY <1>4
<1>6. PICK parents :
        /\ \/ Says(fv, version) /\ parents = chain[fv].parents \cup {version}
           \/ /\ chain[fv].parked = {} \/ ~Says(fv, version)
              /\ parents = chain[fv].parents
        /\ Becomes(fv, Proceeded(fv, parent, parents))
  BY <1>5
<1>7. /\ chain'[fv].todo = chain[fv].todo \ {parent} /\ chain'[fv].parents = parents
      /\ chain'[fv].at = IF chain[fv].todo \ {parent} # {} THEN "parentRefs"
                         ELSE IF parents # {} THEN "sources" ELSE "organizations"
      /\ chain'[fv].actives = chain[fv].actives /\ chain'[fv].parked = chain[fv].parked
      /\ chain'[fv].sources = chain[fv].sources
      /\ chain'[fv].organizations = chain[fv].organizations
  <2>1. chain'[fv] = Proceeded(fv, parent, parents)
    BY <1>6 DEF Becomes
  <2> QED BY <2>1 DEF Proceeded, Chain
<1>8. Asking(fv)' /\ LooksAt(fv)'
  BY <1>2, <1>3, <1>7 DEF Local, Asking, LooksAt, Looking, ActivesIn
<1>9. PICK a \in chain[fv].actives : FlowOf(a) = parent /\ Owner[a] = version
  BY DEF Versions
<1>10. a \in ever \cap ActiveFlow /\ parent \in ParentIDs(fv) /\ version[1] = parent
  BY <1>2, <1>9 DEF Local, LooksAt, ActivesIn, FlowOf
<1>11. ASSUME ParkedCategory \in always, ParkedKnown(fv), SourcesMeant(fv), SourcesDue(fv)
       PROVE  ParkedKnown(fv)' /\ SourcesMeant(fv)' /\ SourcesDue(fv)'
  <2>1. chain[fv].parked = {ParkedCategory}
    BY <1>2, <1>11 DEF ParkedKnown
  <2>2. ParkedKnown(fv)'
    BY <1>7, <2>1 DEF ParkedKnown
  <2>3. Says(fv, version) => WasParent(fv, version)
    <3> SUFFICES ASSUME NEW r \in FlowRef \cap db, SaysParked(fv, version, r)
                 PROVE  WasParent(fv, version)
      BY DEF Says
    <3>1. RefersTo[r] = version /\ CategoryOf[r] = ParkedCategory
      BY <2>1 DEF SaysParked
    <3>2. \E l \in ever \cap FlowLink : ChildOf[l] = fv[1] /\ ParentOf[l] = version[1]
      BY <1>10, ParentLinked DEF Parented, Channelled, Complete
    <3> QED BY <1>3, <1>9, <1>10, <3>1, <3>2 DEF WasParent
  <2>4. SourcesMeant(fv)'
    BY <1>3, <1>6, <1>7, <1>11, <2>3 DEF SourcesMeant
  <2>5. SourcesDue(fv)'
    <3> SUFFICES ASSUME withParents, NEW l \in FlowLink, NEW o \in FlowObject, Due(fv, l, o)
                 PROVE  OnItsWay(fv, l, o)'
      BY <1>3 DEF SourcesDue
    <3>1. ParentOf[l] \in chain[fv].todo \/ Owner[o] \in chain[fv].parents
      BY <1>2, <1>11 DEF SourcesDue, OnItsWay
    <3>2. ASSUME parent = ParentOf[l] PROVE Owner[o] \in parents
      <4>1. FlowOf(o) = parent /\ Owner[o] = version
        BY <1>9, <1>10, <3>2 DEF Due, Single, ParkedSource
      <4>2. Says(fv, version)
        BY <1>3, <2>1, <4>1 DEF Due, ParkedSource, Says, SaysParked
      <4> QED BY <1>6, <2>1, <4>1, <4>2
    <3>3. ParentOf[l] \in chain[fv].todo \ {parent} \/ Owner[o] \in parents
      BY <1>6, <3>1, <3>2
    <3> QED BY <1>7, <3>3 DEF OnItsWay
  <2> QED BY <2>2, <2>4, <2>5
<1> QED BY <1>3, <1>8, <1>11 DEF Local

LEMMA SourceLocal ==
  ASSUME Parented, NEW fv \in FlowVersion, InItems', FindSource(fv)
  PROVE  Local(fv)'
<1>1. OnChain(fv)
  BY DEF OnChain
<1> USE OwnChain, <1>1
<1>2. /\ withParents' = withParents /\ always' = always /\ ever' = ever
      /\ always \subseteq db /\ db \subseteq ever
  BY DEF request, rows, Parented, Channelled, Complete, Base, History
<1>3. PICK version \in chain[fv].parents : \E one \in SUBSET SourcesOf(version) :
        /\ SourcesOf(version) # {} => one # {}
        /\ Becomes(fv, [chain[fv] EXCEPT
             !.parents = chain[fv].parents \ {version},
             !.sources = chain[fv].sources \cup one,
             !.at = IF chain[fv].parents \ {version} = {}
                      THEN "organizations" ELSE "sources"])
  BY SourceBecomes DEF Parented, Channelled, Complete, Base
<1>4. PICK one \in SUBSET SourcesOf(version) :
        /\ SourcesOf(version) # {} => one # {}
        /\ Becomes(fv, [chain[fv] EXCEPT
             !.parents = chain[fv].parents \ {version},
             !.sources = chain[fv].sources \cup one,
             !.at = IF chain[fv].parents \ {version} = {}
                      THEN "organizations" ELSE "sources"])
  BY <1>3
<1>5. /\ chain[fv].at = "sources"
      /\ chain'[fv].parents = chain[fv].parents \ {version}
      /\ chain'[fv].sources = chain[fv].sources \cup one
      /\ chain'[fv].organizations = chain[fv].organizations
      /\ chain'[fv].at = IF chain[fv].parents \ {version} = {}
                           THEN "organizations" ELSE "sources"
  <2> DEFINE c == [chain[fv] EXCEPT
             !.parents = chain[fv].parents \ {version},
             !.sources = chain[fv].sources \cup one,
             !.at = IF chain[fv].parents \ {version} = {}
                      THEN "organizations" ELSE "sources"]
  <2>1. /\ c.parents = chain[fv].parents \ {version}
        /\ c.sources = chain[fv].sources \cup one
        /\ c.organizations = chain[fv].organizations
        /\ c.at = IF chain[fv].parents \ {version} = {}
                    THEN "organizations" ELSE "sources"
    BY DEF Chain
  <2>2. Becomes(fv, c)
    BY <1>4
  <2> HIDE DEF c
  <2>3. chain'[fv] = c
    BY <2>2 DEF Becomes
  <2> QED BY <2>1, <2>3 DEF FindSource, AtStep
<1>6. Asking(fv)' /\ LooksAt(fv)' /\ ParkedKnown(fv)'
  BY <1>2, <1>5 DEF Local, Asking, LooksAt, ParkedKnown, Looking
<1>7. SourcesMeant(fv) => SourcesMeant(fv)'
  <2>1. ASSUME SourcesMeant(fv), NEW o \in one PROVE WasSource(fv, o)
    <3>1. o \in FlowObject \cap db /\ IsSourceOf(o, version)
      BY DEF SourcesOf
    <3>2. Owner[o] = version
      BY <3>1 DEF IsSourceOf
    <3> QED BY <1>2, <2>1, <3>1, <3>2 DEF WasSource, SourcesMeant
  <2> QED BY <1>2, <1>5, <2>1 DEF SourcesMeant
<1>8. SourcesDue(fv) => SourcesDue(fv)'
  <2> SUFFICES ASSUME SourcesDue(fv), withParents, NEW l \in FlowLink,
                      NEW o \in FlowObject, Due(fv, l, o)
               PROVE  OnItsWay(fv, l, o)'
    BY <1>2 DEF SourcesDue
  <2>1. Owner[o] \in chain[fv].parents \/ o \in chain[fv].sources
    BY <1>5 DEF SourcesDue, OnItsWay
  <2>2. ASSUME Owner[o] = version PROVE o \in one
    <3>1. o \in SourcesOf(version)
      BY <1>2, <2>2 DEF SourcesOf, Due, ParkedSource
    <3>2. \A p \in one : p = o
      BY <1>2, <2>2 DEF SourcesOf, Due, Single
    <3> QED BY <1>4, <3>1, <3>2
  <2> QED BY <1>5, <2>1, <2>2 DEF OnItsWay
<1> QED BY <1>2, <1>6, <1>7, <1>8 DEF Local

LEMMA SourceOrganizationsLocal ==
  ASSUME Parented, NEW fv \in FlowVersion, InItems', FindSourceOrganizations(fv)
  PROVE  Local(fv)'
<1>1. OnChain(fv)
  BY DEF OnChain
<1> USE OwnChain, <1>1
<1>2. /\ withParents' = withParents /\ always' = always /\ ever' = ever
      /\ always \subseteq db /\ db \subseteq ever
  BY DEF request, rows, Parented, Channelled, Complete, Base, History
<1>3. /\ chain[fv].at = "organizations" /\ chain'[fv].at = "end"
      /\ chain'[fv].organizations = {ObjectOf[o] : o \in chain[fv].sources} \cap db
      /\ chain'[fv].parents = chain[fv].parents /\ chain'[fv].sources = chain[fv].sources
  BY DEF FindSourceOrganizations, AtStep, Chain
<1>4. Asking(fv)' /\ LooksAt(fv)' /\ ParkedKnown(fv)'
  BY <1>2, <1>3 DEF Asking, LooksAt, ParkedKnown, Looking
<1>5. SourcesMeant(fv) => SourcesMeant(fv)'
  <2>1. chain[fv].sources \subseteq FlowObject
    BY DEF Chain
  <2> QED BY <1>2, <1>3, <2>1 DEF SourcesMeant
<1>6. SourcesDue(fv) => SourcesDue(fv)'
  BY <1>2, <1>3 DEF SourcesDue, OnItsWay, Due, ParkedSource
<1> QED BY <1>2, <1>4, <1>5, <1>6 DEF Local

LEMMA NextParented == Parented /\ [Next]_vars => Parented'
<1> SUFFICES ASSUME Parented, [Next]_vars PROVE Parented'
  OBVIOUS
<1>1. Channelled'
  BY NextChannelled DEF Parented
<1> SUFFICES ASSUME InItems', NEW fv \in page' PROVE Local(fv)'
  BY <1>1 DEF Parented
<1>2. Complete /\ page' = page /\ page \subseteq FlowVersion
  BY ItemsCases, ItemsBegin, ChainFrame DEF Quiet, request, Parented, Channelled,
     Complete, Base, TypeOK
<1>3. CASE AwaitNested
  BY <1>2, <1>3, BeginParents
<1>4. CASE Quiet
  BY <1>2, <1>4, LocalKeeps DEF Quiet, Parented
<1>5. ASSUME NEW g \in FlowVersion, OnChain(g), g # fv PROVE Local(fv)'
  <2>1. UNCHANGED <<rows, request, got>> /\ chain'[fv] = chain[fv] /\ InItems
    BY <1>2, <1>5, ChainFrame, OthersKeep DEF InItems, Complete, Base
  <2> QED BY <1>2, <2>1, LocalKeeps DEF rows, Parented
<1>6. CASE OnChain(fv)
  BY <1>2, <1>6, EarlyLocal, ActiveParentsLocal, ParentRefsLocal, SourceLocal,
     SourceOrganizationsLocal DEF OnChain
<1> QED BY <1>2, <1>3, <1>4, <1>5, <1>6, ItemsCases

LEMMA InitParented == Init => Parented
BY InitComplete DEF Init, Parented, Channelled, AllAtEnd, RefsFit, ChannelsMeant,
   ChannelsSet, InItems

LEMMA AlwaysParented == Spec => []Parented
BY InitParented, NextParented, PTL DEF Spec

\* The source organization of a parked parent is named whenever the parent,
\* its category and its organization stayed, and no other ever is.
THEOREM SourcesShownHolds == Spec => []SourcesShown
<1>1. Parented => SourcesShown
  <2> SUFFICES ASSUME Parented, Answered, withParents, ParkedCategory \in always,
                      NEW fv \in page
               PROVE  /\ \A l \in always \cap FlowLink : \A o \in FlowObject :
                           /\ ChildOf[l] = fv[1] /\ ParkedSource(always, ParentOf[l], o)
                           /\ Single(o)
                           => ObjectOf[o] \in chain[fv].organizations
                      /\ \A e \in chain[fv].organizations :
                           \E l \in ever \cap FlowLink : \E o \in FlowObject :
                             /\ ChildOf[l] = fv[1] /\ ObjectOf[o] = e
                             /\ ParkedSource(ever, ParentOf[l], o)
    BY DEF SourcesShown, Single
  <2>1. Local(fv) /\ chain[fv].at = "end"
    BY DEF Parented, Channelled, AllAtEnd, Answered, InItems
  <2>2. \A l \in FlowLink : \A o \in FlowObject :
          Due(fv, l, o) => ObjectOf[o] \in chain[fv].organizations
    BY <2>1 DEF Local, SourcesDue, OnItsWay
  <2>3. ASSUME NEW e \in chain[fv].organizations
        PROVE  \E l \in ever \cap FlowLink : \E o \in FlowObject :
                 /\ ChildOf[l] = fv[1] /\ ObjectOf[o] = e
                 /\ ParkedSource(ever, ParentOf[l], o)
    <3>1. PICK o \in FlowObject : WasSource(fv, o) /\ ObjectOf[o] = e /\ e \in ever
      BY <2>1, <2>3 DEF Local, SourcesMeant
    <3>2. PICK l \in ever \cap FlowLink : ChildOf[l] = fv[1] /\ ParentOf[l] = Owner[o][1]
      BY <3>1 DEF WasSource, WasParent
    <3> QED BY <3>1, <3>2 DEF WasSource, WasParent, ParkedSource, FlowOf
  <2> QED BY <2>2, <2>3 DEF Due
<1> QED BY <1>1, AlwaysParented, PTL

-----------------------------------------------------------------------------
(* Why a page fails.                                                       *)

TwoActives(flow) ==
  \E a, b \in ever \cap ActiveFlow : a # b /\ FlowOf(a) = flow /\ FlowOf(b) = flow

LeftAlone(flow) == ~\E a \in always \cap ActiveFlow : FlowOf(a) = flow

Cause ==
  \/ rejected
  \/ Ambiguous(ever \cap PlanVersion, PlanOf)
  \/ /\ withParents
     /\ \E l \in ever \cap FlowLink :
          ChildOf[l] \in FlowIds /\ (LeftAlone(ParentOf[l]) \/ TwoActives(ParentOf[l]))

Blamed == Parented /\ (stage = "failed" => Cause)

LEMMA NestedFails ==
  ASSUME Parented, AwaitNested, stage' = "failed" PROVE Cause
<1>1. Ambiguous(got["planVersions"], PlanOf)
  BY DEF AwaitNested
<1>2. got["planVersions"] \subseteq ever \cap PlanVersion
  BY DEF Parented, Channelled, Complete, Base, Upper, Table, Query, NestedQueries
<1> QED BY <1>1, <1>2 DEF Ambiguous, Cause

LEMMA ChainFails ==
  ASSUME Parented, NEW fv \in FlowVersion, OnChain(fv), stage' = "failed" PROVE Cause
<1> USE DEF Parented, Channelled, Complete, Base
<1>1. stage = "items" /\ fv \in page /\ Local(fv) /\ stage' # "items"
  BY ChainFrame DEF InItems
<1>2. CASE FindActiveParents(fv)
  <2>1. withParents
    BY <1>1, <1>2 DEF FindActiveParents, AtStep, Local, Asking, Looking
  <2>2. Ambiguous(ActivesOf(fv), [a \in ActiveFlow |-> FlowOf(a)])
    BY <1>1, <1>2, ActiveParentsBecome
  <2>3. PICK a \in ActivesOf(fv) : \E b \in ActivesOf(fv) : a # b /\ FlowOf(a) = FlowOf(b)
    BY <2>2 DEF Ambiguous, ActivesOf
  <2>4. FlowOf(a) \in ParentIDs(fv) /\ TwoActives(FlowOf(a))
    BY <2>3 DEF ActivesOf, TwoActives, History
  <2> QED BY <1>1, <2>1, <2>4, ParentLinked DEF Cause
<1>3. CASE FindParentRefs(fv)
  <2>1. withParents /\ chain[fv].at = "parentRefs"
    BY <1>1, <1>3 DEF FindParentRefs, AtStep, Local, Asking, Looking
  <2>2. PICK parent \in chain[fv].todo : Versions(fv, parent) = {}
    BY <1>1, <1>3, ParentRefsBecome
  <2>3. parent \in ParentIDs(fv) /\ ActivesIn(fv, always) \subseteq chain[fv].actives
    BY <1>1, <2>1 DEF Local, LooksAt
  <2>4. LeftAlone(parent)
    BY <2>2, <2>3 DEF LeftAlone, ActivesIn, Versions
  <2> QED BY <1>1, <2>1, <2>3, <2>4, ParentLinked DEF Cause
<1>4. FindActiveParents(fv) \/ FindParentRefs(fv)
  BY <1>1 DEF OnChain, FindChannelRefs, FindChannels, FindParkedCategory, FindSource,
     FindSourceOrganizations
<1> QED BY <1>2, <1>3, <1>4

LEMMA NextBlamed == Blamed /\ [Next]_vars => Blamed'
<1> SUFFICES ASSUME Blamed, [Next]_vars, stage' = "failed" PROVE Cause'
  BY NextParented DEF Blamed
<1> USE DEF Blamed
<1>1. ASSUME Cause, UNCHANGED <<rows, request>>, rejected' = rejected PROVE Cause'
  BY <1>1 DEF Cause, LeftAlone, TwoActives, FlowIds, rows, request
<1>2. CASE UNCHANGED vars
  BY <1>1, <1>2 DEF vars
<1>3. ASSUME NEW q \in Query, Answers(q) PROVE Cause'
  BY <1>1, <1>3 DEF Answers
<1>4. ~AwaitRows /\ ~AwaitLinks /\ ~AwaitItems
  BY DEF AwaitRows, AwaitLinks, AwaitItems
<1>5. CASE AwaitNested
  BY <1>1, <1>5, NestedFails DEF AwaitNested
<1>6. ASSUME NEW fv \in FlowVersion, OnChain(fv) PROVE Cause'
  BY <1>1, <1>6, ChainFails, ChainFrame
<1>7. CASE Reject
  BY <1>7 DEF Reject, Cause
<1>8. ~\E present \in SUBSET Row : Write(present)
  BY DEF Write, Running
<1>9. TypeOK
  BY DEF Parented, Channelled, Complete, Base
<1> QED BY <1>2, <1>3, <1>4, <1>5, <1>6, <1>7, <1>8, <1>9, StepCases

\* A page is refused only for a rejected query, for two rows of a plan or a
\* flow where one is meant to be, or for a parent without an active version.
THEOREM FailsForCauseHolds == Spec => []FailsForCause
<1>1. Init => Blamed
  BY InitParented DEF Init, Blamed
<1>2. Blamed => FailsForCause
  BY DEF Blamed, Cause, FailsForCause, LeftAlone, TwoActives
<1> QED BY <1>1, <1>2, NextBlamed, PTL DEF Spec
=============================================================================
