----------------------------- MODULE PageTables ------------------------------
(***************************************************************************)
(* The tables search reads to complete a page of flows, and what the page  *)
(* should say of each flow version.  A row is its primary key; foreign     *)
(* keys are constant.  A row that is in the database may refer to one that *)
(* is not: the services that edit flows delete rows one by one.            *)
(***************************************************************************)
EXTENDS Integers, FiniteSets

CONSTANTS
  FlowVersion,         \* rows of flow, as pairs <<id, versionID>>
  ActiveFlow,          \* rows of flow with activeStatus: in the database while
                       \* the flow version is the active one
  ExternalReference, ReportDetail, FlowObject,
  FlowRef, DetailRef,  \* rows of categoryRef by objectType
  FlowLink,            \* rows of flowLink with depth > 0
  Category, Organization, Location, UsageYear, Plan,
  PlanVersion,         \* rows of planVersion: in the database while they have
                       \* currentVersion
  Owner,               \* the flow version of an ActiveFlow, ExternalReference,
                       \* ReportDetail or FlowObject
  Direction,           \* refDirection of a FlowObject
  ObjectOf,            \* the row a FlowObject links the flow version to
  RefersTo,            \* objectID (and versionID) of a FlowRef or DetailRef
  CategoryOf,          \* categoryID of those
  ParentOf, ChildOf,   \* the flows of a FlowLink
  PlanOf,              \* planId of a PlanVersion
  ParkedCategory,      \* the category flowType/Parked
  None                 \* null

Flow == {fv[1] : fv \in FlowVersion}
Directions == {"source", "destination"}

\* Entities a flow version is linked to, other than plans.
Entity == Organization \cup Location \cup UsageYear
CategoryRef == FlowRef \cup DetailRef
OwnedRow == ActiveFlow \cup ExternalReference \cup ReportDetail \cup FlowObject
Row == OwnedRow \cup CategoryRef \cup FlowLink \cup Category \cup Entity
         \cup Plan \cup PlanVersion

\* Rows of different tables are different rows.
Disjoint(tables) ==
  \A i, j \in DOMAIN tables : i # j => tables[i] \cap tables[j] = {}

ASSUME KeysAssumption ==
  /\ Owner \in [OwnedRow -> FlowVersion]
  /\ Direction \in [FlowObject -> Directions]
  /\ ObjectOf \in [FlowObject -> Entity \cup Plan]
  /\ \A r \in FlowRef : RefersTo[r] \in FlowVersion
  /\ \A r \in DetailRef : RefersTo[r] \in ReportDetail
  /\ CategoryOf \in [CategoryRef -> Category]
  /\ ParentOf \in [FlowLink -> Flow]
  /\ ChildOf \in [FlowLink -> Flow]
  /\ \A l \in FlowLink : ParentOf[l] # ChildOf[l]
  /\ PlanOf \in [PlanVersion -> Plan]
  /\ ParkedCategory \in Category

ASSUME TablesAssumption ==
  /\ Disjoint(<<ActiveFlow, ExternalReference, ReportDetail, FlowObject,
                FlowRef, DetailRef, FlowLink, Category, Organization,
                Location, UsageYear, Plan, PlanVersion>>)
  /\ None \notin Category \cup PlanVersion

-----------------------------------------------------------------------------
(* What type Flow of the schema says of a flow version, given the rows.    *)

Field == {"externalReferences", "reportDetails", "categories", "entities",
          "childIDs", "parentIDs"}

\* All but the plans, of which the code keeps one of a direction, and the
\* parked parent's source: they are variables of FlowEnrichment.
Item ==
  [externalReferences : SUBSET ExternalReference,
   reportDetails : SUBSET ReportDetail, categories : SUBSET Category,
   entities : SUBSET (Directions \X Entity),
   childIDs : SUBSET Flow, parentIDs : SUBSET Flow]

\* organizations, locations and usageYears with their direction.
Links(objects, entities) ==
  {<<Direction[o], ObjectOf[o]>> : o \in {x \in objects : ObjectOf[x] \in entities}}

CategoriesBy(refs, categories) ==
  {CategoryOf[r] : r \in refs} \cap categories

Children(links, flow) == {ChildOf[l] : l \in {x \in links : ParentOf[x] = flow}}
Parents(links, flow) == {ParentOf[l] : l \in {x \in links : ChildOf[x] = flow}}

Deserved(rows, fv) ==
  [externalReferences |-> {x \in rows \cap ExternalReference : Owner[x] = fv},
   reportDetails |-> {x \in rows \cap ReportDetail : Owner[x] = fv},
   categories |-> CategoriesBy({r \in rows \cap FlowRef : RefersTo[r] = fv},
                               rows \cap Category),
   entities |-> Links({o \in rows \cap FlowObject : Owner[o] = fv},
                      rows \cap Entity),
   childIDs |-> Children(rows \cap FlowLink, fv[1]),
   parentIDs |-> Parents(rows \cap FlowLink, fv[1])]

\* One answer says no more than another.
Within(item, other) == \A k \in Field : item[k] \subseteq other[k]
=============================================================================
