----------------------------- MODULE PlanSchema -----------------------------
(***************************************************************************)
(* The rows and the keys of the tables a plan publication touches, for one *)
(* plan.  The tables belong to the external hpc-api-core models; only the  *)
(* columns that src/common-libs/plan reads or writes are kept.             *)
(*                                                                         *)
(* A row is named by its primary key.  Foreign keys never change, so they  *)
(* are constants: TableOf, BaseOf, AttachmentOf, PeriodOf.  Whether a row  *)
(* exists yet is state (createdAt in PlanPublish).                         *)
(***************************************************************************)
EXTENDS Integers, FiniteSets

CONSTANTS
  Request,        \* publishPlan mutations, each one HTTP request
  BaseRow,        \* ids of rows of the base tables (attachment, planYear, ...)
  VersionRow,     \* ids of rows of the version tables, serial numbers
  Plan,           \* the plan itself, the base row of the planVersion rows
  Period,         \* ids of planReportingPeriod rows
  None,           \* SQL NULL / JavaScript undefined
  TableOf,        \* the table of a base row
  BaseOf,         \* the base row of a version row
  CostAttachment, \* attachments of type 'cost'
  AttachmentOf,   \* measurement.attachmentId
  PeriodOf,       \* measurement.planReportingPeriodId
  PeriodNumber,   \* planReportingPeriod.periodNumber, NoNumber when null
  Inputs,         \* the arguments publishPlan is called with
  InitialRow,     \* rows that exist before the first publication
  InitialPeriod,  \* reporting periods that exist before the first publication
  Deletable,      \* the base rows the editors may delete (a bound)
  ChunkSize,      \* CONFIG.db.batchLimit - 3, the ids one UPDATE may list
  MaxTime,        \* bound on the clock ticks explored
  Lone            \* the requests that run alone: the editors wait for the
                  \* others to end, and for these (nothing in the code does)

NoNumber == -1

BaseOnlyModels == {"planLocation", "planYear"}
BaseAndVersionModels ==
  {"attachment", "governingEntity", "planEntity", "measurement"}
Table == BaseOnlyModels \cup BaseAndVersionModels \cup {"planVersion"}

Row == BaseRow \cup VersionRow
Base == BaseRow \cup {Plan}
PlanVersion == {v \in VersionRow : BaseOf[v] = Plan}
Measurement == {b \in BaseRow : TableOf[b] = "measurement"}

VersionTable(v) ==
  IF BaseOf[v] = Plan THEN "planVersion" ELSE TableOf[BaseOf[v]]

\* A tag name "major.minor" is the pair of its numbers.
Name == Nat \X Nat
TagRow == [name : Name, createdAt : Nat]
AddPlanTagInput ==
  [major : BOOLEAN, publishMeasurements : BOOLEAN, periods : SUBSET Period]

ASSUME KeysAssumption ==
  /\ VersionRow \subseteq Nat
  /\ BaseRow \cap VersionRow = {}
  /\ Plan \notin Row
  /\ TableOf \in [BaseRow -> Table \ {"planVersion"}]
  /\ BaseOf \in [VersionRow -> Base]
  /\ \A v \in VersionRow :
       BaseOf[v] # Plan => TableOf[BaseOf[v]] \in BaseAndVersionModels
  /\ IsFiniteSet(VersionRow)
  /\ CostAttachment \subseteq BaseRow
  /\ AttachmentOf \in [Measurement -> BaseRow]
  /\ \A m \in Measurement : TableOf[AttachmentOf[m]] = "attachment"
  /\ PeriodOf \in [Measurement -> Period]
  /\ PeriodNumber \in [Period -> Nat \cup {NoNumber}]

\* The rows of the first publication come with the rows they refer to.
ASSUME InputAssumption ==
  /\ Inputs \subseteq AddPlanTagInput
  /\ InitialRow \subseteq Row
  /\ \A v \in InitialRow \cap VersionRow :
       BaseOf[v] # Plan => BaseOf[v] \in InitialRow
  /\ \A m \in InitialRow \cap Measurement : AttachmentOf[m] \in InitialRow
  /\ InitialPeriod \subseteq Period
  /\ Deletable \subseteq {b \in BaseRow : TableOf[b] # "planYear"}
  /\ ChunkSize \in Nat \ {0}
  /\ MaxTime \in Nat
  /\ Lone \subseteq Request

\* NULL is no value of any column.
ASSUME NoneAssumption ==
  /\ None \notin Nat
  /\ None \notin TagRow
  /\ None \notin Period
  /\ None \notin Row
  /\ None \notin Name
  /\ None \notin AddPlanTagInput
=============================================================================
