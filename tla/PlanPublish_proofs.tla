------------------------- MODULE PlanPublish_proofs -------------------------
(***************************************************************************)
(* What holds of publishPlan however many publications of a plan overlap,  *)
(* wherever they stop and whatever the editors do meanwhile.               *)
(***************************************************************************)
EXTENDS PlanPublish, TLAPS

(***************************************************************************)
(* The inductive invariant: what a request knows at each step of its local *)
(* variables j, next to the properties themselves.                         *)
(***************************************************************************)
Tagging ==
  {"findRows", "tagRows", "untagRows", "findVersions", "readLatest",
   "tagVersions", "findOld", "untagOld", "findPlanVersions",
   "findAttachments", "findMeasurements", "findAssociated",
   "findPublishedPeriods", "findPublishedMeasurements", "setLastPublished"}

BeforeTag ==
  {"idle", "findPeriods", "findLatestVersion", "setCurrentPeriod",
   "endRevision", "getNextTag", "createTag"}

JobOK(r, j) ==
  /\ j.pc \notin Idle => j.input \in Inputs
  /\ j.pc \in Tagging \cup {"createTag"} => j.name \in Name
  /\ j.pc \in BeforeTag => planTag[r] = None
  /\ j.pc \in Tagging => planTag[r] # None /\ planTag[r].name = j.name
  /\ \A s \in j.todo : s.tags \subseteq TagNames
  /\ j.pc = "findPublishedMeasurements" => j.period \in generated
  /\ j.pc = "setLastPublished" =>
       j.period \in generated /\ HasPublishedMeasurement(j.period)

IInv ==
  /\ TypeOK
  /\ \A r \in Request : JobOK(r, job[r])
  /\ NoPhantomTags
  /\ LastPublishedIsPublished

-----------------------------------------------------------------------------
(* The operators of the model.                                             *)

LEMMA NextNameType ==
  ASSUME NEW n \in Name, NEW major \in BOOLEAN
  PROVE  NextName(n, major) \in Name
BY DEF NextName, Name

LEMMA LatestNamesType ==
  ASSUME TypeOK
  PROVE  LatestNames \subseteq Name
<1>1. PlanTags \subseteq TagRow
  BY DEF PlanTags, TypeOK
<1>2. \A t \in TagRow : t.name \in Name
  BY DEF TagRow
<1>3. <<0, 0>> \in Name
  BY DEF Name
<1> QED BY <1>1, <1>2, <1>3 DEF LatestNames, LatestTags

LEMMA TableSets ==
  /\ \A b \in BaseRow : b \in Row /\ b \in Base /\ TableOf[b] \in Table
  /\ \A v \in VersionRow : v \in Row /\ BaseOf[v] \in Base
  /\ PlanVersion \subseteq VersionRow
  /\ Measurement \subseteq BaseRow
BY KeysAssumption DEF Row, Base, PlanVersion, Measurement

LEMMA ReadTagsType ==
  ASSUME TypeOK, NoPhantomTags, NEW rows \in SUBSET Row
  PROVE  /\ ReadTags(rows) \in SUBSET Snapshot
         /\ \A s \in ReadTags(rows) : s.tags \subseteq TagNames
BY DEF ReadTags, Snapshot, TypeOK, NoPhantomTags

-----------------------------------------------------------------------------
LEMMA InitIInv == Init => IInv
<1> SUFFICES ASSUME Init PROVE IInv
  OBVIOUS
<1>1. NoJob \in Job
  BY DEF NoJob, Job, Step, Idle, Table, BaseOnlyModels
<1>2. TypeOK
  BY <1>1, InputAssumption DEF Init, TypeOK
<1>3. \A r \in Request : JobOK(r, job[r])
  BY DEF Init, JobOK, NoJob, Idle, Tagging, BeforeTag
<1>4. NoPhantomTags /\ LastPublishedIsPublished
  BY DEF Init, NoPhantomTags, LastPublishedIsPublished
<1> QED BY <1>2, <1>3, <1>4 DEF IInv

(***************************************************************************)
(* A step that only reads the tables and moves r's local variables to new. *)
(***************************************************************************)
LEMMA ReadStep ==
  ASSUME IInv, NEW r \in Request, NEW new,
         new \in Job, JobOK(r, new), job' = [job EXCEPT ![r] = new],
         UNCHANGED <<now, editVars, rowVars, planVars, planTag>>
  PROVE  IInv'
<1>1. TypeOK'
  BY DEF IInv, TypeOK, editVars, rowVars, planVars
<1>2. \A p : HasPublishedMeasurement(p)' = HasPublishedMeasurement(p)
  BY DEF HasPublishedMeasurement, Exists, editVars, rowVars
<1>3. TagNames' = TagNames
  BY DEF TagNames, PlanTags
<1>4. \A s \in Request : JobOK(s, job[s])'
  BY <1>2, <1>3 DEF IInv, TypeOK, JobOK, editVars
<1>5. NoPhantomTags' /\ LastPublishedIsPublished'
  BY <1>2, <1>3 DEF IInv, NoPhantomTags, LastPublishedIsPublished, editVars,
     rowVars, planVars
<1> QED BY <1>1, <1>4, <1>5 DEF IInv

\* The job with which a request ends.
Ended(r, outcome) ==
  [NoJob EXCEPT !.pc = outcome, !.input = job[r].input, !.name = job[r].name]

LEMMA EndJob ==
  ASSUME TypeOK, NEW r \in Request, NEW outcome \in {"done", "failed"}
  PROVE  Ended(r, outcome) \in Job /\ JobOK(r, Ended(r, outcome))
<1>1. job[r] \in Job
  BY DEF TypeOK
<1>2. Ended(r, outcome) \in Job
  BY <1>1 DEF Ended, NoJob, Job, Step, Idle, Table, BaseOnlyModels
<1>3. Ended(r, outcome).pc = outcome /\ Ended(r, outcome).todo = {}
  BY DEF Ended, NoJob
<1> QED BY <1>2, <1>3 DEF JobOK, Idle, Tagging, BeforeTag

LEMMA EndStep ==
  ASSUME IInv, NEW r \in Request, NEW outcome \in {"done", "failed"},
         End(r, outcome), UNCHANGED <<now, editVars, rowVars, planVars, planTag>>
  PROVE  IInv'
BY EndJob, ReadStep, Zenon DEF End, Ended, IInv

LEMMA GotoJob ==
  ASSUME TypeOK, NEW r \in Request, NEW step \in Step
  PROVE  LET new == [job[r] EXCEPT !.pc = step] IN
         /\ new \in Job
         /\ new.pc = step /\ new.input = job[r].input /\ new.name = job[r].name
         /\ new.todo = job[r].todo /\ new.period = job[r].period
         /\ Goto(r, step) => job' = [job EXCEPT ![r] = new]
<1>1. job \in [Request -> Job] /\ job[r] \in Job
  BY DEF TypeOK
<1> QED BY <1>1 DEF Job, Goto

-----------------------------------------------------------------------------
(* The reading steps.                                                      *)

LEMMA FindPeriodsInv ==
  ASSUME IInv, NEW r \in Request, FindPeriods(r)
  PROVE  IInv'
<1>1. CASE periods = {}
  BY <1>1, EndStep DEF FindPeriods
<1>2. CASE periods # {}
  <2>1. PICK p \in FirstPeriods(periods) :
          job' = [job EXCEPT ![r].pc = "findLatestVersion", ![r].period = p]
    BY <1>2 DEF FindPeriods
  <2> DEFINE new == [job[r] EXCEPT !.pc = "findLatestVersion", !.period = p]
  <2>2. p \in Period
    BY DEF FirstPeriods, IInv, TypeOK
  <2>3. job \in [Request -> Job] /\ job[r] \in Job /\ JobOK(r, job[r])
    BY DEF IInv, TypeOK
  <2>4. new \in Job /\ JobOK(r, new) /\ job' = [job EXCEPT ![r] = new]
    BY <2>1, <2>2, <2>3 DEF Job, JobOK, Step, Idle, Tagging, BeforeTag, FindPeriods, At
  <2> HIDE DEF new
  <2> QED BY <2>4, ReadStep DEF FindPeriods
<1> QED BY <1>1, <1>2

LEMMA FindLatestVersionInv ==
  ASSUME IInv, NEW r \in Request, FindLatestVersion(r)
  PROVE  IInv'
<1>1. job \in [Request -> Job] /\ job[r] \in Job /\ JobOK(r, job[r])
  BY DEF IInv, TypeOK
<1>2. CASE Goto(r, "endRevision")
  <2> DEFINE new == [job[r] EXCEPT !.pc = "endRevision"]
  <2>1. new \in Job /\ JobOK(r, new) /\ job' = [job EXCEPT ![r] = new]
    BY <1>1, <1>2 DEF Job, JobOK, Step, Idle, Tagging, BeforeTag, FindLatestVersion, At, Goto
  <2> HIDE DEF new
  <2> QED BY <2>1, ReadStep DEF FindLatestVersion
<1>3. ASSUME NEW v \in PlanVersion,
             job' = [job EXCEPT ![r].pc = "setCurrentPeriod", ![r].version = v]
      PROVE  IInv'
  <2> DEFINE new == [job[r] EXCEPT !.pc = "setCurrentPeriod", !.version = v]
  <2>1. new \in Job /\ JobOK(r, new) /\ job' = [job EXCEPT ![r] = new]
    BY <1>1, <1>3 DEF Job, JobOK, Step, Idle, Tagging, BeforeTag, FindLatestVersion, At
  <2> HIDE DEF new
  <2> QED BY <2>1, ReadStep DEF FindLatestVersion
<1> QED BY <1>2, <1>3 DEF FindLatestVersion

LEMMA GetNextTagInv ==
  ASSUME IInv, NEW r \in Request, GetNextTag(r)
  PROVE  IInv'
<1>1. job \in [Request -> Job] /\ job[r] \in Job /\ JobOK(r, job[r])
  BY DEF IInv, TypeOK
<1>2. PICK latest \in LatestNames :
        job' = [job EXCEPT ![r].pc = "createTag",
                           ![r].name = NextName(latest, job[r].input.major)]
  BY DEF GetNextTag
<1> DEFINE name == NextName(latest, job[r].input.major)
           new == [job[r] EXCEPT !.pc = "createTag", !.name = name]
<1>3. job[r].input.major \in BOOLEAN
  BY <1>1, InputAssumption DEF JobOK, GetNextTag, At, Idle, AddPlanTagInput
<1>4. name \in Name
  BY <1>3, NextNameType, LatestNamesType DEF IInv
<1> HIDE DEF name
<1>5. new \in Job /\ JobOK(r, new) /\ job' = [job EXCEPT ![r] = new]
  BY <1>1, <1>2, <1>4 DEF Job, JobOK, Step, Idle, Tagging, BeforeTag, GetNextTag, At, name
<1> HIDE DEF new
<1> QED BY <1>5, ReadStep DEF GetNextTag

LEMMA SortBaseRowsInv ==
  ASSUME IInv, NEW r \in Request, NEW rows \in SUBSET BaseRow,
         job[r].pc \in {"findRows", "findMeasurements"}, SortBaseRows(r, rows),
         UNCHANGED <<now, editVars, rowVars, planVars, planTag>>
  PROVE  IInv'
<1>1. job \in [Request -> Job] /\ job[r] \in Job /\ JobOK(r, job[r])
  BY DEF IInv, TypeOK
<1> DEFINE active == {b \in rows : IsActive(b, TagTime(r))}
           step == IF active = {} THEN "untagRows" ELSE "tagRows"
           read == ReadTags(active)
           stale == rows \ active
           new == [job[r] EXCEPT !.bases = rows, !.todo = read,
                                 !.stale = stale, !.pc = step]
<1>2. rows \in SUBSET Base /\ active \in SUBSET Row /\ stale \in SUBSET Row
  BY DEF Base, Row
<1>3. read \in SUBSET Snapshot /\ \A s \in read : s.tags \subseteq TagNames
  BY <1>2, ReadTagsType DEF IInv
<1>4. step \in {"untagRows", "tagRows"}
  OBVIOUS
<1>5. job' = [job EXCEPT ![r] = new]
  BY <1>1 DEF SortBaseRows
<1> HIDE DEF active, step, read, stale
<1>6. new \in Job /\ JobOK(r, new)
  BY <1>1, <1>2, <1>3, <1>4 DEF Job, JobOK, Step, Idle, Tagging, BeforeTag
<1> HIDE DEF new
<1> QED BY <1>5, <1>6, ReadStep

LEMMA FindRowsInv ==
  ASSUME IInv, NEW r \in Request, FindRows(r)
  PROVE  IInv'
BY SortBaseRowsInv DEF FindRows, At

LEMMA FindMeasurementsInv ==
  ASSUME IInv, NEW r \in Request, FindMeasurements(r)
  PROVE  IInv'
<1> DEFINE rows == {m \in Measurement : /\ Exists(m)
                                        /\ AttachmentOf[m] \in job[r].bases
                                        /\ PeriodOf[m] \in job[r].input.periods}
<1>1. rows \in SUBSET BaseRow
  BY DEF Measurement
<1>2. SortBaseRows(r, rows)
  BY DEF FindMeasurements
<1> HIDE DEF rows
<1> QED BY <1>1, <1>2, SortBaseRowsInv DEF FindMeasurements, At

LEMMA FindAttachmentsInv ==
  ASSUME IInv, NEW r \in Request, FindAttachments(r)
  PROVE  IInv'
<1>1. job \in [Request -> Job] /\ job[r] \in Job /\ JobOK(r, job[r])
  BY DEF IInv, TypeOK
<1> DEFINE rows == {b \in BaseRow : Exists(b) /\ TableOf[b] = "attachment"}
           new == [job[r] EXCEPT !.pc = "findMeasurements", !.bases = rows]
<1>2. rows \in SUBSET Base
  BY DEF Base
<1>3. job' = [job EXCEPT ![r] = new]
  BY <1>1 DEF FindAttachments
<1> HIDE DEF rows
<1>4. new \in Job /\ JobOK(r, new)
  BY <1>1, <1>2 DEF Job, JobOK, Step, Idle, Tagging, BeforeTag, FindAttachments, At
<1> HIDE DEF new
<1> QED BY <1>3, <1>4, ReadStep DEF FindAttachments

LEMMA FindVersionsInv ==
  ASSUME IInv, NEW r \in Request, FindVersions(r)
  PROVE  IInv'
<1>1. job \in [Request -> Job] /\ job[r] \in Job /\ JobOK(r, job[r])
  BY DEF IInv, TypeOK
<1> DEFINE newest == NewestPerBase({v \in VersionRow :
                       ExistsSince(v, TagTime(r)) /\ BaseOf[v] \in job[r].bases})
           new == [job[r] EXCEPT !.pc = "readLatest", !.newest = newest]
<1>2. newest \in SUBSET VersionRow
  BY DEF NewestPerBase
<1>3. job' = [job EXCEPT ![r] = new]
  BY <1>1 DEF FindVersions
<1> HIDE DEF newest
<1>4. new \in Job /\ JobOK(r, new)
  BY <1>1, <1>2 DEF Job, JobOK, Step, Idle, Tagging, BeforeTag, FindVersions, At
<1> HIDE DEF new
<1> QED BY <1>3, <1>4, ReadStep DEF FindVersions

LEMMA FindPlanVersionsInv ==
  ASSUME IInv, NEW r \in Request, FindPlanVersions(r)
  PROVE  IInv'
<1>1. job \in [Request -> Job] /\ job[r] \in Job /\ JobOK(r, job[r])
  BY DEF IInv, TypeOK
<1> DEFINE found == {v \in PlanVersion : ExistsSince(v, TagTime(r))}
           newest == NewestPerBase(found)
           bases == {BaseOf[v] : v \in found}
           new == [job[r] EXCEPT !.pc = "readLatest", !.newest = newest,
                                 !.bases = bases]
<1>2. newest \in SUBSET VersionRow /\ bases \in SUBSET Base
  BY TableSets DEF NewestPerBase
<1>3. job' = [job EXCEPT ![r] = new]
  BY <1>1 DEF FindPlanVersions
<1> HIDE DEF found, newest, bases
<1>4. new \in Job /\ JobOK(r, new)
  BY <1>1, <1>2 DEF Job, JobOK, Step, Idle, Tagging, BeforeTag, FindPlanVersions, At
<1> HIDE DEF new
<1> QED BY <1>3, <1>4, ReadStep DEF FindPlanVersions

LEMMA ReadLatestInv ==
  ASSUME IInv, NEW r \in Request, ReadLatest(r)
  PROVE  IInv'
<1>1. job \in [Request -> Job] /\ job[r] \in Job /\ JobOK(r, job[r])
  BY DEF IInv, TypeOK
<1> DEFINE read == ReadTags(job[r].newest)
           step == IF job[r].newest = {} THEN "findOld" ELSE "tagVersions"
           new == [job[r] EXCEPT !.todo = read, !.pc = step]
<1>2. job[r].newest \in SUBSET Row
  BY <1>1 DEF Job, Row
<1>3. read \in SUBSET Snapshot /\ \A s \in read : s.tags \subseteq TagNames
  BY <1>2, ReadTagsType DEF IInv
<1>4. step \in {"findOld", "tagVersions"}
  OBVIOUS
<1>5. job' = [job EXCEPT ![r] = new]
  BY <1>1 DEF ReadLatest
<1> HIDE DEF read, step
<1>6. new \in Job /\ JobOK(r, new)
  BY <1>1, <1>3, <1>4 DEF Job, JobOK, Step, Idle, Tagging, BeforeTag, ReadLatest, At
<1> HIDE DEF new
<1> QED BY <1>5, <1>6, ReadStep DEF ReadLatest

\* The job with which the loop over the tables goes on.
Left(r) ==
  [job[r] EXCEPT !.table = NextTable[job[r].table],
                 !.pc = IF job[r].table = "measurement" THEN "findAssociated"
                        ELSE FirstStep(NextTable[job[r].table], job[r].input),
                 !.bases = {}, !.newest = {}, !.todo = {}, !.stale = {}]

LEMMA LeaveJob ==
  ASSUME TypeOK, NEW r \in Request, JobOK(r, job[r]), job[r].pc \in Tagging
  PROVE  /\ Left(r) \in Job
         /\ JobOK(r, Left(r))
         /\ Left(r).todo = {}
         /\ Left(r).pc \in Tagging \ {"findPublishedMeasurements", "setLastPublished"}
         /\ Left(r).name = job[r].name
         /\ LeaveTable(r) => job' = [job EXCEPT ![r] = Left(r)]
<1>1. job \in [Request -> Job] /\ job[r] \in Job
  BY DEF TypeOK
<1> DEFINE next == NextTable[job[r].table]
           step == IF job[r].table = "measurement" THEN "findAssociated"
                   ELSE FirstStep(next, job[r].input)
           new == [job[r] EXCEPT !.table = next, !.pc = step, !.bases = {},
                                 !.newest = {}, !.todo = {}, !.stale = {}]
<1>2. next \in Table
  BY <1>1 DEF Job, NextTable, Table, BaseOnlyModels, BaseAndVersionModels
<1>3. step \in {"findPlanVersions", "findAttachments", "findAssociated",
                "findRows"}
  BY DEF FirstStep
<1>4. LeaveTable(r) => job' = [job EXCEPT ![r] = new]
  BY <1>1 DEF LeaveTable
<1>5. Left(r) = new
  BY DEF Left
<1> HIDE DEF next, step
<1>6. new \in Job
  BY <1>1, <1>2, <1>3 DEF Job, Step
<1>7. /\ new.pc = step /\ new.input = job[r].input /\ new.name = job[r].name
      /\ new.todo = {}
  BY <1>1 DEF Job
<1> HIDE DEF new
<1>8. JobOK(r, new)
  BY <1>3, <1>7 DEF JobOK, Idle, Tagging, BeforeTag
<1> QED BY <1>3, <1>4, <1>5, <1>6, <1>7, <1>8 DEF Tagging, BeforeTag

LEMMA FindOldInv ==
  ASSUME IInv, NEW r \in Request, FindOld(r)
  PROVE  IInv'
<1>1. job \in [Request -> Job] /\ job[r] \in Job /\ JobOK(r, job[r])
  BY DEF IInv, TypeOK
<1> DEFINE old == {v \in VersionRow : /\ Exists(v)
                                      /\ v \notin job[r].newest
                                      /\ BaseOf[v] \in job[r].bases}
           new == [job[r] EXCEPT !.pc = "untagOld", !.stale = old]
<1>2. CASE LeaveTable(r)
  BY <1>1, <1>2, LeaveJob, ReadStep DEF FindOld, IInv, At, Tagging, BeforeTag
<1>3. CASE job' = [job EXCEPT ![r].pc = "untagOld", ![r].stale = old]
  <2>1. old \in SUBSET Row
    BY DEF Row
  <2>2. job' = [job EXCEPT ![r] = new]
    BY <1>1, <1>3
  <2> HIDE DEF old
  <2>3. new \in Job /\ JobOK(r, new)
    BY <1>1, <2>1 DEF Job, JobOK, Step, Idle, Tagging, BeforeTag, FindOld, At
  <2> HIDE DEF new
  <2> QED BY <2>2, <2>3, ReadStep DEF FindOld
<1> QED BY <1>2, <1>3 DEF FindOld

LEMMA FindAssociatedInv ==
  ASSUME IInv, NEW r \in Request, FindAssociated(r)
  PROVE  IInv'
<1>1. job \in [Request -> Job] /\ job[r] \in Job /\ JobOK(r, job[r])
  BY DEF IInv, TypeOK
<1>2. CASE End(r, "failed")
  BY <1>2, EndStep DEF FindAssociated
<1>3. ASSUME NEW v \in PlanVersion,
             job' = [job EXCEPT ![r].pc = "findPublishedPeriods",
                                ![r].version = v, ![r].period = lastPub[v]]
      PROVE  IInv'
  <2> DEFINE new == [job[r] EXCEPT !.pc = "findPublishedPeriods",
                                   !.version = v, !.period = lastPub[v]]
  <2>1. lastPub[v] \in Period \cup {None}
    BY DEF IInv, TypeOK
  <2>2. new \in Job /\ JobOK(r, new) /\ job' = [job EXCEPT ![r] = new]
    BY <1>1, <1>3, <2>1 DEF Job, JobOK, Step, Idle, Tagging, BeforeTag, FindAssociated, At
  <2> HIDE DEF new
  <2> QED BY <2>2, ReadStep DEF FindAssociated
<1> QED BY <1>2, <1>3 DEF FindAssociated

LEMMA FindPublishedPeriodsInv ==
  ASSUME IInv, NEW r \in Request, FindPublishedPeriods(r)
  PROVE  IInv'
<1>1. job \in [Request -> Job] /\ job[r] \in Job /\ JobOK(r, job[r])
  BY DEF IInv, TypeOK
<1>2. CASE End(r, "done")
  BY <1>2, EndStep DEF FindPublishedPeriods
<1>3. ASSUME NEW highest \in generated,
             job' = [job EXCEPT ![r].pc = "findPublishedMeasurements",
                                ![r].period = highest]
      PROVE  IInv'
  <2> DEFINE new == [job[r] EXCEPT !.pc = "findPublishedMeasurements",
                                   !.period = highest]
  <2>1. highest \in Period
    BY DEF IInv, TypeOK
  <2>2. new \in Job /\ JobOK(r, new) /\ job' = [job EXCEPT ![r] = new]
    BY <1>1, <1>3, <2>1 DEF Job, JobOK, Step, Idle, Tagging, BeforeTag,
       FindPublishedPeriods, At
  <2> HIDE DEF new
  <2> QED BY <2>2, ReadStep DEF FindPublishedPeriods
<1> QED BY <1>2, <1>3 DEF FindPublishedPeriods, HighestPeriods

LEMMA FindPublishedMeasurementsInv ==
  ASSUME IInv, NEW r \in Request, FindPublishedMeasurements(r)
  PROVE  IInv'
<1>1. job \in [Request -> Job] /\ job[r] \in Job /\ JobOK(r, job[r])
  BY DEF IInv, TypeOK
<1>2. CASE End(r, "done")
  BY <1>2, EndStep DEF FindPublishedMeasurements
<1>3. CASE Goto(r, "setLastPublished") /\ HasPublishedMeasurement(job[r].period)
  <2> DEFINE new == [job[r] EXCEPT !.pc = "setLastPublished"]
  <2>1. new \in Job /\ JobOK(r, new) /\ job' = [job EXCEPT ![r] = new]
    BY <1>1, <1>3 DEF Job, JobOK, Step, Idle, Tagging, BeforeTag, Goto,
       FindPublishedMeasurements, At
  <2> HIDE DEF new
  <2> QED BY <2>1, ReadStep DEF FindPublishedMeasurements
<1> QED BY <1>2, <1>3 DEF FindPublishedMeasurements

LEMMA FailInv ==
  ASSUME IInv, NEW r \in Request, Fail(r)
  PROVE  IInv'
BY EndStep DEF Fail

-----------------------------------------------------------------------------
(* The writing steps.                                                      *)

\* What is never taken back: tags of the plan, measurements that are generated
\* or published.
Kept ==
  /\ TagNames \subseteq TagNames'
  /\ generated \subseteq generated'
  /\ \A p \in Period : HasPublishedMeasurement(p) => HasPublishedMeasurement(p)'

LEMMA StableJobs ==
  ASSUME IInv, NEW S \in SUBSET Request, Kept,
         \A s \in S : job'[s] = job[s] /\ planTag'[s] = planTag[s]
  PROVE  \A s \in S : JobOK(s, job[s])'
<1>1. \A s \in S : JobOK(s, job[s]) /\ generated \subseteq Period
  BY DEF IInv, TypeOK
<1> QED BY <1>1 DEF JobOK, Kept

LEMMA KeptWhenTagsGrow ==
  ASSUME TypeOK, UNCHANGED <<planTag, generated>>,
         \A b \in BaseRow : Exists(b) => Exists(b)',
         \A b \in BaseRow : tags[b] # {} => tags'[b] # {}
  PROVE  Kept /\ TagNames' = TagNames
BY DEF Kept, TagNames, PlanTags, HasPublishedMeasurement, Measurement

LEMMA SetCurrentPeriodInv ==
  ASSUME IInv, NEW r \in Request, SetCurrentPeriod(r)
  PROVE  IInv'
<1>1. job \in [Request -> Job] /\ job[r] \in Job /\ JobOK(r, job[r])
  BY DEF IInv, TypeOK
<1> DEFINE new == [job[r] EXCEPT !.pc = "endRevision"]
<1>2. new \in Job /\ JobOK(r, new) /\ job' = [job EXCEPT ![r] = new]
  BY <1>1 DEF Job, JobOK, Step, Idle, Tagging, BeforeTag, SetCurrentPeriod, At, Goto
<1>3. job[r].period \in Period \cup {None}
  BY <1>1 DEF Job
<1> HIDE DEF new
<1>4. TypeOK'
  BY <1>2, <1>3 DEF IInv, TypeOK, SetCurrentPeriod, editVars, rowVars
<1>5. \A p : HasPublishedMeasurement(p)' = HasPublishedMeasurement(p)
  BY DEF HasPublishedMeasurement, Exists, editVars, rowVars, SetCurrentPeriod
<1>6. TagNames' = TagNames
  BY DEF TagNames, PlanTags, SetCurrentPeriod
<1>7. \A s \in Request : JobOK(s, job[s])'
  BY <1>2, <1>5, <1>6 DEF IInv, TypeOK, JobOK, editVars, SetCurrentPeriod
<1>8. NoPhantomTags' /\ LastPublishedIsPublished'
  BY <1>5, <1>6 DEF IInv, NoPhantomTags, LastPublishedIsPublished, editVars,
     rowVars, SetCurrentPeriod
<1> QED BY <1>4, <1>7, <1>8 DEF IInv

LEMMA EndRevisionInv ==
  ASSUME IInv, NEW r \in Request, EndRevision(r)
  PROVE  IInv'
<1>1. job \in [Request -> Job] /\ job[r] \in Job /\ JobOK(r, job[r])
  BY DEF IInv, TypeOK
<1> DEFINE new == [job[r] EXCEPT !.pc = "getNextTag", !.version = None,
                                 !.period = None]
<1>2. new \in Job /\ JobOK(r, new) /\ job' = [job EXCEPT ![r] = new]
  BY <1>1 DEF Job, JobOK, Step, Idle, Tagging, BeforeTag, EndRevision, At
<1> HIDE DEF new
<1>4. TypeOK'
  <2>1. job' \in [Request -> Job]
    BY <1>1, <1>2
  <2> QED BY <2>1 DEF IInv, TypeOK, EndRevision, editVars, rowVars
<1>5. \A p : HasPublishedMeasurement(p)' = HasPublishedMeasurement(p)
  BY DEF HasPublishedMeasurement, Exists, editVars, rowVars, EndRevision
<1>6. TagNames' = TagNames
  BY DEF TagNames, PlanTags, EndRevision
<1>7. \A s \in Request : JobOK(s, job[s])'
  BY <1>2, <1>5, <1>6 DEF IInv, TypeOK, JobOK, editVars, EndRevision
<1>8. NoPhantomTags' /\ LastPublishedIsPublished'
  BY <1>5, <1>6 DEF IInv, NoPhantomTags, LastPublishedIsPublished, editVars,
     rowVars, EndRevision
<1> QED BY <1>4, <1>7, <1>8 DEF IInv

LEMMA CreateTagInv ==
  ASSUME IInv, NEW r \in Request, CreateTag(r)
  PROVE  IInv'
<1>1. job \in [Request -> Job] /\ job[r] \in Job /\ JobOK(r, job[r])
  BY DEF IInv, TypeOK
<1> DEFINE new == [job[r] EXCEPT !.pc = "findRows"]
           row == [name |-> job[r].name, createdAt |-> now]
<1>2. job[r].pc = "createTag" /\ job[r].name \in Name /\ planTag[r] = None
  BY <1>1 DEF CreateTag, At, JobOK, BeforeTag
<1>3. new \in Job /\ job' = [job EXCEPT ![r] = new]
  BY <1>1 DEF Job, Step, CreateTag, Goto
<1>4. /\ new.pc = "findRows" /\ new.name = job[r].name
      /\ new.input = job[r].input /\ new.todo = job[r].todo
  BY <1>1 DEF Job
<1>5. row \in TagRow /\ row # None /\ row.name = job[r].name
  BY <1>2, NoneAssumption DEF TagRow, IInv, TypeOK
<1>6. planTag' = [planTag EXCEPT ![r] = row]
  BY DEF CreateTag
<1> HIDE DEF new, row
<1>7. TypeOK'
  BY <1>3, <1>5, <1>6 DEF IInv, TypeOK, CreateTag, editVars, rowVars, planVars
<1>8. TagNames \subseteq TagNames'
  BY <1>2, <1>6 DEF TagNames, PlanTags, IInv, TypeOK
<1>9. \A p : HasPublishedMeasurement(p)' = HasPublishedMeasurement(p)
  BY DEF HasPublishedMeasurement, Exists, editVars, rowVars, CreateTag
<1>10. Kept
  BY <1>8, <1>9 DEF Kept, CreateTag, editVars
<1>11. \A s \in Request \ {r} : JobOK(s, job[s])'
  BY <1>3, <1>6, <1>10, StableJobs DEF IInv, TypeOK
<1>12. JobOK(r, job[r])'
  <2>1. job'[r] = new /\ planTag'[r] = row
    BY <1>3, <1>6 DEF IInv, TypeOK
  <2>2. \A s \in job[r].todo : s.tags \subseteq TagNames'
    BY <1>1, <1>8 DEF JobOK
  <2> QED BY <1>1, <1>2, <1>4, <1>5, <2>1, <2>2 DEF JobOK, Tagging, BeforeTag, Idle
<1>13. NoPhantomTags' /\ LastPublishedIsPublished'
  BY <1>8, <1>9 DEF IInv, NoPhantomTags, LastPublishedIsPublished, editVars,
     rowVars, planVars, CreateTag
<1> QED BY <1>7, <1>11, <1>12, <1>13 DEF IInv

LEMMA TagGroupInv ==
  ASSUME IInv, NEW r \in Request,
         NEW here \in {"tagRows", "tagVersions"},
         NEW after \in {"untagRows", "findOld"},
         TagGroup(r, here, after)
  PROVE  IInv'
<1>1. job \in [Request -> Job] /\ job[r] \in Job /\ JobOK(r, job[r])
  BY DEF IInv, TypeOK
<1>2a. PICK first \in job[r].todo : \E group \in Groups(r, first) :
           /\ WriteTags(r, {s.row : s \in group}, first.tags)
           /\ job' = [job EXCEPT ![r].todo = @ \ group,
                                 ![r].pc = IF job[r].todo \ group = {}
                                             THEN after ELSE here]
  BY DEF TagGroup
<1>2. PICK group \in Groups(r, first) :
         /\ WriteTags(r, {s.row : s \in group}, first.tags)
         /\ job' = [job EXCEPT ![r].todo = @ \ group,
                               ![r].pc = IF job[r].todo \ group = {}
                                           THEN after ELSE here]
  BY <1>2a
<1> DEFINE rows == {s.row : s \in group}
           rest == job[r].todo \ group
           step == IF rest = {} THEN after ELSE here
           new == [job[r] EXCEPT !.todo = rest, !.pc = step]
<1>3. job[r].pc = here /\ job[r].name \in Name /\ planTag[r] # None
      /\ planTag[r].name = job[r].name /\ job[r].input \in Inputs
  BY <1>1 DEF TagGroup, At, JobOK, Tagging, Idle
<1>4. /\ tags' = [x \in Row |-> IF x \in rows
                                THEN first.tags \cup {job[r].name} ELSE tags[x]]
      /\ latestTagged' = [x \in Row |-> x \in rows \/ latestTagged[x]]
  BY <1>2 DEF WriteTags
<1>5. job' = [job EXCEPT ![r] = new]
  BY <1>1, <1>2
<1>6. rest \subseteq job[r].todo /\ step \in {here, after}
  OBVIOUS
<1>7. first.tags \subseteq TagNames /\ first.tags \subseteq Name
  BY <1>1 DEF JobOK, Job, Snapshot
<1>8. job[r].name \in TagNames
  BY <1>3 DEF TagNames, PlanTags
<1>9. UNCHANGED <<now, editVars, planVars, planTag>>
  BY DEF TagGroup
<1> HIDE DEF rows, rest, step
<1>10. new \in Job
  BY <1>1, <1>6 DEF Job, Step
<1>11. /\ new.pc = step /\ new.name = job[r].name /\ new.input = job[r].input
       /\ new.todo = rest
  BY <1>1 DEF Job
<1> HIDE DEF new
<1>12. TypeOK'
  BY <1>3, <1>4, <1>5, <1>7, <1>9, <1>10 DEF IInv, TypeOK, editVars, planVars
<1>13. Kept /\ TagNames' = TagNames
  <2>1. \A b \in BaseRow : tags[b] # {} => tags'[b] # {}
    BY <1>4, TableSets
  <2>2. \A b \in BaseRow : Exists(b) => Exists(b)'
    BY <1>9 DEF Exists, editVars
  <2> QED BY <1>9, <2>1, <2>2, KeptWhenTagsGrow DEF IInv, editVars
<1>14. \A s \in Request \ {r} : JobOK(s, job[s])'
  BY <1>5, <1>9, <1>13, StableJobs DEF IInv, TypeOK
<1>15. JobOK(r, job[r])'
  <2>1. job'[r] = new /\ planTag'[r] = planTag[r]
    BY <1>1, <1>5, <1>9
  <2>2. \A s \in rest : s.tags \subseteq TagNames'
    BY <1>1, <1>6, <1>13 DEF JobOK
  <2> QED BY <1>3, <1>6, <1>11, <2>1, <2>2 DEF JobOK, Tagging, BeforeTag, Idle
<1>16. NoPhantomTags'
  <2>1. \A x \in Row : tags'[x] \subseteq TagNames
    BY <1>4, <1>7, <1>8 DEF IInv, NoPhantomTags
  <2> QED BY <1>13, <2>1 DEF NoPhantomTags
<1>17. LastPublishedIsPublished'
  BY <1>9, <1>13 DEF IInv, TypeOK, LastPublishedIsPublished, planVars, Kept
<1> QED BY <1>12, <1>14, <1>15, <1>16, <1>17 DEF IInv

\* Clearing latestTagged of some rows and moving r on.
LEMMA ClearStep ==
  ASSUME IInv, NEW r \in Request, NEW new, NEW rows,
         new \in Job, JobOK(r, new), job' = [job EXCEPT ![r] = new],
         ClearLatest(rows), UNCHANGED <<now, editVars, tags, planVars, planTag>>
  PROVE  IInv'
<1>1. latestTagged' \in [Row -> BOOLEAN]
  BY DEF ClearLatest, IInv, TypeOK
<1>2. TypeOK'
  BY <1>1 DEF IInv, TypeOK, editVars, planVars
<1>3. \A p : HasPublishedMeasurement(p)' = HasPublishedMeasurement(p)
  BY DEF HasPublishedMeasurement, Exists, editVars
<1>4. TagNames' = TagNames
  BY DEF TagNames, PlanTags
<1>5. \A s \in Request : JobOK(s, job[s])'
  BY <1>3, <1>4 DEF IInv, TypeOK, JobOK, editVars
<1>6. NoPhantomTags' /\ LastPublishedIsPublished'
  BY <1>3, <1>4 DEF IInv, NoPhantomTags, LastPublishedIsPublished, editVars,
     planVars
<1> QED BY <1>2, <1>5, <1>6 DEF IInv

LEMMA UntagRowsInv ==
  ASSUME IInv, NEW r \in Request, UntagRows(r)
  PROVE  IInv'
<1>1. job \in [Request -> Job] /\ job[r] \in Job /\ JobOK(r, job[r])
  BY DEF IInv, TypeOK
<1>2. CASE LeaveTable(r)
  BY <1>1, <1>2, LeaveJob, ClearStep DEF UntagRows, IInv, At, Tagging
<1>3. CASE job' = [job EXCEPT ![r].pc = "findVersions", ![r].stale = {}]
  <2> DEFINE new == [job[r] EXCEPT !.pc = "findVersions", !.stale = {}]
  <2>1. new \in Job /\ JobOK(r, new) /\ job' = [job EXCEPT ![r] = new]
    BY <1>1, <1>3 DEF Job, JobOK, Step, Idle, Tagging, BeforeTag, UntagRows, At
  <2> HIDE DEF new
  <2> QED BY <2>1, ClearStep DEF UntagRows
<1> QED BY <1>2, <1>3 DEF UntagRows

LEMMA UntagOldInv ==
  ASSUME IInv, NEW r \in Request, UntagOld(r)
  PROVE  IInv'
<1>1. job \in [Request -> Job] /\ job[r] \in Job /\ JobOK(r, job[r])
  BY DEF IInv, TypeOK
<1>2. PICK chunk \in Chunks(r) :
        /\ ClearLatest(chunk)
        /\ IF chunk = job[r].stale
             THEN LeaveTable(r)
             ELSE job' = [job EXCEPT ![r].stale = @ \ chunk]
  BY DEF UntagOld
<1>3. CASE LeaveTable(r)
  BY <1>1, <1>2, <1>3, LeaveJob, ClearStep DEF UntagOld, IInv, At, Tagging
<1>4. CASE job' = [job EXCEPT ![r].stale = @ \ chunk]
  <2> DEFINE new == [job[r] EXCEPT !.stale = @ \ chunk]
  <2>1. new \in Job /\ JobOK(r, new) /\ job' = [job EXCEPT ![r] = new]
    BY <1>1, <1>4 DEF Job, JobOK
  <2> HIDE DEF new
  <2> QED BY <1>2, <2>1, ClearStep DEF UntagOld
<1> QED BY <1>2, <1>3, <1>4

LEMMA SetLastPublishedInv ==
  ASSUME IInv, NEW r \in Request, SetLastPublished(r)
  PROVE  IInv'
<1>1. job \in [Request -> Job] /\ job[r] \in Job /\ JobOK(r, job[r])
  BY DEF IInv, TypeOK
<1>2. /\ job[r].period \in generated
      /\ HasPublishedMeasurement(job[r].period)
      /\ job[r].period \in Period
  BY <1>1 DEF SetLastPublished, At, JobOK, IInv, TypeOK
<1>3. /\ Ended(r, "done") \in Job /\ JobOK(r, Ended(r, "done"))
      /\ job' = [job EXCEPT ![r] = Ended(r, "done")]
  BY EndJob DEF SetLastPublished, End, Ended, IInv
<1>4. TypeOK'
  BY <1>2, <1>3 DEF IInv, TypeOK, SetLastPublished, editVars, rowVars
<1>5. \A p : HasPublishedMeasurement(p)' = HasPublishedMeasurement(p)
  BY DEF HasPublishedMeasurement, Exists, editVars, rowVars, SetLastPublished
<1>6. TagNames' = TagNames
  BY DEF TagNames, PlanTags, SetLastPublished
<1>7. \A s \in Request : JobOK(s, job[s])'
  BY <1>3, <1>5, <1>6 DEF IInv, TypeOK, JobOK, editVars, SetLastPublished
<1>8. NoPhantomTags'
  BY <1>6 DEF IInv, NoPhantomTags, rowVars, SetLastPublished
<1>9. LastPublishedIsPublished'
  BY <1>2, <1>5 DEF IInv, TypeOK, LastPublishedIsPublished, editVars,
     SetLastPublished
<1> QED BY <1>4, <1>7, <1>8, <1>9 DEF IInv

LEMMA PublishPlanInv ==
  ASSUME IInv, NEW r \in Request, PublishPlan(r)
  PROVE  IInv'
<1>1. job \in [Request -> Job] /\ job[r] \in Job /\ JobOK(r, job[r])
  BY DEF IInv, TypeOK
<1>2. PICK input \in Inputs :
        job' = [job EXCEPT ![r].pc = "findPeriods", ![r].input = input]
  BY DEF PublishPlan
<1> DEFINE new == [job[r] EXCEPT !.pc = "findPeriods", !.input = input]
<1>3. new \in Job /\ JobOK(r, new) /\ job' = [job EXCEPT ![r] = new]
  BY <1>1, <1>2 DEF Job, JobOK, Step, Idle, Tagging, BeforeTag, PublishPlan, At
<1> HIDE DEF new
<1>4. TypeOK'
  <2>1. now' \in Nat /\ UNCHANGED <<editVars, rowVars, planVars, planTag>>
    BY DEF PublishPlan, IInv, TypeOK
  <2> QED BY <1>3, <2>1 DEF IInv, TypeOK, editVars, rowVars, planVars
<1>5. \A p : HasPublishedMeasurement(p)' = HasPublishedMeasurement(p)
  BY DEF HasPublishedMeasurement, Exists, editVars, rowVars, PublishPlan
<1>6. TagNames' = TagNames
  BY DEF TagNames, PlanTags, PublishPlan
<1>7. \A s \in Request : JobOK(s, job[s])'
  BY <1>3, <1>5, <1>6 DEF IInv, TypeOK, JobOK, editVars, PublishPlan
<1>8. NoPhantomTags' /\ LastPublishedIsPublished'
  BY <1>5, <1>6 DEF IInv, NoPhantomTags, LastPublishedIsPublished, editVars,
     rowVars, planVars, PublishPlan
<1> QED BY <1>4, <1>7, <1>8 DEF IInv

LEMMA WorkInv ==
  ASSUME IInv, NEW r \in Request, Work(r)
  PROVE  IInv'
<1>1. CASE TagRows(r)
  BY <1>1, TagGroupInv DEF TagRows
<1>2. CASE TagVersions(r)
  BY <1>2, TagGroupInv DEF TagVersions
<1> QED
  BY <1>1, <1>2, FindPeriodsInv, FindLatestVersionInv, SetCurrentPeriodInv,
     EndRevisionInv, GetNextTagInv, CreateTagInv, FindRowsInv,
     FindAttachmentsInv, FindMeasurementsInv, UntagRowsInv, FindVersionsInv,
     FindPlanVersionsInv, ReadLatestInv, FindOldInv, UntagOldInv,
     FindAssociatedInv, FindPublishedPeriodsInv, FindPublishedMeasurementsInv,
     SetLastPublishedInv DEF Work

-----------------------------------------------------------------------------
(* The steps of the editors.                                               *)

\* Edits leave the requests, the tags of rows and the tags of the plan alone.
LEMMA EditKeeps ==
  ASSUME IInv, UNCHANGED <<rowVars, planTag, job>>,
         generated \subseteq generated',
         \A b \in BaseRow : Exists(b) => Exists(b)'
  PROVE  /\ Kept
         /\ NoPhantomTags'
         /\ \A r \in Request : JobOK(r, job[r])'
<1>1. TagNames' = TagNames
  BY DEF TagNames, PlanTags
<1>2. Kept
  BY <1>1 DEF Kept, HasPublishedMeasurement, Measurement, rowVars
<1>3. NoPhantomTags'
  BY <1>1 DEF IInv, NoPhantomTags, rowVars
<1> QED BY <1>2, <1>3, StableJobs

\* A row that is inserted exists from then on.
LEMMA InsertKeeps ==
  ASSUME TypeOK, NEW x \in Row, createdAt' = [createdAt EXCEPT ![x] = now]
  PROVE  /\ createdAt' \in [Row -> Nat \cup {None}]
         /\ \A b \in BaseRow : Exists(b) => Exists(b)'
BY NoneAssumption, TableSets DEF TypeOK, Exists

LEMMA EditInv ==
  ASSUME IInv, Edit
  PROVE  IInv'
<1>1. CASE Tick
  <2>1. TypeOK' /\ UNCHANGED <<rowVars, planVars, planTag, job, createdAt, generated>>
    BY <1>1 DEF Tick, IInv, TypeOK, editVars, rowVars, planVars
  <2>2. LastPublishedIsPublished'
    BY <2>1, EditKeeps DEF Exists, IInv, TypeOK, LastPublishedIsPublished,
       HasPublishedMeasurement, rowVars, planVars
  <2> QED BY <2>1, <2>2, EditKeeps DEF IInv, Exists
<1>2. ASSUME NEW b \in BaseRow, InsertBaseRow(b)
      PROVE  IInv'
  <2>1. TypeOK' /\ \A c \in BaseRow : Exists(c) => Exists(c)'
    BY <1>2, InsertKeeps, TableSets DEF InsertBaseRow, IInv, TypeOK, rowVars, planVars
  <2>2. LastPublishedIsPublished'
    BY <1>2, <2>1, EditKeeps DEF InsertBaseRow, IInv, TypeOK, Kept,
       LastPublishedIsPublished, planVars
  <2> QED BY <1>2, <2>1, <2>2, EditKeeps DEF IInv, InsertBaseRow
<1>3. ASSUME NEW b \in Deletable, SoftDelete(b)
      PROVE  IInv'
  <2>1. TypeOK' /\ \A c \in BaseRow : Exists(c) => Exists(c)'
    BY <1>3 DEF SoftDelete, IInv, TypeOK, Exists, rowVars, planVars
  <2>2. LastPublishedIsPublished'
    BY <1>3, <2>1, EditKeeps DEF SoftDelete, IInv, TypeOK, Kept,
       LastPublishedIsPublished, planVars
  <2> QED BY <1>3, <2>1, <2>2, EditKeeps DEF IInv, SoftDelete
<1>4. ASSUME NEW v \in VersionRow, InsertVersion(v)
      PROVE  IInv'
  <2>1. TypeOK' /\ \A c \in BaseRow : Exists(c) => Exists(c)'
    BY <1>4, InsertKeeps, TableSets DEF InsertVersion, IInv, TypeOK, rowVars, planVars
  <2>2. LastPublishedIsPublished'
    BY <1>4, <2>1, EditKeeps DEF InsertVersion, IInv, TypeOK, Kept,
       LastPublishedIsPublished, planVars
  <2> QED BY <1>4, <2>1, <2>2, EditKeeps DEF IInv, InsertVersion
<1>5. ASSUME NEW v \in PlanVersion, InsertPlanVersion(v)
      PROVE  IInv'
  <2>1. \A c \in BaseRow : Exists(c) => Exists(c)'
    BY <1>5, InsertKeeps, TableSets DEF InsertPlanVersion, IInv
  <2>2. \A w \in PlanVersion : lastPub'[w] \in {lastPub[u] : u \in PlanVersion}
    BY <1>5 DEF InsertPlanVersion, IInv, TypeOK
  <2>3. TypeOK'
    <3>1. createdAt' \in [Row -> Nat \cup {None}]
      BY <1>5, InsertKeeps, TableSets DEF InsertPlanVersion, IInv
    <3>2. /\ curPeriod' \in [PlanVersion -> Period \cup {None}]
          /\ lastPub' \in [PlanVersion -> Period \cup {None}]
      BY <1>5 DEF InsertPlanVersion, IInv, TypeOK
    <3> QED BY <1>5, <3>1, <3>2 DEF InsertPlanVersion, IInv, TypeOK, rowVars
  <2>4. LastPublishedIsPublished'
    BY <1>5, <2>1, <2>2, EditKeeps DEF InsertPlanVersion, IInv, TypeOK, Kept,
       LastPublishedIsPublished
  <2> QED BY <1>5, <2>1, <2>3, <2>4, EditKeeps DEF IInv, InsertPlanVersion
<1>6. ASSUME NEW p \in Period, AddPeriod(p) \/ GenerateMeasurements(p)
      PROVE  IInv'
  <2>1. TypeOK' /\ generated \subseteq generated'
        /\ \A c \in BaseRow : Exists(c) => Exists(c)'
    BY <1>6 DEF AddPeriod, GenerateMeasurements, IInv, TypeOK, Exists, rowVars,
       planVars
  <2>2. UNCHANGED <<rowVars, planVars, planTag, job>>
    BY <1>6 DEF AddPeriod, GenerateMeasurements
  <2>3. LastPublishedIsPublished'
    BY <2>1, <2>2, EditKeeps DEF IInv, TypeOK, Kept, LastPublishedIsPublished,
       planVars
  <2> QED BY <2>1, <2>2, <2>3, EditKeeps DEF IInv
<1> QED BY <1>1, <1>2, <1>3, <1>4, <1>5, <1>6 DEF Edit

LEMMA StutterInv == IInv /\ UNCHANGED vars => IInv'
<1> SUFFICES ASSUME IInv, UNCHANGED vars PROVE IInv'
  OBVIOUS
<1>1. UNCHANGED <<rowVars, planVars, planTag, job, createdAt, generated>>
  BY DEF vars, editVars
<1>2. TypeOK'
  BY DEF IInv, TypeOK, vars, editVars, rowVars, planVars
<1>3. LastPublishedIsPublished'
  BY <1>1, EditKeeps DEF Exists, IInv, TypeOK, LastPublishedIsPublished, Kept,
     planVars
<1> QED BY <1>1, <1>2, <1>3, EditKeeps DEF IInv, Exists

LEMMA NextIInv == IInv /\ [Next]_vars => IInv'
BY WorkInv, PublishPlanInv, FailInv, EditInv, StutterInv DEF Next

-----------------------------------------------------------------------------
\* In every reachable state of the publication of a plan, with any number of
\* requests, rows and periods, the tables and the local variables of
\* createPlanTag have their types.
THEOREM TypeCorrect == Spec => []TypeOK
<1>1. IInv => TypeOK
  BY DEF IInv
<1> QED BY <1>1, InitIInv, NextIInv, PTL DEF Spec

\* However publications overlap and stop, updateVersionStates never writes a
\* tag into a row that is not the name of a planTag row of the plan.
THEOREM NoPhantomTagsHolds == Spec => []NoPhantomTags
<1>1. IInv => NoPhantomTags
  BY DEF IInv
<1> QED BY <1>1, InitIInv, NextIInv, PTL DEF Spec

\* What updateLastPublishedReportingPeriodId stored always has generated
\* measurements, one of them published, although it checks both in statements
\* of their own.
THEOREM LastPublishedIsPublishedHolds == Spec => []LastPublishedIsPublished
<1>1. IInv => LastPublishedIsPublished
  BY DEF IInv
<1> QED BY <1>1, InitIInv, NextIInv, PTL DEF Spec
=============================================================================
