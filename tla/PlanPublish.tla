---------------------------- MODULE PlanPublish -----------------------------
(***************************************************************************)
(* The publishPlan mutation: PlanTagService.createPlanTag and everything   *)
(* it calls.  The code opens no transaction, so every awaited model call   *)
(* is one action here, and between two of them other requests and the      *)
(* editors of the plan (another service over the same tables) may write.   *)
(* What the code computes between two awaits belongs to the action of the  *)
(* first one.  A request may stop for good at any await: a rejected query, *)
(* a dropped connection, a restart of the server.                          *)
(***************************************************************************)
EXTENDS PlanSchema

VARIABLES
  now,           \* the database clock, in the resolution of createdAt
  createdAt,     \* creation time of every base and version row, None: absent
  deletedAt,     \* soft deletion time of every base row
  tags,          \* versionTags of every base and version row
  latestTagged,  \* latestTaggedVersion and currentVersion of every row
  latestVersion, \* planVersion.latestVersion
  curPeriod,     \* planVersion.currentReportingPeriodId
  lastPub,       \* planVersion.lastPublishedReportingPeriodId
  periods,       \* planReportingPeriod rows of the plan
  generated,     \* those with measurementsGenerated
  inRevision,    \* plan.revisionState is not 'none'
  planTag,       \* the planTag row each request created
  job            \* the local variables of each request

editVars == <<createdAt, deletedAt, latestVersion, periods, generated>>
rowVars  == <<tags, latestTagged>>
planVars == <<inRevision, curPeriod, lastPub>>
vars == <<now, editVars, rowVars, planVars, planTag, job>>

Idle == {"idle", "done", "failed"}
Step == Idle \cup
  {"findPeriods", "findLatestVersion", "setCurrentPeriod", "endRevision",
   "getNextTag", "createTag", "findRows", "tagRows", "untagRows",
   "findVersions", "readLatest", "tagVersions", "findOld", "untagOld",
   "findPlanVersions", "findAttachments", "findMeasurements",
   "findAssociated", "findPublishedPeriods", "findPublishedMeasurements",
   "setLastPublished"}

Snapshot == [row : Row, tags : SUBSET Name]

Job ==
  [pc      : Step,
   table   : Table,                  \* the table updateVersionStates is at
   input   : Inputs \cup {None},
   version : PlanVersion \cup {None},
   period  : Period \cup {None},
   name    : Name \cup {None},
   bases   : SUBSET Base,            \* the base rows found
   newest  : SUBSET VersionRow,      \* latestVersionIds
   todo    : SUBSET Snapshot,        \* rows read and still to be tagged
   stale   : SUBSET Row]             \* inactiveRows, then oldVersions

NoJob ==
  [pc |-> "idle", table |-> "planLocation", input |-> None, version |-> None,
   period |-> None, name |-> None, bases |-> {}, newest |-> {}, todo |-> {},
   stale |-> {}]

Init ==
  /\ now = 1
  /\ createdAt = [x \in Row |-> IF x \in InitialRow THEN 0 ELSE None]
  /\ deletedAt = [b \in BaseRow |-> None]
  /\ tags = [x \in Row |-> {}]
  /\ latestTagged = [x \in Row |-> FALSE]
  /\ latestVersion =
       [v \in PlanVersion |-> /\ v \in InitialRow
                              /\ \A w \in PlanVersion \cap InitialRow : w <= v]
  /\ curPeriod = [v \in PlanVersion |-> None]
  /\ lastPub = [v \in PlanVersion |-> None]
  /\ periods = InitialPeriod
  /\ generated = {}
  /\ inRevision = TRUE
  /\ planTag = [r \in Request |-> None]
  /\ job = [r \in Request |-> NoJob]

-----------------------------------------------------------------------------
(* Reading the tables.                                                     *)

Exists(x) == createdAt[x] # None
ExistsSince(x, t) == Exists(x) /\ createdAt[x] <= t
PlanTags == {planTag[r] : r \in Request} \ {None}
TagNames == {t.name : t \in PlanTags}

\* Mutant: a row deleted after the tag counts as deleted.
IsActive_DeletedAtAll(b, t) == TableOf[b] = "planYear" \/ deletedAt[b] = None

\* A row counts as active for a tag unless it was deleted by then.
IsActive(b, t) ==
  \/ TableOf[b] = "planYear"     \* noLongerParanoidTables
  \/ deletedAt[b] = None
  \/ deletedAt[b] > t

\* Rows that ORDER BY periodNumber ASC may put first; null sorts last.
FirstPeriods(P) ==
  {p \in P : \A q \in P :
     \/ PeriodNumber[q] = NoNumber
     \/ PeriodNumber[p] # NoNumber /\ PeriodNumber[p] <= PeriodNumber[q]}

\* The reduce over periodNumber ?? -1: an equal number does not replace.
HighestPeriods(P) ==
  {p \in P : \A q \in P : PeriodNumber[q] <= PeriodNumber[p]}

\* The tag rows that ORDER BY createdAt DESC may put first.
LatestTags == {t \in PlanTags : \A u \in PlanTags : u.createdAt <= t.createdAt}
LatestNames ==
  IF PlanTags = {} THEN {<<0, 0>>} ELSE {t.name : t \in LatestTags}

\* Mutant: a major tag does not advance the major number.
NextName_NoMajorStep(name, major) ==
  IF major THEN <<name[1], 0>> ELSE <<name[1], name[2] + 1>>

NextName(name, major) ==
  IF major THEN <<name[1] + 1, 0>> ELSE <<name[1], name[2] + 1>>

ReadTags(rows) == {[row |-> x, tags |-> tags[x]] : x \in rows}

-----------------------------------------------------------------------------
(* Control: the step a request takes next.                                 *)

At(r, step) == job[r].pc = step
Running(r) == job[r].pc \notin Idle
TagTime(r) == planTag[r].createdAt

Goto(r, step) == job' = [job EXCEPT ![r].pc = step]

\* The request's promise settles and its local variables are gone; the
\* input and the name are kept for the properties.
End(r, outcome) ==
  job' = [job EXCEPT ![r] = [NoJob EXCEPT !.pc = outcome,
                                          !.input = job[r].input,
                                          !.name = job[r].name]]

\* The loops of updateVersionStates, table after table.
NextTable ==
  [planLocation |-> "planYear", planYear |-> "attachment",
   attachment |-> "governingEntity", governingEntity |-> "planEntity",
   planEntity |-> "planVersion", planVersion |-> "measurement",
   measurement |-> "measurement"]

FirstStep(table, input) ==
  CASE table = "planVersion" -> "findPlanVersions"
    [] table = "measurement" ->
         IF input.publishMeasurements THEN "findAttachments"
                                      ELSE "findAssociated"
    [] OTHER -> "findRows"

LeaveTable(r) ==
  LET next == NextTable[job[r].table] IN
    job' = [job EXCEPT ![r].table = next,
                       ![r].pc = IF job[r].table = "measurement"
                                   THEN "findAssociated"
                                   ELSE FirstStep(next, job[r].input),
                       ![r].bases = {}, ![r].newest = {},
                       ![r].todo = {}, ![r].stale = {}]

-----------------------------------------------------------------------------
(* setPlanReportingPeriod and the start of createPlanTag.                  *)

\* A request arrives.  Two requests never arrive in the same millisecond.
PublishPlan(r) ==
  /\ At(r, "idle")
  /\ \A s \in Request : Running(s) => {r, s} \cap Lone = {}
  /\ \E input \in Inputs :
       job' = [job EXCEPT ![r].pc = "findPeriods", ![r].input = input]
  /\ now' = now + 1
  /\ UNCHANGED <<editVars, rowVars, planVars, planTag>>

FindPeriods(r) ==
  /\ At(r, "findPeriods")
  /\ IF periods = {}
       THEN End(r, "failed")     \* 'Cannot activate planTag if ...'
       ELSE \E p \in FirstPeriods(periods) :
              job' = [job EXCEPT ![r].pc = "findLatestVersion",
                                 ![r].period = p]
  /\ UNCHANGED <<now, editVars, rowVars, planVars, planTag>>

FindLatestVersion(r) ==
  /\ At(r, "findLatestVersion")
  /\ LET latest == {v \in PlanVersion : Exists(v) /\ latestVersion[v]} IN
       \/ /\ latest = {}
          /\ Goto(r, "endRevision")
       \/ \E v \in latest :
            IF curPeriod[v] = None
              THEN job' = [job EXCEPT ![r].pc = "setCurrentPeriod",
                                      ![r].version = v]
              ELSE Goto(r, "endRevision")
  /\ UNCHANGED <<now, editVars, rowVars, planVars, planTag>>

SetCurrentPeriod(r) ==
  /\ At(r, "setCurrentPeriod")
  /\ curPeriod' = [curPeriod EXCEPT ![job[r].version] = job[r].period]
  /\ Goto(r, "endRevision")
  /\ UNCHANGED <<now, editVars, rowVars, inRevision, lastPub, planTag>>

EndRevision(r) ==
  /\ At(r, "endRevision")
  /\ inRevision' = FALSE
  /\ job' = [job EXCEPT ![r].pc = "getNextTag", ![r].version = None,
                        ![r].period = None]
  /\ UNCHANGED <<now, editVars, rowVars, curPeriod, lastPub, planTag>>

GetNextTag(r) ==
  /\ At(r, "getNextTag")
  /\ \E latest \in LatestNames :
       job' = [job EXCEPT ![r].pc = "createTag",
                          ![r].name = NextName(latest, job[r].input.major)]
  /\ UNCHANGED <<now, editVars, rowVars, planVars, planTag>>

CreateTag(r) ==
  /\ At(r, "createTag")
  /\ planTag' =
       [planTag EXCEPT ![r] = [name |-> job[r].name, createdAt |-> now]]
  /\ Goto(r, "findRows")
  /\ UNCHANGED <<now, editVars, rowVars, planVars>>

-----------------------------------------------------------------------------
(* updateVersionStates: the base rows of a table.                          *)

\* What the code computes from the base rows it found: which to tag, with
\* the tags they have now, and which to untag.  An empty loop is no await.
SortBaseRows(r, rows) ==
  LET active == {b \in rows : IsActive(b, TagTime(r))} IN
    job' = [job EXCEPT ![r].bases = rows,
                       ![r].todo = ReadTags(active),
                       ![r].stale = rows \ active,
                       ![r].pc = IF active = {} THEN "untagRows"
                                                ELSE "tagRows"]

FindRows(r) ==
  /\ At(r, "findRows")
  /\ SortBaseRows(r, {b \in BaseRow \ CostAttachment :
                        Exists(b) /\ TableOf[b] = job[r].table})
  /\ UNCHANGED <<now, editVars, rowVars, planVars, planTag>>

FindAttachments(r) ==
  /\ At(r, "findAttachments")
  /\ job' = [job EXCEPT
       ![r].pc = "findMeasurements",
       ![r].bases = {b \in BaseRow : Exists(b) /\ TableOf[b] = "attachment"}]
  /\ UNCHANGED <<now, editVars, rowVars, planVars, planTag>>

FindMeasurements(r) ==
  /\ At(r, "findMeasurements")
  /\ SortBaseRows(r, {m \in Measurement : /\ Exists(m)
                                          /\ AttachmentOf[m] \in job[r].bases
                                          /\ PeriodOf[m] \in job[r].input.periods})
  /\ UNCHANGED <<now, editVars, rowVars, planVars, planTag>>

\* Mutant: the tag is named afresh rather than taken from createdPlanTag.
WriteTags_Renamed(r, rows, readTags) ==
  /\ \E n \in LatestNames :
       tags' = [x \in Row |->
                  IF x \in rows
                    THEN readTags \cup {NextName(n, job[r].input.major)}
                    ELSE tags[x]]
  /\ latestTagged' = [x \in Row |-> x \in rows \/ latestTagged[x]]

\* Mutant: the tags the row had are not kept.
WriteTags_Replaced(r, rows, readTags) ==
  /\ tags' = [x \in Row |-> IF x \in rows THEN {job[r].name} ELSE tags[x]]
  /\ latestTagged' = [x \in Row |-> x \in rows \/ latestTagged[x]]

\* Mutant: the new tag is not pushed.
WriteTags_NotPushed(r, rows, readTags) ==
  /\ tags' = [x \in Row |-> IF x \in rows THEN readTags ELSE tags[x]]
  /\ latestTagged' = [x \in Row |-> x \in rows \/ latestTagged[x]]

\* One UPDATE writes the tags that were read, plus the new one, to rows.
WriteTags(r, rows, readTags) ==
  /\ tags' = [x \in Row |-> IF x \in rows
                              THEN readTags \cup {job[r].name} ELSE tags[x]]
  /\ latestTagged' = [x \in Row |-> x \in rows \/ latestTagged[x]]

\* One UPDATE per group of rows with the same list of tags. Rows of one set of tags
\* may have them in different orders, so a group is any part of these rows.
\* Base-only tables update row by row.
Groups(r, first) ==
  IF job[r].table \in BaseOnlyModels THEN {{first}}
  ELSE {group \in SUBSET {s \in job[r].todo : s.tags = first.tags} : first \in group}

TagGroup(r, here, after) ==
  /\ At(r, here)
  /\ \E first \in job[r].todo : \E group \in Groups(r, first) :
       /\ WriteTags(r, {s.row : s \in group}, first.tags)
       /\ job' = [job EXCEPT ![r].todo = @ \ group,
                             ![r].pc = IF job[r].todo \ group = {}
                                         THEN after ELSE here]
  /\ UNCHANGED <<now, editVars, planVars, planTag>>

TagRows(r) == TagGroup(r, "tagRows", "untagRows")

ClearLatest(rows) ==
  latestTagged' = [x \in Row |-> x \notin rows /\ latestTagged[x]]

UntagRows(r) ==
  /\ At(r, "untagRows")
  /\ ClearLatest(job[r].stale)
  /\ IF job[r].table \in BaseOnlyModels
       THEN LeaveTable(r)
       ELSE job' = [job EXCEPT ![r].pc = "findVersions", ![r].stale = {}]
  /\ UNCHANGED <<now, editVars, tags, planVars, planTag>>

-----------------------------------------------------------------------------
(* updateVersionStates: the version rows of a table.                       *)

\* latestVersionIds: the biggest id of each base row.
NewestPerBase(found) ==
  {v \in found : \A w \in found : BaseOf[w] = BaseOf[v] => w <= v}

\* Mutant: versions newer than the tag are not filtered out.
FindVersions_AnyTime(r) ==
  /\ At(r, "findVersions")
  /\ LET found == {v \in VersionRow : /\ Exists(v)
                                      /\ BaseOf[v] \in job[r].bases} IN
       job' = [job EXCEPT ![r].pc = "readLatest",
                          ![r].newest = NewestPerBase(found)]
  /\ UNCHANGED <<now, editVars, rowVars, planVars, planTag>>

FindVersions(r) ==
  /\ At(r, "findVersions")
  /\ LET found == {v \in VersionRow : /\ ExistsSince(v, TagTime(r))
                                      /\ BaseOf[v] \in job[r].bases} IN
       job' = [job EXCEPT ![r].pc = "readLatest",
                          ![r].newest = NewestPerBase(found)]
  /\ UNCHANGED <<now, editVars, rowVars, planVars, planTag>>

\* planVersion: the base rows are the keys of the rows found.
FindPlanVersions(r) ==
  /\ At(r, "findPlanVersions")
  /\ LET found == {v \in PlanVersion : ExistsSince(v, TagTime(r))} IN
       job' = [job EXCEPT ![r].pc = "readLatest",
                          ![r].newest = NewestPerBase(found),
                          ![r].bases = {BaseOf[v] : v \in found}]
  /\ UNCHANGED <<now, editVars, rowVars, planVars, planTag>>

ReadLatest(r) ==
  /\ At(r, "readLatest")
  /\ job' = [job EXCEPT ![r].todo = ReadTags(job[r].newest),
                        ![r].pc = IF job[r].newest = {} THEN "findOld"
                                                        ELSE "tagVersions"]
  /\ UNCHANGED <<now, editVars, rowVars, planVars, planTag>>

TagVersions(r) == TagGroup(r, "tagVersions", "findOld")

\* Mutant: the latest versions are not excluded.
FindOld_All(r) ==
  /\ At(r, "findOld")
  /\ LET old == {v \in VersionRow : Exists(v) /\ BaseOf[v] \in job[r].bases} IN
       IF old = {} /\ job[r].table # "planVersion"
         THEN LeaveTable(r)
         ELSE job' = [job EXCEPT ![r].pc = "untagOld", ![r].stale = old]
  /\ UNCHANGED <<now, editVars, rowVars, planVars, planTag>>

\* No chunk, no UPDATE: without old versions a table is left at once, except
\* planVersion, whose UPDATE is not chunked.
FindOld(r) ==
  /\ At(r, "findOld")
  /\ LET old == {v \in VersionRow : /\ Exists(v)
                                    /\ v \notin job[r].newest
                                    /\ BaseOf[v] \in job[r].bases} IN
       IF old = {} /\ job[r].table # "planVersion"
         THEN LeaveTable(r)
         ELSE job' = [job EXCEPT ![r].pc = "untagOld", ![r].stale = old]
  /\ UNCHANGED <<now, editVars, rowVars, planVars, planTag>>

\* The sets of ids one UPDATE of old versions may list.
Chunks(r) ==
  IF job[r].table = "planVersion" \/ Cardinality(job[r].stale) <= ChunkSize
    THEN {job[r].stale}
    ELSE {c \in SUBSET job[r].stale : Cardinality(c) = ChunkSize}

\* Mutant: the chunk just written is not taken off the list.
UntagOld_SameChunk(r) ==
  /\ At(r, "untagOld")
  /\ \E chunk \in Chunks(r) :
       /\ ClearLatest(chunk)
       /\ IF chunk = job[r].stale THEN LeaveTable(r) ELSE UNCHANGED job
  /\ UNCHANGED <<now, editVars, tags, planVars, planTag>>

UntagOld(r) ==
  /\ At(r, "untagOld")
  /\ \E chunk \in Chunks(r) :
       /\ ClearLatest(chunk)
       /\ IF chunk = job[r].stale
            THEN LeaveTable(r)
            ELSE job' = [job EXCEPT ![r].stale = @ \ chunk]
  /\ UNCHANGED <<now, editVars, tags, planVars, planTag>>

-----------------------------------------------------------------------------
(* updateLastPublishedReportingPeriodId.                                   *)

\* getAssociatedPlanVersion, and the period stored there.
FindAssociated(r) ==
  /\ At(r, "findAssociated")
  /\ LET associated == {v \in PlanVersion : /\ ExistsSince(v, TagTime(r))
                                            /\ latestVersion[v]} IN
       \/ /\ associated = {}
          /\ End(r, "failed")    \* 'Cannot activate planTag if no ...'
       \/ \E v \in associated :
            job' = [job EXCEPT ![r].pc = "findPublishedPeriods",
                               ![r].version = v, ![r].period = lastPub[v]]
  /\ UNCHANGED <<now, editVars, rowVars, planVars, planTag>>

\* Mutant: the stored period is not compared.
FindPublishedPeriods_IgnoreStored(r) ==
  /\ At(r, "findPublishedPeriods")
  /\ LET found == job[r].input.periods \cap generated IN
       \/ /\ found = {}
          /\ End(r, "done")
       \/ \E highest \in HighestPeriods(found) :
            job' = [job EXCEPT ![r].pc = "findPublishedMeasurements",
                               ![r].period = highest]
  /\ UNCHANGED <<now, editVars, rowVars, planVars, planTag>>

FindPublishedPeriods(r) ==
  /\ At(r, "findPublishedPeriods")
  /\ LET stored == job[r].period
         found == (job[r].input.periods \cup {stored}) \cap generated IN
       \/ /\ found = {}
          /\ End(r, "done")
       \/ \E highest \in HighestPeriods(found) :
            IF highest = stored
              THEN End(r, "done")
              ELSE job' = [job EXCEPT ![r].pc = "findPublishedMeasurements",
                                      ![r].period = highest]
  /\ UNCHANGED <<now, editVars, rowVars, planVars, planTag>>

HasPublishedMeasurement(p) ==
  \E m \in Measurement : Exists(m) /\ PeriodOf[m] = p /\ tags[m] # {}

\* Mutant: published measurements are not required.
FindPublishedMeasurements_NoCheck(r) ==
  /\ At(r, "findPublishedMeasurements")
  /\ Goto(r, "setLastPublished")
  /\ UNCHANGED <<now, editVars, rowVars, planVars, planTag>>

FindPublishedMeasurements(r) ==
  /\ At(r, "findPublishedMeasurements")
  /\ IF HasPublishedMeasurement(job[r].period)
       THEN Goto(r, "setLastPublished")
       ELSE End(r, "done")
  /\ UNCHANGED <<now, editVars, rowVars, planVars, planTag>>

\* Mutant: the id of the plan version is stored instead of the period's.
SetLastPublished_WrongId(r) ==
  /\ At(r, "setLastPublished")
  /\ lastPub' = [lastPub EXCEPT ![job[r].version] = job[r].version]
  /\ End(r, "done")
  /\ UNCHANGED <<now, editVars, rowVars, inRevision, curPeriod, planTag>>

SetLastPublished(r) ==
  /\ At(r, "setLastPublished")
  /\ lastPub' = [lastPub EXCEPT ![job[r].version] = job[r].period]
  /\ End(r, "done")
  /\ UNCHANGED <<now, editVars, rowVars, inRevision, curPeriod, planTag>>

\* Nothing is rolled back.
Fail(r) ==
  /\ Running(r)
  /\ End(r, "failed")
  /\ UNCHANGED <<now, editVars, rowVars, planVars, planTag>>

-----------------------------------------------------------------------------
(* The other service that edits the plan (external).                       *)

Tick ==
  /\ now < MaxTime
  /\ now' = now + 1
  /\ UNCHANGED <<editVars, rowVars, planVars, planTag, job>>

InsertBaseRow(b) ==
  /\ ~Exists(b)
  /\ b \in Measurement => Exists(AttachmentOf[b]) /\ PeriodOf[b] \in periods
  /\ createdAt' = [createdAt EXCEPT ![b] = now]
  /\ UNCHANGED <<now, deletedAt, latestVersion, periods, generated, rowVars,
                 planVars, planTag, job>>

SoftDelete(b) ==
  /\ Exists(b)
  /\ deletedAt[b] = None
  /\ deletedAt' = [deletedAt EXCEPT ![b] = now]
  /\ UNCHANGED <<now, createdAt, latestVersion, periods, generated, rowVars,
                 planVars, planTag, job>>

\* Ids are serial within a table.
CanInsertVersion(v) ==
  /\ ~Exists(v)
  /\ BaseOf[v] # Plan => Exists(BaseOf[v])
  /\ \A w \in VersionRow :
       w < v /\ VersionTable(w) = VersionTable(v) => Exists(w)

InsertVersion(v) ==
  /\ v \notin PlanVersion
  /\ CanInsertVersion(v)
  /\ createdAt' = [createdAt EXCEPT ![v] = now]
  /\ UNCHANGED <<now, deletedAt, latestVersion, periods, generated, rowVars,
                 planVars, planTag, job>>

\* A new plan version becomes the latest one and starts with the reporting
\* periods of the version before it.
InsertPlanVersion(v) ==
  /\ CanInsertVersion(v)
  /\ createdAt' = [createdAt EXCEPT ![v] = now]
  /\ latestVersion' = [w \in PlanVersion |-> w = v]
  /\ LET old == {w \in PlanVersion : latestVersion[w]} IN
       \/ old = {} /\ UNCHANGED <<curPeriod, lastPub>>
       \/ \E w \in old : /\ curPeriod' = [curPeriod EXCEPT ![v] = curPeriod[w]]
                         /\ lastPub' = [lastPub EXCEPT ![v] = lastPub[w]]
  /\ inRevision' = TRUE
  /\ UNCHANGED <<now, deletedAt, periods, generated, rowVars, planTag, job>>

AddPeriod(p) ==
  /\ p \notin periods
  /\ periods' = periods \cup {p}
  /\ UNCHANGED <<now, createdAt, deletedAt, latestVersion, generated, rowVars,
                 planVars, planTag, job>>

GenerateMeasurements(p) ==
  /\ p \in periods \ generated
  /\ generated' = generated \cup {p}
  /\ UNCHANGED <<now, createdAt, deletedAt, latestVersion, periods, rowVars,
                 planVars, planTag, job>>

-----------------------------------------------------------------------------
Work(r) ==
  \/ FindPeriods(r) \/ FindLatestVersion(r) \/ SetCurrentPeriod(r)
  \/ EndRevision(r) \/ GetNextTag(r) \/ CreateTag(r)
  \/ FindRows(r) \/ FindAttachments(r) \/ FindMeasurements(r)
  \/ TagRows(r) \/ UntagRows(r)
  \/ FindVersions(r) \/ FindPlanVersions(r) \/ ReadLatest(r)
  \/ TagVersions(r) \/ FindOld(r) \/ UntagOld(r)
  \/ FindAssociated(r) \/ FindPublishedPeriods(r)
  \/ FindPublishedMeasurements(r) \/ SetLastPublished(r)

Edit ==
  \/ Tick
  \/ \E b \in BaseRow : InsertBaseRow(b)
  \/ \E b \in Deletable : SoftDelete(b)
  \/ \E v \in VersionRow \ PlanVersion : InsertVersion(v)
  \/ \E v \in PlanVersion : InsertPlanVersion(v)
  \/ \E p \in Period : AddPeriod(p) \/ GenerateMeasurements(p)

Next ==
  \/ \E r \in Request : PublishPlan(r) \/ Work(r) \/ Fail(r)
  \/ Edit

Spec == Init /\ [][Next]_vars

\* The event loop and the database answer every query in the end.
Fairness == \A r \in Request : WF_vars(Work(r))
FairSpec == Spec /\ Fairness

-----------------------------------------------------------------------------
(* Properties.                                                             *)

\* Every variable keeps its type (the records are those the code builds).
TypeOK ==
  /\ now \in Nat
  /\ createdAt \in [Row -> Nat \cup {None}]
  /\ deletedAt \in [BaseRow -> Nat \cup {None}]
  /\ tags \in [Row -> SUBSET Name]
  /\ latestTagged \in [Row -> BOOLEAN]
  /\ latestVersion \in [PlanVersion -> BOOLEAN]
  /\ curPeriod \in [PlanVersion -> Period \cup {None}]
  /\ lastPub \in [PlanVersion -> Period \cup {None}]
  /\ periods \in SUBSET Period
  /\ generated \in SUBSET Period
  /\ inRevision \in BOOLEAN
  /\ planTag \in [Request -> TagRow \cup {None}]
  /\ job \in [Request -> Job]

\* No row ever carries a tag the plan does not have: rows are tagged only
\* after planTag.create, with the created name or with names they had, in
\* whatever order concurrent, failing publications and editors interleave.
NoPhantomTags == \A x \in Row : tags[x] \subseteq TagNames

\* The period stored as last published has generated measurements, and one
\* of them is published (updateLastPublishedReportingPeriodId checks both in
\* queries of its own, some awaits before it writes).
LastPublishedIsPublished ==
  \A v \in PlanVersion :
    lastPub[v] # None =>
      lastPub[v] \in generated /\ HasPublishedMeasurement(lastPub[v])

\* Tags of one plan get increasing names, in the order of their creation, so
\* no two have the same name (getNextTag reads the newest name, planTag.create
\* inserts in another statement).
NameBefore(m, n) == m[1] < n[1] \/ (m[1] = n[1] /\ m[2] < n[2])
NamesIncrease ==
  \A r, s \in Request :
    r # s /\ planTag[r] # None /\ planTag[s] # None /\ TagTime(r) <= TagTime(s)
      => NameBefore(planTag[r].name, planTag[s].name)

\* What is current carries a tag, and a version one of a time when it existed,
\* also where overlapping publications overwrite each other's lists of tags and
\* versions are inserted between their queries.
CurrentIsPublished ==
  \A x \in Row : latestTagged[x] =>
    \E s \in Request : /\ planTag[s] # None /\ planTag[s].name \in tags[x]
                       /\ x \in VersionRow => ExistsSince(x, TagTime(s))

\* No two publications are at work, nor will be before the one there is ends.
NoOverlap == \A r \in Request : Running(r) => r \in Lone

\* A row never loses a tag: the read of versionTags and the write of the
\* extended list are different statements.
TagsNeverLost ==
  [][NoOverlap => \A x \in Row : tags[x] \subseteq tags'[x]]_vars

\* While versions are swapped, and after publications that stopped halfway or
\* overlapped, readers asking for the current version of something published
\* find one.
Current(b) == {v \in VersionRow : BaseOf[v] = b /\ latestTagged[v]}
CurrentNeverVanishes ==
  [][NoOverlap => \A b \in Base : Current(b) # {} => Current(b)' # {}]_vars

\* The tables a finished publication r covered.
Covered(r) ==
  {b \in BaseRow \ CostAttachment :
     b \in Measurement =>
       job[r].input.publishMeasurements /\ PeriodOf[b] \in job[r].input.periods}
LastTag(r) ==
  planTag[r] # None /\ \A t \in PlanTags : t.createdAt <= TagTime(r)

\* After a publication that ran alone, whatever stopped halfway or overlapped
\* before it and whatever was edited during it: every version older than the
\* tag is published unless a newer one is, one version per base row is the
\* current one, it carries the tag, and it is no newer than the tag.
VersionsSettled ==
  \A r \in Lone : At(r, "done") /\ LastTag(r) =>
    \A b \in Covered(r) \cup {Plan} :
      LET older == {v \in VersionRow : /\ BaseOf[v] = b /\ Exists(v)
                                       /\ createdAt[v] < TagTime(r)} IN
        older # {} =>
          \E v \in VersionRow :
            /\ Current(b) = {v}
            /\ \A w \in older : w <= v
            /\ ExistsSince(v, TagTime(r))
            /\ planTag[r].name \in tags[v]

\* The same for base rows: those alive when the tag was created are current
\* and tagged, those deleted before it are not current.
BaseRowsSettled ==
  \A r \in Lone : At(r, "done") /\ LastTag(r) =>
    \A b \in Covered(r) :
      Exists(b) /\ createdAt[b] < TagTime(r) /\ deletedAt[b] # TagTime(r) =>
        /\ latestTagged[b] = IsActive(b, TagTime(r))
        /\ latestTagged[b] => planTag[r].name \in tags[b]

\* lastPublishedReportingPeriodId only moves to higher periods: the comment
\* at src/common-libs/plan/index.ts:92 updates it when a newly published
\* period is higher than what is stored.
LastPublishedNeverRegresses ==
  [][NoOverlap =>
       \A v \in PlanVersion :
         lastPub[v] # None =>
           /\ lastPub'[v] # None
           /\ PeriodNumber[lastPub[v]] <= PeriodNumber[lastPub'[v]]]_vars

\* Publications that do not overlap implement the log of tags: a step of the
\* code opens a tag, marks rows with the newest tag, retires rows or is
\* invisible.
Log == INSTANCE PublishLog WITH
  names <- TagNames, tagged <- tags, live <- {x \in Row : latestTagged[x]}
LogSpec == Log!Spec

\* A request that starts is answered, with a tag or with an error.
RequestsEnd == \A r \in Request : At(r, "findPeriods") ~> ~Running(r)
=============================================================================
