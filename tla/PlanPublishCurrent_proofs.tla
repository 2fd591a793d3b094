---------------------- MODULE PlanPublishCurrent_proofs ----------------------
(***************************************************************************)
(* What readers find current however many publications of a plan overlap,  *)
(* wherever they stop and whatever the editors do meanwhile: rows that     *)
(* carry a tag, and versions that existed at the time of one.              *)
(***************************************************************************)
EXTENDS PlanPublishAlone_proofs

Old(x, t) == Exists(x) /\ createdAt[x] < t

\* A row is no older than those it refers to.
RowsOK ==
  /\ \A x \in Row : Exists(x) => createdAt[x] <= now
  /\ \A v \in VersionRow : Exists(v) /\ BaseOf[v] # Plan =>
       Exists(BaseOf[v]) /\ createdAt[BaseOf[v]] <= createdAt[v]
  /\ \A m \in Measurement : Exists(m) =>
       Exists(AttachmentOf[m]) /\ createdAt[AttachmentOf[m]] <= createdAt[m]

\* The rows a request is about to tag are base rows, or versions that exist
\* since its tag.
Pending(r) == {u.row : u \in job[r].todo}
FoundInTime(r) ==
  /\ job[r].pc \in {"readLatest", "tagVersions"} =>
       \A v \in job[r].newest : ExistsSince(v, TagTime(r))
  /\ job[r].pc = "tagVersions" => Pending(r) \subseteq job[r].newest
  /\ job[r].pc = "tagRows" => Pending(r) \subseteq BaseRow

CInv ==
  /\ RowsOK
  /\ CurrentIsPublished
  /\ \A r \in Request : FoundInTime(r)

Final ==
  {"findAssociated", "findPublishedPeriods", "findPublishedMeasurements",
   "setLastPublished"}
-----------------------------------------------------------------------------
LEMMA TagTimeType ==
  ASSUME IInv, NEW r \in Request, planTag[r] # None
  PROVE  TagTime(r) \in Nat /\ TagTime(r) # None
BY TagRowType, NoneAssumption DEF IInv

LEMMA RowTimes ==
  ASSUME IInv
  PROVE  /\ now \in Nat /\ None \notin Nat
         /\ \A x \in Row : createdAt[x] \in Nat \cup {None}
         /\ \A b \in BaseRow : deletedAt[b] \in Nat \cup {None}
BY NoneAssumption DEF IInv, TypeOK

LEMMA InitCInv == Init => CInv
<1> SUFFICES ASSUME Init PROVE CInv
  OBVIOUS
<1>1. \A x \in Row : /\ Exists(x) <=> x \in InitialRow
                     /\ Exists(x) => createdAt[x] = 0
  BY NoneAssumption DEF Init, Exists
<1>2. RowsOK
  <2>1. \A x \in Row : Exists(x) => createdAt[x] <= now
    BY <1>1 DEF Init
  <2>2. ASSUME NEW v \in VersionRow, Exists(v), BaseOf[v] # Plan
        PROVE  Exists(BaseOf[v]) /\ createdAt[BaseOf[v]] <= createdAt[v]
    <3>1. v \in Row /\ BaseOf[v] \in Row
      BY <2>2, KeysAssumption DEF Row, Base
    <3> QED BY <1>1, <2>2, <3>1, InputAssumption
  <2>3. ASSUME NEW m \in Measurement, Exists(m)
        PROVE  Exists(AttachmentOf[m]) /\ createdAt[AttachmentOf[m]] <= createdAt[m]
    <3>1. m \in Row /\ AttachmentOf[m] \in Row
      BY KeysAssumption DEF Row, Measurement
    <3> QED BY <1>1, <2>3, <3>1, InputAssumption
  <2> QED BY <2>1, <2>2, <2>3 DEF RowsOK
<1>3. CurrentIsPublished
  BY DEF Init, CurrentIsPublished
<1>4. \A r \in Request : FoundInTime(r)
  BY DEF Init, NoJob, FoundInTime
<1> QED BY <1>2, <1>3, <1>4 DEF CInv

-----------------------------------------------------------------------------
(* The editors.                                                            *)

\* What they do to rows: rows appear, and rows are deleted, now.
EditRows ==
  /\ UNCHANGED <<tags, latestTagged, planTag, job>>
  /\ now' \in Nat /\ now <= now'
  /\ \A x \in Row : \/ createdAt'[x] = createdAt[x]
                    \/ createdAt[x] = None /\ createdAt'[x] = now
  /\ \A b \in BaseRow : \/ deletedAt'[b] = deletedAt[b]
                        \/ deletedAt[b] = None /\ deletedAt'[b] = now

LEMMA InsertRow ==
  ASSUME IInv, RowsOK, NEW x \in Row, ~Exists(x),
         createdAt' = [createdAt EXCEPT ![x] = now], now' = now,
         x \in VersionRow /\ BaseOf[x] # Plan => Exists(BaseOf[x]),
         x \in Measurement => Exists(AttachmentOf[x])
  PROVE  /\ RowsOK'
         /\ \A y \in Row : \/ createdAt'[y] = createdAt[y]
                           \/ createdAt[y] = None /\ createdAt'[y] = now
<1>1. /\ now \in Nat /\ None \notin Nat
      /\ \A y \in Row : createdAt'[y] = IF y = x THEN now ELSE createdAt[y]
      /\ createdAt[x] = None
  BY RowTimes DEF IInv, TypeOK, Exists
<1>2. \A y \in Row : Exists(y)' <=> (y = x \/ Exists(y))
  BY <1>1 DEF Exists
<1>3. \A y \in Row : Exists(y)' => createdAt'[y] <= now'
  BY <1>1, <1>2 DEF RowsOK
<1>4. ASSUME NEW v \in VersionRow, Exists(v)', BaseOf[v] # Plan
      PROVE  Exists(BaseOf[v])' /\ createdAt'[BaseOf[v]] <= createdAt'[v]
  <2>1. v \in Row /\ BaseOf[v] \in Row
    BY <1>4, KeysAssumption DEF Row, Base
  <2>2. Exists(BaseOf[v])
    BY <1>2, <1>4, <2>1 DEF RowsOK
  <2>3. BaseOf[v] # x
    BY <2>2
  <2> QED BY <1>1, <1>2, <1>4, <2>1, <2>2, <2>3 DEF RowsOK
<1>5. ASSUME NEW m \in Measurement, Exists(m)'
      PROVE  Exists(AttachmentOf[m])' /\ createdAt'[AttachmentOf[m]] <= createdAt'[m]
  <2>1. m \in Row /\ AttachmentOf[m] \in Row
    BY KeysAssumption DEF Row, Measurement
  <2>2. Exists(AttachmentOf[m])
    BY <1>2, <1>5, <2>1 DEF RowsOK
  <2>3. AttachmentOf[m] # x
    BY <2>2
  <2> QED BY <1>1, <1>2, <1>5, <2>1, <2>2, <2>3 DEF RowsOK
<1>6. RowsOK'
  BY <1>3, <1>4, <1>5 DEF RowsOK
<1> QED BY <1>1, <1>6

LEMMA EditsRows ==
  ASSUME IInv, RowsOK, Edit \/ UNCHANGED vars
  PROVE  EditRows /\ RowsOK'
<1>1. now \in Nat
  BY RowTimes
<1>2. CASE Tick \/ UNCHANGED vars
  <2>1. /\ UNCHANGED <<tags, latestTagged, planTag, job, createdAt, deletedAt>>
        /\ now' \in {now, now + 1}
    BY <1>2 DEF Tick, vars, editVars, rowVars, planVars
  <2>2. now' \in Nat /\ now <= now'
    BY <1>1, <2>1
  <2>3. RowsOK'
    <3>1. \A x \in Row : Exists(x)' => createdAt'[x] <= now'
      <4> SUFFICES ASSUME NEW x \in Row, Exists(x)
                   PROVE  createdAt[x] <= now'
        BY <2>1 DEF Exists
      <4>1. createdAt[x] \in Nat /\ createdAt[x] <= now
        BY RowTimes DEF RowsOK, Exists
      <4> QED BY <1>1, <2>2, <4>1
    <3> QED BY <2>1, <3>1 DEF RowsOK, Exists
  <2> QED BY <2>1, <2>2, <2>3 DEF EditRows
<1>3. ASSUME NEW b \in BaseRow, InsertBaseRow(b)
      PROVE  EditRows /\ RowsOK'
  <2>1. /\ b \in Row /\ b \notin VersionRow /\ ~Exists(b) /\ now' = now
        /\ createdAt' = [createdAt EXCEPT ![b] = now]
        /\ b \in Measurement => Exists(AttachmentOf[b])
        /\ UNCHANGED <<tags, latestTagged, planTag, job, deletedAt>>
    BY <1>3, KeysAssumption DEF InsertBaseRow, Row, rowVars
  <2>2. /\ RowsOK'
        /\ \A y \in Row : \/ createdAt'[y] = createdAt[y]
                          \/ createdAt[y] = None /\ createdAt'[y] = now
    BY <2>1, InsertRow
  <2> QED BY <1>1, <2>1, <2>2 DEF EditRows
<1>4. ASSUME NEW v \in VersionRow, CanInsertVersion(v), now' = now,
             createdAt' = [createdAt EXCEPT ![v] = now],
             UNCHANGED <<tags, latestTagged, planTag, job, deletedAt>>
      PROVE  EditRows /\ RowsOK'
  <2>1. /\ v \in Row /\ v \notin Measurement /\ ~Exists(v)
        /\ BaseOf[v] # Plan => Exists(BaseOf[v])
    BY <1>4, KeysAssumption DEF CanInsertVersion, Row, Measurement
  <2>2. /\ RowsOK'
        /\ \A y \in Row : \/ createdAt'[y] = createdAt[y]
                          \/ createdAt[y] = None /\ createdAt'[y] = now
    BY <1>4, <2>1, InsertRow
  <2> QED BY <1>1, <1>4, <2>2 DEF EditRows
<1>5. ASSUME NEW b \in BaseRow, SoftDelete(b)
      PROVE  EditRows /\ RowsOK'
  <2>1. /\ deletedAt[b] = None
        /\ deletedAt' = [deletedAt EXCEPT ![b] = now]
        /\ UNCHANGED <<now, createdAt, tags, latestTagged, planTag, job>>
    BY <1>5 DEF SoftDelete, rowVars
  <2>2. \A c \in BaseRow : deletedAt'[c] = IF c = b THEN now ELSE deletedAt[c]
    BY <2>1 DEF IInv, TypeOK
  <2> QED BY <1>1, <2>1, <2>2 DEF EditRows, RowsOK, Exists
<1>6. ASSUME NEW p \in Period, AddPeriod(p) \/ GenerateMeasurements(p)
      PROVE  EditRows /\ RowsOK'
  <2>1. UNCHANGED <<now, createdAt, deletedAt, tags, latestTagged, planTag, job>>
    BY <1>6 DEF AddPeriod, GenerateMeasurements, rowVars
  <2> QED BY <1>1, <2>1 DEF EditRows, RowsOK, Exists
<1>7. ASSUME NEW v \in VersionRow \ PlanVersion, InsertVersion(v)
      PROVE  EditRows /\ RowsOK'
  BY <1>4, <1>7 DEF InsertVersion, rowVars
<1>8. ASSUME NEW v \in PlanVersion, InsertPlanVersion(v)
      PROVE  EditRows /\ RowsOK'
  BY <1>4, <1>8, TableSets DEF InsertPlanVersion, rowVars
<1> QED BY <1>2, <1>3, <1>5, <1>6, <1>7, <1>8, InputAssumption DEF Edit

\* What is older than a tag stays so, and nothing becomes older.
LEMMA EditsAreNew ==
  ASSUME IInv, EditRows, NEW t \in Nat, t <= now
  PROVE  /\ \A x \in Row : Old(x, t)' <=> Old(x, t)
         /\ \A x \in Row : ExistsSince(x, t) => ExistsSince(x, t)'
         /\ \A b \in BaseRow : deletedAt'[b] # t =>
              deletedAt[b] # t /\ (IsActive(b, t)' <=> IsActive(b, t))
<1>1. /\ now \in Nat /\ None \notin Nat
      /\ \A x \in Row : createdAt[x] \in Nat \cup {None}
      /\ \A b \in BaseRow : deletedAt[b] \in Nat \cup {None}
  BY RowTimes
<1>2. \A x \in Row : Old(x, t)' <=> Old(x, t)
  BY <1>1 DEF EditRows, Old, Exists
<1>3. \A x \in Row : ExistsSince(x, t) => ExistsSince(x, t)'
  BY <1>1 DEF EditRows, ExistsSince, Exists
<1>4. ASSUME NEW b \in BaseRow, deletedAt'[b] # t
      PROVE  deletedAt[b] # t /\ (IsActive(b, t)' <=> IsActive(b, t))
  BY <1>1, <1>4 DEF EditRows, IsActive
<1> QED BY <1>2, <1>3, <1>4

LEMMA EditCInv ==
  ASSUME IInv, CInv, Edit \/ UNCHANGED vars
  PROVE  CInv'
<1>1. EditRows /\ RowsOK'
  BY EditsRows DEF CInv
<1>2. /\ UNCHANGED <<tags, latestTagged, planTag, job>>
      /\ \A s \in Request : TagTime(s)' = TagTime(s)
  BY <1>1 DEF EditRows, TagTime
<1>3. \A x \in Row, t \in Nat : ExistsSince(x, t) => ExistsSince(x, t)'
  BY <1>1, RowTimes DEF EditRows, ExistsSince, Exists
<1>4. CurrentIsPublished'
  <2> SUFFICES ASSUME NEW x \in Row, latestTagged[x]
               PROVE  \E s \in Request :
                        /\ planTag[s] # None /\ planTag[s].name \in tags[x]
                        /\ x \in VersionRow => ExistsSince(x, TagTime(s))'
    BY <1>2 DEF CurrentIsPublished, ExistsSince, Exists
  <2>1. PICK s \in Request : /\ planTag[s] # None /\ planTag[s].name \in tags[x]
                             /\ x \in VersionRow => ExistsSince(x, TagTime(s))
    BY DEF CInv, CurrentIsPublished
  <2>2. PICK t \in Nat : t = TagTime(s)
    BY <2>1, TagTimeType
  <2>3. ExistsSince(x, t) => ExistsSince(x, t)'
    BY <1>3
  <2>4. TagTime(s)' = t
    BY <1>2, <2>2
  <2> QED BY <2>1, <2>2, <2>3, <2>4 DEF ExistsSince, Exists
<1>5. ASSUME NEW r \in Request
      PROVE  FoundInTime(r)'
  <2>1. FoundInTime(r) /\ job[r] \in Job
    BY DEF CInv, IInv, TypeOK
  <2>2. Pending(r)' = Pending(r)
    BY <1>2 DEF Pending
  <2>3. CASE job[r].pc \in {"readLatest", "tagVersions"}
    <3>1. PICK t \in Nat : t = TagTime(r)
      BY <2>3, TagTimeType DEF IInv, JobOK, Tagging
    <3>2. job[r].newest \subseteq Row
      BY <2>1 DEF Job, Row
    <3>3. \A v \in job[r].newest : ExistsSince(v, t)'
      BY <1>3, <2>1, <2>3, <3>1, <3>2 DEF FoundInTime
    <3>4. TagTime(r)' = t
      BY <1>2, <3>1
    <3> QED BY <1>2, <2>1, <2>2, <2>3, <3>3, <3>4 DEF FoundInTime, ExistsSince, Exists
  <2>4. CASE job[r].pc \notin {"readLatest", "tagVersions"}
    BY <1>2, <2>1, <2>2, <2>4 DEF FoundInTime
  <2> QED BY <2>3, <2>4
<1> QED BY <1>1, <1>4, <1>5 DEF CInv

-----------------------------------------------------------------------------
(* Where the steps of a request lead.                                      *)

LEMMA LeaveFields ==
  ASSUME TypeOK, NEW r \in Request, LeaveTable(r)
  PROVE  /\ Others(r)
         /\ job'[r].input = job[r].input
         /\ job'[r].table = NextTable[job[r].table]
         /\ job'[r].pc = IF job[r].table = "measurement" THEN "findAssociated"
                         ELSE FirstStep(NextTable[job[r].table], job[r].input)
<1>1. job \in [Request -> Job] /\ job[r] \in Job
  BY DEF TypeOK
<1> DEFINE next == NextTable[job[r].table]
           step == IF job[r].table = "measurement" THEN "findAssociated"
                   ELSE FirstStep(next, job[r].input)
           new == [job[r] EXCEPT !.table = next, !.pc = step, !.bases = {},
                                 !.newest = {}, !.todo = {}, !.stale = {}]
<1>2. job' = [job EXCEPT ![r] = new]
  BY <1>1 DEF LeaveTable
<1> HIDE DEF next, step
<1>3. new.input = job[r].input /\ new.table = next /\ new.pc = step
  BY <1>1 DEF Job
<1> HIDE DEF new
<1>4. Others(r) /\ job'[r] = new
  BY <1>1, <1>2 DEF Others
<1> QED BY <1>3, <1>4 DEF next, step

LEMMA EndInput ==
  ASSUME TypeOK, NEW r \in Request, NEW outcome, End(r, outcome)
  PROVE  Others(r) /\ job'[r].pc = outcome /\ job'[r].input = job[r].input
BY DEF End, TypeOK, NoJob, Others

\* A step that touches no row and no tag.
SameRows == UNCHANGED <<createdAt, deletedAt, tags, latestTagged, planTag>>

LEMMA FinalFields ==
  ASSUME IInv, NEW r \in Request,
         \/ FindAssociated(r) \/ FindPublishedPeriods(r)
         \/ FindPublishedMeasurements(r) \/ SetLastPublished(r)
  PROVE  /\ job[r].pc \in Final /\ Others(r) /\ SameRows /\ now' = now
         /\ job'[r].input = job[r].input
         /\ job'[r].pc \in Final \cup {"done", "failed"}
<1>1. job \in [Request -> Job] /\ job[r] \in Job
  BY DEF IInv, TypeOK
<1>2. job[r].pc \in Final /\ SameRows /\ now' = now
  BY DEF FindAssociated, FindPublishedPeriods, FindPublishedMeasurements,
     SetLastPublished, At, Final, SameRows, editVars, rowVars
<1>3. ASSUME NEW outcome \in {"done", "failed"}, End(r, outcome)
      PROVE  /\ Others(r) /\ job'[r].input = job[r].input
             /\ job'[r].pc \in Final \cup {"done", "failed"}
  BY <1>3, EndInput DEF IInv
<1>4. ASSUME NEW v, NEW p, NEW step \in Final,
             \/ job' = [job EXCEPT ![r].pc = step]
             \/ job' = [job EXCEPT ![r].pc = step, ![r].period = p]
             \/ job' = [job EXCEPT ![r].pc = step, ![r].version = v, ![r].period = p]
      PROVE  /\ Others(r) /\ job'[r].input = job[r].input
             /\ job'[r].pc \in Final \cup {"done", "failed"}
  BY <1>1, <1>4 DEF Others, Job
<1>5. /\ "findPublishedPeriods" \in Final /\ "findPublishedMeasurements" \in Final
      /\ "setLastPublished" \in Final
  BY DEF Final
<1>6. CASE FindAssociated(r)
  BY <1>2, <1>3, <1>4, <1>5, <1>6 DEF FindAssociated
<1>7. CASE FindPublishedPeriods(r)
  BY <1>2, <1>3, <1>4, <1>5, <1>7 DEF FindPublishedPeriods
<1>8. CASE FindPublishedMeasurements(r)
  BY <1>2, <1>3, <1>4, <1>5, <1>8 DEF FindPublishedMeasurements, Goto
<1>9. CASE SetLastPublished(r)
  BY <1>2, <1>3, <1>9 DEF SetLastPublished
<1> QED BY <1>6, <1>7, <1>8, <1>9

\* The steps of a request that lead to those where rows are tagged, or where
\* the last published period is written.
LEMMA WorkLeadsTo ==
  ASSUME IInv, NEW r \in Request, Work(r)
  PROVE  /\ Others(r)
         /\ job'[r].pc = "readLatest" => FindVersions(r) \/ FindPlanVersions(r)
         /\ job'[r].pc = "tagVersions" => ReadLatest(r) \/ TagVersions(r)
         /\ job'[r].pc = "tagRows" =>
              FindRows(r) \/ FindMeasurements(r) \/ TagRows(r)
         /\ job'[r].pc \in Final \ {"findAssociated"} => job[r].pc \in Final
<1> USE DEF Final
<1>1. job \in [Request -> Job] /\ job[r] \in Job
  BY DEF IInv, TypeOK
<1>2. CASE FindPeriods(r) \/ FindLatestVersion(r) \/ SetCurrentPeriod(r) \/ EndRevision(r)
  BY <1>2, BeforeTagShape DEF IInv, BeforeTag
<1>3. CASE GetNextTag(r)
  <2>1. ASSUME NEW n, job' = [job EXCEPT ![r].pc = "createTag", ![r].name = n]
        PROVE  Others(r) /\ job'[r].pc = "createTag"
    BY <1>1, <2>1 DEF Others, Job
  <2> QED BY <1>3, <2>1 DEF GetNextTag
<1>4. CASE CreateTag(r)
  BY <1>4, CreateTagShape
<1>5. CASE FindRows(r) \/ FindMeasurements(r)
  <2>1. PICK rows : SortBaseRows(r, rows)
    BY <1>5 DEF FindRows, FindMeasurements
  <2> DEFINE active == {b \in rows : IsActive(b, TagTime(r))}
             step == IF active = {} THEN "untagRows" ELSE "tagRows"
             read == ReadTags(active)
             stale == rows \ active
  <2>2. job' = [job EXCEPT ![r] = [job[r] EXCEPT !.bases = rows, !.todo = read,
                                                 !.stale = stale, !.pc = step]]
    BY <1>1, <2>1 DEF SortBaseRows
  <2>3. step \in {"tagRows", "untagRows"}
    OBVIOUS
  <2> HIDE DEF step, read, stale
  <2>4. Others(r) /\ job'[r].pc = step
    BY <1>1, <2>2 DEF Others, Job
  <2> QED BY <1>5, <2>3, <2>4
<1>6. CASE FindAttachments(r)
  <2> DEFINE rows == {b \in BaseRow : Exists(b) /\ TableOf[b] = "attachment"}
  <2>1. job' = [job EXCEPT ![r].pc = "findMeasurements", ![r].bases = rows]
    BY <1>6 DEF FindAttachments
  <2> HIDE DEF rows
  <2>2. Others(r) /\ job'[r].pc = "findMeasurements"
    BY <1>1, <2>1 DEF Others, Job
  <2> QED BY <2>2
<1>7. CASE FindVersions(r) \/ FindPlanVersions(r)
  <2>1. ASSUME NEW newest, NEW bases,
               \/ job' = [job EXCEPT ![r].pc = "readLatest", ![r].newest = newest]
               \/ job' = [job EXCEPT ![r].pc = "readLatest", ![r].newest = newest,
                                     ![r].bases = bases]
        PROVE  Others(r) /\ job'[r].pc = "readLatest"
    BY <1>1, <2>1 DEF Others, Job
  <2>2. Others(r) /\ job'[r].pc = "readLatest"
    BY <1>7, <2>1 DEF FindVersions, FindPlanVersions
  <2> QED BY <1>7, <2>2
<1>8. CASE ReadLatest(r)
  <2> DEFINE read == ReadTags(job[r].newest)
             step == IF job[r].newest = {} THEN "findOld" ELSE "tagVersions"
  <2>1. job' = [job EXCEPT ![r].todo = read, ![r].pc = step]
    BY <1>8 DEF ReadLatest
  <2>2. step \in {"findOld", "tagVersions"}
    OBVIOUS
  <2> HIDE DEF read, step
  <2>3. Others(r) /\ job'[r].pc = step
    BY <1>1, <2>1 DEF Others, Job
  <2> QED BY <1>8, <2>2, <2>3
<1>9. ASSUME LeaveTable(r)
      PROVE  Others(r) /\ job'[r].pc \in {"findRows", "findPlanVersions",
                                          "findAttachments", "findAssociated"}
  BY <1>9, LeaveFields DEF FirstStep, IInv
<1>10. CASE UntagRows(r)
  <2>1. ASSUME job' = [job EXCEPT ![r].pc = "findVersions", ![r].stale = {}]
        PROVE  Others(r) /\ job'[r].pc = "findVersions"
    BY <1>1, <2>1 DEF Others, Job
  <2> QED BY <1>9, <1>10, <2>1 DEF UntagRows
<1>11. CASE FindOld(r)
  <2>1. ASSUME NEW old, job' = [job EXCEPT ![r].pc = "untagOld", ![r].stale = old]
        PROVE  Others(r) /\ job'[r].pc = "untagOld"
    BY <1>1, <2>1 DEF Others, Job
  <2> QED BY <1>9, <1>11, <2>1 DEF FindOld
<1>12. CASE UntagOld(r)
  <2>1. ASSUME NEW rest, job' = [job EXCEPT ![r].stale = rest]
        PROVE  Others(r) /\ job'[r].pc = job[r].pc
    BY <1>1, <2>1 DEF Others, Job
  <2>2. job[r].pc = "untagOld"
    BY <1>12 DEF UntagOld, At
  <2> QED BY <1>9, <1>12, <2>1, <2>2 DEF UntagOld
<1>13. CASE TagRows(r) \/ TagVersions(r)
  <2>1. PICK here \in {"tagRows", "tagVersions"}, after \in {"untagRows", "findOld"} :
          TagGroup(r, here, after) /\ (here = "tagRows" <=> TagRows(r))
    BY <1>13 DEF TagRows, TagVersions, TagGroup, At
  <2>2. ASSUME NEW rest, NEW step, job' = [job EXCEPT ![r].todo = rest, ![r].pc = step]
        PROVE  Others(r) /\ job'[r].pc = step
    BY <1>1, <2>2 DEF Others, Job
  <2>3. Others(r) /\ job'[r].pc \in {here, after}
    BY <2>1, <2>2 DEF TagGroup
  <2> QED BY <1>13, <2>1, <2>3
<1>14. CASE \/ FindAssociated(r) \/ FindPublishedPeriods(r)
            \/ FindPublishedMeasurements(r) \/ SetLastPublished(r)
  BY <1>14, FinalFields
<1> QED BY <1>2, <1>3, <1>4, <1>5, <1>6, <1>7, <1>8, <1>10, <1>11, <1>12, <1>13,
        <1>14 DEF Work

-----------------------------------------------------------------------------
(* The steps of a request.                                                 *)

LEMMA RowsRead == \A rows : {u.row : u \in ReadTags(rows)} = rows
<1> TAKE rows
<1>1. \A x \in rows : [row |-> x, tags |-> tags[x]] \in ReadTags(rows)
  BY DEF ReadTags
<1>2. \A u \in ReadTags(rows) : u.row \in rows
  BY DEF ReadTags
<1>3. \A x \in rows : [row |-> x, tags |-> tags[x]].row = x
  OBVIOUS
<1> HIDE DEF ReadTags
<1> QED BY <1>1, <1>2, <1>3

\* A step of r that inserts no row and makes current only rows that it tags.
LEMMA CurrentStep ==
  ASSUME IInv, CInv, NEW r \in Request, Others(r), UNCHANGED <<now, createdAt>>,
         \A s \in Request : s # r \/ planTag[s] # None => planTag'[s] = planTag[s],
         \A x \in Row : latestTagged'[x] =>
           \/ latestTagged[x] /\ tags'[x] = tags[x]
           \/ /\ planTag[r] # None /\ planTag[r].name \in tags'[x]
              /\ x \in VersionRow => ExistsSince(x, TagTime(r)),
         FoundInTime(r)'
  PROVE  CInv'
<1>1. RowsOK'
  BY DEF CInv, RowsOK, Exists
<1>2. /\ \A s \in Request : s # r \/ planTag[s] # None => TagTime(s)' = TagTime(s)
      /\ \A x, t : ExistsSince(x, t)' <=> ExistsSince(x, t)
  BY DEF TagTime, ExistsSince, Exists
<1>3. CurrentIsPublished'
  <2> SUFFICES ASSUME NEW x \in Row, latestTagged'[x]
               PROVE  \E s \in Request :
                        /\ planTag'[s] # None /\ planTag'[s].name \in tags'[x]
                        /\ x \in VersionRow => ExistsSince(x, TagTime(s))'
    BY DEF CurrentIsPublished
  <2>1. PICK s \in Request : /\ planTag[s] # None /\ planTag[s].name \in tags'[x]
                             /\ x \in VersionRow => ExistsSince(x, TagTime(s))
    BY DEF CInv, CurrentIsPublished
  <2>2. planTag'[s] = planTag[s] /\ TagTime(s)' = TagTime(s)
    BY <1>2, <2>1
  <2> QED BY <2>1, <2>2 DEF ExistsSince, Exists
<1>4. ASSUME NEW s \in Request
      PROVE  FoundInTime(s)'
  <2>1. CASE s = r
    BY <2>1
  <2>2. CASE s # r
    <3>1. job'[s] = job[s] /\ TagTime(s)' = TagTime(s) /\ FoundInTime(s)
      BY <1>2, <2>2 DEF Others, CInv
    <3> QED BY <3>1 DEF FoundInTime, Pending, ExistsSince, Exists
  <2> QED BY <2>1, <2>2
<1> QED BY <1>1, <1>3, <1>4 DEF CInv

LEMMA PublishPlanCInv ==
  ASSUME IInv, CInv, NEW r \in Request, PublishPlan(r)
  PROVE  CInv'
<1>1. PICK input \in Inputs :
        job' = [job EXCEPT ![r].pc = "findPeriods", ![r].input = input]
  BY DEF PublishPlan
<1>2. job'[r].pc = "findPeriods" /\ \A s \in Request \ {r} : job'[s] = job[s]
  BY <1>1 DEF IInv, TypeOK, Job
<1>3. now' = now + 1 /\ UNCHANGED <<createdAt, tags, latestTagged, planTag>>
  BY DEF PublishPlan, editVars, rowVars
<1>4. RowsOK'
  <2>1. \A x \in Row : Exists(x) => createdAt[x] \in Nat /\ createdAt[x] <= now + 1
    BY RowTimes DEF CInv, RowsOK, Exists
  <2> QED BY <1>3, <2>1 DEF CInv, RowsOK, Exists
<1>5. CurrentIsPublished'
  BY <1>3 DEF CInv, CurrentIsPublished, TagTime, ExistsSince, Exists
<1>6. \A s \in Request : FoundInTime(s)'
  BY <1>2, <1>3 DEF CInv, FoundInTime, Pending, TagTime, ExistsSince, Exists
<1> QED BY <1>4, <1>5, <1>6 DEF CInv

LEMMA FailCInv ==
  ASSUME IInv, CInv, NEW r \in Request, Fail(r)
  PROVE  CInv'
<1>1. job'[r].pc = "failed" /\ Others(r)
  BY EndShape DEF Fail, IInv
<1>2. FoundInTime(r)'
  BY <1>1 DEF FoundInTime
<1> QED BY <1>1, <1>2, CurrentStep DEF Fail, editVars, rowVars

\* The steps that tag: the rows in the list are the ones found.
LEMMA TagCInv ==
  ASSUME IInv, CInv, NEW r \in Request, TagRows(r) \/ TagVersions(r)
  PROVE  CInv'
<1>1. /\ Others(r) /\ job[r].pc \in Tagging /\ UNCHANGED <<now, planTag>>
  BY TagStepShape
<1>2. PICK here \in {"tagRows", "tagVersions"}, after \in {"untagRows", "findOld"} :
        TagGroup(r, here, after)
  BY DEF TagRows, TagVersions
<1>3. job[r].pc = here /\ FoundInTime(r) /\ job[r] \in Job /\ job \in [Request -> Job]
  BY <1>2 DEF TagGroup, At, CInv, IInv, TypeOK
<1>4a. PICK first \in job[r].todo : \E group \in Groups(r, first) :
           /\ WriteTags(r, {s.row : s \in group}, first.tags)
           /\ job' = [job EXCEPT ![r].todo = @ \ group,
                                 ![r].pc = IF job[r].todo \ group = {}
                                             THEN after ELSE here]
  BY <1>2 DEF TagGroup
<1>4. PICK group \in Groups(r, first) :
         /\ WriteTags(r, {s.row : s \in group}, first.tags)
         /\ job' = [job EXCEPT ![r].todo = @ \ group,
                               ![r].pc = IF job[r].todo \ group = {}
                                           THEN after ELSE here]
  BY <1>4a
<1> DEFINE rest == job[r].todo \ group
           step == IF rest = {} THEN after ELSE here
           rows == {s.row : s \in group}
           new == [job[r] EXCEPT !.todo = rest, !.pc = step]
<1>5. job' = [job EXCEPT ![r] = new]
  BY <1>3, <1>4
<1>6. rows \subseteq Pending(r) /\ rest \subseteq job[r].todo /\ step \in {here, after}
  BY DEF Groups, Pending
<1>7. WriteTags(r, rows, first.tags)
  BY <1>4
<1> HIDE DEF rest, step, rows
<1>8. new.todo = rest /\ new.pc = step /\ new.newest = job[r].newest
  BY <1>3 DEF Job
<1> HIDE DEF new
<1>9. job'[r].todo = rest /\ job'[r].pc = step /\ job'[r].newest = job[r].newest
  BY <1>3, <1>5, <1>8
<1>10. TagTime(r)' = TagTime(r) /\ UNCHANGED createdAt
  BY <1>1, <1>2 DEF TagTime, TagGroup, editVars
<1>11. Pending(r)' \subseteq Pending(r)
  BY <1>6, <1>9 DEF Pending
<1>12. FoundInTime(r)'
  BY <1>3, <1>6, <1>9, <1>10, <1>11 DEF FoundInTime, ExistsSince, Exists
<1>13. planTag[r] # None /\ planTag[r].name = job[r].name
  BY <1>1 DEF IInv, JobOK
<1>14. \A x \in rows : x \in VersionRow => ExistsSince(x, TagTime(r))
  BY <1>3, <1>6, KeysAssumption DEF FoundInTime
<1>15. \A x \in Row : /\ x \in rows => job[r].name \in tags'[x]
                      /\ x \notin rows => /\ tags'[x] = tags[x]
                                          /\ latestTagged'[x] => latestTagged[x]
  BY <1>7 DEF WriteTags
<1> QED BY <1>1, <1>10, <1>12, <1>13, <1>14, <1>15, CurrentStep

\* The steps that read which rows to tag.
LEMMA FindCInv ==
  ASSUME IInv, CInv, NEW r \in Request,
         \/ FindRows(r) \/ FindMeasurements(r) \/ FindVersions(r)
         \/ FindPlanVersions(r) \/ ReadLatest(r)
  PROVE  CInv'
<1>1. job \in [Request -> Job] /\ job[r] \in Job /\ FoundInTime(r)
  BY DEF IInv, TypeOK, CInv
<1>2. UNCHANGED <<now, createdAt, tags, latestTagged, planTag>> /\ Others(r)
  BY WorkLeadsTo DEF Work, FindRows, FindMeasurements, FindVersions, FindPlanVersions,
     ReadLatest, editVars, rowVars
<1>3. TagTime(r)' = TagTime(r)
  BY <1>2 DEF TagTime
<1> SUFFICES FoundInTime(r)'
  BY <1>2, CurrentStep
<1>4. ASSUME NEW rows \in SUBSET BaseRow, SortBaseRows(r, rows)
      PROVE  FoundInTime(r)'
  <2> DEFINE active == {b \in rows : IsActive(b, TagTime(r))}
             step == IF active = {} THEN "untagRows" ELSE "tagRows"
             read == ReadTags(active)
             stale == rows \ active
             new == [job[r] EXCEPT !.bases = rows, !.todo = read,
                                   !.stale = stale, !.pc = step]
  <2>1. job' = [job EXCEPT ![r] = new]
    BY <1>1, <1>4 DEF SortBaseRows
  <2>2. {u.row : u \in read} = active /\ active \subseteq BaseRow
    BY RowsRead
  <2>3. step \in {"untagRows", "tagRows"}
    OBVIOUS
  <2> HIDE DEF active, read, stale, step
  <2>4. new.todo = read /\ new.pc = step
    BY <1>1 DEF Job
  <2> HIDE DEF new
  <2>5. job'[r] = new
    BY <1>1, <2>1
  <2> QED BY <2>2, <2>3, <2>4, <2>5 DEF FoundInTime, Pending
<1>5. CASE FindRows(r)
  <2> DEFINE rows == {b \in BaseRow \ CostAttachment :
                        Exists(b) /\ TableOf[b] = job[r].table}
  <2>1. SortBaseRows(r, rows) /\ rows \in SUBSET BaseRow
    BY <1>5 DEF FindRows
  <2> HIDE DEF rows
  <2> QED BY <1>4, <2>1
<1>6. CASE FindMeasurements(r)
  <2> DEFINE rows == {m \in Measurement : /\ Exists(m)
                                          /\ AttachmentOf[m] \in job[r].bases
                                          /\ PeriodOf[m] \in job[r].input.periods}
  <2>1. SortBaseRows(r, rows) /\ rows \in SUBSET BaseRow
    BY <1>6, TableSets DEF FindMeasurements
  <2> HIDE DEF rows
  <2> QED BY <1>4, <2>1
<1>7. ASSUME NEW newest, NEW bases, \A v \in newest : ExistsSince(v, TagTime(r)),
             \/ job' = [job EXCEPT ![r].pc = "readLatest", ![r].newest = newest]
             \/ job' = [job EXCEPT ![r].pc = "readLatest", ![r].newest = newest,
                                   ![r].bases = bases]
      PROVE  FoundInTime(r)'
  <2>1. job'[r].pc = "readLatest" /\ job'[r].newest = newest
    BY <1>1, <1>7 DEF Job
  <2> QED BY <1>2, <1>3, <1>7, <2>1 DEF FoundInTime, ExistsSince, Exists
<1>8. CASE FindVersions(r)
  <2> DEFINE newest == NewestPerBase({v \in VersionRow :
                         ExistsSince(v, TagTime(r)) /\ BaseOf[v] \in job[r].bases})
  <2>1. /\ job' = [job EXCEPT ![r].pc = "readLatest", ![r].newest = newest]
        /\ \A v \in newest : ExistsSince(v, TagTime(r))
    BY <1>8 DEF FindVersions, NewestPerBase
  <2> HIDE DEF newest
  <2> QED BY <1>7, <2>1
<1>9. CASE FindPlanVersions(r)
  <2> DEFINE found == {v \in PlanVersion : ExistsSince(v, TagTime(r))}
             newest == NewestPerBase(found)
             bases == {BaseOf[v] : v \in found}
  <2>1. /\ job' = [job EXCEPT ![r].pc = "readLatest", ![r].newest = newest,
                              ![r].bases = bases]
        /\ \A v \in newest : ExistsSince(v, TagTime(r))
    BY <1>9 DEF FindPlanVersions, NewestPerBase
  <2> HIDE DEF found, newest, bases
  <2> QED BY <1>7, <2>1
<1>10. CASE ReadLatest(r)
  <2> DEFINE read == ReadTags(job[r].newest)
             step == IF job[r].newest = {} THEN "findOld" ELSE "tagVersions"
             new == [job[r] EXCEPT !.todo = read, !.pc = step]
  <2>1. job' = [job EXCEPT ![r] = new] /\ job[r].pc = "readLatest"
    BY <1>1, <1>10 DEF ReadLatest, At
  <2>2. {u.row : u \in read} = job[r].newest
    BY RowsRead
  <2>3. step \in {"findOld", "tagVersions"}
    OBVIOUS
  <2> HIDE DEF read, step
  <2>4. new.todo = read /\ new.pc = step /\ new.newest = job[r].newest
    BY <1>1 DEF Job
  <2> HIDE DEF new
  <2>5. job'[r] = new
    BY <1>1, <2>1
  <2> QED BY <1>1, <1>2, <1>3, <2>1, <2>2, <2>3, <2>4, <2>5
          DEF FoundInTime, Pending, ExistsSince, Exists
<1> QED BY <1>5, <1>6, <1>8, <1>9, <1>10

LEMMA WorkCInv ==
  ASSUME IInv, CInv, NEW r \in Request, Work(r)
  PROVE  CInv'
<1> DEFINE Finds == \/ FindRows(r) \/ FindMeasurements(r) \/ FindVersions(r)
                    \/ FindPlanVersions(r) \/ ReadLatest(r)
           Tags == TagRows(r) \/ TagVersions(r)
<1>1. CASE Finds
  BY <1>1, FindCInv
<1>2. CASE Tags
  BY <1>2, TagCInv
<1>3. CASE ~Finds /\ ~Tags
  <2>1. Others(r) /\ FoundInTime(r)'
    BY <1>3, WorkLeadsTo DEF FoundInTime
  <2>2. CASE UntagRows(r) \/ UntagOld(r)
    <3>1. UNCHANGED <<now, createdAt, tags, planTag>>
      BY <2>2 DEF UntagRows, UntagOld, editVars
    <3>2. \A x \in Row : latestTagged'[x] => latestTagged[x]
      BY <2>2 DEF UntagRows, UntagOld, ClearLatest
    <3> QED BY <2>1, <3>1, <3>2, CurrentStep
  <2>3. CASE CreateTag(r)
    <3>1. /\ planTag[r] = None /\ \A s \in Request \ {r} : planTag'[s] = planTag[s]
          /\ UNCHANGED <<now, createdAt, tags, latestTagged>>
      BY <2>3, CreateTagShape DEF CreateTag, editVars, rowVars, IInv, TypeOK
    <3> QED BY <2>1, <3>1, CurrentStep
  <2>4. CASE ~(UntagRows(r) \/ UntagOld(r) \/ CreateTag(r))
    <3>1. UNCHANGED <<now, createdAt, tags, latestTagged, planTag>>
      BY <1>3, <2>4 DEF Work, FindPeriods, FindLatestVersion, SetCurrentPeriod,
         EndRevision, GetNextTag, FindAttachments, FindOld, FindAssociated,
         FindPublishedPeriods, FindPublishedMeasurements, SetLastPublished,
         editVars, rowVars
    <3> QED BY <2>1, <3>1, CurrentStep
  <2> QED BY <2>2, <2>3, <2>4
<1> QED BY <1>1, <1>2, <1>3

LEMMA NextCInv == IInv /\ CInv /\ [Next]_vars => CInv'
BY WorkCInv, PublishPlanCInv, FailCInv, EditCInv DEF Next

-----------------------------------------------------------------------------
\* However publications of a plan overlap and wherever they stop, a row that
\* updateVersionStates leaves current carries the name of a tag of the plan,
\* and if it is a version, it existed when that tag was created.
THEOREM CurrentIsPublishedHolds == Spec => []CurrentIsPublished
<1>1. IInv /\ CInv /\ [Next]_vars => IInv' /\ CInv'
  BY NextIInv, NextCInv
<1>2. CInv => CurrentIsPublished
  BY DEF CInv
<1> QED BY <1>1, <1>2, InitIInv, InitCInv, PTL DEF Spec
=============================================================================
