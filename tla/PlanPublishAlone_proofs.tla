---------------------- MODULE PlanPublishAlone_proofs -----------------------
(***************************************************************************)
(* What publishPlan guarantees while the publications at work run alone    *)
(* (Lone), wherever they and those before them stop: no tag lost from a    *)
(* row.  When all publications of a plan run alone: increasing tag names,  *)
(* and the log of tags of PublishLog.                                      *)
(***************************************************************************)
EXTENDS PlanPublish_proofs

OneRunning ==
  \A r \in Lone, s \in Request : Running(r) /\ Running(s) => r = s

SnapshotsAreCurrent ==
  \A r \in Lone : /\ ~Running(r) => job[r].todo = {}
                  /\ \A u \in job[r].todo : u.tags = tags[u.row]

\* A tag is older than now while another is to be created, unless the two
\* publications may overlap.
TagsInThePast ==
  /\ \A s \in Request : planTag[s] # None => TagTime(s) <= now
  /\ \A r, s \in Request :
       /\ {r, s} \cap Lone # {}
       /\ Running(r) /\ job[r].pc \in BeforeTag
       /\ planTag[s] # None
       => TagTime(s) < now

NameIsNewest ==
  \A r, s \in Request :
    /\ s # r
    /\ job[r].pc \in Tagging \cup {"createTag"}
    /\ planTag[s] # None
    => NameBefore(planTag[s].name, job[r].name)

AInv ==
  /\ OneRunning
  /\ SnapshotsAreCurrent
  /\ TagsInThePast
  /\ Lone = Request => NameIsNewest /\ NamesIncrease

-----------------------------------------------------------------------------
LEMMA NameBeforeTransitive ==
  ASSUME NEW l \in Name, NEW m \in Name, NEW n \in Name,
         NameBefore(l, m), NameBefore(m, n)
  PROVE  NameBefore(l, n)
BY DEF NameBefore, Name

LEMMA NextNameIsAfter ==
  ASSUME NEW n \in Name, NEW major \in BOOLEAN
  PROVE  NameBefore(n, NextName(n, major))
BY DEF NameBefore, NextName, Name

LEMMA TagRowType ==
  ASSUME TypeOK, NEW r \in Request, planTag[r] # None
  PROVE  planTag[r] \in TagRow /\ planTag[r].name \in Name /\ TagTime(r) \in Nat
BY DEF TypeOK, TagRow, TagTime

LEMMA InitAInv == Init => AInv
BY InputAssumption DEF Init, AInv, OneRunning, SnapshotsAreCurrent, TagsInThePast, NameIsNewest,
   NamesIncrease, NoJob, Running, Idle, Tagging

(***************************************************************************)
(* A step of r that leaves the clock and the tags of rows alone.           *)
(***************************************************************************)
Others(r) == \A s \in Request \ {r} : job'[s] = job[s]

LEMMA LocalStep ==
  ASSUME IInv, AInv, NEW r \in Lone, Running(r), Others(r),
         UNCHANGED <<now, tags, planTag>>,
         job'[r].pc \in BeforeTag \cup Tagging \cup Idle,
         job'[r].pc \in BeforeTag => job[r].pc \in BeforeTag,
         job'[r].pc \in Tagging => job[r].pc \in Tagging /\ job'[r].name = job[r].name,
         Lone = Request /\ job'[r].pc = "createTag" =>
           \A s \in Request \ {r} :
             planTag[s] # None => NameBefore(planTag[s].name, job'[r].name),
         job'[r].pc \in Idle => job'[r].todo = {},
         \A u \in job'[r].todo : u.tags = tags[u.row]
  PROVE  AInv'
<1>1. /\ r \in Request
      /\ \A s \in Request : s # r =>
           ~Running(s) /\ job[s].pc \in Idle /\ job'[s] = job[s]
  BY InputAssumption DEF AInv, OneRunning, Running, Others
<1>2. OneRunning'
  BY <1>1, InputAssumption DEF OneRunning, Running
<1>3. SnapshotsAreCurrent'
  BY <1>1, InputAssumption DEF AInv, SnapshotsAreCurrent, Running
<1>4. TagsInThePast'
  BY <1>1 DEF AInv, TagsInThePast, Running, TagTime
<1>5. Lone = Request => NameIsNewest'
  BY <1>1 DEF AInv, NameIsNewest, Idle, Tagging, BeforeTag
<1>6. Lone = Request => NamesIncrease'
  BY DEF AInv, NamesIncrease, TagTime
<1> QED BY <1>2, <1>3, <1>4, <1>5, <1>6 DEF AInv

LEMMA EndShape ==
  ASSUME TypeOK, NEW r \in Request, NEW outcome, End(r, outcome)
  PROVE  job'[r].pc = outcome /\ job'[r].todo = {} /\ Others(r)
BY DEF End, TypeOK, NoJob, Others

\* Where the steps before the tag lead.
LEMMA BeforeTagShape ==
  ASSUME TypeOK, NEW r \in Request,
         \/ FindPeriods(r) \/ FindLatestVersion(r)
         \/ SetCurrentPeriod(r) \/ EndRevision(r)
  PROVE  /\ Others(r)
         /\ job[r].pc \in BeforeTag \ Idle
         /\ job'[r].pc \in (BeforeTag \ {"idle", "createTag"}) \cup {"failed"}
         /\ job'[r].pc \in Idle => job'[r].todo = {}
         /\ job'[r].todo \in {{}, job[r].todo}
         /\ UNCHANGED <<now, rowVars, planTag>>
<1>1. job \in [Request -> Job] /\ job[r] \in Job
  BY DEF TypeOK
<1>2. CASE FindPeriods(r)
  <2>1. CASE End(r, "failed")
    BY <1>2, <2>1, EndShape DEF FindPeriods, At, BeforeTag, Idle
  <2>2. ASSUME NEW p, job' = [job EXCEPT ![r].pc = "findLatestVersion",
                                         ![r].period = p]
        PROVE  /\ Others(r) /\ job'[r].pc = "findLatestVersion"
               /\ job'[r].todo = job[r].todo
    BY <1>1, <2>2 DEF Others, Job
  <2> QED BY <1>2, <2>1, <2>2 DEF FindPeriods, At, BeforeTag, Idle
<1>3. CASE FindLatestVersion(r)
  <2>1. CASE Goto(r, "endRevision")
    <3>1. /\ Others(r) /\ job'[r].pc = "endRevision"
          /\ job'[r].todo = job[r].todo
      BY <1>1, <2>1 DEF Goto, Others, Job
    <3> QED BY <1>3, <3>1 DEF FindLatestVersion, At, BeforeTag, Idle
  <2>2. ASSUME NEW v, job' = [job EXCEPT ![r].pc = "setCurrentPeriod",
                                         ![r].version = v]
        PROVE  /\ Others(r) /\ job'[r].pc = "setCurrentPeriod"
               /\ job'[r].todo = job[r].todo
    BY <1>1, <2>2 DEF Others, Job
  <2> QED BY <1>3, <2>1, <2>2 DEF FindLatestVersion, At, BeforeTag, Idle
<1>4. CASE SetCurrentPeriod(r)
  <2>1. /\ Others(r) /\ job'[r].pc = "endRevision"
        /\ job'[r].todo = job[r].todo
    BY <1>1, <1>4 DEF SetCurrentPeriod, Goto, Others, Job
  <2> QED BY <1>4, <2>1 DEF SetCurrentPeriod, At, BeforeTag, Idle
<1>5. CASE EndRevision(r)
  <2>1. /\ Others(r) /\ job'[r].pc = "getNextTag"
        /\ job'[r].todo = job[r].todo
    BY <1>1, <1>5 DEF EndRevision, Others, Job
  <2> QED BY <1>5, <2>1 DEF EndRevision, At, BeforeTag, Idle
<1> QED BY <1>2, <1>3, <1>4, <1>5

LEMMA LeaveShape ==
  ASSUME IInv, NEW r \in Request, job[r].pc \in Tagging, LeaveTable(r)
  PROVE  /\ Others(r) /\ job'[r].pc \in Tagging /\ job'[r].todo = {}
         /\ job'[r].name = job[r].name
BY LeaveJob DEF IInv, TypeOK, Others

\* Where the steps after the tag lead, except the two that tag rows: the
\* snapshots r holds are dropped, kept, or just read.
TaggingShape(r) ==
  /\ Others(r)
  /\ job[r].pc \in Tagging
  /\ job'[r].pc \in Tagging \cup {"done", "failed"}
  /\ job'[r].pc \in Tagging => job'[r].name = job[r].name
  /\ job'[r].pc \in Idle => job'[r].todo = {}
  /\ \A u \in job'[r].todo : u \in job[r].todo \/ u.tags = tags[u.row]
  /\ UNCHANGED <<now, tags, planTag>>

\* The frame of the steps that change one request's local variables.
LEMMA StaysShape ==
  ASSUME IInv, NEW r \in Request, NEW new, NEW step \in Tagging,
         job[r].pc \in Tagging, job' = [job EXCEPT ![r] = new],
         new.pc = step, new.name = job[r].name, UNCHANGED <<now, tags, planTag>>,
         \A u \in new.todo : u \in job[r].todo \/ u.tags = tags[u.row]
  PROVE  TaggingShape(r)
BY DEF TaggingShape, Others, IInv, TypeOK, Tagging, Idle

LEMMA LeavesShape ==
  ASSUME IInv, NEW r \in Request, job[r].pc \in Tagging, LeaveTable(r),
         UNCHANGED <<now, tags, planTag>>
  PROVE  TaggingShape(r)
<1>1. /\ Others(r) /\ job'[r].pc \in Tagging /\ job'[r].todo = {}
      /\ job'[r].name = job[r].name
  BY LeaveShape
<1>2. job'[r].pc \notin Idle
  BY <1>1 DEF Tagging, Idle
<1> QED BY <1>1, <1>2 DEF TaggingShape

LEMMA EndsShape ==
  ASSUME IInv, NEW r \in Request, NEW outcome \in {"done", "failed"},
         job[r].pc \in Tagging, End(r, outcome), UNCHANGED <<now, tags, planTag>>
  PROVE  TaggingShape(r)
<1>1. job'[r].pc = outcome /\ job'[r].todo = {} /\ Others(r)
  BY EndShape DEF IInv
<1>2. job'[r].pc \notin Tagging
  BY <1>1 DEF Tagging
<1> QED BY <1>1, <1>2 DEF TaggingShape

LEMMA SortShape ==
  ASSUME IInv, NEW r \in Request, NEW rows, SortBaseRows(r, rows),
         job[r].pc \in Tagging, UNCHANGED <<now, tags, planTag>>
  PROVE  TaggingShape(r)
<1>1. job \in [Request -> Job] /\ job[r] \in Job
  BY DEF IInv, TypeOK
<1> DEFINE active == {b \in rows : IsActive(b, TagTime(r))}
           step == IF active = {} THEN "untagRows" ELSE "tagRows"
           read == ReadTags(active)
           stale == rows \ active
           new == [job[r] EXCEPT !.bases = rows, !.todo = read,
                                 !.stale = stale, !.pc = step]
<1>2. \A u \in read : u.tags = tags[u.row]
  BY DEF ReadTags
<1>3. step \in Tagging
  BY DEF Tagging
<1>4. job' = [job EXCEPT ![r] = new]
  BY <1>1 DEF SortBaseRows
<1> HIDE DEF active, step, read, stale
<1>5. new.pc = step /\ new.name = job[r].name /\ new.todo = read
  BY <1>1 DEF Job
<1> HIDE DEF new
<1> QED BY <1>2, <1>3, <1>4, <1>5, StaysShape

LEMMA ReadingShape ==
  ASSUME IInv, NEW r \in Request,
         \/ FindRows(r) \/ FindAttachments(r) \/ FindMeasurements(r)
         \/ FindVersions(r) \/ FindPlanVersions(r) \/ ReadLatest(r)
         \/ FindOld(r) \/ FindAssociated(r)
  PROVE  TaggingShape(r) /\ UNCHANGED latestTagged
<1>1. job \in [Request -> Job] /\ job[r] \in Job
  BY DEF IInv, TypeOK
<1>2. CASE FindRows(r)
  BY <1>2, SortShape DEF FindRows, At, Tagging, rowVars
<1>3. CASE FindAttachments(r)
  <2> DEFINE rows == {b \in BaseRow : Exists(b) /\ TableOf[b] = "attachment"}
             new == [job[r] EXCEPT !.pc = "findMeasurements", !.bases = rows]
  <2>1. job' = [job EXCEPT ![r] = new]
    BY <1>1, <1>3 DEF FindAttachments
  <2> HIDE DEF rows
  <2>2. /\ new.pc = "findMeasurements" /\ new.name = job[r].name
        /\ new.todo = job[r].todo
    BY <1>1 DEF Job
  <2> HIDE DEF new
  <2> QED BY <1>3, <2>1, <2>2, StaysShape DEF FindAttachments, At, Tagging, rowVars
<1>4. CASE FindMeasurements(r)
  <2> DEFINE rows == {m \in Measurement : /\ Exists(m)
                                          /\ AttachmentOf[m] \in job[r].bases
                                          /\ PeriodOf[m] \in job[r].input.periods}
  <2>1. SortBaseRows(r, rows)
    BY <1>4 DEF FindMeasurements
  <2> HIDE DEF rows
  <2> QED BY <1>4, <2>1, SortShape DEF FindMeasurements, At, Tagging, rowVars
<1>5. CASE FindVersions(r)
  <2> DEFINE newest == NewestPerBase({v \in VersionRow :
                       ExistsSince(v, TagTime(r)) /\ BaseOf[v] \in job[r].bases})
             new == [job[r] EXCEPT !.pc = "readLatest", !.newest = newest]
  <2>1. job' = [job EXCEPT ![r] = new]
    BY <1>1, <1>5 DEF FindVersions
  <2> HIDE DEF newest
  <2>2. /\ new.pc = "readLatest" /\ new.name = job[r].name
        /\ new.todo = job[r].todo
    BY <1>1 DEF Job
  <2> HIDE DEF new
  <2> QED BY <1>5, <2>1, <2>2, StaysShape DEF FindVersions, At, Tagging, rowVars
<1>6. CASE FindPlanVersions(r)
  <2> DEFINE found == {v \in PlanVersion : ExistsSince(v, TagTime(r))}
             newest == NewestPerBase(found)
             bases == {BaseOf[v] : v \in found}
             new == [job[r] EXCEPT !.pc = "readLatest", !.newest = newest,
                                   !.bases = bases]
  <2>1. job' = [job EXCEPT ![r] = new]
    BY <1>1, <1>6 DEF FindPlanVersions
  <2> HIDE DEF found, newest, bases
  <2>2. /\ new.pc = "readLatest" /\ new.name = job[r].name
        /\ new.todo = job[r].todo
    BY <1>1 DEF Job
  <2> HIDE DEF new
  <2> QED BY <1>6, <2>1, <2>2, StaysShape DEF FindPlanVersions, At, Tagging, rowVars
<1>7. CASE ReadLatest(r)
  <2> DEFINE read == ReadTags(job[r].newest)
             step == IF job[r].newest = {} THEN "findOld" ELSE "tagVersions"
             new == [job[r] EXCEPT !.todo = read, !.pc = step]
  <2>1. job' = [job EXCEPT ![r] = new]
    BY <1>1, <1>7 DEF ReadLatest
  <2>2. step \in Tagging
    BY DEF Tagging
  <2>3. \A u \in read : u.tags = tags[u.row]
    BY DEF ReadTags
  <2> HIDE DEF read, step
  <2>4. new.pc = step /\ new.name = job[r].name /\ new.todo = read
    BY <1>1 DEF Job
  <2> HIDE DEF new
  <2> QED BY <1>7, <2>1, <2>2, <2>3, <2>4, StaysShape
          DEF ReadLatest, At, Tagging, rowVars
<1>8. CASE FindOld(r)
  <2>1. CASE LeaveTable(r)
    BY <1>8, <2>1, LeavesShape DEF FindOld, At, Tagging, rowVars
  <2>2. ASSUME NEW old, job' = [job EXCEPT ![r].pc = "untagOld", ![r].stale = old]
        PROVE  TaggingShape(r)
    <3> DEFINE new == [job[r] EXCEPT !.pc = "untagOld", !.stale = old]
    <3>1. job' = [job EXCEPT ![r] = new]
      BY <1>1, <2>2
    <3>2. new.pc = "untagOld" /\ new.name = job[r].name /\ new.todo = job[r].todo
      BY <1>1 DEF Job
    <3> HIDE DEF new
    <3> QED BY <1>8, <3>1, <3>2, StaysShape DEF FindOld, At, Tagging, rowVars
  <2> QED BY <1>8, <2>1, <2>2 DEF FindOld, rowVars
<1>9. CASE FindAssociated(r)
  <2>1. CASE End(r, "failed")
    BY <1>9, <2>1, EndsShape DEF FindAssociated, At, Tagging, rowVars
  <2>2. ASSUME NEW v \in PlanVersion,
               job' = [job EXCEPT ![r].pc = "findPublishedPeriods",
                                  ![r].version = v, ![r].period = lastPub[v]]
        PROVE  TaggingShape(r)
    <3> DEFINE new == [job[r] EXCEPT !.pc = "findPublishedPeriods",
                                     !.version = v, !.period = lastPub[v]]
    <3>1. job' = [job EXCEPT ![r] = new]
      BY <1>1, <2>2
    <3>2. /\ new.pc = "findPublishedPeriods" /\ new.name = job[r].name
          /\ new.todo = job[r].todo
      BY <1>1 DEF Job
    <3> HIDE DEF new
    <3> QED BY <1>9, <3>1, <3>2, StaysShape DEF FindAssociated, At, Tagging, rowVars
  <2> QED BY <1>9, <2>1, <2>2 DEF FindAssociated, rowVars
<1> QED BY <1>2, <1>3, <1>4, <1>5, <1>6, <1>7, <1>8, <1>9
        DEF FindRows, FindAttachments, FindMeasurements, FindVersions,
            FindPlanVersions, ReadLatest, rowVars

LEMMA PublishedShape ==
  ASSUME IInv, NEW r \in Request,
         \/ FindPublishedPeriods(r) \/ FindPublishedMeasurements(r)
         \/ SetLastPublished(r)
  PROVE  TaggingShape(r) /\ UNCHANGED latestTagged
<1>1. job \in [Request -> Job] /\ job[r] \in Job
  BY DEF IInv, TypeOK
<1>2. job[r].pc \in Tagging /\ UNCHANGED <<now, rowVars, planTag>>
  BY DEF FindPublishedPeriods, FindPublishedMeasurements, SetLastPublished, At,
     Tagging
<1>3. CASE End(r, "done")
  BY <1>2, <1>3, EndsShape DEF rowVars
<1>4. CASE Goto(r, "setLastPublished")
  <2> DEFINE new == [job[r] EXCEPT !.pc = "setLastPublished"]
  <2>1. job' = [job EXCEPT ![r] = new]
    BY <1>1, <1>4 DEF Goto
  <2>2. /\ new.pc = "setLastPublished" /\ new.name = job[r].name
        /\ new.todo = job[r].todo
    BY <1>1 DEF Job
  <2> HIDE DEF new
  <2> QED BY <1>2, <2>1, <2>2, StaysShape DEF Tagging, rowVars
<1>5. ASSUME NEW highest,
             job' = [job EXCEPT ![r].pc = "findPublishedMeasurements",
                                ![r].period = highest]
      PROVE  TaggingShape(r)
  <2> DEFINE new == [job[r] EXCEPT !.pc = "findPublishedMeasurements",
                                   !.period = highest]
  <2>1. job' = [job EXCEPT ![r] = new]
    BY <1>1, <1>5
  <2>2. /\ new.pc = "findPublishedMeasurements" /\ new.name = job[r].name
        /\ new.todo = job[r].todo
    BY <1>1 DEF Job
  <2> HIDE DEF new
  <2> QED BY <1>2, <2>1, <2>2, StaysShape DEF Tagging, rowVars
<1> QED BY <1>2, <1>3, <1>4, <1>5 DEF FindPublishedPeriods,
        FindPublishedMeasurements, SetLastPublished, rowVars

LEMMA UntagShape ==
  ASSUME IInv, NEW r \in Request, UntagRows(r) \/ UntagOld(r)
  PROVE  TaggingShape(r) /\ \E rows : ClearLatest(rows)
<1>1. job \in [Request -> Job] /\ job[r] \in Job
  BY DEF IInv, TypeOK
<1>2. job[r].pc \in Tagging /\ UNCHANGED <<now, tags, planTag>>
  BY DEF UntagRows, UntagOld, At, Tagging
<1>3. ASSUME LeaveTable(r)
      PROVE  TaggingShape(r)
  BY <1>2, <1>3, LeavesShape
<1>4. ASSUME NEW chunk, job' = [job EXCEPT ![r].stale = @ \ chunk]
      PROVE  TaggingShape(r)
  <2> DEFINE new == [job[r] EXCEPT !.stale = @ \ chunk]
  <2>1. job' = [job EXCEPT ![r] = new]
    BY <1>1, <1>4
  <2>2. /\ new.pc = job[r].pc /\ new.name = job[r].name
        /\ new.todo = job[r].todo
    BY <1>1 DEF Job
  <2> HIDE DEF new
  <2> QED BY <1>2, <2>1, <2>2, StaysShape
<1>5. ASSUME job' = [job EXCEPT ![r].pc = "findVersions", ![r].stale = {}]
      PROVE  TaggingShape(r)
  <2> DEFINE new == [job[r] EXCEPT !.pc = "findVersions", !.stale = {}]
  <2>1. job' = [job EXCEPT ![r] = new]
    BY <1>1, <1>5
  <2>2. /\ new.pc = "findVersions" /\ new.name = job[r].name
        /\ new.todo = job[r].todo
    BY <1>1 DEF Job
  <2> HIDE DEF new
  <2> QED BY <1>2, <2>1, <2>2, StaysShape DEF Tagging
<1> QED BY <1>3, <1>4, <1>5 DEF UntagRows, UntagOld

\* What one UPDATE of the tagging loops does: the rows of a group of snapshots
\* get the tags that were read, plus the new one.
LEMMA TagStepShape ==
  ASSUME IInv, NEW r \in Request, TagRows(r) \/ TagVersions(r)
  PROVE  /\ Others(r)
         /\ job[r].pc \in Tagging /\ job'[r].pc \in Tagging
         /\ job'[r].name = job[r].name
         /\ UNCHANGED <<now, planTag>>
         /\ \E first \in job[r].todo, group \in SUBSET job[r].todo :
              /\ \A u \in group : u.tags = first.tags
              /\ job'[r].todo = job[r].todo \ group
              /\ WriteTags(r, {u.row : u \in group}, first.tags)
<1>1. job \in [Request -> Job] /\ job[r] \in Job
  BY DEF IInv, TypeOK
<1>2. PICK here \in {"tagRows", "tagVersions"}, after \in {"untagRows", "findOld"} :
        TagGroup(r, here, after)
  BY DEF TagRows, TagVersions
<1>3a. PICK first \in job[r].todo : \E group \in Groups(r, first) :
           /\ WriteTags(r, {s.row : s \in group}, first.tags)
           /\ job' = [job EXCEPT ![r].todo = @ \ group,
                                 ![r].pc = IF job[r].todo \ group = {}
                                             THEN after ELSE here]
  BY <1>2 DEF TagGroup
<1>3. PICK group \in Groups(r, first) :
         /\ WriteTags(r, {s.row : s \in group}, first.tags)
         /\ job' = [job EXCEPT ![r].todo = @ \ group,
                               ![r].pc = IF job[r].todo \ group = {}
                                           THEN after ELSE here]
  BY <1>3a
<1> DEFINE rest == job[r].todo \ group
           step == IF rest = {} THEN after ELSE here
           new == [job[r] EXCEPT !.todo = rest, !.pc = step]
<1>4. job' = [job EXCEPT ![r] = new]
  BY <1>1, <1>3
<1>5. group \in SUBSET job[r].todo /\ \A u \in group : u.tags = first.tags
  BY DEF Groups
<1>6. WriteTags(r, {u.row : u \in group}, first.tags)
  BY <1>3
<1>7. rest = job[r].todo \ group
  OBVIOUS
<1>8. step \in Tagging /\ job[r].pc \in Tagging /\ UNCHANGED <<now, planTag>>
  BY <1>2 DEF TagGroup, At, Tagging
<1> HIDE DEF rest, step
<1>9. new.pc = step /\ new.name = job[r].name /\ new.todo = rest
  BY <1>1 DEF Job
<1> HIDE DEF new
<1>10. Others(r) /\ job'[r] = new
  BY <1>1, <1>4 DEF Others
<1> QED BY <1>5, <1>6, <1>7, <1>8, <1>9, <1>10

\* Where the snapshots are current, the tags of these rows grow.
LEMMA TagShape ==
  ASSUME IInv, AInv, NEW r \in Lone, TagRows(r) \/ TagVersions(r)
  PROVE  /\ \A u \in job'[r].todo : u.tags = tags'[u.row]
         /\ \E rows \in SUBSET Row :
              /\ tags' = [x \in Row |-> IF x \in rows
                                         THEN tags[x] \cup {job[r].name}
                                         ELSE tags[x]]
              /\ latestTagged' = [x \in Row |-> x \in rows \/ latestTagged[x]]
<1>1. r \in Request
  BY InputAssumption
<1>2. PICK first \in job[r].todo, group \in SUBSET job[r].todo :
        /\ \A u \in group : u.tags = first.tags
        /\ job'[r].todo = job[r].todo \ group
        /\ WriteTags(r, {u.row : u \in group}, first.tags)
  BY <1>1, TagStepShape
<1> DEFINE rows == {u.row : u \in group}
<1>3. \A u \in job[r].todo : u \in Snapshot /\ u.row \in Row /\ u.tags = tags[u.row]
  BY <1>1 DEF IInv, TypeOK, AInv, SnapshotsAreCurrent, Job, Snapshot
<1>4. rows \in SUBSET Row /\ \A x \in rows : tags[x] = first.tags
  BY <1>2, <1>3
<1>5. \A u \in job'[r].todo : u.row \notin rows
  <2> SUFFICES ASSUME NEW u \in job'[r].todo, NEW g \in group, u.row = g.row
               PROVE  FALSE
    OBVIOUS
  <2>1. u = g
    BY <1>2, <1>3 DEF Snapshot
  <2> QED BY <1>2, <2>1
<1>6. /\ tags' = [x \in Row |-> IF x \in rows
                                THEN first.tags \cup {job[r].name} ELSE tags[x]]
      /\ latestTagged' = [x \in Row |-> x \in rows \/ latestTagged[x]]
  BY <1>2 DEF WriteTags
<1> HIDE DEF rows
<1>7. tags' = [x \in Row |-> IF x \in rows THEN tags[x] \cup {job[r].name}
                                           ELSE tags[x]]
  BY <1>4, <1>6
<1>8. \A u \in job'[r].todo : u.tags = tags'[u.row]
  <2> SUFFICES ASSUME NEW u \in job'[r].todo
               PROVE  u.tags = tags'[u.row]
    OBVIOUS
  <2>1. u \in job[r].todo
    BY <1>2
  <2> QED BY <1>3, <1>5, <1>6, <2>1
<1> QED BY <1>4, <1>6, <1>7, <1>8

-----------------------------------------------------------------------------
(* The invariant is inductive: the steps of a request that runs alone.     *)

LEMMA BeforeTagAInv ==
  ASSUME IInv, AInv, NEW r \in Lone,
         \/ FindPeriods(r) \/ FindLatestVersion(r)
         \/ SetCurrentPeriod(r) \/ EndRevision(r)
  PROVE  AInv'
<1>1. /\ Others(r)
      /\ job[r].pc \in BeforeTag \ Idle
      /\ job'[r].pc \in (BeforeTag \ {"idle", "createTag"}) \cup {"failed"}
      /\ job'[r].pc \in Idle => job'[r].todo = {}
      /\ job'[r].todo \in {{}, job[r].todo}
      /\ UNCHANGED <<now, rowVars, planTag>>
  BY BeforeTagShape, InputAssumption DEF IInv
<1>2. job'[r].pc \notin Tagging \cup {"createTag"}
  BY <1>1 DEF BeforeTag, Tagging
<1>3. \A u \in job'[r].todo : u.tags = tags[u.row]
  BY <1>1 DEF AInv, SnapshotsAreCurrent
<1>4. job'[r].pc \in BeforeTag \cup Tagging \cup Idle /\ Running(r)
  BY <1>1 DEF Running, Idle
<1> QED BY <1>1, <1>2, <1>3, <1>4, LocalStep DEF rowVars

LEMMA LatestNameIsNewest ==
  ASSUME IInv, AInv, Lone = Request, NEW latest \in LatestNames,
         NEW s \in Request, planTag[s] # None
  PROVE  planTag[s].name = latest \/ NameBefore(planTag[s].name, latest)
<1>1. planTag[s] \in PlanTags
  BY DEF PlanTags
<1>2. PICK t \in LatestTags : latest = t.name
  BY <1>1 DEF LatestNames
<1>3. PICK r \in Request : planTag[r] = t /\ t # None
  BY <1>2 DEF LatestTags, PlanTags
<1>4. TagTime(s) <= TagTime(r)
  BY <1>1, <1>2, <1>3 DEF LatestTags, TagTime
<1> QED BY <1>2, <1>3, <1>4 DEF AInv, NamesIncrease

LEMMA GetNextTagAInv ==
  ASSUME IInv, AInv, NEW r \in Lone, GetNextTag(r)
  PROVE  AInv'
<1>1. /\ r \in Request
      /\ job \in [Request -> Job] /\ job[r] \in Job /\ JobOK(r, job[r])
  BY InputAssumption DEF IInv, TypeOK
<1>2. PICK latest \in LatestNames :
        job' = [job EXCEPT ![r].pc = "createTag",
                           ![r].name = NextName(latest, job[r].input.major)]
  BY DEF GetNextTag
<1> DEFINE name == NextName(latest, job[r].input.major)
<1>3. job[r].input.major \in BOOLEAN
  BY <1>1, InputAssumption DEF JobOK, GetNextTag, At, Idle, AddPlanTagInput
<1>4. latest \in Name /\ name \in Name /\ NameBefore(latest, name)
  BY <1>3, NextNameType, NextNameIsAfter, LatestNamesType DEF IInv
<1> HIDE DEF name
<1>5. Lone = Request =>
        \A s \in Request : planTag[s] # None => NameBefore(planTag[s].name, name)
  BY <1>4, LatestNameIsNewest, NameBeforeTransitive, TagRowType DEF IInv
<1>6. /\ job'[r].pc = "createTag" /\ job'[r].name = name
      /\ job'[r].todo = job[r].todo /\ Others(r)
  BY <1>1, <1>2 DEF Job, Others, name
<1>7. job[r].pc \in BeforeTag /\ Running(r) /\ UNCHANGED <<now, tags, planTag>>
  BY DEF GetNextTag, At, BeforeTag, Running, Idle, rowVars
<1>8. /\ job'[r].pc \notin Tagging \cup Idle
      /\ job'[r].pc \in BeforeTag
  BY <1>6 DEF Tagging, Idle, BeforeTag
<1>9. \A u \in job'[r].todo : u.tags = tags[u.row]
  BY <1>6 DEF AInv, SnapshotsAreCurrent
<1> QED BY <1>5, <1>6, <1>7, <1>8, <1>9, LocalStep DEF Others

LEMMA CreateTagShape ==
  ASSUME IInv, NEW r \in Request, CreateTag(r)
  PROVE  /\ job[r].pc = "createTag" /\ planTag[r] = None /\ job[r].name \in Name
         /\ Others(r)
         /\ job'[r].pc = "findRows" /\ job'[r].name = job[r].name
         /\ job'[r].todo = job[r].todo
         /\ planTag' = [planTag EXCEPT ![r] = [name |-> job[r].name,
                                               createdAt |-> now]]
         /\ UNCHANGED <<now, rowVars>>
<1>1. job \in [Request -> Job] /\ job[r] \in Job /\ JobOK(r, job[r])
  BY DEF IInv, TypeOK
<1>2. job[r].pc = "createTag" /\ planTag[r] = None /\ job[r].name \in Name
  BY <1>1 DEF CreateTag, At, JobOK, BeforeTag
<1>3. /\ Others(r) /\ job'[r].pc = "findRows" /\ job'[r].name = job[r].name
      /\ job'[r].todo = job[r].todo
  BY <1>1 DEF CreateTag, Goto, Others, Job
<1> QED BY <1>2, <1>3 DEF CreateTag

LEMMA CreateTagAInv ==
  ASSUME IInv, AInv, NEW r \in Lone, CreateTag(r)
  PROVE  AInv'
<1> USE InputAssumption
<1> DEFINE row == [name |-> job[r].name, createdAt |-> now]
<1>1. planTag' = [planTag EXCEPT ![r] = row] /\ UNCHANGED <<now, rowVars>>
  BY CreateTagShape
<1>2. row.name = job[r].name /\ row.createdAt = now /\ row \in TagRow
  BY CreateTagShape DEF TagRow, IInv, TypeOK
<1>3. planTag'[r] = row /\ \A s \in Request \ {r} : planTag'[s] = planTag[s]
  BY <1>1 DEF IInv, TypeOK
<1> HIDE DEF row
<1>4. Running(r) /\ job[r].pc \in BeforeTag
  BY CreateTagShape DEF Running, Idle, BeforeTag
<1>5. \A s \in Request \ {r} : /\ ~Running(s) /\ job[s].pc \in Idle
                               /\ job'[s] = job[s]
  BY <1>4, CreateTagShape DEF AInv, OneRunning, Running, Others
<1>6. OneRunning'
  BY <1>5 DEF OneRunning, Running
<1>7. SnapshotsAreCurrent'
  <2>1. job'[r].pc \notin Idle
    BY CreateTagShape DEF Idle
  <2>2. \A s \in Request : job'[s].todo = job[s].todo
    BY <1>5, CreateTagShape
  <2> QED BY <1>1, <1>5, <2>1, <2>2 DEF AInv, SnapshotsAreCurrent, Running, rowVars
<1>8. \A s \in Request \ {r} : planTag[s] # None =>
        /\ TagTime(s) < now /\ TagTime(s) \in Nat
        /\ Lone = Request => NameBefore(planTag[s].name, row.name)
  BY <1>2, <1>4, CreateTagShape, TagRowType
     DEF IInv, AInv, TagsInThePast, NameIsNewest
<1>9. TagsInThePast'
  <2>1. job'[r].pc \notin BeforeTag
    BY CreateTagShape DEF BeforeTag
  <2>2. now \in Nat /\ now' = now
    BY <1>1 DEF IInv, TypeOK
  <2> QED BY <1>2, <1>3, <1>5, <1>8, <2>1, <2>2 DEF TagsInThePast, Running, TagTime
<1>10. Lone = Request => NameIsNewest'
  <2>1. \A s \in Request \ {r} : job'[s].pc \notin Tagging \cup {"createTag"}
    BY <1>5 DEF Idle, Tagging
  <2>2. job'[r].name = row.name
    BY <1>2, CreateTagShape
  <2> QED BY <1>3, <1>8, <2>1, <2>2 DEF NameIsNewest
<1>11. Lone = Request => NamesIncrease'
  <2>1. now \in Nat
    BY DEF IInv, TypeOK
  <2> SUFFICES ASSUME Lone = Request,
                      NEW s \in Request, NEW t \in Request, s # t,
                      planTag'[s] # None, planTag'[t] # None,
                      planTag'[s].createdAt <= planTag'[t].createdAt
               PROVE  NameBefore(planTag'[s].name, planTag'[t].name)
    BY DEF NamesIncrease, TagTime
  <2>2. CASE t = r
    BY <1>3, <1>8, <2>2
  <2>3. CASE s = r
    BY <1>2, <1>3, <1>8, <2>1, <2>3 DEF TagTime
  <2>4. CASE s # r /\ t # r
    BY <1>3, <2>4 DEF AInv, NamesIncrease, TagTime
  <2> QED BY <2>2, <2>3, <2>4
<1> QED BY <1>6, <1>7, <1>9, <1>10, <1>11 DEF AInv

LEMMA TaggingAInv ==
  ASSUME IInv, AInv, NEW r \in Lone, TaggingShape(r)
  PROVE  AInv'
<1>1. Running(r) /\ job'[r].pc \notin BeforeTag \cup {"createTag"}
      /\ job'[r].pc \in BeforeTag \cup Tagging \cup Idle
  BY DEF TaggingShape, Running, Tagging, Idle, BeforeTag
<1>2. \A u \in job'[r].todo : u.tags = tags[u.row]
  BY DEF TaggingShape, AInv, SnapshotsAreCurrent
<1> QED BY <1>1, <1>2, LocalStep DEF TaggingShape

LEMMA TagAInv ==
  ASSUME IInv, AInv, NEW r \in Lone, TagRows(r) \/ TagVersions(r)
  PROVE  AInv'
<1>1. /\ r \in Request
      /\ Others(r)
      /\ job[r].pc \in Tagging /\ job'[r].pc \in Tagging
      /\ job'[r].name = job[r].name
      /\ UNCHANGED <<now, planTag>>
      /\ \A u \in job'[r].todo : u.tags = tags'[u.row]
  BY TagStepShape, TagShape, InputAssumption
<1>2. Running(r) /\ job'[r].pc \notin BeforeTag \cup Idle
  BY <1>1 DEF Running, Tagging, Idle, BeforeTag
<1>3. \A s \in Request \ {r} : /\ ~Running(s) /\ job[s].pc \in Idle
                               /\ job'[s] = job[s]
  BY <1>1, <1>2 DEF AInv, OneRunning, Running, Others
<1>4. OneRunning'
  BY <1>3, InputAssumption DEF OneRunning, Running
<1>5. SnapshotsAreCurrent'
  BY <1>1, <1>2, <1>3, InputAssumption DEF AInv, SnapshotsAreCurrent, Running
<1>6. TagsInThePast'
  BY <1>1, <1>2, <1>3 DEF AInv, TagsInThePast, Running, TagTime
<1>7. Lone = Request => NameIsNewest'
  BY <1>1, <1>3 DEF AInv, NameIsNewest, Idle, Tagging
<1>8. Lone = Request => NamesIncrease'
  BY <1>1 DEF AInv, NamesIncrease, TagTime
<1> QED BY <1>4, <1>5, <1>6, <1>7, <1>8 DEF AInv

LEMMA FailAInv ==
  ASSUME IInv, AInv, NEW r \in Lone, Fail(r)
  PROVE  AInv'
<1>1. job'[r].pc = "failed" /\ job'[r].todo = {} /\ Others(r)
  BY EndShape, InputAssumption DEF Fail, IInv
<1>2. job'[r].pc \in Idle /\ job'[r].pc \notin BeforeTag \cup Tagging \cup {"createTag"}
  BY <1>1 DEF Idle, BeforeTag, Tagging
<1> QED BY <1>1, <1>2, LocalStep DEF Fail, rowVars

LEMMA WorkAInv ==
  ASSUME IInv, AInv, NEW r \in Lone, Work(r)
  PROVE  AInv'
<1>1. r \in Request
  BY InputAssumption
<1> QED BY <1>1, BeforeTagAInv, GetNextTagAInv, CreateTagAInv, TaggingAInv, TagAInv,
        ReadingShape, PublishedShape, UntagShape DEF Work

-----------------------------------------------------------------------------
(* The steps of a request that may overlap with others.                    *)

\* A request that works or fails reaches the steps before its tag only from
\* one of them, and creates a tag in one step.
LEMMA WorkShape ==
  ASSUME IInv, NEW r \in Request, Work(r) \/ Fail(r)
  PROVE  /\ Running(r) /\ Others(r)
         /\ UNCHANGED now
         /\ job'[r].pc \in BeforeTag => job[r].pc \in BeforeTag
         /\ UNCHANGED planTag \/ CreateTag(r)
<1>1. CASE \/ FindPeriods(r) \/ FindLatestVersion(r)
           \/ SetCurrentPeriod(r) \/ EndRevision(r)
  BY <1>1, BeforeTagShape DEF IInv, Running
<1>2. CASE GetNextTag(r)
  <2>1. /\ Running(r) /\ job[r].pc \in BeforeTag
        /\ UNCHANGED <<now, planTag>>
    BY <1>2 DEF GetNextTag, At, Running, Idle, BeforeTag
  <2>2. PICK name : job' = [job EXCEPT ![r].pc = "createTag", ![r].name = name]
    BY <1>2 DEF GetNextTag
  <2> QED BY <2>1, <2>2 DEF Others, IInv, TypeOK
<1>3. CASE CreateTag(r)
  BY <1>3, CreateTagShape DEF Running, Idle, BeforeTag
<1>4. CASE TaggingShape(r)
  BY <1>4 DEF TaggingShape, Tagging, Running, Idle, BeforeTag
<1>5. CASE TagRows(r) \/ TagVersions(r)
  BY <1>5, TagStepShape DEF Tagging, Running, Idle, BeforeTag
<1>6. CASE Fail(r)
  <2>1. job'[r].pc = "failed" /\ Others(r)
    BY <1>6, EndShape DEF Fail, IInv
  <2> QED BY <1>6, <2>1 DEF Fail, BeforeTag
<1> QED BY <1>1, <1>2, <1>3, <1>4, <1>5, <1>6, ReadingShape, PublishedShape,
        UntagShape DEF Work

LEMMA StrangerAInv ==
  ASSUME IInv, AInv, NEW r \in Request \ Lone, Work(r) \/ Fail(r)
  PROVE  AInv'
<1>1. /\ Running(r) /\ UNCHANGED now
      /\ \A s \in Request \ {r} : job'[s] = job[s]
      /\ job'[r].pc \in BeforeTag => job[r].pc \in BeforeTag
      /\ UNCHANGED planTag \/ CreateTag(r)
  BY WorkShape DEF Others
<1>2. \A s \in Lone : /\ s \in Request \ {r} /\ ~Running(s) /\ job'[s] = job[s]
                      /\ job[s].todo = {}
  BY <1>1, InputAssumption DEF AInv, OneRunning, SnapshotsAreCurrent
<1>3. OneRunning'
  BY <1>2 DEF OneRunning, Running
<1>4. SnapshotsAreCurrent'
  BY <1>2 DEF SnapshotsAreCurrent
<1>5. TagsInThePast'
  <2>1. /\ now \in Nat /\ planTag \in [Request -> TagRow \cup {None}]
        /\ \A s \in Request \ {r} : planTag'[s] = planTag[s]
        /\ planTag'[r] = planTag[r] \/ planTag'[r].createdAt = now
    BY <1>1 DEF CreateTag, IInv, TypeOK
  <2>2. \A s \in Request : planTag'[s] # None => TagTime(s)' <= now'
    BY <1>1, <2>1 DEF AInv, TagsInThePast, TagTime
  <2>3. ASSUME NEW p \in Request, NEW s \in Request, {p, s} \cap Lone # {},
               Running(p)', job'[p].pc \in BeforeTag, planTag'[s] # None
        PROVE  TagTime(s)' < now'
    <3>1. s # r
      BY <1>2, <2>3 DEF Running
    <3>2. Running(p) /\ job[p].pc \in BeforeTag
      BY <1>1, <2>3 DEF Running
    <3> QED BY <1>1, <2>1, <2>3, <3>1, <3>2 DEF AInv, TagsInThePast, TagTime
  <2> QED BY <2>2, <2>3 DEF TagsInThePast
<1> QED BY <1>3, <1>4, <1>5 DEF AInv

-----------------------------------------------------------------------------
LEMMA PublishPlanAInv ==
  ASSUME IInv, AInv, NEW r \in Request, PublishPlan(r)
  PROVE  AInv'
<1>1. job \in [Request -> Job] /\ job[r] \in Job
  BY DEF IInv, TypeOK
<1>2. PICK input \in Inputs :
        job' = [job EXCEPT ![r].pc = "findPeriods", ![r].input = input]
  BY DEF PublishPlan
<1>3. job'[r].pc = "findPeriods" /\ job'[r].todo = job[r].todo /\ Others(r)
  BY <1>1, <1>2 DEF Job, Others
<1>4. job[r].pc \notin BeforeTag \ {"idle"} /\ ~Running(r)
  BY DEF PublishPlan, At, Running, Idle, BeforeTag
<1>5. UNCHANGED <<tags, planTag>> /\ now' = now + 1 /\ now \in Nat
  BY DEF PublishPlan, rowVars, IInv, TypeOK
<1>6. \A s \in Request \ {r} : job'[s] = job[s]
  BY <1>3 DEF Others
<1>7. OneRunning'
  <2>1. \A s \in Request : Running(s) => {r, s} \cap Lone = {}
    BY DEF PublishPlan
  <2> SUFFICES ASSUME NEW p \in Lone, NEW s \in Request, Running(p)', Running(s)'
               PROVE  p = s
    BY DEF OneRunning
  <2>2. p \in Request
    BY InputAssumption
  <2>3. CASE p = r
    BY <1>6, <2>1, <2>3 DEF Running
  <2>4. CASE p # r
    BY <1>6, <2>1, <2>2, <2>4 DEF Running, AInv, OneRunning
  <2> QED BY <2>3, <2>4
<1>8. SnapshotsAreCurrent'
  <2>1. \A s \in Lone : s \in Request
    BY InputAssumption
  <2> SUFFICES ASSUME NEW s \in Lone
               PROVE  /\ ~Running(s)' => job'[s].todo = {}
                      /\ \A u \in job'[s].todo : u.tags = tags'[u.row]
    BY DEF SnapshotsAreCurrent
  <2>2. CASE s = r
    BY <1>3, <1>4, <2>2 DEF AInv, SnapshotsAreCurrent
  <2>3. CASE s # r
    BY <1>5, <1>6, <2>1, <2>3 DEF AInv, SnapshotsAreCurrent, Running
  <2> QED BY <2>2, <2>3
<1>9. TagsInThePast'
  <2>1. \A s \in Request : planTag[s] # None =>
          TagTime(s) \in Nat /\ TagTime(s) <= now
    BY TagRowType DEF IInv, AInv, TagsInThePast
  <2>2. \A s \in Request : planTag'[s] # None => planTag'[s].createdAt < now'
    BY <1>5, <2>1 DEF TagTime
  <2>3. \A s \in Request : planTag'[s] # None => planTag'[s].createdAt <= now'
    BY <1>5, <2>1 DEF TagTime
  <2> QED BY <2>2, <2>3 DEF TagsInThePast, TagTime
<1>10. Lone = Request => NameIsNewest'
  <2>1. job'[r].pc \notin Tagging \cup {"createTag"}
    BY <1>3 DEF Tagging
  <2> QED BY <1>5, <1>6, <2>1 DEF AInv, NameIsNewest
<1>11. Lone = Request => NamesIncrease'
  BY <1>5 DEF AInv, NamesIncrease, TagTime
<1> QED BY <1>7, <1>8, <1>9, <1>10, <1>11 DEF AInv

LEMMA EditAInv ==
  ASSUME IInv, AInv, Edit \/ UNCHANGED vars
  PROVE  AInv'
<1>1. UNCHANGED <<tags, planTag, job>> /\ now' \in Nat /\ now \in Nat /\ now <= now'
  BY DEF Edit, Tick, InsertBaseRow, SoftDelete, InsertVersion,
     InsertPlanVersion, AddPeriod, GenerateMeasurements, rowVars, vars, IInv, TypeOK
<1>2. TagsInThePast'
  <2>1. \A s \in Request : planTag[s] # None => TagTime(s) \in Nat
    BY TagRowType DEF IInv
  <2> QED BY <1>1, <2>1 DEF AInv, TagsInThePast, Running, TagTime
<1> QED BY <1>1, <1>2 DEF AInv, OneRunning, SnapshotsAreCurrent, NameIsNewest,
        NamesIncrease, Running, TagTime

LEMMA NextAInv == IInv /\ AInv /\ [Next]_vars => AInv'
<1> SUFFICES ASSUME IInv, AInv, [Next]_vars
             PROVE  AInv'
  OBVIOUS
<1>1. ASSUME NEW r \in Request, PublishPlan(r) \/ Work(r) \/ Fail(r)
      PROVE  AInv'
  <2>1. CASE r \in Lone
    BY <1>1, <2>1, PublishPlanAInv, WorkAInv, FailAInv
  <2>2. CASE r \notin Lone
    BY <1>1, <2>2, PublishPlanAInv, StrangerAInv
  <2> QED BY <2>1, <2>2
<1> QED BY <1>1, EditAInv DEF Next

-----------------------------------------------------------------------------
\* When all publications of a plan run alone, getNextTag gives every planTag a
\* name of its own that is bigger than the names before it, although another
\* statement inserts the row.
THEOREM NamesIncreaseHolds ==
  ASSUME Lone = Request
  PROVE  Spec => []NamesIncrease
<1>1. AInv => NamesIncrease
  BY DEF AInv
<1>2. IInv /\ AInv /\ [Next]_vars => IInv' /\ AInv'
  BY NextIInv, NextAInv
<1> QED BY <1>1, <1>2, InitIInv, InitAInv, PTL DEF Spec

-----------------------------------------------------------------------------
(* The log of tags.                                                        *)

Live == {x \in Row : latestTagged[x]}

\* A step that touches neither the tags of the plan nor those of rows.
Invisible == UNCHANGED <<TagNames, tags, Live>>

LEMMA LocalIsInvisible ==
  ASSUME UNCHANGED <<planTag, tags, latestTagged>>
  PROVE  Invisible
BY DEF Invisible, TagNames, PlanTags, Live

LEMMA WorkIsLogged ==
  ASSUME Lone = Request, IInv, AInv, NEW r \in Request, Work(r)
  PROVE  Log!Next \/ Invisible
<1>1. CASE \/ FindPeriods(r) \/ FindLatestVersion(r)
           \/ SetCurrentPeriod(r) \/ EndRevision(r)
  BY <1>1, BeforeTagShape, LocalIsInvisible DEF IInv, rowVars
<1>2. CASE GetNextTag(r)
  BY <1>2, LocalIsInvisible DEF GetNextTag, rowVars
<1>3. CASE \/ FindRows(r) \/ FindAttachments(r) \/ FindMeasurements(r)
           \/ FindVersions(r) \/ FindPlanVersions(r) \/ ReadLatest(r)
           \/ FindOld(r) \/ FindAssociated(r)
  BY <1>3, ReadingShape, LocalIsInvisible DEF TaggingShape
<1>4. CASE \/ FindPublishedPeriods(r) \/ FindPublishedMeasurements(r)
           \/ SetLastPublished(r)
  BY <1>4, PublishedShape, LocalIsInvisible DEF TaggingShape
<1>5. CASE CreateTag(r)
  <2> DEFINE n == job[r].name
  <2>1. /\ job[r].pc = "createTag" /\ planTag[r] = None /\ n \in Name
        /\ planTag' = [planTag EXCEPT ![r] = [name |-> n, createdAt |-> now]]
        /\ UNCHANGED rowVars
    BY <1>5, CreateTagShape
  <2>2. [name |-> n, createdAt |-> now] # None
    BY <2>1, NoneAssumption DEF TagRow, IInv, TypeOK
  <2>3. TagNames' = TagNames \cup {n}
    <3> DEFINE row == [name |-> n, createdAt |-> now]
    <3>1. planTag' = [planTag EXCEPT ![r] = row] /\ row # None /\ row.name = n
      BY <2>1, <2>2
    <3> HIDE DEF row, n
    <3>2. PlanTags' = PlanTags \cup {row}
      BY <2>1, <3>1 DEF PlanTags, IInv, TypeOK
    <3> QED BY <3>1, <3>2 DEF TagNames
  <2>4. \A m \in TagNames : NameBefore(m, n)
    <3> SUFFICES ASSUME NEW s \in Request, planTag[s] # None
                 PROVE  NameBefore(planTag[s].name, n)
      BY DEF TagNames, PlanTags
    <3> QED BY <2>1 DEF AInv, NameIsNewest
  <2>5. Log!Open(n)
    BY <2>1, <2>3, <2>4 DEF Log!Open, Log!NameBefore, NameBefore, Log!Name, Name,
       rowVars
  <2>6. n \in TagNames' \ TagNames
    <3>1. ~NameBefore(n, n)
      BY <2>1 DEF NameBefore, Name
    <3> QED BY <2>3, <2>4, <3>1
  <2> QED BY <2>5, <2>6 DEF Log!Next
<1>6. CASE TagRows(r) \/ TagVersions(r)
  <2> DEFINE n == job[r].name
  <2>1. PICK rows \in SUBSET Row :
          /\ tags' = [x \in Row |-> IF x \in rows THEN tags[x] \cup {n}
                                                ELSE tags[x]]
          /\ latestTagged' = [x \in Row |-> x \in rows \/ latestTagged[x]]
    BY <1>6, TagShape
  <2>2. job[r].pc \in Tagging /\ UNCHANGED planTag
    BY <1>6, TagStepShape
  <2>3. planTag[r] # None /\ planTag[r].name = n
    BY <2>2 DEF IInv, JobOK
  <2>4. n \in TagNames
    BY <2>3 DEF TagNames, PlanTags
  <2>5. \A m \in TagNames \ {n} : NameBefore(m, n)
    <3> SUFFICES ASSUME NEW s \in Request, planTag[s] # None, planTag[s].name # n
                 PROVE  NameBefore(planTag[s].name, n)
      BY DEF TagNames, PlanTags
    <3> QED BY <2>2, <2>3 DEF AInv, NameIsNewest
  <2>6. Live' = Live \cup rows
    BY <2>1 DEF Live, IInv, TypeOK
  <2>7. TagNames' = TagNames
    BY <2>2 DEF TagNames, PlanTags
  <2> HIDE DEF n
  <2>8. Log!Mark(n, rows)
    BY <2>1, <2>4, <2>5, <2>6, <2>7
       DEF Log!Mark, Log!Newest, Log!NameBefore, NameBefore, Live
  <2> QED BY <2>4, <2>8 DEF Log!Next
<1>7. CASE UntagRows(r) \/ UntagOld(r)
  <2>1. PICK rows : ClearLatest(rows)
    BY <1>7 DEF UntagRows, UntagOld
  <2>2. UNCHANGED <<tags, planTag>>
    BY <1>7 DEF UntagRows, UntagOld
  <2> DEFINE gone == rows \cap Live
  <2>3. Live' = Live \ gone
    BY <2>1 DEF ClearLatest, Live
  <2>4. TagNames' = TagNames
    BY <2>2 DEF TagNames, PlanTags
  <2>5. gone \in SUBSET {x \in Row : latestTagged[x]}
    BY DEF Live
  <2> HIDE DEF gone
  <2> QED BY <2>2, <2>3, <2>4, <2>5 DEF Log!Next, Log!Retire, Live
<1> QED BY <1>1, <1>2, <1>3, <1>4, <1>5, <1>6, <1>7 DEF Work

LEMMA StepIsLogged ==
  ASSUME Lone = Request, IInv, AInv, [Next]_vars
  PROVE  [Log!Next]_Log!vars
<1>1. ASSUME NEW r \in Request, PublishPlan(r) \/ Fail(r)
      PROVE  Invisible
  BY <1>1, LocalIsInvisible DEF PublishPlan, Fail, rowVars
<1>2. ASSUME Edit \/ UNCHANGED vars
      PROVE  Invisible
  <2>1. UNCHANGED <<planTag, tags, latestTagged>>
    BY <1>2
       DEF Edit, Tick, InsertBaseRow, SoftDelete, InsertVersion,
           InsertPlanVersion, AddPeriod, GenerateMeasurements, rowVars, vars
  <2> QED BY <2>1, LocalIsInvisible
<1>3. ASSUME NEW r \in Request, Work(r)
      PROVE  Log!Next \/ Invisible
  BY <1>3, WorkIsLogged
<1>4. CASE Next
  <2> QED BY <1>4, <1>1, <1>2, <1>3 DEF Next, Invisible, Log!vars, Live
<1>5. CASE UNCHANGED vars
  BY <1>5, <1>2 DEF Invisible, Log!vars, Live
<1> QED BY <1>4, <1>5

LEMMA InitIsLogged == Init => Log!Init
BY DEF Init, Log!Init, TagNames, PlanTags

\* Publications that all run alone, each of them a sequence of single
\* statements that may stop anywhere, implement the log of tags.
THEOREM ImplementsLog ==
  ASSUME Lone = Request
  PROVE  Spec => LogSpec
<1>1. IInv /\ AInv /\ [Next]_vars => IInv' /\ AInv'
  BY NextIInv, NextAInv
<1>2. IInv /\ AInv /\ [Next]_vars => [Log!Next]_Log!vars
  BY StepIsLogged
<1> QED BY <1>1, <1>2, InitIInv, InitAInv, InitIsLogged, PTL
        DEF Spec, LogSpec, Log!Spec

-----------------------------------------------------------------------------
LEMMA StepKeepsTags ==
  ASSUME IInv, AInv, NoOverlap, [Next]_vars
  PROVE  \A x \in Row : tags[x] \subseteq tags'[x]
<1>1. ASSUME NEW r \in Request, Work(r)
      PROVE  \A x \in Row : tags[x] \subseteq tags'[x]
  <2>1. r \in Lone
    BY <1>1, WorkShape DEF NoOverlap
  <2>2. CASE TagRows(r) \/ TagVersions(r)
    BY <2>1, <2>2, TagShape
  <2>3. CASE TaggingShape(r)
    BY <2>3 DEF TaggingShape
  <2>4. CASE \/ FindPeriods(r) \/ FindLatestVersion(r)
             \/ SetCurrentPeriod(r) \/ EndRevision(r)
             \/ GetNextTag(r) \/ CreateTag(r)
    BY <2>4 DEF FindPeriods, FindLatestVersion, SetCurrentPeriod, EndRevision,
       GetNextTag, CreateTag, rowVars
  <2> QED BY <1>1, <2>2, <2>3, <2>4, ReadingShape, PublishedShape, UntagShape
          DEF Work
<1>2. ASSUME \/ \E r \in Request : PublishPlan(r) \/ Fail(r)
             \/ Edit \/ UNCHANGED vars
      PROVE  \A x \in Row : tags[x] \subseteq tags'[x]
  BY <1>2 DEF PublishPlan, Fail, Edit, Tick, InsertBaseRow, SoftDelete,
     InsertVersion, InsertPlanVersion, AddPeriod, GenerateMeasurements,
     rowVars, vars
<1> QED BY <1>1, <1>2 DEF Next

\* While the publication at work runs alone, no UPDATE of updateVersionStates
\* drops a tag a row has, although it writes the list another statement read;
\* not even a tag that overlapping publications put there before.
THEOREM TagsNeverLostHolds == Spec => TagsNeverLost
<1>1. IInv /\ AInv /\ [Next]_vars => IInv' /\ AInv'
  BY NextIInv, NextAInv
<1>2. IInv /\ AInv /\ [Next]_vars =>
        [NoOverlap => \A x \in Row : tags[x] \subseteq tags'[x]]_vars
  BY StepKeepsTags
<1> QED BY <1>1, <1>2, InitIInv, InitAInv, PTL DEF Spec, TagsNeverLost
=============================================================================
