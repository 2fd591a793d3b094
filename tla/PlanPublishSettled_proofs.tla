---------------------- MODULE PlanPublishSettled_proofs ----------------------
(***************************************************************************)
(* What a publication that runs alone (Lone) leaves behind: every table as *)
(* of the time of the tag, whatever overlapped or stopped halfway before   *)
(* it and whatever the editors do while it runs.  While publications run   *)
(* alone no object loses its current version, and the last published       *)
(* period never moves back.                                                *)
(***************************************************************************)
EXTENDS PlanPublishCurrent_proofs, FiniteSetTheorems

\* The tag of a request that is past CreateTag is later than those of the
\* requests it does not overlap with.
TagIsLast ==
  \A r, s \in Request :
    /\ {r, s} \cap Lone # {}
    /\ job[r].pc \in Tagging /\ planTag[s] # None /\ s # r
    => TagTime(s) < TagTime(r)

(***************************************************************************)
(* Where a request is in the loops of updateVersionStates.                 *)
(***************************************************************************)
RowSteps == {"tagRows", "untagRows"}
VersionSteps ==
  {"findVersions", "readLatest", "tagVersions", "findOld", "untagOld"}
Rank ==
  [planLocation |-> 1, planYear |-> 2, attachment |-> 3, governingEntity |-> 4,
   planEntity |-> 5, planVersion |-> 6, measurement |-> 7]
TableAt(b) == IF b = Plan THEN "planVersion" ELSE TableOf[b]
Passed(r, b) ==
  job[r].pc \in Final \/ Rank[TableAt(b)] < Rank[job[r].table]

Fits(r) ==
  LET pc == job[r].pc table == job[r].table IN
    /\ pc \in BeforeTag => table = "planLocation"
    /\ pc = "findRows" => table \notin {"planVersion", "measurement"}
    /\ pc = "findPlanVersions" => table = "planVersion"
    /\ pc \in {"findAttachments", "findMeasurements"} =>
         table = "measurement" /\ job[r].input.publishMeasurements
    /\ pc \in RowSteps => table # "planVersion"
    /\ pc \in RowSteps \cup VersionSteps /\ table = "measurement" =>
         job[r].input.publishMeasurements
    /\ pc = "findVersions" => table \in BaseAndVersionModels
    /\ pc \in VersionSteps => table \notin BaseOnlyModels

(***************************************************************************)
(* What is settled of a base row, and of the versions of a base row.       *)
(***************************************************************************)
RowSettled(r, b) ==
  Old(b, TagTime(r)) /\ deletedAt[b] # TagTime(r) =>
    /\ latestTagged[b] = IsActive(b, TagTime(r))
    /\ latestTagged[b] => planTag[r].name \in tags[b]

Older(r, b) == {v \in VersionRow : BaseOf[v] = b /\ Old(v, TagTime(r))}
IsCurrent(r, b, v) ==
  /\ Current(b) = {v}
  /\ \A w \in Older(r, b) : w <= v
  /\ ExistsSince(v, TagTime(r))
  /\ planTag[r].name \in tags[v]
VersionsAreSettled(r, b) ==
  Older(r, b) # {} => \E v \in VersionRow : IsCurrent(r, b, v)

RowsSoFar(r) ==
  \A b \in Covered(r) :
    \/ Passed(r, b)
    \/ TableOf[b] = job[r].table /\ job[r].pc \in VersionSteps
    => RowSettled(r, b)
VersionsSoFar(r) ==
  \A b \in Covered(r) \cup {Plan} : Passed(r, b) => VersionsAreSettled(r, b)

(***************************************************************************)
(* The table a request is at.                                              *)
(***************************************************************************)
AttachmentsFound(r) ==
  job[r].pc = "findMeasurements" =>
    \A a \in BaseRow : TableOf[a] = "attachment" /\ Old(a, TagTime(r)) =>
      a \in job[r].bases

\* The base rows found belong to the table, and none that is old is missing.
BasesFound(r) ==
  job[r].pc \in RowSteps \cup VersionSteps =>
    /\ \A b \in job[r].bases : TableAt(b) = job[r].table
    /\ \A b \in Covered(r) :
         TableOf[b] = job[r].table /\ Old(b, TagTime(r)) => b \in job[r].bases

RowsAtWork(r) ==
  job[r].pc \in RowSteps =>
    /\ job[r].stale \subseteq job[r].bases
    /\ Pending(r) \subseteq job[r].bases \ job[r].stale
    /\ job[r].bases \subseteq BaseRow
    /\ \A b \in job[r].bases : deletedAt[b] # TagTime(r) =>
         (b \in job[r].stale <=> ~IsActive(b, TagTime(r)))
    /\ \A b \in job[r].bases \ job[r].stale :
         b \in Pending(r) \/ (latestTagged[b] /\ planTag[r].name \in tags[b])
    /\ job[r].pc = "untagRows" => Pending(r) = {}

\* One version per base row is newest, and none that is old or current is
\* newer.
NewestFound(r) ==
  job[r].pc \in VersionSteps \ {"findVersions"} =>
    /\ \A v \in job[r].newest : /\ ExistsSince(v, TagTime(r))
                                /\ BaseOf[v] \in job[r].bases
    /\ \A v, w \in job[r].newest : BaseOf[v] = BaseOf[w] => v = w
    /\ \A w \in VersionRow :
         /\ BaseOf[w] \in job[r].bases
         /\ Old(w, TagTime(r)) \/ latestTagged[w]
         => \E v \in job[r].newest : BaseOf[v] = BaseOf[w] /\ w <= v
    /\ job[r].table = "planVersion" =>
         \A w \in PlanVersion : Old(w, TagTime(r)) => Plan \in job[r].bases

NewestTagged(r) ==
  job[r].pc \in {"tagVersions", "findOld", "untagOld"} =>
    /\ Pending(r) \subseteq job[r].newest
    /\ \A v \in job[r].newest :
         v \in Pending(r) \/ (latestTagged[v] /\ planTag[r].name \in tags[v])
    /\ job[r].pc # "tagVersions" => Pending(r) = {}

StaleFound(r) ==
  job[r].pc = "untagOld" =>
    /\ job[r].stale \subseteq VersionRow \ job[r].newest
    /\ \A v \in job[r].stale : BaseOf[v] \in job[r].bases
    /\ \A w \in VersionRow : latestTagged[w] /\ BaseOf[w] \in job[r].bases =>
         w \in job[r].newest \cup job[r].stale

AtWork(r) ==
  job[r].pc \in Tagging =>
    /\ RowsSoFar(r) /\ VersionsSoFar(r)
    /\ AttachmentsFound(r) /\ BasesFound(r) /\ RowsAtWork(r)
    /\ NewestFound(r) /\ NewestTagged(r) /\ StaleFound(r)

DInv ==
  /\ TagIsLast
  /\ \A r \in Lone : Fits(r) /\ AtWork(r)
  /\ VersionsSettled
  /\ BaseRowsSettled

(***************************************************************************)
(* The last published period, from where it is read to where it is written.*)
(***************************************************************************)
NewVersionsUnpublished ==
  \A v \in PlanVersion : ~Exists(v) => lastPub[v] = None

PeriodOK(r) ==
  /\ job[r].pc \in Final \ {"findAssociated"} =>
       job[r].version \in PlanVersion /\ Exists(job[r].version)
  /\ r \in Lone /\ job[r].pc = "findPublishedPeriods" =>
       job[r].period = lastPub[job[r].version]
  /\ job[r].pc \in {"findPublishedMeasurements", "setLastPublished"} =>
       job[r].period \in Period
  /\ r \in Lone
     /\ job[r].pc \in {"findPublishedMeasurements", "setLastPublished"} =>
       \/ lastPub[job[r].version] = None
       \/ PeriodNumber[lastPub[job[r].version]] <= PeriodNumber[job[r].period]
PeriodIsHigher == \A r \in Request : PeriodOK(r)

PInv == NewVersionsUnpublished /\ PeriodIsHigher
-----------------------------------------------------------------------------
(* Numbers and ids.                                                        *)

LEMMA BiggestId ==
  ASSUME NEW S \in SUBSET Nat, IsFiniteSet(S), S # {}
  PROVE  \E m \in S : \A n \in S : n <= m
<1> DEFINE cofinal == {T \in SUBSET S : \A n \in S : \E m \in T : n <= m}
<1>1. cofinal \subseteq FiniteSubsetsOf(S) /\ S \in cofinal
  BY FS_FiniteSubsetsOfFinite
<1>2. PICK T \in cofinal : \A U \in cofinal : ~(<<U, T>> \in StrictSubsetOrdering(S))
  <2> HIDE DEF cofinal
  <2>1. IsWellFoundedOn(StrictSubsetOrdering(S), FiniteSubsetsOf(S))
    BY FS_StrictSubsetOrderingWellFounded
  <2> QED BY <1>1, <2>1, WFMin
<1>3. PICK m \in T : TRUE
  OBVIOUS
<1>4. ASSUME NEW n \in S, ~(n <= m) PROVE FALSE
  <2> DEFINE U == T \ {m}
  <2>1. U \in cofinal
    <3> SUFFICES ASSUME NEW k \in S PROVE \E j \in U : k <= j
      OBVIOUS
    <3>1. PICK j \in T : n <= j
      BY <1>2
    <3>2. PICK i \in T : k <= i
      BY <1>2
    <3>3. j # m /\ (i = m => k <= j)
      BY <1>4, <3>1, <3>2
    <3> QED BY <3>1, <3>2, <3>3
  <2>2. <<U, T>> \in StrictSubsetOrdering(S)
    BY <1>2, <1>3 DEF StrictSubsetOrdering
  <2> QED BY <1>2, <2>1, <2>2
<1> QED BY <1>2, <1>3, <1>4

\* latestVersionIds: one newest version per base row that has a version.
LEMMA NewestExists ==
  ASSUME NEW found \in SUBSET VersionRow, NEW w \in found
  PROVE  \E v \in NewestPerBase(found) : BaseOf[v] = BaseOf[w] /\ w <= v
<1> DEFINE S == {v \in found : BaseOf[v] = BaseOf[w]}
<1>1. S \in SUBSET Nat /\ S # {} /\ S \in SUBSET VersionRow
  BY KeysAssumption
<1>2. IsFiniteSet(S)
  BY <1>1, KeysAssumption, FS_Subset
<1> HIDE DEF S
<1>3. PICK m \in S : \A n \in S : n <= m
  BY <1>1, <1>2, BiggestId
<1>4. /\ m \in found /\ BaseOf[m] = BaseOf[w] /\ w <= m
      /\ \A v \in found : BaseOf[v] = BaseOf[m] => v <= m
  BY <1>3 DEF S
<1> QED BY <1>4 DEF NewestPerBase

LEMMA NewestIsUnique ==
  ASSUME NEW found \in SUBSET VersionRow
  PROVE  \A v, w \in NewestPerBase(found) : BaseOf[v] = BaseOf[w] => v = w
BY KeysAssumption DEF NewestPerBase

LEMMA TagOfWorker ==
  ASSUME IInv, AInv, NEW r \in Request, job[r].pc \in Tagging
  PROVE  /\ planTag[r] # None /\ planTag[r].name = job[r].name
         /\ TagTime(r) \in Nat /\ TagTime(r) # None /\ TagTime(r) <= now
<1>1. planTag[r] # None /\ planTag[r].name = job[r].name
  BY DEF IInv, JobOK
<1> QED BY <1>1, TagTimeType DEF AInv, TagsInThePast

LEMMA InitDInv == Init => DInv
<1> SUFFICES ASSUME Init PROVE DInv
  OBVIOUS
<1>1. TagIsLast
  BY DEF Init, TagIsLast
<1>2. VersionsSettled /\ BaseRowsSettled
  BY InputAssumption DEF Init, VersionsSettled, BaseRowsSettled, At, NoJob
<1>3. \A r \in Lone : Fits(r) /\ AtWork(r)
  BY InputAssumption DEF Init, NoJob, Fits, AtWork, BeforeTag, Tagging, RowSteps,
     VersionSteps
<1> QED BY <1>1, <1>2, <1>3 DEF DInv

\* Versions that are current existed at the time of some tag.
LEMMA CurrentIsOld ==
  ASSUME CInv, NEW v \in VersionRow, latestTagged[v]
  PROVE  \E s \in Request : planTag[s] # None /\ ExistsSince(v, TagTime(s))
BY DEF CInv, CurrentIsPublished, Row

-----------------------------------------------------------------------------
(* The editors.                                                            *)

\* The properties of a finished publication, in the terms of one at work.
Finished(r) ==
  /\ \A b \in Covered(r) : RowSettled(r, b)
  /\ \A b \in Covered(r) \cup {Plan} : VersionsAreSettled(r, b)

LEMMA FinishedForms ==
  /\ VersionsSettled /\ BaseRowsSettled <=>
       \A r \in Lone : At(r, "done") /\ LastTag(r) => Finished(r)
  /\ (VersionsSettled /\ BaseRowsSettled)' <=>
       \A r \in Lone : At(r, "done")' /\ LastTag(r)' => Finished(r)'
<1>1. VersionsSettled <=>
        \A r \in Lone : At(r, "done") /\ LastTag(r) =>
          \A b \in Covered(r) \cup {Plan} : VersionsAreSettled(r, b)
  BY DEF VersionsSettled, VersionsAreSettled, Older, Old, IsCurrent
<1>2. BaseRowsSettled <=>
        \A r \in Lone : At(r, "done") /\ LastTag(r) =>
          \A b \in Covered(r) : RowSettled(r, b)
  BY DEF BaseRowsSettled, RowSettled, Old
<1>3. VersionsSettled' <=>
        \A r \in Lone : At(r, "done")' /\ LastTag(r)' =>
          \A b \in Covered(r)' \cup {Plan} : VersionsAreSettled(r, b)'
  BY DEF VersionsSettled, VersionsAreSettled, Older, Old, IsCurrent
<1>4. BaseRowsSettled' <=>
        \A r \in Lone : At(r, "done")' /\ LastTag(r)' =>
          \A b \in Covered(r)' : RowSettled(r, b)'
  BY DEF BaseRowsSettled, RowSettled, Old
<1> QED BY <1>1, <1>2, <1>3, <1>4 DEF Finished

LEMMA EditSettled ==
  ASSUME IInv, EditRows, NEW r \in Request, TagTime(r) \in Nat, TagTime(r) <= now
  PROVE  /\ Covered(r)' = Covered(r)
         /\ \A b \in BaseRow : RowSettled(r, b) => RowSettled(r, b)'
         /\ \A b \in Base : VersionsAreSettled(r, b) => VersionsAreSettled(r, b)'
<1>0. PICK t \in Nat : t = TagTime(r) /\ t <= now
  OBVIOUS
<1>1. /\ \A x \in Row : Old(x, t)' <=> Old(x, t)
      /\ \A x \in Row : ExistsSince(x, t) => ExistsSince(x, t)'
      /\ \A b \in BaseRow : deletedAt'[b] # t =>
              deletedAt[b] # t /\ (IsActive(b, t)' <=> IsActive(b, t))
  BY <1>0, EditsAreNew
<1>2. TagTime(r) = t /\ TagTime(r)' = t
      /\ UNCHANGED <<tags, latestTagged, planTag, job>>
  BY <1>0 DEF EditRows, TagTime
<1>3. Covered(r)' = Covered(r)
  BY <1>2 DEF Covered
<1>4. ASSUME NEW b \in BaseRow, RowSettled(r, b)
      PROVE  RowSettled(r, b)'
  <2>1. b \in Row /\ latestTagged[b] \in BOOLEAN
    BY DEF Row, IInv, TypeOK
  <2>2. deletedAt'[b] # t => IsActive(b, t)' = IsActive(b, t)
    BY <1>1 DEF IsActive
  <2>3. deletedAt'[b] # t => deletedAt[b] # t
    BY <1>1
  <2>4. Old(b, t)' <=> Old(b, t)
    BY <1>1, <2>1
  <2> QED BY <1>2, <1>4, <2>2, <2>3, <2>4 DEF RowSettled
<1>5. ASSUME NEW b \in Base, VersionsAreSettled(r, b)
      PROVE  VersionsAreSettled(r, b)'
  <2>1. Older(r, b)' = Older(r, b)
    BY <1>1, <1>2 DEF Older, Row
  <2>2. Current(b)' = Current(b)
    BY <1>2 DEF Current
  <2>3. \A v \in VersionRow : IsCurrent(r, b, v) => IsCurrent(r, b, v)'
    BY <1>1, <1>2, <2>1, <2>2 DEF IsCurrent, Row
  <2> QED BY <1>5, <2>1, <2>3 DEF VersionsAreSettled
<1> QED BY <1>3, <1>4, <1>5

LEMMA EditAtWork ==
  ASSUME IInv, AInv, EditRows, NEW r \in Request, job[r].pc \in Tagging, AtWork(r)
  PROVE  AtWork(r)'
<1>0. PICK t \in Nat : t = TagTime(r) /\ t <= now
  BY TagOfWorker
<1>1. t <= now /\ job[r] \in Job
  BY <1>0 DEF IInv, TypeOK
<1>2. TagTime(r) = t /\ TagTime(r)' = t
      /\ UNCHANGED <<tags, latestTagged, planTag, job>>
  BY <1>0 DEF EditRows, TagTime
<1>3. /\ Covered(r)' = Covered(r)
      /\ \A b \in BaseRow : RowSettled(r, b) => RowSettled(r, b)'
      /\ \A b \in Base : VersionsAreSettled(r, b) => VersionsAreSettled(r, b)'
  BY <1>1, <1>2, EditSettled
<1>4. /\ \A x \in Row : Old(x, t)' <=> Old(x, t)
      /\ \A x \in Row : ExistsSince(x, t) => ExistsSince(x, t)'
      /\ \A b \in BaseRow : deletedAt'[b] # t =>
              deletedAt[b] # t /\ (IsActive(b, t)' <=> IsActive(b, t))
  BY <1>1, EditsAreNew
<1>5. \A b \in Base : Passed(r, b)' <=> Passed(r, b)
  BY <1>2 DEF Passed
<1>6. Covered(r) \subseteq BaseRow /\ Covered(r) \cup {Plan} \subseteq Base
      /\ BaseRow \subseteq Row /\ VersionRow \subseteq Row
      /\ PlanVersion \subseteq VersionRow /\ BaseRow \subseteq Base
  BY DEF Covered, Base, Row, PlanVersion
<1>7. RowsSoFar(r)'
  <2>1. \A b \in Covered(r) : RowSettled(r, b) => RowSettled(r, b)'
    BY <1>3, <1>6
  <2>2. \A b \in Covered(r) : Passed(r, b)' <=> Passed(r, b)
    BY <1>5, <1>6
  <2> QED BY <1>2, <1>3, <2>1, <2>2, Zenon DEF AtWork, RowsSoFar
<1>8. VersionsSoFar(r)'
  BY <1>3, <1>5, <1>6 DEF AtWork, VersionsSoFar
<1>9. AttachmentsFound(r)'
  BY <1>2, <1>4, <1>6 DEF AtWork, AttachmentsFound
<1>10. BasesFound(r)'
  <2>1. \A b \in Covered(r) : Old(b, t)' <=> Old(b, t)
    BY <1>4, <1>6
  <2> QED BY <1>2, <1>3, <2>1 DEF AtWork, BasesFound
<1>11. RowsAtWork(r)'
  <2>1. CASE job[r].pc \notin RowSteps
    BY <1>2, <2>1 DEF RowsAtWork
  <2>2. CASE job[r].pc \in RowSteps
    <3>1. RowsAtWork(r)
      BY DEF AtWork
    <3>2. job[r].bases \subseteq BaseRow
      BY <2>2, <3>1 DEF RowsAtWork
    <3>3. \A b \in job[r].bases : deletedAt'[b] # t =>
            (b \in job[r].stale <=> ~(IsActive(b, t)'))
      BY <1>2, <1>4, <2>2, <3>1, <3>2 DEF RowsAtWork
    <3>4. Pending(r)' = Pending(r)
      BY <1>2 DEF Pending
    <3> QED BY <1>2, <2>2, <3>1, <3>3, <3>4 DEF RowsAtWork
  <2> QED BY <2>1, <2>2
<1>12. NewestFound(r)'
  <2>1. job[r].newest \subseteq VersionRow
    BY <1>1 DEF Job
  <2>2. \A v \in job[r].newest : ExistsSince(v, t) => ExistsSince(v, t)'
    BY <1>4, <1>6, <2>1
  <2>3. \A w \in VersionRow : Old(w, t)' <=> Old(w, t)
    BY <1>4, <1>6
  <2>4. \A w \in PlanVersion : Old(w, t)' <=> Old(w, t)
    BY <1>6, <2>3
  <2> QED BY <1>2, <2>2, <2>3, <2>4 DEF AtWork, NewestFound
<1>13. NewestTagged(r)' /\ StaleFound(r)'
  BY <1>2 DEF AtWork, NewestTagged, StaleFound, Pending
<1> QED BY <1>7, <1>8, <1>9, <1>10, <1>11, <1>12, <1>13 DEF AtWork

LEMMA EditDInv ==
  ASSUME IInv, AInv, CInv, DInv, Edit \/ UNCHANGED vars
  PROVE  DInv'
<1>1. EditRows
  BY EditsRows DEF CInv
<1>2. UNCHANGED <<tags, latestTagged, planTag, job>>
  BY <1>1 DEF EditRows
<1>3. \A s \in Request : planTag[s] # None => TagTime(s) \in Nat /\ TagTime(s) <= now
  BY TagTimeType DEF AInv, TagsInThePast
<1>4. TagIsLast'
  BY <1>2 DEF DInv, TagIsLast, TagTime
<1>5. ASSUME NEW r \in Lone
      PROVE  Fits(r)' /\ AtWork(r)'
  <2>1. Fits(r)'
    BY <1>2 DEF DInv, Fits
  <2>2. CASE job[r].pc \notin Tagging
    BY <1>2, <2>1, <2>2 DEF AtWork
  <2>3. CASE job[r].pc \in Tagging
    BY <1>1, <2>1, <2>3, EditAtWork, InputAssumption DEF DInv
  <2> QED BY <2>2, <2>3
<1>6. (VersionsSettled /\ BaseRowsSettled)'
  <2>1. ASSUME NEW r \in Lone, At(r, "done")', LastTag(r)'
        PROVE  Finished(r)'
    <3>1. /\ r \in Request
          /\ At(r, "done") /\ LastTag(r) /\ planTag[r] # None
      BY <1>2, <2>1, InputAssumption DEF At, LastTag, TagTime, PlanTags
    <3>2. Finished(r)
      BY <3>1, FinishedForms DEF DInv
    <3>3. /\ Covered(r)' = Covered(r)
          /\ \A b \in BaseRow : RowSettled(r, b) => RowSettled(r, b)'
          /\ \A b \in Base : VersionsAreSettled(r, b) => VersionsAreSettled(r, b)'
      BY <1>1, <1>3, <3>1, EditSettled
    <3> QED BY <3>2, <3>3 DEF Finished, Covered, Base
  <2> QED BY <2>1, FinishedForms
<1> QED BY <1>4, <1>5, <1>6 DEF DInv

-----------------------------------------------------------------------------
(* Steps of requests that touch no row.                                    *)

LEMMA SameSettled ==
  ASSUME SameRows, NEW r \in Request
  PROVE  /\ \A b : RowSettled(r, b)' <=> RowSettled(r, b)
         /\ \A b : VersionsAreSettled(r, b)' <=> VersionsAreSettled(r, b)
         /\ job'[r].input = job[r].input => Covered(r)' = Covered(r)
         /\ LastTag(r)' <=> LastTag(r)
BY DEF SameRows, RowSettled, VersionsAreSettled, Older, Old, Exists, IsCurrent,
   Current, ExistsSince, IsActive, TagTime, Covered, LastTag, PlanTags

\* The request is before its tag, or it fails.
LEMMA QuietStep ==
  ASSUME DInv, NEW r \in Request, Others(r), SameRows,
         job'[r].pc \notin Tagging \cup {"done"}, r \in Lone => Fits(r)'
  PROVE  DInv'
<1>1. \A s \in Request \ {r} : job'[s] = job[s]
  BY DEF Others
<1>2. TagIsLast'
  BY <1>1 DEF DInv, TagIsLast, SameRows, TagTime
<1>3. ASSUME NEW s \in Lone
      PROVE  Fits(s)' /\ AtWork(s)'
  <2>1. CASE s = r
    BY <2>1 DEF AtWork
  <2>2. CASE s # r
    <3>1. s \in Request /\ job'[s] = job[s] /\ Fits(s) /\ AtWork(s)
      BY <1>1, <2>2, InputAssumption DEF DInv
    <3>2. /\ \A b : RowSettled(s, b)' <=> RowSettled(s, b)
          /\ \A b : VersionsAreSettled(s, b)' <=> VersionsAreSettled(s, b)
          /\ Covered(s)' = Covered(s)
      BY <3>1, SameSettled
    <3>3. Fits(s)'
      BY <3>1 DEF Fits
    <3>4. CASE job[s].pc \notin Tagging
      BY <3>1, <3>3, <3>4 DEF AtWork
    <3>5. CASE job[s].pc \in Tagging
      <4>1. RowsSoFar(s)' /\ VersionsSoFar(s)'
        BY <3>1, <3>2, <3>5 DEF AtWork, RowsSoFar, VersionsSoFar, Passed
      <4>2. AttachmentsFound(s)' /\ BasesFound(s)'
        BY <3>1, <3>2, <3>5 DEF AtWork, AttachmentsFound, BasesFound, Old, Exists,
           TagTime, SameRows
      <4>3. RowsAtWork(s)'
        BY <3>1, <3>5 DEF AtWork, RowsAtWork, Pending, IsActive, TagTime, SameRows
      <4>4. NewestFound(s)'
        BY <3>1, <3>5 DEF AtWork, NewestFound, Old, Exists, ExistsSince, TagTime, SameRows
      <4>5. NewestTagged(s)' /\ StaleFound(s)'
        BY <3>1, <3>5 DEF AtWork, NewestTagged, StaleFound, Pending, SameRows
      <4> QED BY <3>3, <4>1, <4>2, <4>3, <4>4, <4>5 DEF AtWork
    <3> QED BY <3>4, <3>5
  <2> QED BY <2>1, <2>2
<1>4. (VersionsSettled /\ BaseRowsSettled)'
  <2>1. ASSUME NEW s \in Lone, At(s, "done")', LastTag(s)'
        PROVE  Finished(s)'
    <3>1. s # r /\ s \in Request
      BY <2>1, InputAssumption DEF At
    <3>2. At(s, "done") /\ LastTag(s) /\ job'[s] = job[s]
      BY <1>1, <2>1, <3>1, SameSettled DEF At
    <3>3. Finished(s)
      BY <3>2, FinishedForms DEF DInv
    <3> QED BY <3>1, <3>2, <3>3, SameSettled DEF Finished
  <2> QED BY <2>1, FinishedForms
<1> QED BY <1>2, <1>3, <1>4 DEF DInv

\* The request is past its tag: no other request is at work, and no other
\* finished request has the last tag.
LEMMA WorkStep ==
  ASSUME IInv, AInv, DInv, NEW r \in Request, r \in Lone, job[r].pc \in Tagging,
         Others(r), UNCHANGED <<now, createdAt, deletedAt, planTag>>,
         job'[r].pc \in Tagging \cup {"done", "failed"}, Fits(r)',
         job'[r].pc \in Tagging => AtWork(r)',
         job'[r].pc = "done" => Finished(r)'
  PROVE  DInv'
<1>1. \A s \in Request \ {r} : job'[s] = job[s] /\ job[s].pc \notin Tagging
  BY DEF Others, AInv, OneRunning, Running, Tagging, Idle
<1>2. TagIsLast'
  BY <1>1 DEF DInv, TagIsLast, TagTime
<1>3. \A s \in Lone : Fits(s)' /\ AtWork(s)'
  BY <1>1, InputAssumption DEF DInv, Fits, AtWork
<1>4. (VersionsSettled /\ BaseRowsSettled)'
  <2>1. ASSUME NEW s \in Lone, At(s, "done")', LastTag(s)'
        PROVE  Finished(s)'
    <3>1. CASE s = r
      BY <2>1, <3>1 DEF At
    <3>2. CASE s # r
      <4>1. s \in Request /\ planTag[s] # None /\ TagTime(r) <= TagTime(s)
        BY <2>1, TagOfWorker, InputAssumption DEF LastTag, PlanTags, TagTime
      <4>2. TagTime(s) < TagTime(r)
        BY <3>2, <4>1 DEF DInv, TagIsLast
      <4>3. TagTime(s) \in Nat /\ TagTime(r) \in Nat
        BY <4>1, TagTimeType, TagOfWorker
      <4> QED BY <4>1, <4>2, <4>3
    <3> QED BY <3>1, <3>2
  <2> QED BY <2>1, FinishedForms
<1> QED BY <1>2, <1>3, <1>4 DEF DInv

LEMMA BeforeTagDInv ==
  ASSUME IInv, AInv, CInv, DInv, NEW r \in Request, r \in Lone,
         \/ FindPeriods(r) \/ FindLatestVersion(r)
         \/ SetCurrentPeriod(r) \/ EndRevision(r) \/ GetNextTag(r)
  PROVE  DInv'
<1>1. job \in [Request -> Job] /\ job[r] \in Job
  BY DEF IInv, TypeOK
<1>2. job[r].pc \in BeforeTag /\ UNCHANGED <<now, editVars, rowVars, planTag>>
  BY DEF FindPeriods, FindLatestVersion, SetCurrentPeriod, EndRevision,
     GetNextTag, At, BeforeTag
<1>3. job[r].table = "planLocation"
  BY <1>2 DEF DInv, Fits
<1>4. SameRows
  BY <1>2 DEF SameRows, editVars, rowVars
<1>5. /\ Others(r)
      /\ \/ job'[r].pc \in BeforeTag /\ job'[r].table = job[r].table
         \/ job'[r].pc = "failed"
  <2>1. CASE FindPeriods(r)
    <3>1. CASE End(r, "failed")
      BY <3>1, EndShape DEF IInv
    <3>2. ASSUME NEW p, job' = [job EXCEPT ![r].pc = "findLatestVersion",
                                           ![r].period = p]
          PROVE  /\ Others(r) /\ job'[r].pc = "findLatestVersion"
                 /\ job'[r].table = job[r].table
      BY <1>1, <3>2 DEF Others, Job
    <3> QED BY <2>1, <3>1, <3>2 DEF FindPeriods, BeforeTag
  <2>2. CASE FindLatestVersion(r)
    <3>1. CASE Goto(r, "endRevision")
      BY <1>1, <3>1 DEF Goto, Others, Job, BeforeTag
    <3>2. ASSUME NEW v, job' = [job EXCEPT ![r].pc = "setCurrentPeriod",
                                           ![r].version = v]
          PROVE  /\ Others(r) /\ job'[r].pc = "setCurrentPeriod"
                 /\ job'[r].table = job[r].table
      BY <1>1, <3>2 DEF Others, Job
    <3> QED BY <2>2, <3>1, <3>2 DEF FindLatestVersion, BeforeTag
  <2>3. CASE SetCurrentPeriod(r)
    BY <1>1, <2>3 DEF SetCurrentPeriod, Goto, Others, Job, BeforeTag
  <2>4. CASE EndRevision(r)
    BY <1>1, <2>4 DEF EndRevision, Others, Job, BeforeTag
  <2>5. CASE GetNextTag(r)
    <3>1. ASSUME NEW n, job' = [job EXCEPT ![r].pc = "createTag", ![r].name = n]
          PROVE  /\ Others(r) /\ job'[r].pc = "createTag"
                 /\ job'[r].table = job[r].table
      BY <1>1, <3>1 DEF Others, Job
    <3> QED BY <2>5, <3>1 DEF GetNextTag, BeforeTag
  <2> QED BY <2>1, <2>2, <2>3, <2>4, <2>5
<1>6. Fits(r)'
  BY <1>3, <1>5 DEF Fits, BeforeTag, RowSteps, VersionSteps
<1>7. job'[r].pc \notin Tagging \cup {"done"}
  BY <1>5 DEF BeforeTag, Tagging
<1> QED BY <1>4, <1>5, <1>6, <1>7, QuietStep

LEMMA PublishPlanDInv ==
  ASSUME IInv, DInv, NEW r \in Request, PublishPlan(r)
  PROVE  DInv'
<1>1. job \in [Request -> Job] /\ job[r] \in Job
  BY DEF IInv, TypeOK
<1>2. job[r].pc = "idle" /\ SameRows
  BY DEF PublishPlan, At, SameRows, editVars, rowVars
<1>3. PICK input \in Inputs :
        job' = [job EXCEPT ![r].pc = "findPeriods", ![r].input = input]
  BY DEF PublishPlan
<1>4. /\ Others(r) /\ job'[r].pc = "findPeriods"
      /\ job'[r].table = job[r].table
  BY <1>1, <1>3 DEF Others, Job
<1>5. r \in Lone => job[r].table = "planLocation"
  BY <1>2 DEF DInv, Fits, BeforeTag
<1>6. r \in Lone => Fits(r)'
  BY <1>4, <1>5 DEF Fits, RowSteps, VersionSteps
<1>7. job'[r].pc \notin Tagging \cup {"done"}
  BY <1>4 DEF Tagging
<1> QED BY <1>2, <1>4, <1>6, <1>7, QuietStep

LEMMA FailDInv ==
  ASSUME IInv, DInv, NEW r \in Request, Fail(r)
  PROVE  DInv'
<1>1. job'[r].pc = "failed" /\ Others(r)
  BY EndShape DEF Fail, IInv
<1>2. SameRows
  BY DEF Fail, SameRows, editVars, rowVars
<1>3. Fits(r)' /\ job'[r].pc \notin Tagging \cup {"done"}
  BY <1>1 DEF Fits, BeforeTag, RowSteps, VersionSteps, Tagging
<1> QED BY <1>1, <1>2, <1>3, QuietStep

\* A request that may overlap with others: none that runs alone is at work,
\* and once the request writes rows, no such one has the last tag.
LEMMA StrangerDInv ==
  ASSUME IInv, IInv', AInv, DInv, NEW r \in Request \ Lone, Work(r)
  PROVE  DInv'
<1>1. /\ Running(r) /\ UNCHANGED now
      /\ \A s \in Request \ {r} : job'[s] = job[s]
      /\ UNCHANGED planTag \/ CreateTag(r)
  BY WorkShape DEF Others
<1>2. \A s \in Lone : /\ s \in Request \ {r} /\ job'[s] = job[s]
                      /\ job[s].pc \notin Tagging
  BY <1>1, InputAssumption DEF AInv, OneRunning, Running, Tagging, Idle
<1>3. /\ job[r].pc \in BeforeTag \cup Tagging
      /\ job[r].pc \in BeforeTag => planTag[r] = None
      /\ job[r].pc \in Tagging => planTag[r] # None
      /\ job'[r].pc \in Tagging => planTag'[r] # None
  <2>1. job[r].pc \in Step
    BY DEF IInv, TypeOK, Job
  <2> QED BY <1>1, <2>1 DEF IInv, JobOK, Running, Step, Idle, BeforeTag, Tagging
<1>4. /\ now \in Nat /\ planTag \in [Request -> TagRow \cup {None}]
      /\ CreateTag(r) => planTag'[r] # None /\ planTag'[r].createdAt = now
      /\ \A s \in Request \ {r} : planTag'[s] = planTag[s]
  <2>1. CreateTag(r) => [name |-> job[r].name, createdAt |-> now] # None
    BY CreateTagShape, NoneAssumption DEF TagRow, IInv, TypeOK
  <2> QED BY <1>1, <2>1 DEF CreateTag, IInv, TypeOK
<1>5. \A s \in Lone : planTag[s] # None /\ job[r].pc \in BeforeTag => TagTime(s) < now
  BY <1>1, InputAssumption DEF AInv, TagsInThePast
<1>6. TagIsLast'
  <2> SUFFICES ASSUME NEW p \in Request, NEW s \in Request, {p, s} \cap Lone # {},
                      job'[p].pc \in Tagging, planTag'[s] # None, s # p
               PROVE  TagTime(s)' < TagTime(p)'
    BY DEF TagIsLast
  <2>1. p \notin Lone /\ s \in Lone /\ s # r /\ planTag'[s] = planTag[s]
    BY <1>2, <1>4
  <2>2. CASE p # r
    BY <1>1, <1>4, <2>1, <2>2 DEF DInv, TagIsLast, TagTime
  <2>3. CASE p = r /\ job[r].pc \in Tagging
    <3>1. UNCHANGED planTag
      BY <1>1, <2>3, CreateTagShape DEF Tagging
    <3> QED BY <2>1, <2>3, <3>1 DEF DInv, TagIsLast, TagTime
  <2>4. CASE p = r /\ job[r].pc \in BeforeTag
    <3>1. CreateTag(r)
      BY <1>1, <1>3, <2>4
    <3> QED BY <1>4, <1>5, <2>1, <2>4, <3>1 DEF TagTime
  <2> QED BY <1>3, <2>2, <2>3, <2>4
<1>7. \A s \in Lone : Fits(s)' /\ AtWork(s)'
  BY <1>2 DEF DInv, Fits, AtWork
<1>8. (VersionsSettled /\ BaseRowsSettled)'
  <2>1. ASSUME NEW s \in Lone, At(s, "done")', LastTag(s)'
        PROVE  Finished(s)'
    <3>1. /\ s \in Request \ {r} /\ At(s, "done") /\ job'[s] = job[s]
          /\ planTag'[s] = planTag[s] /\ planTag[s] # None /\ TagTime(s) \in Nat
      BY <1>2, <1>4, <2>1, TagTimeType DEF At, LastTag
    <3>2. \A q \in Request : planTag'[q] # None => TagTime(q)' <= TagTime(s)
      BY <2>1, <3>1 DEF LastTag, PlanTags, TagTime
    <3>3. job[r].pc \in BeforeTag
      <4>1. ASSUME job[r].pc \in Tagging
            PROVE  FALSE
        <5>1. UNCHANGED planTag /\ planTag[r] # None
          BY <1>1, <1>3, <4>1, CreateTagShape DEF Tagging
        <5>2. TagTime(r) <= TagTime(s) /\ TagTime(r) \in Nat
          BY <3>2, <5>1, TagTimeType DEF TagTime
        <5>3. TagTime(s) < TagTime(r)
          BY <3>1, <4>1 DEF DInv, TagIsLast
        <5> QED BY <3>1, <5>2, <5>3
      <4> QED BY <1>3, <4>1
    <3>4. ~CreateTag(r)
      <4>1. ASSUME CreateTag(r)
            PROVE  FALSE
        <5>1. now <= TagTime(s)
          BY <1>4, <3>2, <4>1 DEF TagTime
        <5>2. TagTime(s) < now
          BY <1>5, <3>1, <3>3
        <5> QED BY <1>4, <3>1, <5>1, <5>2
      <4> QED BY <4>1
    <3>5. SameRows
      BY <3>3, <3>4 DEF Work, FindPeriods, FindLatestVersion, SetCurrentPeriod,
         EndRevision, GetNextTag, FindRows, FindAttachments, FindMeasurements,
         TagRows, UntagRows, FindVersions, FindPlanVersions, ReadLatest, TagVersions,
         TagGroup, FindOld, UntagOld, FindAssociated, FindPublishedPeriods,
         FindPublishedMeasurements, SetLastPublished, At, BeforeTag, SameRows,
         editVars, rowVars
    <3>6. LastTag(s) /\ Finished(s)
      <4>1. LastTag(s)
        BY <2>1, <3>1, <3>5, SameSettled
      <4> QED BY <3>1, <4>1, FinishedForms DEF DInv
    <3> QED BY <3>1, <3>5, <3>6, SameSettled DEF Finished
  <2> QED BY <2>1, FinishedForms
<1> QED BY <1>6, <1>7, <1>8 DEF DInv

\* Every table has its place in the loops.
LEMMA RankType ==
  /\ \A table \in Table : Rank[table] \in 1..7
  /\ \A b \in Base : TableAt(b) \in Table
BY KeysAssumption DEF Rank, Table, BaseOnlyModels, BaseAndVersionModels, TableAt, Base

LEMMA CreateTagDInv ==
  ASSUME IInv, AInv, CInv, DInv, NEW r \in Request, r \in Lone, CreateTag(r)
  PROVE  DInv'
<1>1. /\ job[r].pc = "createTag" /\ planTag[r] = None /\ job[r].name \in Name
      /\ Others(r)
      /\ job'[r].pc = "findRows"
      /\ planTag' = [planTag EXCEPT ![r] = [name |-> job[r].name, createdAt |-> now]]
      /\ UNCHANGED <<now, rowVars>>
  BY CreateTagShape
<1>2. UNCHANGED editVars /\ job'[r].table = job[r].table
  BY DEF CreateTag, Goto, IInv, TypeOK, Job
<1> DEFINE row == [name |-> job[r].name, createdAt |-> now]
<1>3. row \in TagRow /\ row # None /\ row.createdAt = now
  BY <1>1, NoneAssumption DEF TagRow, IInv, TypeOK
<1>4. planTag'[r] = row /\ \A s \in Request \ {r} : planTag'[s] = planTag[s]
  BY <1>1 DEF IInv, TypeOK
<1> HIDE DEF row
<1>5. TagTime(r)' = now
  BY <1>3, <1>4 DEF TagTime
<1>6. Running(r) /\ job[r].pc \in BeforeTag
  BY <1>1 DEF Running, Idle, BeforeTag
<1>7. \A s \in Request \ {r} : /\ ~Running(s) /\ job'[s] = job[s]
                               /\ job[s].pc \notin Tagging
  BY <1>1, <1>6 DEF AInv, OneRunning, Running, Others, Idle, Tagging
<1>8. \A s \in Request \ {r} : planTag[s] # None => TagTime(s) < now
  BY <1>6 DEF AInv, TagsInThePast
<1>9. TagIsLast'
  BY <1>4, <1>5, <1>7, <1>8 DEF TagIsLast, TagTime
<1>10. job[r].table = "planLocation"
  BY <1>6 DEF DInv, Fits
<1>11. ASSUME NEW s \in Lone
       PROVE  Fits(s)' /\ AtWork(s)'
  <2>1. CASE s # r
    BY <1>7, <2>1, InputAssumption DEF DInv, Fits, AtWork
  <2>2. CASE s = r
    <3>1. Fits(r)'
      BY <1>1, <1>2, <1>10 DEF Fits, BeforeTag, RowSteps, VersionSteps
    <3>2. \A b \in Base : ~(Passed(r, b)')
      BY <1>1, <1>2, <1>10, RankType DEF Passed, Final, Rank
    <3>3. Covered(r)' \cup {Plan} \subseteq Base
      BY DEF Covered, Base
    <3>4. AtWork(r)'
      BY <1>1, <3>2, <3>3 DEF AtWork, RowsSoFar, VersionsSoFar, AttachmentsFound,
         BasesFound, RowsAtWork, NewestFound, NewestTagged, StaleFound,
         RowSteps, VersionSteps
    <3> QED BY <2>2, <3>1, <3>4
  <2> QED BY <2>1, <2>2
<1>12. (VersionsSettled /\ BaseRowsSettled)'
  <2>1. ASSUME NEW s \in Lone, At(s, "done")', LastTag(s)'
        PROVE  FALSE
    <3>1. s # r /\ s \in Request
      BY <1>1, <2>1, InputAssumption DEF At
    <3>2. planTag[s] # None /\ planTag'[r] \in PlanTags'
      BY <1>3, <1>4, <2>1, <3>1 DEF LastTag, PlanTags
    <3>3. TagTime(s)' = TagTime(s) /\ now <= TagTime(s)
      BY <1>3, <1>4, <2>1, <3>1, <3>2 DEF LastTag, TagTime
    <3>4. TagTime(s) < now /\ TagTime(s) \in Nat /\ now \in Nat
      BY <1>8, <3>1, <3>2, TagTimeType, RowTimes
    <3> QED BY <3>3, <3>4
  <2> QED BY <2>1, FinishedForms
<1> QED BY <1>9, <1>11, <1>12 DEF DInv

-----------------------------------------------------------------------------
(* What a step that changes only rows of the table at hand leaves alone.   *)

Touched(rows) ==
  /\ \A x \in Row \ rows : tags'[x] = tags[x] /\ latestTagged'[x] = latestTagged[x]
  /\ UNCHANGED <<now, createdAt, deletedAt, planTag>>

OfTable(r, rows) ==
  /\ \A b \in rows \cap BaseRow : TableAt(b) = job[r].table
  /\ \A v \in rows \cap VersionRow : TableAt(BaseOf[v]) = job[r].table

LEMMA TouchedSettled ==
  ASSUME NEW rows, Touched(rows), NEW r \in Request
  PROVE  /\ \A b \in BaseRow \ rows : RowSettled(r, b)' <=> RowSettled(r, b)
         /\ \A b : (\A v \in rows \cap VersionRow : BaseOf[v] # b) =>
              (VersionsAreSettled(r, b)' <=> VersionsAreSettled(r, b))
<1>1. TagTime(r)' = TagTime(r) /\ UNCHANGED <<createdAt, deletedAt, planTag>>
  BY DEF Touched, TagTime
<1>2. ASSUME NEW b \in BaseRow \ rows
      PROVE  RowSettled(r, b)' <=> RowSettled(r, b)
  <2>1. tags'[b] = tags[b] /\ latestTagged'[b] = latestTagged[b]
    BY DEF Touched, Row
  <2> QED BY <1>1, <2>1 DEF RowSettled, Old, Exists, IsActive
<1>3. ASSUME NEW b, \A v \in rows \cap VersionRow : BaseOf[v] # b
      PROVE  VersionsAreSettled(r, b)' <=> VersionsAreSettled(r, b)
  <2>1. \A v \in VersionRow : BaseOf[v] = b =>
          tags'[v] = tags[v] /\ latestTagged'[v] = latestTagged[v]
    BY <1>3 DEF Touched, Row
  <2>2. Current(b)' = Current(b)
    BY <2>1 DEF Current
  <2>3. Older(r, b)' = Older(r, b)
    BY <1>1 DEF Older, Old, Exists
  <2>4. \A v \in VersionRow : v \in Current(b) => (IsCurrent(r, b, v)' <=> IsCurrent(r, b, v))
    BY <1>1, <2>1, <2>2, <2>3 DEF IsCurrent, ExistsSince, Exists, Current
  <2>5. \A v \in VersionRow : v \notin Current(b) =>
          ~IsCurrent(r, b, v) /\ ~(IsCurrent(r, b, v)')
    BY <2>2 DEF IsCurrent
  <2> QED BY <2>3, <2>4, <2>5 DEF VersionsAreSettled
<1> QED BY <1>2, <1>3

LEMMA Carried ==
  ASSUME TypeOK, NEW r \in Request, job[r].pc \in Tagging \ Final, AtWork(r),
         NEW rows, Touched(rows), OfTable(r, rows)
  PROVE  /\ \A b \in Covered(r) : Passed(r, b) => RowSettled(r, b)'
         /\ \A b \in Covered(r) \cup {Plan} : Passed(r, b) => VersionsAreSettled(r, b)'
         /\ job[r].pc \in VersionSteps /\ rows \subseteq VersionRow =>
              \A b \in Covered(r) : TableOf[b] = job[r].table => RowSettled(r, b)'
<1>1. Covered(r) \subseteq BaseRow /\ BaseRow \cap VersionRow = {}
  BY KeysAssumption DEF Covered
<1>2. \A b : Passed(r, b) => TableAt(b) # job[r].table
  <2>1. Rank[job[r].table] \in 1..7
    BY RankType DEF TypeOK, Job
  <2>2. ~(Rank[job[r].table] < Rank[job[r].table])
    BY <2>1
  <2> QED BY <2>2 DEF Passed
<1>3. /\ \A b \in BaseRow \ rows : RowSettled(r, b)' <=> RowSettled(r, b)
      /\ \A b : (\A v \in rows \cap VersionRow : BaseOf[v] # b) =>
              (VersionsAreSettled(r, b)' <=> VersionsAreSettled(r, b))
  BY TouchedSettled
<1>4. ASSUME NEW b \in Covered(r), Passed(r, b)
      PROVE  RowSettled(r, b)'
  <2>1. b \notin rows
    BY <1>1, <1>2, <1>4 DEF OfTable
  <2> QED BY <1>1, <1>3, <1>4, <2>1 DEF AtWork, RowsSoFar
<1>5. ASSUME NEW b \in Covered(r) \cup {Plan}, Passed(r, b)
      PROVE  VersionsAreSettled(r, b)'
  <2>1. \A v \in rows \cap VersionRow : BaseOf[v] # b
    BY <1>2, <1>5 DEF OfTable
  <2> QED BY <1>3, <1>5, <2>1 DEF AtWork, VersionsSoFar
<1>6. ASSUME NEW b \in Covered(r), TableOf[b] = job[r].table,
             job[r].pc \in VersionSteps, rows \subseteq VersionRow
      PROVE  RowSettled(r, b)'
  BY <1>1, <1>3, <1>6 DEF AtWork, RowsSoFar
<1> QED BY <1>4, <1>5, <1>6

\* A step within a table.
LEMMA WithinTable ==
  ASSUME TypeOK, NEW r \in Request, job[r].pc \in Tagging \ Final, AtWork(r),
         NEW rows, Touched(rows), OfTable(r, rows),
         job'[r].pc \in Tagging \ Final,
         job'[r].table = job[r].table, job'[r].input = job[r].input,
         job'[r].pc \in VersionSteps =>
           (job[r].pc \in VersionSteps \/ job[r].pc = "findPlanVersions")
           /\ rows \subseteq VersionRow,
         job[r].pc = "findPlanVersions" => job[r].table = "planVersion"
  PROVE  RowsSoFar(r)' /\ VersionsSoFar(r)' /\ Covered(r)' = Covered(r)
<1>1. Covered(r)' = Covered(r)
  BY DEF Covered
<1>2. \A b : Passed(r, b)' <=> Passed(r, b)
  BY DEF Passed
<1>3. /\ \A b \in Covered(r) : Passed(r, b) => RowSettled(r, b)'
      /\ \A b \in Covered(r) \cup {Plan} : Passed(r, b) => VersionsAreSettled(r, b)'
      /\ job[r].pc \in VersionSteps /\ rows \subseteq VersionRow =>
              \A b \in Covered(r) : TableOf[b] = job[r].table => RowSettled(r, b)'
  BY Carried
<1>4. \A b \in Covered(r) : TableOf[b] # "planVersion"
  BY KeysAssumption DEF Covered
<1>5. RowsSoFar(r)'
  BY <1>1, <1>2, <1>3, <1>4 DEF RowsSoFar
<1>6. VersionsSoFar(r)'
  BY <1>1, <1>2, <1>3 DEF VersionsSoFar
<1> QED BY <1>1, <1>5, <1>6

LEMMA NextRank ==
  \A t \in Table \ {"measurement"} :
    NextTable[t] \in Table /\ Rank[NextTable[t]] = Rank[t] + 1
BY DEF NextTable, Rank, Table, BaseOnlyModels, BaseAndVersionModels

LEMMA RankIsInjective ==
  \A t, u \in Table : Rank[t] = Rank[u] => t = u
BY DEF Rank, Table, BaseOnlyModels, BaseAndVersionModels

\* The step that leaves a table: its rows and its versions are settled.
LEMMA Leaves ==
  ASSUME IInv, AInv, CInv, DInv, NEW r \in Request, r \in Lone, job[r].pc \in Tagging \ Final,
         NEW rows, Touched(rows), OfTable(r, rows), LeaveTable(r),
         \A b \in Covered(r) : TableOf[b] = job[r].table => RowSettled(r, b)',
         \A b \in Covered(r) \cup {Plan} :
           TableAt(b) = job[r].table => VersionsAreSettled(r, b)'
  PROVE  DInv'
<1>1. /\ Others(r)
      /\ job'[r].input = job[r].input
      /\ job'[r].table = NextTable[job[r].table]
      /\ job'[r].pc = IF job[r].table = "measurement" THEN "findAssociated"
                         ELSE FirstStep(NextTable[job[r].table], job[r].input)
  BY LeaveFields DEF IInv
<1>2. /\ \A b \in Covered(r) : Passed(r, b) => RowSettled(r, b)'
      /\ \A b \in Covered(r) \cup {Plan} : Passed(r, b) => VersionsAreSettled(r, b)'
  BY Carried DEF DInv, IInv
<1>3. Covered(r)' = Covered(r)
  BY <1>1 DEF Covered
<1>4. /\ job[r].table \in Table
      /\ \A b \in Covered(r) \cup {Plan} : TableAt(b) \in Table
      /\ \A b \in Covered(r) : TableAt(b) = TableOf[b]
  BY RankType, KeysAssumption DEF IInv, TypeOK, Job, Covered, Base, TableAt, Row
<1>5. /\ \A t \in Table : Rank[t] \in 1..7
      /\ \A t, u \in Table : Rank[t] = Rank[u] => t = u
      /\ Rank["planVersion"] = 6 /\ Rank["measurement"] = 7
  BY RankType, RankIsInjective DEF Rank
<1>6. ASSUME NEW b \in Covered(r) \cup {Plan}, Passed(r, b)'
      PROVE  Passed(r, b) \/ TableAt(b) = job[r].table
  <2>1. CASE job[r].table = "measurement"
    <3>1. Rank[TableAt(b)] <= Rank[job[r].table]
      BY <1>4, <1>5, <2>1
    <3>2. Rank[TableAt(b)] < Rank[job[r].table] \/ TableAt(b) = job[r].table
      BY <1>4, <1>5, <3>1
    <3> QED BY <3>2 DEF Passed
  <2>2. CASE job[r].table = "planVersion"
    <3>1. TableAt(b) # "measurement" => Rank[TableAt(b)] < 6 \/ TableAt(b) = "planVersion"
      <4>1. TableAt(b) \in Table /\ Rank[TableAt(b)] \in 1..7
        BY <1>4, <1>5
      <4>2. "planVersion" \in Table /\ "measurement" \in Table
        BY DEF Table, BaseAndVersionModels
      <4>3. TableAt(b) # "measurement" => Rank[TableAt(b)] # 7
        BY <1>5, <4>1, <4>2
      <4>4. Rank[TableAt(b)] = 6 => TableAt(b) = "planVersion"
        BY <1>5, <4>1, <4>2
      <4> QED BY <4>1, <4>3, <4>4
    <3>2. job'[r].table = "measurement"
      BY <1>1, <2>2 DEF NextTable
    <3>3. TableAt(b) # "measurement"
      <4>1. CASE job'[r].pc \in Final
        <5>1. ~job[r].input.publishMeasurements
          BY <1>1, <2>2, <4>1 DEF NextTable, FirstStep, Final
        <5> QED BY <5>1 DEF Covered, TableAt, Measurement
      <4>2. CASE job'[r].pc \notin Final
        <5>1. Rank[TableAt(b)] < 7
          BY <1>5, <1>6, <3>2, <4>2 DEF Passed
        <5> QED BY <1>5, <5>1
      <4> QED BY <4>1, <4>2
    <3> QED BY <1>5, <2>2, <3>1, <3>3 DEF Passed
  <2>3. CASE job[r].table \notin {"measurement", "planVersion"}
    <3>1. job'[r].pc \notin Final
      BY <1>1, <1>4, <2>3 DEF NextTable, FirstStep, Final, Table, BaseOnlyModels,
         BaseAndVersionModels
    <3>2. Rank[TableAt(b)] < Rank[job[r].table] + 1
      BY <1>1, <1>4, <1>6, <2>3, <3>1, NextRank DEF Passed
    <3>3. Rank[TableAt(b)] < Rank[job[r].table] \/ TableAt(b) = job[r].table
      BY <1>4, <1>5, <3>2
    <3> QED BY <3>3 DEF Passed
  <2> QED BY <2>1, <2>2, <2>3
<1>7. job'[r].pc \in {"findRows", "findPlanVersions", "findAttachments", "findAssociated"}
  BY <1>1 DEF FirstStep
<1>8. RowsSoFar(r)'
  <2>1. job'[r].pc \notin VersionSteps
    BY <1>7 DEF VersionSteps
  <2> QED BY <1>2, <1>3, <1>4, <1>6, <2>1 DEF RowsSoFar
<1>9. VersionsSoFar(r)'
  BY <1>2, <1>3, <1>6 DEF VersionsSoFar
<1>10. AtWork(r)'
  BY <1>7, <1>8, <1>9 DEF AtWork, AttachmentsFound, BasesFound, RowsAtWork,
     NewestFound, NewestTagged, StaleFound, RowSteps, VersionSteps
<1>11. Fits(r)'
  <2>1. job'[r].pc \notin BeforeTag \cup RowSteps \cup VersionSteps \cup {"findMeasurements"}
    BY <1>7 DEF BeforeTag, RowSteps, VersionSteps
  <2>2. job'[r].pc = "findRows" => job'[r].table \notin {"planVersion", "measurement"}
    BY <1>1 DEF FirstStep
  <2>3. job'[r].pc = "findPlanVersions" => job'[r].table = "planVersion"
    BY <1>1 DEF FirstStep
  <2>4. job'[r].pc = "findAttachments" =>
          job'[r].table = "measurement" /\ job'[r].input.publishMeasurements
    BY <1>1 DEF FirstStep
  <2> QED BY <2>1, <2>2, <2>3, <2>4 DEF Fits, VersionSteps
<1>12. job'[r].pc \in Tagging
  BY <1>7 DEF Tagging
<1>13. job[r].pc \in Tagging /\ job'[r].pc # "done"
  BY <1>7
<1> QED BY <1>1, <1>10, <1>11, <1>12, <1>13, WorkStep DEF Touched

-----------------------------------------------------------------------------
(* The base rows of a table.                                               *)

LEMMA SameIsTouched ==
  ASSUME NEW r \in Request, UNCHANGED <<now, createdAt, deletedAt, tags, latestTagged, planTag>>
  PROVE  Touched({}) /\ OfTable(r, {})
BY DEF Touched, OfTable

LEMMA SortWork ==
  ASSUME IInv, AInv, CInv, DInv, NEW r \in Request, r \in Lone, NEW rows \in SUBSET BaseRow,
         job[r].pc \in {"findRows", "findMeasurements"}, SortBaseRows(r, rows),
         UNCHANGED <<now, editVars, rowVars, planVars, planTag>>,
         \A b \in rows : TableOf[b] = job[r].table,
         \A b \in Covered(r) :
           TableOf[b] = job[r].table /\ Old(b, TagTime(r)) => b \in rows
  PROVE  DInv'
<1>1. job \in [Request -> Job] /\ job[r] \in Job /\ job[r].pc \in Tagging \ Final
  BY DEF IInv, TypeOK, Tagging, Final
<1> DEFINE active == {b \in rows : IsActive(b, TagTime(r))}
           step == IF active = {} THEN "untagRows" ELSE "tagRows"
           read == ReadTags(active)
           stale == rows \ active
           new == [job[r] EXCEPT !.bases = rows, !.todo = read,
                                 !.stale = stale, !.pc = step]
<1>2. job' = [job EXCEPT ![r] = new]
  BY <1>1 DEF SortBaseRows
<1>3. step \in RowSteps /\ (step = "untagRows" => active = {})
  BY DEF RowSteps
<1>4. {u.row : u \in read} = active
  BY RowsRead
<1> HIDE DEF active, step, read, stale
<1>5. /\ new.bases = rows /\ new.todo = read /\ new.stale = stale /\ new.pc = step
      /\ new.table = job[r].table /\ new.input = job[r].input
  BY <1>1 DEF Job
<1> HIDE DEF new
<1>6. Others(r) /\ job'[r] = new
  BY <1>1, <1>2 DEF Others
<1>7. UNCHANGED <<now, createdAt, deletedAt, tags, latestTagged, planTag>>
  BY DEF editVars, rowVars
<1>8. Touched({}) /\ OfTable(r, {})
  BY <1>7, SameIsTouched
<1>9. step \in Tagging \ Final /\ step \notin VersionSteps
  BY <1>3 DEF RowSteps, Tagging, Final, VersionSteps
<1>10. AtWork(r) /\ Fits(r)
  BY DEF DInv
<1>11. RowsSoFar(r)' /\ VersionsSoFar(r)' /\ Covered(r)' = Covered(r)
  BY <1>1, <1>5, <1>6, <1>8, <1>9, <1>10, WithinTable DEF IInv
<1>12. TagTime(r)' = TagTime(r)
  BY <1>7 DEF TagTime
<1>13. job[r].table # "planVersion"
  BY <1>10 DEF Fits
<1>14. Fits(r)'
  BY <1>3, <1>5, <1>6, <1>9, <1>10, <1>13 DEF Fits, RowSteps, BeforeTag
<1>15. BasesFound(r)'
  <2>1. \A b \in rows : TableAt(b) = job[r].table
    BY KeysAssumption DEF TableAt, Row
  <2> QED BY <1>5, <1>6, <1>7, <1>11, <1>12, <2>1 DEF BasesFound, Old, Exists
<1>16. RowsAtWork(r)'
  <2>1. Pending(r)' = active
    BY <1>4, <1>5, <1>6 DEF Pending
  <2>2. stale \subseteq rows /\ active \subseteq rows \ stale /\ rows \ stale = active
    BY DEF stale, active
  <2>3. \A b \in rows : b \in stale <=> ~(IsActive(b, TagTime(r))')
    BY <1>7, <1>12 DEF stale, active, IsActive
  <2> QED BY <1>3, <1>5, <1>6, <2>1, <2>2, <2>3 DEF RowsAtWork
<1>17. AtWork(r)'
  BY <1>3, <1>5, <1>6, <1>11, <1>15, <1>16 DEF AtWork, AttachmentsFound, NewestFound,
     NewestTagged, StaleFound, RowSteps, VersionSteps
<1>18. job'[r].pc \in Tagging /\ job'[r].pc # "done"
  BY <1>5, <1>6, <1>9 DEF Tagging
<1> QED BY <1>1, <1>6, <1>7, <1>8, <1>14, <1>17, <1>18, WorkStep

LEMMA FindRowsDInv ==
  ASSUME IInv, AInv, CInv, DInv, NEW r \in Request, r \in Lone, FindRows(r)
  PROVE  DInv'
<1> DEFINE rows == {b \in BaseRow \ CostAttachment :
                      Exists(b) /\ TableOf[b] = job[r].table}
<1>1. rows \in SUBSET BaseRow /\ \A b \in rows : TableOf[b] = job[r].table
  OBVIOUS
<1>2. SortBaseRows(r, rows) /\ job[r].pc \in {"findRows", "findMeasurements"}
      /\ UNCHANGED <<now, editVars, rowVars, planVars, planTag>>
  BY DEF FindRows, At
<1>3. \A b \in Covered(r) :
        TableOf[b] = job[r].table /\ Old(b, TagTime(r)) => b \in rows
  BY DEF Covered, Old
<1> HIDE DEF rows
<1> QED BY <1>1, <1>2, <1>3, SortWork

LEMMA FindAttachmentsDInv ==
  ASSUME IInv, AInv, CInv, DInv, NEW r \in Request, r \in Lone, FindAttachments(r)
  PROVE  DInv'
<1>1. job \in [Request -> Job] /\ job[r] \in Job
  BY DEF IInv, TypeOK
<1> DEFINE rows == {b \in BaseRow : Exists(b) /\ TableOf[b] = "attachment"}
           new == [job[r] EXCEPT !.pc = "findMeasurements", !.bases = rows]
<1>2. job' = [job EXCEPT ![r] = new]
  BY <1>1 DEF FindAttachments
<1>3. \A a \in BaseRow : TableOf[a] = "attachment" /\ Old(a, TagTime(r)) => a \in rows
  BY DEF Old
<1> HIDE DEF rows
<1>4. /\ new.pc = "findMeasurements" /\ new.bases = rows
      /\ new.table = job[r].table /\ new.input = job[r].input
  BY <1>1 DEF Job
<1> HIDE DEF new
<1>5. Others(r) /\ job'[r] = new
  BY <1>1, <1>2 DEF Others
<1>6. job[r].pc = "findAttachments"
      /\ UNCHANGED <<now, createdAt, deletedAt, tags, latestTagged, planTag>>
  BY DEF FindAttachments, At, editVars, rowVars
<1>7. Touched({}) /\ OfTable(r, {})
  BY <1>6, SameIsTouched
<1>8. AtWork(r) /\ Fits(r) /\ job[r].pc \in Tagging \ Final
  BY <1>6 DEF DInv, Tagging, Final
<1>9. job'[r].pc \in Tagging \ Final /\ job'[r].pc \notin VersionSteps \cup RowSteps
  BY <1>4, <1>5 DEF RowSteps, Tagging, Final, VersionSteps
<1>10. RowsSoFar(r)' /\ VersionsSoFar(r)'
  BY <1>4, <1>5, <1>6, <1>7, <1>8, <1>9, WithinTable DEF IInv
<1>11. Fits(r)'
  BY <1>4, <1>5, <1>6, <1>8, <1>9 DEF Fits, VersionSteps, BeforeTag
<1>12. AttachmentsFound(r)'
  BY <1>3, <1>4, <1>5, <1>6 DEF AttachmentsFound, Old, Exists, TagTime
<1>13. AtWork(r)'
  BY <1>9, <1>10, <1>12 DEF AtWork, BasesFound, RowsAtWork, NewestFound,
     NewestTagged, StaleFound, VersionSteps
<1>14. job'[r].pc # "done"
  BY <1>4, <1>5
<1> QED BY <1>5, <1>6, <1>7, <1>8, <1>9, <1>11, <1>13, <1>14, WorkStep

LEMMA FindMeasurementsDInv ==
  ASSUME IInv, AInv, CInv, DInv, NEW r \in Request, r \in Lone, FindMeasurements(r)
  PROVE  DInv'
<1> DEFINE rows == {m \in Measurement : /\ Exists(m)
                                        /\ AttachmentOf[m] \in job[r].bases
                                        /\ PeriodOf[m] \in job[r].input.periods}
<1>1. job[r].pc = "findMeasurements" /\ job[r].table = "measurement"
      /\ AttachmentsFound(r)
  <2>1. job[r].pc = "findMeasurements" /\ job[r].pc \in Tagging
    BY DEF FindMeasurements, At, Tagging
  <2> QED BY <2>1 DEF DInv, Fits, AtWork
<1>2. rows \in SUBSET BaseRow /\ \A b \in rows : TableOf[b] = job[r].table
  BY <1>1 DEF Measurement
<1>3. SortBaseRows(r, rows)
      /\ UNCHANGED <<now, editVars, rowVars, planVars, planTag>>
  BY DEF FindMeasurements
<1>4. ASSUME NEW b \in Covered(r), TableOf[b] = job[r].table, Old(b, TagTime(r))
      PROVE  b \in rows
  <2>1. b \in Measurement /\ PeriodOf[b] \in job[r].input.periods /\ Exists(b)
    BY <1>1, <1>4 DEF Covered, Measurement, Old
  <2>2. /\ AttachmentOf[b] \in BaseRow /\ TableOf[AttachmentOf[b]] = "attachment"
        /\ Exists(AttachmentOf[b]) /\ createdAt[AttachmentOf[b]] <= createdAt[b]
    BY <2>1, KeysAssumption DEF CInv, RowsOK
  <2>3. /\ createdAt[b] \in Nat /\ createdAt[AttachmentOf[b]] \in Nat
        /\ TagTime(r) \in Nat
    <3>1. job[r].pc \in Tagging /\ b \in Row /\ AttachmentOf[b] \in Row
      BY <1>1, <2>1, <2>2 DEF Tagging, Row, Measurement
    <3> QED BY <2>1, <2>2, <3>1, RowTimes, TagOfWorker DEF Exists
  <2>4. Old(AttachmentOf[b], TagTime(r))
    BY <1>4, <2>2, <2>3 DEF Old
  <2> QED BY <1>1, <2>1, <2>2, <2>4 DEF AttachmentsFound
<1> HIDE DEF rows
<1> QED BY <1>1, <1>2, <1>3, <1>4, SortWork

\* What one UPDATE of the tagging loops does to the rows that are pending.
LEMMA TagFields ==
  ASSUME IInv, AInv, NEW r \in Request, r \in Lone,
         NEW here \in {"tagRows", "tagVersions"}, NEW after \in {"untagRows", "findOld"},
         TagGroup(r, here, after)
  PROVE  \E rows \in SUBSET Pending(r) :
           /\ Others(r)
           /\ job'[r].table = job[r].table /\ job'[r].input = job[r].input
           /\ job'[r].bases = job[r].bases /\ job'[r].newest = job[r].newest
           /\ job'[r].stale = job[r].stale
           /\ Pending(r)' = Pending(r) \ rows
           /\ job'[r].pc \in {here, after}
           /\ job'[r].pc = after => Pending(r)' = {}
           /\ \A x \in rows : x \in Row /\ latestTagged'[x] /\ job[r].name \in tags'[x]
           /\ Touched(rows)
<1>1. job \in [Request -> Job] /\ job[r] \in Job
  BY DEF IInv, TypeOK
<1>2a. PICK first \in job[r].todo : \E group \in Groups(r, first) :
           /\ WriteTags(r, {s.row : s \in group}, first.tags)
           /\ job' = [job EXCEPT ![r].todo = @ \ group,
                                 ![r].pc = IF job[r].todo \ group = {}
                                             THEN after ELSE here]
  BY DEF TagGroup
<1>2. PICK group \in Groups(r, first) :
         /\ WriteTags(r, {s.row : s \in group}, first.tags)
         /\ job' = [job EXCEPT ![r].todo = @ \ group,
                               ![r].pc = IF job[r].todo \ group = {}
                                           THEN after ELSE here]
  BY <1>2a
<1> DEFINE rows == {s.row : s \in group}
           rest == job[r].todo \ group
           step == IF rest = {} THEN after ELSE here
           new == [job[r] EXCEPT !.todo = rest, !.pc = step]
<1>3. job' = [job EXCEPT ![r] = new]
  BY <1>1, <1>2
<1>4. group \subseteq job[r].todo
  BY DEF Groups
<1>5. \A u \in job[r].todo : u \in Snapshot /\ u.row \in Row /\ u.tags = tags[u.row]
  BY <1>1 DEF AInv, SnapshotsAreCurrent, Job, Snapshot
<1>6. \A u \in rest : u.row \notin rows
  <2> SUFFICES ASSUME NEW u \in rest, NEW g \in group, u.row = g.row
               PROVE  FALSE
    OBVIOUS
  <2>1. u = g
    BY <1>4, <1>5 DEF Snapshot
  <2> QED BY <2>1
<1>7. {u.row : u \in rest} = Pending(r) \ rows /\ rows \subseteq Pending(r)
  BY <1>4, <1>6 DEF Pending
<1>8. step \in {here, after} /\ (step = after => rest = {} \/ here = after)
  OBVIOUS
<1>9. here # after
  OBVIOUS
<1>10. /\ tags' = [x \in Row |-> IF x \in rows
                                THEN first.tags \cup {job[r].name} ELSE tags[x]]
       /\ latestTagged' = [x \in Row |-> x \in rows \/ latestTagged[x]]
  BY <1>2 DEF WriteTags
<1>11. UNCHANGED <<now, createdAt, deletedAt, planTag>>
  BY DEF TagGroup, editVars
<1>12. rows \subseteq Row
  BY <1>4, <1>5
<1> HIDE DEF rows, rest, step
<1>13. /\ new.pc = step /\ new.todo = rest /\ new.table = job[r].table
       /\ new.input = job[r].input /\ new.bases = job[r].bases
       /\ new.newest = job[r].newest /\ new.stale = job[r].stale
  BY <1>1 DEF Job
<1> HIDE DEF new
<1>14. Others(r) /\ job'[r] = new
  BY <1>1, <1>3 DEF Others
<1>15. Pending(r)' = Pending(r) \ rows
  BY <1>7, <1>13, <1>14 DEF Pending
<1>16. step = after => Pending(r)' = {}
  BY <1>8, <1>9, <1>13, <1>14 DEF Pending
<1>17. \A x \in rows : x \in Row /\ latestTagged'[x] /\ job[r].name \in tags'[x]
  BY <1>10, <1>12
<1>18. Touched(rows)
  <2>1. \A x \in Row \ rows : tags'[x] = tags[x]
    BY <1>10
  <2>2. \A x \in Row \ rows : latestTagged'[x] = latestTagged[x]
    BY <1>10 DEF IInv, TypeOK
  <2> QED BY <1>11, <2>1, <2>2 DEF Touched
<1> QED BY <1>7, <1>8, <1>13, <1>14, <1>15, <1>16, <1>17, <1>18

LEMMA TagRowsDInv ==
  ASSUME IInv, AInv, CInv, DInv, NEW r \in Request, r \in Lone, TagRows(r)
  PROVE  DInv'
<1>1. PICK rows \in SUBSET Pending(r) :
        /\ Others(r)
        /\ job'[r].table = job[r].table /\ job'[r].input = job[r].input
        /\ job'[r].bases = job[r].bases /\ job'[r].newest = job[r].newest
        /\ job'[r].stale = job[r].stale
        /\ Pending(r)' = Pending(r) \ rows
        /\ job'[r].pc \in {"tagRows", "untagRows"}
        /\ job'[r].pc = "untagRows" => Pending(r)' = {}
        /\ \A x \in rows : x \in Row /\ latestTagged'[x] /\ job[r].name \in tags'[x]
        /\ Touched(rows)
  BY TagFields DEF TagRows
<1>2. job[r].pc = "tagRows"
  BY DEF TagRows, TagGroup, At
<1>3. /\ job[r].pc \in Tagging \ Final /\ job[r].pc \in RowSteps
      /\ job[r].pc \notin VersionSteps
  BY <1>2 DEF Tagging, Final, RowSteps, VersionSteps
<1>4. /\ job'[r].pc \in Tagging \ Final /\ job'[r].pc \in RowSteps
      /\ job'[r].pc \notin VersionSteps
  BY <1>1 DEF Tagging, Final, RowSteps, VersionSteps
<1>5. AtWork(r) /\ Fits(r) /\ BasesFound(r) /\ RowsAtWork(r)
  BY <1>3 DEF DInv, AtWork
<1>6. rows \subseteq job[r].bases \ job[r].stale /\ rows \subseteq BaseRow
  BY <1>1, <1>3, <1>5 DEF RowsAtWork
<1>7. OfTable(r, rows)
  <2>1. \A b \in rows : TableAt(b) = job[r].table
    BY <1>3, <1>5, <1>6 DEF BasesFound
  <2> QED BY <1>6, <2>1, KeysAssumption DEF OfTable
<1>8. RowsSoFar(r)' /\ VersionsSoFar(r)' /\ Covered(r)' = Covered(r)
  BY <1>1, <1>2, <1>3, <1>4, <1>5, <1>7, WithinTable DEF IInv
<1>9. UNCHANGED <<now, createdAt, deletedAt, planTag>> /\ TagTime(r)' = TagTime(r)
  BY <1>1 DEF Touched, TagTime
<1>11. Fits(r)'
  BY <1>1, <1>3, <1>4, <1>5 DEF Fits, RowSteps, BeforeTag
<1>12. BasesFound(r)'
  BY <1>1, <1>3, <1>5, <1>8, <1>9 DEF BasesFound, Old, Exists
<1>13. RowsAtWork(r)'
  <2>1. planTag'[r].name = job[r].name
    BY <1>3, <1>9, TagOfWorker
  <2>2. \A b \in job[r].bases : IsActive(b, TagTime(r))' <=> IsActive(b, TagTime(r))
    BY <1>9 DEF IsActive
  <2>3. ASSUME NEW b \in job[r].bases \ job[r].stale, b \notin Pending(r)'
        PROVE  latestTagged'[b] /\ planTag'[r].name \in tags'[b]
    <3>1. CASE b \in rows
      BY <1>1, <2>1, <3>1
    <3>2. CASE b \notin rows
      <4>1. b \notin Pending(r) /\ b \in BaseRow /\ b \in Row
        BY <1>1, <1>3, <1>5, <2>3, <3>2 DEF RowsAtWork, Row
      <4>2. latestTagged[b] /\ planTag[r].name \in tags[b]
        BY <1>3, <1>5, <4>1, <2>3 DEF RowsAtWork
      <4> QED BY <1>1, <1>9, <3>2, <4>1, <4>2 DEF Touched
    <3> QED BY <3>1, <3>2
  <2> QED BY <1>1, <1>3, <1>5, <1>9, <2>2, <2>3 DEF RowsAtWork
<1>14. AtWork(r)'
  BY <1>1, <1>4, <1>8, <1>12, <1>13 DEF AtWork, AttachmentsFound, NewestFound,
     NewestTagged, StaleFound
<1>15. job'[r].pc \in Tagging /\ job'[r].pc # "done"
  BY <1>1, <1>4
<1> QED BY <1>1, <1>3, <1>9, <1>11, <1>14, <1>15, WorkStep

\* The rows of the table at hand once those found inactive are no longer
\* current.
LEMMA UntagFacts ==
  ASSUME IInv, AInv, CInv, DInv, NEW r \in Request, r \in Lone, UntagRows(r)
  PROVE  /\ job[r].pc = "untagRows" /\ job[r].pc \in Tagging \ Final
         /\ job[r].stale \subseteq BaseRow
         /\ Touched(job[r].stale) /\ OfTable(r, job[r].stale)
         /\ \A b \in Covered(r) : TableOf[b] = job[r].table => RowSettled(r, b)'
<1>1. job[r].pc = "untagRows"
      /\ UNCHANGED <<now, createdAt, deletedAt, planTag, tags>>
  BY DEF UntagRows, At, editVars
<1>2. job[r].pc \in Tagging \ Final /\ job[r].pc \in RowSteps
  BY <1>1 DEF Tagging, Final, RowSteps
<1>3. BasesFound(r) /\ RowsAtWork(r)
  BY <1>2 DEF DInv, AtWork
<1>4. /\ job[r].stale \subseteq job[r].bases /\ job[r].bases \subseteq BaseRow
      /\ Pending(r) = {}
      /\ \A b \in job[r].bases : TableAt(b) = job[r].table
  BY <1>1, <1>2, <1>3 DEF RowsAtWork, BasesFound
<1>5. \A x \in Row : latestTagged'[x] = (x \notin job[r].stale /\ latestTagged[x])
  BY DEF UntagRows, ClearLatest
<1>6. Touched(job[r].stale)
  BY <1>1, <1>5 DEF Touched, IInv, TypeOK
<1>7. OfTable(r, job[r].stale)
  BY <1>4, KeysAssumption DEF OfTable
<1>9. ASSUME NEW b \in Covered(r), TableOf[b] = job[r].table
      PROVE  RowSettled(r, b)'
  <2> SUFFICES ASSUME Old(b, TagTime(r)), deletedAt[b] # TagTime(r)
               PROVE  /\ latestTagged'[b] = IsActive(b, TagTime(r))
                      /\ latestTagged'[b] => planTag[r].name \in tags[b]
    BY <1>1 DEF RowSettled, Old, Exists, IsActive, TagTime
  <2>1. b \in job[r].bases /\ b \in Row
    BY <1>2, <1>3, <1>9 DEF BasesFound, Covered, Row
  <2>2. b \in job[r].stale <=> ~IsActive(b, TagTime(r))
    BY <1>2, <1>3, <2>1 DEF RowsAtWork
  <2>3. CASE b \in job[r].stale
    <3>1. latestTagged'[b] = FALSE
      BY <1>5, <2>1, <2>3
    <3> QED BY <2>2, <2>3, <3>1 DEF IsActive
  <2>4. CASE b \notin job[r].stale
    <3>1. latestTagged[b] /\ planTag[r].name \in tags[b]
      BY <1>2, <1>3, <1>4, <2>1, <2>4 DEF RowsAtWork
    <3>2. latestTagged'[b] = latestTagged[b]
      BY <1>5, <2>1, <2>4 DEF IInv, TypeOK
    <3>3. IsActive(b, TagTime(r))
      BY <2>2, <2>4
    <3> QED BY <3>1, <3>2, <3>3 DEF IsActive, IInv, TypeOK
  <2> QED BY <2>3, <2>4
<1> QED BY <1>1, <1>2, <1>4, <1>6, <1>7, <1>9

LEMMA UntagRowsDInv ==
  ASSUME IInv, AInv, CInv, DInv, NEW r \in Request, r \in Lone, UntagRows(r)
  PROVE  DInv'
<1> DEFINE rows == job[r].stale
<1>1. /\ job[r].pc = "untagRows" /\ job[r].pc \in Tagging \ Final
      /\ rows \subseteq BaseRow
      /\ Touched(rows) /\ OfTable(r, rows)
      /\ \A b \in Covered(r) : TableOf[b] = job[r].table => RowSettled(r, b)'
  BY UntagFacts
<1>2. Fits(r) /\ AtWork(r) /\ BasesFound(r) /\ job[r] \in Job /\ job \in [Request -> Job]
  BY <1>1 DEF DInv, AtWork, IInv, TypeOK
<1>3. job[r].table \in Table \ {"planVersion"}
  BY <1>1, <1>2 DEF Fits, RowSteps, Job
<1>4. CASE job[r].table \in BaseOnlyModels
  <2>1. LeaveTable(r)
    BY <1>4 DEF UntagRows
  <2>2. ASSUME NEW b \in Covered(r) \cup {Plan}, TableAt(b) = job[r].table
        PROVE  VersionsAreSettled(r, b)'
    <3>1. TableOf[b] \in BaseOnlyModels /\ b # Plan
      BY <1>3, <1>4, <2>2 DEF TableAt
    <3>2. \A v \in VersionRow : BaseOf[v] # b
      BY <3>1, KeysAssumption DEF BaseOnlyModels, BaseAndVersionModels
    <3> QED BY <3>2 DEF VersionsAreSettled, Older
  <2> HIDE DEF rows
  <2> QED BY <1>1, <2>1, <2>2, Leaves
<1>5. CASE job[r].table \notin BaseOnlyModels
  <2> DEFINE new == [job[r] EXCEPT !.pc = "findVersions", !.stale = {}]
  <2>1. job' = [job EXCEPT ![r] = new]
    BY <1>2, <1>5 DEF UntagRows
  <2>2. /\ new.pc = "findVersions" /\ new.table = job[r].table
        /\ new.input = job[r].input /\ new.bases = job[r].bases
    BY <1>2 DEF Job
  <2> HIDE DEF new, rows
  <2>3. Others(r) /\ job'[r] = new
    BY <1>2, <2>1 DEF Others
  <2>4. job'[r].pc \in Tagging \ Final /\ job'[r].pc \in VersionSteps
        /\ job'[r].pc \notin BeforeTag \cup RowSteps
    BY <2>2, <2>3 DEF Tagging, Final, VersionSteps, BeforeTag, RowSteps
  <2>5. Covered(r)' = Covered(r)
    BY <2>2, <2>3 DEF Covered
  <2>6. /\ \A b \in Covered(r) : Passed(r, b) => RowSettled(r, b)'
        /\ \A b \in Covered(r) \cup {Plan} : Passed(r, b) => VersionsAreSettled(r, b)'
    BY <1>1, <1>2, Carried DEF IInv
  <2>7. \A b : Passed(r, b)' <=> Passed(r, b)
    BY <1>1, <2>2, <2>3, <2>4 DEF Passed
  <2>8. RowsSoFar(r)' /\ VersionsSoFar(r)'
    BY <1>1, <2>2, <2>3, <2>5, <2>6, <2>7 DEF RowsSoFar, VersionsSoFar
  <2>9. UNCHANGED <<now, createdAt, deletedAt, planTag>> /\ TagTime(r)' = TagTime(r)
    BY <1>1 DEF Touched, TagTime
  <2>10. BasesFound(r)'
    BY <1>1, <1>2, <2>2, <2>3, <2>5, <2>9 DEF BasesFound, Old, Exists, RowSteps
  <2>11. AtWork(r)'
    BY <2>2, <2>3, <2>8, <2>10 DEF AtWork, AttachmentsFound, RowsAtWork, NewestFound,
       NewestTagged, StaleFound, RowSteps, VersionSteps
  <2>12. Fits(r)'
    BY <1>1, <1>2, <1>3, <1>5, <2>2, <2>3, <2>4 DEF Fits, RowSteps, Table
  <2>13. job'[r].pc \in Tagging /\ job'[r].pc # "done"
    BY <2>2, <2>3, <2>4
  <2> QED BY <1>1, <2>3, <2>9, <2>11, <2>12, <2>13, WorkStep
<1> QED BY <1>4, <1>5

-----------------------------------------------------------------------------
(* The versions of a table.                                                *)

\* No version that is old or current is newer than the tag at work.
LEMMA ReachedByTag ==
  ASSUME IInv, AInv, CInv, DInv, NEW r \in Request, r \in Lone, job[r].pc \in Tagging,
         NEW w \in VersionRow, Old(w, TagTime(r)) \/ latestTagged[w]
  PROVE  ExistsSince(w, TagTime(r))
<1>1. TagTime(r) \in Nat /\ w \in Row
  BY TagOfWorker DEF Row
<1>2. Exists(w) => createdAt[w] \in Nat
  BY <1>1, RowTimes DEF Exists
<1>3. CASE Old(w, TagTime(r))
  BY <1>1, <1>2, <1>3 DEF Old, ExistsSince
<1>4. CASE latestTagged[w]
  <2>1. PICK s \in Request : planTag[s] # None /\ ExistsSince(w, TagTime(s))
    BY <1>4, CurrentIsOld
  <2>2. TagTime(s) \in Nat /\ TagTime(s) <= TagTime(r)
    <3>1. TagTime(s) \in Nat
      BY <2>1, TagTimeType
    <3>2. s # r => TagTime(s) < TagTime(r)
      BY <2>1 DEF DInv, TagIsLast
    <3> QED BY <1>1, <3>1, <3>2
  <2> QED BY <1>1, <1>2, <2>1, <2>2 DEF ExistsSince
<1> QED BY <1>3, <1>4

\* The query of the versions, whichever base rows it asks for.
LEMMA FindWork ==
  ASSUME IInv, AInv, CInv, DInv, NEW r \in Request, r \in Lone,
         job[r].pc \in {"findVersions", "findPlanVersions"},
         Others(r), job'[r].pc = "readLatest",
         job'[r].table = job[r].table, job'[r].input = job[r].input,
         UNCHANGED <<now, editVars, rowVars, planVars, planTag>>,
         NEW found \in SUBSET VersionRow, job'[r].newest = NewestPerBase(found),
         \A v \in found : ExistsSince(v, TagTime(r)) /\ BaseOf[v] \in job'[r].bases,
         \A w \in VersionRow :
           ExistsSince(w, TagTime(r)) /\ BaseOf[w] \in job'[r].bases => w \in found,
         job[r].table = "planVersion" =>
           \A w \in PlanVersion : Old(w, TagTime(r)) => Plan \in job'[r].bases,
         \A b \in job'[r].bases : TableAt(b) = job[r].table,
         \A b \in Covered(r) :
           TableOf[b] = job[r].table /\ Old(b, TagTime(r)) => b \in job'[r].bases
  PROVE  DInv'
<1>1. UNCHANGED <<now, createdAt, deletedAt, tags, latestTagged, planTag>>
  BY DEF editVars, rowVars
<1>2. Touched({}) /\ OfTable(r, {}) /\ TagTime(r)' = TagTime(r)
  BY <1>1, SameIsTouched DEF TagTime
<1>3. job[r].pc \in Tagging \ Final /\ (job[r].pc \in VersionSteps \/ job[r].pc = "findPlanVersions")
  BY DEF Tagging, Final, VersionSteps
<1>4. job'[r].pc \in Tagging \ Final /\ job'[r].pc \in VersionSteps
      /\ job'[r].pc \notin BeforeTag \cup RowSteps
  BY DEF Tagging, Final, VersionSteps, BeforeTag, RowSteps
<1>5. AtWork(r) /\ Fits(r) /\ (job[r].pc = "findPlanVersions" => job[r].table = "planVersion")
  BY DEF DInv, Fits
<1>6. RowsSoFar(r)' /\ VersionsSoFar(r)' /\ Covered(r)' = Covered(r)
  BY <1>2, <1>3, <1>4, <1>5, WithinTable DEF IInv
<1>7. BasesFound(r)'
  BY <1>1, <1>2, <1>6 DEF BasesFound, Old, Exists
<1>8. NewestFound(r)'
  <2>1. NewestPerBase(found) \subseteq found
    BY DEF NewestPerBase
  <2>2. \A v, w \in NewestPerBase(found) : BaseOf[v] = BaseOf[w] => v = w
    BY NewestIsUnique
  <2>3. ASSUME NEW w \in VersionRow, BaseOf[w] \in job'[r].bases,
               Old(w, TagTime(r)) \/ latestTagged[w]
        PROVE  \E v \in NewestPerBase(found) : BaseOf[v] = BaseOf[w] /\ w <= v
    <3>1. w \in found
      BY <1>3, <2>3, ReachedByTag
    <3> QED BY <3>1, NewestExists
  <2> QED BY <1>1, <1>2, <2>1, <2>2, <2>3 DEF NewestFound, Old, Exists, ExistsSince
<1>9. AtWork(r)'
  BY <1>6, <1>7, <1>8 DEF AtWork, AttachmentsFound, RowsAtWork, NewestTagged,
     StaleFound, RowSteps
<1>10. Fits(r)'
  BY <1>3, <1>4, <1>5 DEF Fits, VersionSteps, BaseOnlyModels, BaseAndVersionModels
<1>11. job'[r].pc \in Tagging /\ job'[r].pc # "done"
  BY <1>4
<1> QED BY <1>1, <1>2, <1>3, <1>9, <1>10, <1>11, WorkStep

LEMMA FindVersionsDInv ==
  ASSUME IInv, AInv, CInv, DInv, NEW r \in Request, r \in Lone, FindVersions(r)
  PROVE  DInv'
<1> DEFINE found == {v \in VersionRow : /\ ExistsSince(v, TagTime(r))
                                        /\ BaseOf[v] \in job[r].bases}
           newest == NewestPerBase(found)
           new == [job[r] EXCEPT !.pc = "readLatest", !.newest = newest]
<1>1. job \in [Request -> Job] /\ job[r] \in Job
  BY DEF IInv, TypeOK
<1>2. job' = [job EXCEPT ![r] = new]
  BY <1>1 DEF FindVersions
<1>3. /\ found \in SUBSET VersionRow
      /\ \A v \in found : ExistsSince(v, TagTime(r)) /\ BaseOf[v] \in job[r].bases
      /\ \A w \in VersionRow :
           ExistsSince(w, TagTime(r)) /\ BaseOf[w] \in job[r].bases => w \in found
  OBVIOUS
<1> HIDE DEF found
<1>4. newest = NewestPerBase(found)
  OBVIOUS
<1> HIDE DEF newest
<1>5. /\ new.pc = "readLatest" /\ new.newest = newest /\ new.bases = job[r].bases
      /\ new.table = job[r].table /\ new.input = job[r].input
  BY <1>1 DEF Job
<1> HIDE DEF new
<1>6. Others(r) /\ job'[r] = new
  BY <1>1, <1>2 DEF Others
<1>7. job[r].pc = "findVersions"
      /\ UNCHANGED <<now, editVars, rowVars, planVars, planTag>>
  BY DEF FindVersions, At
<1>8. BasesFound(r) /\ job[r].table # "planVersion"
  <2>1. job[r].pc \in Tagging
    BY <1>7 DEF Tagging
  <2> QED BY <1>7, <2>1 DEF DInv, AtWork, Fits, BaseAndVersionModels
<1>9. /\ \A b \in job[r].bases : TableAt(b) = job[r].table
      /\ \A b \in Covered(r) :
           TableOf[b] = job[r].table /\ Old(b, TagTime(r)) => b \in job[r].bases
  BY <1>7, <1>8 DEF BasesFound, VersionSteps
<1> QED BY <1>3, <1>4, <1>5, <1>6, <1>7, <1>8, <1>9, FindWork

LEMMA FindPlanVersionsDInv ==
  ASSUME IInv, AInv, CInv, DInv, NEW r \in Request, r \in Lone, FindPlanVersions(r)
  PROVE  DInv'
<1> DEFINE found == {v \in PlanVersion : ExistsSince(v, TagTime(r))}
           newest == NewestPerBase(found)
           bases == {BaseOf[v] : v \in found}
           new == [job[r] EXCEPT !.pc = "readLatest", !.newest = newest,
                                 !.bases = bases]
<1>1. job \in [Request -> Job] /\ job[r] \in Job
  BY DEF IInv, TypeOK
<1>2. job' = [job EXCEPT ![r] = new]
  BY <1>1 DEF FindPlanVersions
<1>3. job[r].pc = "findPlanVersions"
      /\ UNCHANGED <<now, editVars, rowVars, planVars, planTag>>
  BY DEF FindPlanVersions, At
<1>4. job[r].table = "planVersion" /\ job[r].pc \in Tagging
  BY <1>3 DEF DInv, Fits, Tagging
<1>5. /\ found \in SUBSET VersionRow
      /\ \A v \in found : ExistsSince(v, TagTime(r)) /\ BaseOf[v] \in bases
      /\ \A b \in bases : b = Plan
  BY DEF PlanVersion
<1>6. \A w \in VersionRow :
        ExistsSince(w, TagTime(r)) /\ BaseOf[w] \in bases => w \in found
  BY <1>5 DEF PlanVersion
<1>7. \A w \in PlanVersion : Old(w, TagTime(r)) => Plan \in bases
  <2> SUFFICES ASSUME NEW w \in PlanVersion, Old(w, TagTime(r))
               PROVE  Plan \in bases
    OBVIOUS
  <2>1. w \in VersionRow /\ BaseOf[w] = Plan
    BY DEF PlanVersion
  <2>2. w \in found
    BY <1>4, <2>1, ReachedByTag
  <2> QED BY <2>1, <2>2
<1>8. \A b \in Covered(r) : TableOf[b] # "planVersion"
  BY KeysAssumption DEF Covered
<1> HIDE DEF found, bases
<1>9. newest = NewestPerBase(found)
  OBVIOUS
<1> HIDE DEF newest
<1>10. /\ new.pc = "readLatest" /\ new.newest = newest /\ new.bases = bases
       /\ new.table = job[r].table /\ new.input = job[r].input
  BY <1>1 DEF Job
<1> HIDE DEF new
<1>11. Others(r) /\ job'[r] = new
  BY <1>1, <1>2 DEF Others
<1>12. \A b \in bases : TableAt(b) = job[r].table
  BY <1>4, <1>5 DEF TableAt
<1> QED BY <1>3, <1>4, <1>5, <1>6, <1>7, <1>8, <1>9, <1>10, <1>11, <1>12, FindWork

LEMMA ReadLatestDInv ==
  ASSUME IInv, AInv, CInv, DInv, NEW r \in Request, r \in Lone, ReadLatest(r)
  PROVE  DInv'
<1> DEFINE read == ReadTags(job[r].newest)
           step == IF job[r].newest = {} THEN "findOld" ELSE "tagVersions"
           new == [job[r] EXCEPT !.todo = read, !.pc = step]
<1>1. job \in [Request -> Job] /\ job[r] \in Job
  BY DEF IInv, TypeOK
<1>2. job' = [job EXCEPT ![r] = new]
  BY <1>1 DEF ReadLatest
<1>3. {u.row : u \in read} = job[r].newest
  BY RowsRead
<1>4. step \in {"findOld", "tagVersions"} /\ (step = "findOld" => job[r].newest = {})
  OBVIOUS
<1> HIDE DEF read, step
<1>5. /\ new.pc = step /\ new.todo = read /\ new.bases = job[r].bases
      /\ new.newest = job[r].newest
      /\ new.table = job[r].table /\ new.input = job[r].input
  BY <1>1 DEF Job
<1> HIDE DEF new
<1>6. Others(r) /\ job'[r] = new
  BY <1>1, <1>2 DEF Others
<1>7. job[r].pc = "readLatest"
      /\ UNCHANGED <<now, createdAt, deletedAt, tags, latestTagged, planTag>>
  BY DEF ReadLatest, At, editVars, rowVars
<1>8. Touched({}) /\ OfTable(r, {}) /\ TagTime(r)' = TagTime(r)
  BY <1>7, SameIsTouched DEF TagTime
<1>9. job[r].pc \in Tagging \ Final /\ job[r].pc \in VersionSteps
      /\ job[r].pc # "findPlanVersions"
  BY <1>7 DEF Tagging, Final, VersionSteps
<1>10. /\ step \in Tagging \ Final /\ step \in VersionSteps \ {"findVersions"}
       /\ step \notin BeforeTag \cup RowSteps
  BY <1>4 DEF Tagging, Final, VersionSteps, BeforeTag, RowSteps
<1>11. AtWork(r) /\ Fits(r) /\ BasesFound(r) /\ NewestFound(r)
  BY <1>9 DEF DInv, AtWork
<1>12. RowsSoFar(r)' /\ VersionsSoFar(r)' /\ Covered(r)' = Covered(r)
  BY <1>5, <1>6, <1>8, <1>9, <1>10, <1>11, WithinTable DEF IInv
<1>13. BasesFound(r)'
  BY <1>5, <1>6, <1>7, <1>8, <1>9, <1>11, <1>12 DEF BasesFound, Old, Exists
<1>14. NewestFound(r)'
  BY <1>5, <1>6, <1>7, <1>8, <1>9, <1>11
     DEF NewestFound, Old, Exists, ExistsSince, VersionSteps
<1>15. NewestTagged(r)'
  <2>1. Pending(r)' = job[r].newest
    BY <1>3, <1>5, <1>6 DEF Pending
  <2> QED BY <1>4, <1>5, <1>6, <2>1 DEF NewestTagged
<1>16. AtWork(r)'
  BY <1>4, <1>5, <1>6, <1>10, <1>12, <1>13, <1>14, <1>15 DEF AtWork,
     AttachmentsFound, RowsAtWork, StaleFound, RowSteps
<1>17. Fits(r)'
  BY <1>5, <1>6, <1>9, <1>10, <1>11 DEF Fits, VersionSteps
<1>18. job'[r].pc \in Tagging /\ job'[r].pc # "done"
  BY <1>4, <1>5, <1>6, <1>10
<1> QED BY <1>6, <1>7, <1>8, <1>9, <1>16, <1>17, <1>18, WorkStep

LEMMA TagVersionsDInv ==
  ASSUME IInv, AInv, CInv, DInv, NEW r \in Request, r \in Lone, TagVersions(r)
  PROVE  DInv'
<1>1. PICK rows \in SUBSET Pending(r) :
        /\ Others(r)
        /\ job'[r].table = job[r].table /\ job'[r].input = job[r].input
        /\ job'[r].bases = job[r].bases /\ job'[r].newest = job[r].newest
        /\ job'[r].stale = job[r].stale
        /\ Pending(r)' = Pending(r) \ rows
        /\ job'[r].pc \in {"tagVersions", "findOld"}
        /\ job'[r].pc = "findOld" => Pending(r)' = {}
        /\ \A x \in rows : x \in Row /\ latestTagged'[x] /\ job[r].name \in tags'[x]
        /\ Touched(rows)
  BY TagFields DEF TagVersions
<1>2. job[r].pc = "tagVersions"
  BY DEF TagVersions, TagGroup, At
<1>3. /\ job[r].pc \in Tagging \ Final /\ job[r].pc \in VersionSteps \ {"findVersions"}
      /\ job[r].pc # "findPlanVersions"
  BY <1>2 DEF Tagging, Final, VersionSteps
<1>4. /\ job'[r].pc \in Tagging \ Final
      /\ job'[r].pc \in VersionSteps \ {"findVersions"}
      /\ job'[r].pc \notin BeforeTag \cup RowSteps
  BY <1>1 DEF Tagging, Final, RowSteps, VersionSteps, BeforeTag
<1>5. /\ AtWork(r) /\ Fits(r) /\ BasesFound(r) /\ NewestFound(r) /\ NewestTagged(r)
      /\ job[r] \in Job
  BY <1>3 DEF DInv, AtWork, IInv, TypeOK
<1>6. rows \subseteq job[r].newest /\ job[r].newest \subseteq VersionRow
      /\ job[r].newest \subseteq Row
  BY <1>1, <1>2, <1>5 DEF NewestTagged, Job, Row
<1>7. OfTable(r, rows)
  <2>1. \A v \in rows : TableAt(BaseOf[v]) = job[r].table
    BY <1>3, <1>5, <1>6 DEF BasesFound, NewestFound
  <2> QED BY <1>6, <2>1, KeysAssumption DEF OfTable
<1>8. RowsSoFar(r)' /\ VersionsSoFar(r)' /\ Covered(r)' = Covered(r)
  BY <1>1, <1>3, <1>4, <1>5, <1>6, <1>7, WithinTable DEF IInv
<1>9. UNCHANGED <<now, createdAt, deletedAt, planTag>> /\ TagTime(r)' = TagTime(r)
  BY <1>1 DEF Touched, TagTime
<1>10. \A w \in VersionRow : latestTagged'[w] => latestTagged[w] \/ w \in job[r].newest
  BY <1>1, <1>6 DEF Touched, Row
<1>12. Fits(r)'
  BY <1>1, <1>3, <1>4, <1>5 DEF Fits
<1>13. BasesFound(r)'
  BY <1>1, <1>3, <1>5, <1>8, <1>9 DEF BasesFound, Old, Exists
<1>14. NewestFound(r)'
  <2>1. \A w \in job[r].newest : w <= w
    BY <1>6, KeysAssumption
  <2>2. ASSUME NEW w \in VersionRow, BaseOf[w] \in job[r].bases,
               Old(w, TagTime(r)) \/ latestTagged'[w]
        PROVE  \E v \in job[r].newest : BaseOf[v] = BaseOf[w] /\ w <= v
    BY <1>3, <1>5, <1>10, <2>1, <2>2 DEF NewestFound
  <2> QED BY <1>1, <1>3, <1>5, <1>9, <2>2 DEF NewestFound, Old, Exists, ExistsSince
<1>15. NewestTagged(r)'
  <2>1. planTag'[r].name = job[r].name
    BY <1>3, <1>9, TagOfWorker
  <2>2. ASSUME NEW v \in job[r].newest, v \notin Pending(r)'
        PROVE  latestTagged'[v] /\ planTag'[r].name \in tags'[v]
    <3>1. CASE v \in rows
      BY <1>1, <2>1, <3>1
    <3>2. CASE v \notin rows
      <4>1. v \notin Pending(r) /\ v \in Row
        BY <1>1, <1>6, <2>2, <3>2
      <4>2. latestTagged[v] /\ planTag[r].name \in tags[v]
        BY <1>2, <1>5, <4>1, <2>2 DEF NewestTagged
      <4> QED BY <1>1, <1>9, <3>2, <4>1, <4>2 DEF Touched
    <3> QED BY <3>1, <3>2
  <2> QED BY <1>1, <1>2, <1>5, <2>2 DEF NewestTagged
<1>16. AtWork(r)'
  BY <1>1, <1>4, <1>8, <1>13, <1>14, <1>15 DEF AtWork, AttachmentsFound,
     RowsAtWork, StaleFound
<1>17. job'[r].pc \in Tagging /\ job'[r].pc # "done"
  BY <1>1, <1>4
<1> QED BY <1>1, <1>3, <1>9, <1>12, <1>16, <1>17, WorkStep

\* Once only the newest versions are current, the versions are settled.
LEMMA NewestAreCurrent ==
  ASSUME IInv, AInv, CInv, DInv, NEW r \in Request, r \in Lone, job[r].pc \in {"findOld", "untagOld"},
         NEW rows \in SUBSET VersionRow, Touched(rows),
         rows \cap job[r].newest = {},
         \A w \in VersionRow :
           latestTagged'[w] /\ BaseOf[w] \in job[r].bases => w \in job[r].newest,
         NEW b \in Covered(r) \cup {Plan}, TableAt(b) = job[r].table
  PROVE  VersionsAreSettled(r, b)'
<1>1. /\ job[r].pc \in Tagging /\ job[r].pc \in VersionSteps \ {"findVersions"}
      /\ AtWork(r) /\ job[r] \in Job
  BY DEF Tagging, VersionSteps, DInv, IInv, TypeOK
<1>2. BasesFound(r) /\ NewestFound(r) /\ NewestTagged(r)
  BY <1>1 DEF AtWork
<1>3. UNCHANGED <<createdAt, planTag>> /\ TagTime(r)' = TagTime(r)
  BY DEF Touched, TagTime
<1>4. Older(r, b)' = Older(r, b)
  BY <1>3 DEF Older, Old, Exists
<1> SUFFICES ASSUME NEW w \in Older(r, b)
             PROVE  \E v \in VersionRow : IsCurrent(r, b, v)'
  BY <1>4 DEF VersionsAreSettled
<1>5. w \in VersionRow /\ BaseOf[w] = b /\ Old(w, TagTime(r))
  BY DEF Older
<1>6. b \in job[r].bases
  <2>1. CASE b = Plan
    BY <1>1, <1>2, <1>5, <2>1 DEF NewestFound, TableAt, PlanVersion
  <2>2. CASE b # Plan
    <3>1. Exists(b) /\ createdAt[b] <= createdAt[w] /\ b \in BaseRow
      BY <1>5, <2>2 DEF CInv, RowsOK, Old, Covered
    <3>2. /\ createdAt[w] \in Nat /\ createdAt[b] \in Nat /\ TagTime(r) \in Nat
          /\ createdAt[w] < TagTime(r)
      BY <1>1, <1>5, <3>1, RowTimes, TagOfWorker DEF Old, Exists, Row
    <3>3. Old(b, TagTime(r))
      BY <3>1, <3>2 DEF Old
    <3>4. b \in Covered(r) /\ TableOf[b] = job[r].table
      BY <2>2 DEF TableAt
    <3> QED BY <1>1, <1>2, <3>3, <3>4 DEF BasesFound
  <2> QED BY <2>1, <2>2
<1>7. PICK v \in job[r].newest : BaseOf[v] = b
  BY <1>1, <1>2, <1>5, <1>6 DEF NewestFound
<1>8. /\ v \in VersionRow /\ v \in Row /\ v \notin rows
      /\ \A u \in job[r].newest : BaseOf[u] = b => u = v
  BY <1>1, <1>2, <1>7 DEF NewestFound, Job, Row
<1>9. latestTagged[v] /\ planTag[r].name \in tags[v]
  BY <1>2, <1>7 DEF NewestTagged
<1>10. latestTagged'[v] /\ planTag'[r].name \in tags'[v]
  BY <1>3, <1>8, <1>9 DEF Touched
<1>11. Current(b)' = {v}
  BY <1>6, <1>7, <1>8, <1>10 DEF Current
<1>12. \A u \in Older(r, b) : u <= v
  BY <1>1, <1>2, <1>6, <1>8 DEF Older, NewestFound
<1>13. ExistsSince(v, TagTime(r))'
  BY <1>1, <1>2, <1>3, <1>7 DEF NewestFound, ExistsSince, Exists
<1> QED BY <1>3, <1>4, <1>8, <1>10, <1>11, <1>12, <1>13 DEF IsCurrent

\* The step after which only the newest versions of a table are current.
LEMMA LeavesVersions ==
  ASSUME IInv, AInv, CInv, DInv, NEW r \in Request, r \in Lone, job[r].pc \in {"findOld", "untagOld"},
         NEW rows \in SUBSET VersionRow, Touched(rows), LeaveTable(r),
         \A v \in rows : v \notin job[r].newest /\ BaseOf[v] \in job[r].bases,
         \A w \in VersionRow : latestTagged'[w] =>
           /\ latestTagged[w]
           /\ BaseOf[w] \in job[r].bases => w \in job[r].newest
  PROVE  DInv'
<1>1. /\ job[r].pc \in Tagging \ Final /\ job[r].pc \in VersionSteps
      /\ AtWork(r) /\ BasesFound(r)
  BY DEF Tagging, Final, VersionSteps, DInv, AtWork
<1>2. OfTable(r, rows)
  BY <1>1, KeysAssumption DEF OfTable, BasesFound
<1>4. \A b \in Covered(r) : TableOf[b] = job[r].table => RowSettled(r, b)'
  BY <1>1, <1>2, Carried DEF IInv
<1>5. \A b \in Covered(r) \cup {Plan} :
        TableAt(b) = job[r].table => VersionsAreSettled(r, b)'
  BY NewestAreCurrent
<1> QED BY <1>1, <1>2, <1>4, <1>5, Leaves

LEMMA FindOldDInv ==
  ASSUME IInv, AInv, CInv, DInv, NEW r \in Request, r \in Lone, FindOld(r)
  PROVE  DInv'
<1> DEFINE old == {v \in VersionRow : /\ Exists(v)
                                      /\ v \notin job[r].newest
                                      /\ BaseOf[v] \in job[r].bases}
<1>1. /\ job[r].pc = "findOld"
      /\ UNCHANGED <<now, createdAt, deletedAt, tags, latestTagged, planTag>>
      /\ job \in [Request -> Job] /\ job[r] \in Job
  BY DEF FindOld, At, editVars, rowVars, IInv, TypeOK
<1>2. Touched({}) /\ OfTable(r, {}) /\ TagTime(r)' = TagTime(r)
  BY <1>1, SameIsTouched DEF TagTime
<1>3. /\ job[r].pc \in Tagging \ Final /\ job[r].pc \in VersionSteps \ {"findVersions"}
      /\ job[r].pc # "findPlanVersions"
  BY <1>1 DEF Tagging, Final, VersionSteps
<1>4. /\ AtWork(r) /\ Fits(r) /\ BasesFound(r) /\ NewestFound(r) /\ NewestTagged(r)
  BY <1>3 DEF DInv, AtWork
<1>5. \A w \in VersionRow : latestTagged[w] /\ BaseOf[w] \in job[r].bases =>
        w \in job[r].newest \cup old
  BY CurrentIsOld DEF ExistsSince
<1>6. CASE old = {} /\ job[r].table # "planVersion"
  <2>1. LeaveTable(r)
    BY <1>6 DEF FindOld
  <2>2. \A w \in VersionRow : latestTagged'[w] =>
          /\ latestTagged[w]
          /\ BaseOf[w] \in job[r].bases => w \in job[r].newest
    BY <1>1, <1>5, <1>6
  <2> QED BY <1>1, <1>2, <2>1, <2>2, LeavesVersions
<1>7. CASE ~(old = {} /\ job[r].table # "planVersion")
  <2> DEFINE new == [job[r] EXCEPT !.pc = "untagOld", !.stale = old]
  <2>1. job' = [job EXCEPT ![r] = new]
    BY <1>1, <1>7 DEF FindOld
  <2>2. old \subseteq VersionRow \ job[r].newest
        /\ \A v \in old : BaseOf[v] \in job[r].bases
    OBVIOUS
  <2> HIDE DEF old
  <2>3. /\ new.pc = "untagOld" /\ new.stale = old /\ new.bases = job[r].bases
        /\ new.newest = job[r].newest /\ new.todo = job[r].todo
        /\ new.table = job[r].table /\ new.input = job[r].input
    BY <1>1 DEF Job
  <2> HIDE DEF new
  <2>4. Others(r) /\ job'[r] = new
    BY <1>1, <2>1 DEF Others
  <2>5. /\ job'[r].pc \in Tagging \ Final
        /\ job'[r].pc \in VersionSteps \ {"findVersions"}
        /\ job'[r].pc \notin BeforeTag \cup RowSteps
    BY <2>3, <2>4 DEF Tagging, Final, VersionSteps, BeforeTag, RowSteps
  <2>6. RowsSoFar(r)' /\ VersionsSoFar(r)' /\ Covered(r)' = Covered(r)
    BY <1>2, <1>3, <1>4, <2>3, <2>4, <2>5, WithinTable DEF IInv
  <2>7. BasesFound(r)'
    BY <1>1, <1>2, <1>3, <1>4, <2>3, <2>4, <2>6 DEF BasesFound, Old, Exists
  <2>8. NewestFound(r)'
    BY <1>1, <1>2, <1>3, <1>4, <2>3, <2>4 DEF NewestFound, Old, Exists, ExistsSince
  <2>9. NewestTagged(r)'
    BY <1>1, <1>4, <2>3, <2>4 DEF NewestTagged, Pending
  <2>10. StaleFound(r)'
    BY <1>1, <1>5, <2>2, <2>3, <2>4 DEF StaleFound
  <2>11. AtWork(r)'
    BY <2>3, <2>4, <2>5, <2>6, <2>7, <2>8, <2>9, <2>10 DEF AtWork,
       AttachmentsFound, RowsAtWork
  <2>12. Fits(r)'
    BY <1>3, <1>4, <2>3, <2>4, <2>5 DEF Fits
  <2>13. job'[r].pc \in Tagging /\ job'[r].pc # "done"
    BY <2>3, <2>4, <2>5
  <2> QED BY <1>1, <1>2, <1>3, <2>4, <2>11, <2>12, <2>13, WorkStep
<1> QED BY <1>6, <1>7

LEMMA UntagOldDInv ==
  ASSUME IInv, AInv, CInv, DInv, NEW r \in Request, r \in Lone, UntagOld(r)
  PROVE  DInv'
<1>1. /\ job[r].pc = "untagOld"
      /\ UNCHANGED <<now, createdAt, deletedAt, tags, planTag>>
      /\ job \in [Request -> Job] /\ job[r] \in Job
  BY DEF UntagOld, At, editVars, IInv, TypeOK
<1>2. PICK chunk \in Chunks(r) :
        /\ ClearLatest(chunk)
        /\ IF chunk = job[r].stale
             THEN LeaveTable(r)
             ELSE job' = [job EXCEPT ![r].stale = @ \ chunk]
  BY DEF UntagOld
<1>3. chunk \subseteq job[r].stale
  BY DEF Chunks
<1>4. /\ job[r].pc \in Tagging \ Final /\ job[r].pc \in VersionSteps \ {"findVersions"}
      /\ job[r].pc # "findPlanVersions"
  BY <1>1 DEF Tagging, Final, VersionSteps
<1>5. /\ AtWork(r) /\ Fits(r) /\ BasesFound(r) /\ NewestFound(r) /\ NewestTagged(r)
      /\ StaleFound(r)
  BY <1>4 DEF DInv, AtWork
<1>6. /\ job[r].stale \subseteq VersionRow \ job[r].newest
      /\ \A v \in job[r].stale : BaseOf[v] \in job[r].bases
      /\ \A w \in VersionRow : latestTagged[w] /\ BaseOf[w] \in job[r].bases =>
           w \in job[r].newest \cup job[r].stale
  BY <1>1, <1>5 DEF StaleFound
<1>7. \A x \in Row : latestTagged'[x] = (x \notin chunk /\ latestTagged[x])
  BY <1>2 DEF ClearLatest
<1>8. Touched(chunk) /\ chunk \in SUBSET VersionRow
  BY <1>1, <1>3, <1>6, <1>7 DEF Touched, IInv, TypeOK
<1>9. \A w \in VersionRow : latestTagged'[w] => latestTagged[w] /\ w \notin chunk
  BY <1>7 DEF Row
<1>10. CASE chunk = job[r].stale
  <2>1. LeaveTable(r)
    BY <1>2, <1>10
  <2>2. \A w \in VersionRow : latestTagged'[w] =>
          /\ latestTagged[w]
          /\ BaseOf[w] \in job[r].bases => w \in job[r].newest
    BY <1>6, <1>9, <1>10
  <2>3. \A v \in chunk : v \notin job[r].newest /\ BaseOf[v] \in job[r].bases
    BY <1>3, <1>6
  <2> QED BY <1>1, <1>8, <2>1, <2>2, <2>3, LeavesVersions
<1>11. CASE chunk # job[r].stale
  <2> DEFINE rest == job[r].stale \ chunk
             new == [job[r] EXCEPT !.stale = rest]
  <2>1. job' = [job EXCEPT ![r] = new]
    BY <1>1, <1>2, <1>11
  <2>2. /\ rest \subseteq VersionRow \ job[r].newest
        /\ \A v \in rest : BaseOf[v] \in job[r].bases
        /\ \A w \in VersionRow : latestTagged'[w] /\ BaseOf[w] \in job[r].bases =>
             w \in job[r].newest \cup rest
    BY <1>6, <1>9
  <2> HIDE DEF rest
  <2>3. /\ new.pc = job[r].pc /\ new.stale = rest /\ new.bases = job[r].bases
        /\ new.newest = job[r].newest /\ new.todo = job[r].todo
        /\ new.table = job[r].table /\ new.input = job[r].input
    BY <1>1 DEF Job
  <2> HIDE DEF new
  <2>4. Others(r) /\ job'[r] = new
    BY <1>1, <2>1 DEF Others
  <2>5. OfTable(r, chunk)
    BY <1>3, <1>4, <1>5, <1>6, KeysAssumption DEF OfTable, BasesFound
  <2>6. RowsSoFar(r)' /\ VersionsSoFar(r)' /\ Covered(r)' = Covered(r)
    BY <1>4, <1>5, <1>8, <2>3, <2>4, <2>5, WithinTable DEF IInv
  <2>7. TagTime(r)' = TagTime(r)
    BY <1>1 DEF TagTime
  <2>8. BasesFound(r)'
    BY <1>1, <1>4, <1>5, <2>3, <2>4, <2>6, <2>7 DEF BasesFound, Old, Exists
  <2>9. NewestFound(r)'
    BY <1>1, <1>4, <1>5, <1>9, <2>3, <2>4, <2>7
       DEF NewestFound, Old, Exists, ExistsSince
  <2>10. NewestTagged(r)'
    <3>1. \A v \in job[r].newest : latestTagged'[v] = latestTagged[v]
      <4>1. \A v \in job[r].newest : v \in Row /\ v \notin chunk
        BY <1>1, <1>3, <1>6 DEF Job, Row
      <4> QED BY <4>1, <1>8 DEF Touched
    <3> QED BY <1>1, <1>5, <2>3, <2>4, <3>1 DEF NewestTagged, Pending
  <2>11. StaleFound(r)'
    BY <2>2, <2>3, <2>4 DEF StaleFound
  <2>13. AtWork(r)'
    BY <1>1, <2>3, <2>4, <2>6, <2>8, <2>9, <2>10, <2>11, <1>4 DEF AtWork,
       AttachmentsFound, RowsAtWork, RowSteps
  <2>14. Fits(r)'
    BY <1>5, <2>3, <2>4 DEF Fits
  <2>15. job'[r].pc \in Tagging /\ job'[r].pc # "done"
    BY <1>1, <1>4, <2>3, <2>4
  <2> QED BY <1>1, <1>4, <2>4, <2>13, <2>14, <2>15, WorkStep
<1> QED BY <1>10, <1>11

-----------------------------------------------------------------------------
(* updateLastPublishedReportingPeriodId, and the whole next-state relation.*)

LEMMA FinalDInv ==
  ASSUME IInv, AInv, CInv, DInv, NEW r \in Request, r \in Lone,
         \/ FindAssociated(r) \/ FindPublishedPeriods(r)
         \/ FindPublishedMeasurements(r) \/ SetLastPublished(r)
  PROVE  DInv'
<1>1. /\ job[r].pc \in Final /\ Others(r) /\ SameRows /\ now' = now
      /\ job'[r].input = job[r].input
      /\ job'[r].pc \in Final \cup {"done", "failed"}
  BY FinalFields
<1>2. /\ job[r].pc \in Tagging
      /\ job'[r].pc \in Tagging \cup {"done", "failed"}
      /\ job'[r].pc \in Tagging => job'[r].pc \in Final
  BY <1>1 DEF Tagging, Final
<1>3. job'[r].pc \notin BeforeTag \cup RowSteps \cup VersionSteps
        \cup {"findRows", "findPlanVersions", "findAttachments", "findMeasurements"}
  BY <1>1 DEF Final, BeforeTag, RowSteps, VersionSteps
<1>4. Finished(r)
  <2>1. RowsSoFar(r) /\ VersionsSoFar(r)
    BY <1>2 DEF DInv, AtWork
  <2> QED BY <1>1, <2>1 DEF Finished, RowsSoFar, VersionsSoFar, Passed
<1>5. Finished(r)'
  <2>1. UNCHANGED <<now, createdAt, deletedAt, tags, latestTagged, planTag>>
    BY <1>1 DEF SameRows
  <2> QED BY <1>1, <1>4, <2>1, SameSettled DEF Finished
<1>6. Fits(r)'
  BY <1>3 DEF Fits, VersionSteps
<1>7. AtWork(r)'
  <2>1. RowsSoFar(r)' /\ VersionsSoFar(r)'
    BY <1>5 DEF Finished, RowsSoFar, VersionsSoFar
  <2> QED BY <1>3, <2>1 DEF AtWork, AttachmentsFound, BasesFound, RowsAtWork,
      NewestFound, NewestTagged, StaleFound, VersionSteps
<1> QED BY <1>1, <1>2, <1>5, <1>6, <1>7, WorkStep DEF SameRows

LEMMA WorkDInv ==
  ASSUME IInv, AInv, CInv, DInv, NEW r \in Request, r \in Lone, Work(r)
  PROVE  DInv'
BY BeforeTagDInv, CreateTagDInv, FindRowsDInv, FindAttachmentsDInv,
   FindMeasurementsDInv, TagRowsDInv, UntagRowsDInv, FindVersionsDInv,
   FindPlanVersionsDInv, ReadLatestDInv, TagVersionsDInv, FindOldDInv,
   UntagOldDInv, FinalDInv DEF Work

LEMMA NextDInv == IInv /\ AInv /\ CInv /\ DInv /\ [Next]_vars => DInv'
<1> SUFFICES ASSUME IInv, AInv, CInv, DInv, [Next]_vars PROVE DInv'
  OBVIOUS
<1>1. IInv'
  BY NextIInv
<1>2. ASSUME NEW r \in Request, Work(r) PROVE DInv'
  BY <1>1, <1>2, WorkDInv, StrangerDInv
<1>3. ASSUME NEW r \in Request, PublishPlan(r) \/ Fail(r) PROVE DInv'
  BY <1>3, PublishPlanDInv, FailDInv
<1>4. CASE Edit \/ UNCHANGED vars
  BY <1>4, EditDInv
<1> QED BY <1>2, <1>3, <1>4 DEF Next

-----------------------------------------------------------------------------
Invariants == IInv /\ AInv /\ CInv /\ DInv

LEMMA InitInvariants == Init => Invariants
BY InitIInv, InitAInv, InitCInv, InitDInv DEF Invariants

LEMMA NextInvariants == Invariants /\ [Next]_vars => Invariants'
BY NextIInv, NextAInv, NextCInv, NextDInv DEF Invariants

\* A publication that ran alone leaves, for every plan, planVersion,
\* attachment, entity and measurement it covers, one current version: the
\* newest as of the tag, and it carries the tag, although earlier publications
\* may have overlapped or stopped at any update of updateVersionStates and
\* editors insert and delete rows during this one.
THEOREM VersionsSettledHolds == Spec => []VersionsSettled
<1>1. Invariants => VersionsSettled
  BY DEF Invariants, DInv
<1> QED BY <1>1, InitInvariants, NextInvariants, PTL DEF Spec

\* Likewise the base rows updateVersionStates covers: those alive at the time
\* of the tag are current and carry it, those deleted before are not current.
THEOREM BaseRowsSettledHolds == Spec => []BaseRowsSettled
<1>1. Invariants => BaseRowsSettled
  BY DEF Invariants, DInv
<1> QED BY <1>1, InitInvariants, NextInvariants, PTL DEF Spec

-----------------------------------------------------------------------------
(* No object loses its current version.                                    *)

LEMMA UntagOldKeepsOne ==
  ASSUME IInv, AInv, CInv, DInv, NEW r \in Request, r \in Lone, UntagOld(r),
         NEW b \in Base, Current(b) # {}
  PROVE  Current(b)' # {}
<1>1. job[r].pc = "untagOld" /\ job[r].pc \in Tagging /\ job[r].pc \in VersionSteps
  BY DEF UntagOld, At, Tagging, VersionSteps
<1>2. NewestFound(r) /\ NewestTagged(r) /\ StaleFound(r) /\ job[r] \in Job
  BY <1>1 DEF DInv, AtWork, IInv, TypeOK
<1>3. PICK chunk \in Chunks(r) : ClearLatest(chunk)
  BY DEF UntagOld
<1>4. chunk \subseteq job[r].stale
  BY DEF Chunks
<1>5. \A x \in VersionRow : x \notin chunk => latestTagged'[x] = latestTagged[x]
  BY <1>3 DEF ClearLatest, Row, IInv, TypeOK
<1>6. PICK v \in VersionRow : BaseOf[v] = b /\ latestTagged[v]
  BY DEF Current
<1>7. CASE v \notin chunk
  BY <1>5, <1>6, <1>7 DEF Current
<1>8. CASE v \in chunk
  <2>1. PICK w \in job[r].newest : BaseOf[w] = b
    BY <1>1, <1>2, <1>4, <1>6, <1>8 DEF NewestFound, StaleFound
  <2>2. w \in VersionRow /\ w \notin chunk /\ latestTagged[w]
    BY <1>1, <1>2, <1>4, <2>1 DEF NewestTagged, StaleFound, Job
  <2> QED BY <1>5, <2>1, <2>2 DEF Current
<1> QED BY <1>7, <1>8

LEMMA StepKeepsCurrent ==
  ASSUME IInv, AInv, CInv, DInv, NoOverlap, [Next]_vars
  PROVE  \A b \in Base : Current(b) # {} => Current(b)' # {}
<1>1. ASSUME UNCHANGED latestTagged
      PROVE  \A b \in Base : Current(b) # {} => Current(b)' # {}
  BY <1>1 DEF Current
<1>2. ASSUME NEW r \in Request, TagRows(r) \/ TagVersions(r)
      PROVE  \A b \in Base : Current(b) # {} => Current(b)' # {}
  <2>1. \A v \in VersionRow : latestTagged[v] => latestTagged'[v]
    BY <1>2 DEF TagRows, TagVersions, TagGroup, WriteTags, Row
  <2> QED BY <2>1 DEF Current
<1>3. ASSUME NEW r \in Request, r \in Lone, UntagRows(r)
      PROVE  \A b \in Base : Current(b) # {} => Current(b)' # {}
  <2>1. Touched(job[r].stale) /\ job[r].stale \subseteq BaseRow
    BY <1>3, UntagFacts
  <2>2. \A v \in VersionRow : latestTagged'[v] = latestTagged[v]
    BY <2>1, KeysAssumption DEF Touched, Row
  <2> QED BY <2>2 DEF Current
<1>4. ASSUME NEW r \in Request, Work(r)
      PROVE  \A b \in Base : Current(b) # {} => Current(b)' # {}
  <2>0. r \in Lone
    BY <1>4, WorkShape DEF NoOverlap
  <2>1. CASE UntagOld(r)
    BY <2>0, <2>1, UntagOldKeepsOne
  <2>2. CASE ~(TagRows(r) \/ TagVersions(r) \/ UntagRows(r) \/ UntagOld(r))
    <3>1. UNCHANGED latestTagged
      BY <1>4, <2>2 DEF Work, FindPeriods, FindLatestVersion, SetCurrentPeriod,
         EndRevision, GetNextTag, CreateTag, FindRows, FindAttachments,
         FindMeasurements, FindVersions, FindPlanVersions, ReadLatest, FindOld,
         FindAssociated, FindPublishedPeriods, FindPublishedMeasurements,
         SetLastPublished, rowVars
    <3> QED BY <1>1, <3>1
  <2> QED BY <1>2, <1>3, <2>0, <2>1, <2>2
<1>5. ASSUME NEW r \in Request, PublishPlan(r) \/ Fail(r)
      PROVE  UNCHANGED latestTagged
  BY <1>5 DEF PublishPlan, Fail, rowVars
<1>6. ASSUME Edit \/ UNCHANGED vars
      PROVE  UNCHANGED latestTagged
  BY <1>6, EditsRows DEF CInv, EditRows
<1> QED BY <1>1, <1>4, <1>5, <1>6 DEF Next

\* While the publication at work runs alone, an object that has a current
\* version always has one: updateVersionStates marks the newest versions
\* before it clears the old ones, chunk by chunk, and every version it clears
\* has a newest one beside it, wherever publications stopped before it.
THEOREM CurrentNeverVanishesHolds == Spec => CurrentNeverVanishes
<1>1. Invariants /\ [Next]_vars =>
        [NoOverlap => \A b \in Base : Current(b) # {} => Current(b)' # {}]_vars
  BY StepKeepsCurrent DEF Invariants
<1> QED BY <1>1, InitInvariants, NextInvariants, PTL DEF Spec, CurrentNeverVanishes

-----------------------------------------------------------------------------
(* The last published period.                                              *)

LEMMA InitPInv == Init => PInv
BY DEF Init, PInv, NewVersionsUnpublished, PeriodIsHigher, PeriodOK, NoJob, Final

\* A step of one request that writes no lastPublishedReportingPeriodId.
LEMMA KeptPeriods ==
  ASSUME PInv, NEW r \in Request, Others(r), UNCHANGED <<createdAt, lastPub>>,
         PeriodOK(r)'
  PROVE  PInv'
<1>1. \A s \in Request \ {r} : job'[s] = job[s]
  BY DEF Others
<1>2. \A s \in Request \ {r} : PeriodOK(s)'
  BY <1>1 DEF PInv, PeriodIsHigher, PeriodOK, Exists
<1> QED BY <1>2 DEF PInv, PeriodIsHigher, NewVersionsUnpublished, Exists

LEMMA EarlyStep ==
  ASSUME IInv, NEW r \in Request, Work(r), job[r].pc \notin Final
  PROVE  /\ Others(r) /\ UNCHANGED <<createdAt, lastPub>>
         /\ job'[r].pc \notin Final \ {"findAssociated"}
<1>1. Others(r) /\ job'[r].pc \notin Final \ {"findAssociated"}
  BY WorkLeadsTo
<1>2. UNCHANGED <<createdAt, lastPub>>
  BY DEF Work, FindPeriods, FindLatestVersion, SetCurrentPeriod, EndRevision,
     GetNextTag, CreateTag, FindRows, FindAttachments, FindMeasurements, TagRows,
     UntagRows, FindVersions, FindPlanVersions, ReadLatest, TagVersions, TagGroup,
     FindOld, UntagOld, FindAssociated, FindPublishedPeriods,
     FindPublishedMeasurements, SetLastPublished, At, Final, editVars, planVars
<1> QED BY <1>1, <1>2

\* What a step does to the periods stored, besides moving them forward.
Forward ==
  \A v \in PlanVersion : lastPub[v] # None =>
    lastPub'[v] # None /\ PeriodNumber[lastPub[v]] <= PeriodNumber[lastPub'[v]]

LEMMA SameIsForward ==
  ASSUME IInv, UNCHANGED lastPub
  PROVE  Forward
<1>1. \A v \in PlanVersion : lastPub[v] # None => lastPub[v] \in Period
  BY DEF IInv, TypeOK
<1>2. \A p \in Period : PeriodNumber[p] <= PeriodNumber[p]
  BY KeysAssumption DEF NoNumber
<1> QED BY <1>1, <1>2 DEF Forward

LEMMA FinalPeriods ==
  ASSUME IInv, AInv, PInv, NEW r \in Request,
         \/ FindAssociated(r) \/ FindPublishedPeriods(r)
         \/ FindPublishedMeasurements(r) \/ SetLastPublished(r)
  PROVE  PInv' /\ (r \in Lone => Forward)
<1>1. job \in [Request -> Job] /\ job[r] \in Job /\ PeriodOK(r)
      /\ Others(r) /\ UNCHANGED createdAt
  BY FinalFields DEF IInv, TypeOK, PInv, PeriodIsHigher, PeriodOK, SameRows
<1>2. ASSUME NEW outcome \in {"done", "failed"}, End(r, outcome)
      PROVE  PeriodOK(r)'
  <2>1. job'[r].pc = outcome
    BY <1>2, EndInput DEF IInv
  <2> QED BY <2>1 DEF PeriodOK, Final
<1>3. CASE FindAssociated(r)
  <2>1. UNCHANGED lastPub
    BY <1>3 DEF FindAssociated, planVars
  <2>2. PeriodOK(r)'
    <3>1. CASE End(r, "failed")
      BY <1>2, <3>1
    <3>2. ASSUME NEW v \in PlanVersion, ExistsSince(v, TagTime(r)),
                 job' = [job EXCEPT ![r].pc = "findPublishedPeriods",
                                    ![r].version = v, ![r].period = lastPub[v]]
          PROVE  PeriodOK(r)'
      <4>1. /\ job'[r].pc = "findPublishedPeriods" /\ job'[r].version = v
            /\ job'[r].period = lastPub[v]
        BY <1>1, <3>2 DEF Job
      <4>2. Exists(v)'
        BY <1>1, <3>2 DEF ExistsSince, Exists
      <4> QED BY <2>1, <4>1, <4>2 DEF PeriodOK, Exists
    <3> QED BY <1>3, <3>1, <3>2 DEF FindAssociated
  <2> QED BY <1>1, <2>1, <2>2, KeptPeriods, SameIsForward
<1>4. CASE FindPublishedPeriods(r)
  <2>1. UNCHANGED lastPub
    BY <1>4 DEF FindPublishedPeriods, planVars
  <2>2. /\ job[r].pc = "findPublishedPeriods" /\ job[r].version \in PlanVersion
        /\ Exists(job[r].version)
        /\ r \in Lone => job[r].period = lastPub[job[r].version]
    BY <1>1, <1>4 DEF FindPublishedPeriods, At, PeriodOK, Final
  <2>3. PeriodOK(r)'
    <3> DEFINE stored == job[r].period
               found == (job[r].input.periods \cup {stored}) \cap generated
    <3>1. CASE End(r, "done")
      BY <1>2, <3>1
    <3>2. ASSUME NEW highest \in HighestPeriods(found),
                 job' = [job EXCEPT ![r].pc = "findPublishedMeasurements",
                                    ![r].period = highest]
          PROVE  PeriodOK(r)'
      <4>1. /\ job'[r].pc = "findPublishedMeasurements" /\ job'[r].period = highest
            /\ job'[r].version = job[r].version
        BY <1>1, <3>2 DEF Job
      <4>2. highest \in Period
        BY DEF HighestPeriods, IInv, TypeOK
      <4>3. r \in Lone /\ stored # None => stored \in found
        BY <2>2 DEF IInv, LastPublishedIsPublished
      <4>4. r \in Lone => stored = None \/ PeriodNumber[stored] <= PeriodNumber[highest]
        BY <4>3 DEF HighestPeriods
      <4>5. createdAt'[job[r].version] # None
        BY <1>1, <2>2 DEF Exists
      <4> HIDE DEF stored, found
      <4>6. r \in Lone => stored = lastPub[job[r].version]
        BY <2>2 DEF stored
      <4> QED BY <2>1, <2>2, <4>1, <4>2, <4>4, <4>5, <4>6 DEF PeriodOK, Exists
    <3> QED BY <1>4, <3>1, <3>2 DEF FindPublishedPeriods
  <2> QED BY <1>1, <2>1, <2>3, KeptPeriods, SameIsForward
<1>5. CASE FindPublishedMeasurements(r)
  <2>1. UNCHANGED lastPub
    BY <1>5 DEF FindPublishedMeasurements, planVars
  <2>2. PeriodOK(r)'
    <3>1. CASE End(r, "done")
      BY <1>2, <3>1
    <3>2. CASE Goto(r, "setLastPublished")
      <4>1. /\ job'[r].pc = "setLastPublished" /\ job'[r].period = job[r].period
            /\ job'[r].version = job[r].version
        BY <1>1, <3>2 DEF Goto, Job
      <4>2. job[r].pc = "findPublishedMeasurements"
        BY <1>5 DEF FindPublishedMeasurements, At
      <4> QED BY <1>1, <2>1, <4>1, <4>2 DEF PeriodOK, Exists, Final
    <3> QED BY <1>5, <3>1, <3>2 DEF FindPublishedMeasurements
  <2> QED BY <1>1, <2>1, <2>2, KeptPeriods, SameIsForward
<1>6. CASE SetLastPublished(r)
  <2>1. /\ lastPub' = [lastPub EXCEPT ![job[r].version] = job[r].period]
        /\ job[r].pc = "setLastPublished" /\ End(r, "done")
    BY <1>6 DEF SetLastPublished, At
  <2>2. /\ job[r].version \in PlanVersion /\ Exists(job[r].version)
        /\ job[r].period \in Period /\ job[r].period # None
        /\ r \in Lone =>
             \/ lastPub[job[r].version] = None
             \/ PeriodNumber[lastPub[job[r].version]] <= PeriodNumber[job[r].period]
    BY <1>1, <2>1, NoneAssumption DEF PeriodOK, Final
  <2>3. \A v \in PlanVersion : lastPub'[v] =
          IF v = job[r].version THEN job[r].period ELSE lastPub[v]
    BY <2>1 DEF IInv, TypeOK
  <2>4. r \in Lone => Forward
    <3>1. \A v \in PlanVersion : lastPub[v] # None => lastPub[v] \in Period
      BY DEF IInv, TypeOK
    <3>2. \A p \in Period : PeriodNumber[p] <= PeriodNumber[p]
      BY KeysAssumption DEF NoNumber
    <3> QED BY <2>2, <2>3, <3>1, <3>2 DEF Forward
  <2>5. NewVersionsUnpublished'
    BY <1>1, <2>2, <2>3 DEF PInv, NewVersionsUnpublished, Exists
  <2>6. PeriodIsHigher'
    <3>1. ASSUME NEW s \in Request, s # r
          PROVE  PeriodOK(s)'
      <4>1. PeriodOK(s) /\ job'[s] = job[s]
        BY <1>1, <3>1 DEF PInv, PeriodIsHigher, Others
      <4>2. CASE s \in Lone
        <5>1. ~Running(s)
          BY <2>1, <3>1, <4>2 DEF AInv, OneRunning, Running, Idle
        <5> QED BY <4>1, <5>1 DEF PeriodOK, Running, Idle, Final
      <4>3. CASE s \notin Lone
        BY <1>1, <4>1, <4>3 DEF PeriodOK, Exists
      <4> QED BY <4>2, <4>3
    <3>2. PeriodOK(r)'
      BY <1>2, <2>1
    <3> QED BY <3>1, <3>2 DEF PeriodIsHigher
  <2> QED BY <2>4, <2>5, <2>6 DEF PInv
<1> QED BY <1>3, <1>4, <1>5, <1>6

LEMMA EditPeriods ==
  ASSUME IInv, RowsOK, PInv, Edit \/ UNCHANGED vars
  PROVE  PInv' /\ Forward
<1>1. EditRows
  BY EditsRows
<1>2. UNCHANGED job /\ (\A x \in Row : Exists(x) => Exists(x)') /\ now # None
  BY <1>1, RowTimes DEF EditRows, Exists
<1>3. \/ UNCHANGED lastPub
      \/ \E v \in PlanVersion :
           ~Exists(v) /\ Exists(v)'
           /\ \A w \in PlanVersion : w # v => lastPub'[w] = lastPub[w]
  <2>1. ASSUME NEW v \in PlanVersion, InsertPlanVersion(v)
        PROVE  \/ UNCHANGED lastPub
               \/ ~Exists(v) /\ Exists(v)'
                  /\ \A w \in PlanVersion : w # v => lastPub'[w] = lastPub[w]
    <3>1. ~Exists(v) /\ createdAt'[v] = now
      BY <2>1, TableSets DEF InsertPlanVersion, CanInsertVersion, IInv, TypeOK
    <3> QED BY <1>2, <2>1, <3>1 DEF InsertPlanVersion, Exists, IInv, TypeOK
  <2> QED BY <2>1 DEF Edit, Tick, InsertBaseRow, SoftDelete, InsertVersion,
      AddPeriod, GenerateMeasurements, planVars, vars
<1>4. \A v \in PlanVersion : Exists(v) => Exists(v)' /\ lastPub'[v] = lastPub[v]
  BY <1>2, <1>3, TableSets
<1>5. \A v \in PlanVersion : ~(Exists(v)') => lastPub'[v] = lastPub[v]
  BY <1>3
<1>6. Forward
  <2>1. \A v \in PlanVersion : lastPub[v] # None => Exists(v) /\ lastPub[v] \in Period
    BY DEF PInv, NewVersionsUnpublished, IInv, TypeOK
  <2>2. \A p \in Period : PeriodNumber[p] <= PeriodNumber[p]
    BY KeysAssumption DEF NoNumber
  <2> QED BY <1>4, <2>1, <2>2 DEF Forward
<1>7. NewVersionsUnpublished'
  BY <1>4, <1>5 DEF PInv, NewVersionsUnpublished
<1>8. PeriodIsHigher'
  <2> SUFFICES ASSUME NEW r \in Request PROVE PeriodOK(r)'
    BY DEF PeriodIsHigher
  <2>1. PeriodOK(r) /\ job'[r] = job[r]
    BY <1>2 DEF PInv, PeriodIsHigher
  <2>2. CASE job[r].pc \in Final \ {"findAssociated"}
    <3>1. /\ job[r].version \in PlanVersion /\ Exists(job[r].version)'
          /\ lastPub'[job[r].version] = lastPub[job[r].version]
      BY <1>4, <2>1, <2>2 DEF PeriodOK
    <3> QED BY <2>1, <3>1 DEF PeriodOK, Exists
  <2>3. CASE job[r].pc \notin Final \ {"findAssociated"}
    BY <2>1, <2>3 DEF PeriodOK, Final
  <2> QED BY <2>2, <2>3
<1> QED BY <1>6, <1>7, <1>8 DEF PInv

LEMMA NextPeriods ==
  ASSUME IInv, AInv, CInv, PInv, [Next]_vars
  PROVE  PInv' /\ (NoOverlap => Forward)
<1>1. ASSUME NEW r \in Request, Others(r), UNCHANGED <<createdAt, lastPub>>,
             job'[r].pc \notin Final \ {"findAssociated"}
      PROVE  PInv' /\ Forward
  <2>1. PeriodOK(r)'
    BY <1>1 DEF PeriodOK, Final
  <2> QED BY <1>1, <2>1, KeptPeriods, SameIsForward
<1>2. ASSUME NEW r \in Request, Work(r)
      PROVE  PInv' /\ (NoOverlap => Forward)
  <2>1. CASE job[r].pc \in Final
    <3>1. \/ FindAssociated(r) \/ FindPublishedPeriods(r)
          \/ FindPublishedMeasurements(r) \/ SetLastPublished(r)
      BY <1>2, <2>1 DEF Work, FindPeriods, FindLatestVersion, SetCurrentPeriod,
         EndRevision, GetNextTag, CreateTag, FindRows, FindAttachments,
         FindMeasurements, FindVersions, FindPlanVersions, ReadLatest, FindOld,
         TagRows, TagVersions, TagGroup, UntagRows, UntagOld, At, Final
    <3>2. NoOverlap => r \in Lone
      BY <1>2, WorkShape DEF NoOverlap
    <3> QED BY <3>1, <3>2, FinalPeriods
  <2>2. CASE job[r].pc \notin Final
    BY <1>1, <1>2, <2>2, EarlyStep
  <2> QED BY <2>1, <2>2
<1>3. ASSUME NEW r \in Request, Fail(r)
      PROVE  PInv' /\ Forward
  <2>1. Others(r) /\ job'[r].pc = "failed"
    BY <1>3, EndInput DEF Fail, IInv
  <2> QED BY <1>1, <1>3, <2>1 DEF Fail, Final, editVars, planVars
<1>4. ASSUME NEW r \in Request, PublishPlan(r)
      PROVE  PInv' /\ Forward
  <2>1. ASSUME NEW input, job' = [job EXCEPT ![r].pc = "findPeriods", ![r].input = input]
        PROVE  Others(r) /\ job'[r].pc = "findPeriods"
    BY <2>1 DEF Others, Job, IInv, TypeOK
  <2>2. Others(r) /\ job'[r].pc = "findPeriods"
    BY <1>4, <2>1 DEF PublishPlan
  <2> QED BY <1>1, <1>4, <2>2 DEF PublishPlan, Final, editVars, planVars
<1>5. CASE Edit \/ UNCHANGED vars
  BY <1>5, EditPeriods DEF CInv
<1> QED BY <1>2, <1>3, <1>4, <1>5 DEF Next

\* While the publication at work runs alone, the last published reporting
\* period of a plan version never moves to a lower one, although it is read
\* three awaits before it is written and editors add periods, measurements
\* and plan versions in between.
THEOREM LastPublishedNeverRegressesHolds == Spec => LastPublishedNeverRegresses
<1>1. Invariants /\ PInv /\ [Next]_vars => PInv'
  BY NextPeriods DEF Invariants
<1>2. Invariants /\ PInv /\ [Next]_vars =>
        [NoOverlap =>
           \A v \in PlanVersion :
             lastPub[v] # None =>
               /\ lastPub'[v] # None
               /\ PeriodNumber[lastPub[v]] <= PeriodNumber[lastPub'[v]]]_vars
  BY NextPeriods DEF Invariants, Forward
<1> QED BY <1>1, <1>2, InitInvariants, NextInvariants, InitPInv, PTL
        DEF Spec, LastPublishedNeverRegresses
=============================================================================
