# TLA+ models of hpc-api

hpc-api is the GraphQL server of HPC.Tools: it publishes humanitarian response
plans and searches the flows (funding) of the Financial Tracking Service. It
keeps no state of its own between requests. All state is in a PostgreSQL
database that other services read and write as well, and the code opens no
transaction: every `await` of a query is a point at which other requests and
other services may act, and at which a request may stop for good. That is where
this project looks. The models follow `src/src/**`; the tables and the services
that edit them come from the library hpc-api-core, which is not in the
repository, and are modelled from how the code uses them.

## 1. Inventory

| Component | State | Operations | What is hard | What makes it correct |
|---|---|---|---|---|
| **Plan publication** (`plans/graphql/resolver.ts`, `plan-tag-service.ts`, `common-libs/plan`) | `planTag`, `plan.revisionState`, `planVersion`, `planReportingPeriod`, `versionTags`, `latestTaggedVersion` and `currentVersion` of seven pairs of tables | `publishPlan` | some 20 awaits in a row without a transaction; read-modify-write of `versionTags`; overlapping publications, editors at work, failures halfway | tag names grow; no row loses a tag; readers never lose the current version; a finished publication leaves every table as of the tag's creation time; the last published period is published and does not move back |
| **Plan queries** | none | `plan`, `planYears`, `planTags` | single reads | need a current version |
| **Flow search: what is found** (`flow-search-service.ts`, `flows/strategy/impl`) | none; reads `flow`, `categoryRef`, `flowObject`, `flowLink`, `reportDetail`, `externalReference`, `legacy`, `category` | `searchFlows`, `searchFlowsBatches` | up to five queries in parallel without a snapshot; set intersections with special cases; category, object and nested filters of several kinds; usage years that batches add; children of parked flows after everything else | a flow version is found exactly when it passes every filter |
| **Flow search: pages** (`search`, `progresiveSearch`, `searchBatches`) | none; a cursor per request | the same | offset arithmetic, batches that lose rows, pages that shift while flows are written | pages are slices of the matches, exports miss nothing and end |
| **Enrichment of a page** (organizations, locations, plans, usage years, categories, report details and their channels, external references, links, parked parents) | none | part of `search` | some fifteen queries in stages and a chain of queries per flow version, later ones by the ids of earlier ones, without a snapshot; maps by flow id where a page holds two versions of a flow; chains that assign to the same objects; failure of one query of many | what stayed in the database is shown, nothing else is, and a page is refused only for a cause |
| **Connection pool** (`data-providers/postgres`) | ten connections | queries | a search issues many at once | rejected queries write nothing |
| **Authentication, logging, start-up, GraphQL types, software info** | none | – | – | – |

The components meet in the database only. Plan queries and
the plans of a page read `currentVersion` of plan versions, which publication
writes: `CurrentNeverVanishes` below is what they rely on, and `PlansKeepShowing`
is what a page makes of it.

## 2. Modules

    PlanSchema ── PlanPublish ── MCPlanPublish            PublishLog (abstract)
                      │  └─ refines PublishLog (INSTANCE)
                      └─ PlanPublish_proofs ── PlanPublishAlone_proofs
                            ── PlanPublishCurrent_proofs ── PlanPublishSettled_proofs
    FlowFilters ── FlowSearch ── MCFlowSearch
                       └─ FlowSearch_proofs
    FlowPages ── MCFlowPages
        └─ RowLists_proofs ── FlowPages_proofs
    PageTables ── PageReader (abstract)
        └─ FlowEnrichment ── MCFlowEnrichment
             │  └─ refines PageReader (INSTANCE)
             └─ FlowEnrichment_proofs

* **PlanSchema** – the rows and foreign keys of one plan as constants, with their
  assumptions. A row is its primary key. Version ids are numbers, because the code
  takes the largest id as the newest version.
* **PlanPublish** – `PlanTagService.createPlanTag` and all it calls. The action
  `PublishPlan` is the arrival of a request; each awaited statement is one more
  action, named for what it does: `FindPeriods`, `FindLatestVersion`,
  `SetCurrentPeriod` (`setPlanReportingPeriod`), `EndRevision`, `GetNextTag`,
  `CreateTag`, then for each table of `updateVersionStates` `FindRows` (or
  `FindAttachments` and `FindMeasurements`, or `FindPlanVersions`), `TagRows`,
  `UntagRows`, `FindVersions`, `ReadLatest`, `TagVersions`, `FindOld`, `UntagOld`,
  and at the end `FindAssociated`, `FindPublishedPeriods`,
  `FindPublishedMeasurements`, `SetLastPublished`
  (`updateLastPublishedReportingPeriodId`). `job[r]` holds the local variables of
  request `r`. `Fail(r)` ends a request at any await: a rejected query, a lost
  connection or a restart; nothing is rolled back. `Edit` is the service that edits
  plans: it inserts rows and versions, deletes rows, adds reporting periods and
  generates measurements.
* **PublishLog** – what publication promises: names of tags grow, a row becomes
  current only by receiving the newest tag on top of those it has.
* **FlowFilters** – the pure part of the search: `intersectSets`, the conditions on
  flow rows, categories, flow objects and parked parents, each as the set of flow
  versions a query answers from a record of tables.
* **FlowSearch** – one search from its arguments to the set of flow versions found.
  `FindUsageYears` is what `searchBatches` adds to object filters, `MapShortcuts` is
  `mapShortcutFilters` and `determineStrategy`. The branches `category`, `nested`,
  `object`, `flow` and `sort` of `Promise.all` each keep their next query in `step`
  and what they have found in `found`; they interleave freely with each other and
  with the services that categorise, delete and edit flows. `Combine` is the code
  after `Promise.all`; `FindParents`, `FindLinks`, `FindChildren` are the children of
  parked flows.
* **FlowPages** – what happens to that set: the sort order, `progresiveSearch`
  batch after batch (`NextBatch`), the extra row that tells of a next page
  (`Response`), and the loop of `searchBatches` (`Respond`). Other services insert,
  update (a row takes any place in the order) and delete in between.
* **RowLists_proofs** – lemmas about the lists `FlowPages` works with: what `Keep` and
  `Slice` return, which rows are `Ahead` of a row, what concatenated slices hold.
* **PageTables** – the rows that complete a page, named by their primary keys, their
  foreign keys as constants, and `Deserved(rows, fv)`: what type `Flow` of the schema
  says of a flow version when exactly these rows are in the database.
* **FlowEnrichment** – `search` after the flows of the page are known. Each query is
  an action `Find…`; `pending` holds the queries issued and not yet answered, so those
  of one `Promise.all` interleave. `AwaitRows`, `AwaitLinks`, `AwaitNested` and
  `AwaitItems` are the code after each `Promise.all`. Then every flow version has a
  chain of its own: channels of its report details (`FindChannelRefs`,
  `FindChannels`), and with `includeChildrenOfParkedFlows` its parents
  (`FindParkedCategory`, `FindActiveParents`, `FindParentRefs` parent by parent,
  `FindSource`, `FindSourceOrganizations`). `Reject` is a rejected query, `Insert` and
  `Delete` are the other services. `ItemOf` is `buildFlowDTO`.
* **PageReader** – what that promises although no query sees the same database as
  another: the answer lies between `Deserved` of the rows that stayed and `Deserved`
  of the rows that were ever there.
* **MC…** – the values TLC uses. A definition whose comment begins with *Mutant* is
  a plausible mistake in the definition that follows it; putting it in place makes
  the property named in `PROJECT.json` fail.

## 3. Abstractions

Publication:

* A tag name "3.1" is `<<3, 1>>`, `versionTags` is a set of names. The order of that
  list decides one thing only: rows are updated together when their lists are equal
  (versioning.ts:147, 226), so rows with the same set in another order are updated
  apart. `Groups` allows any part of the rows with one set to be the next group.
  `latestTaggedVersion` and `currentVersion` are one variable, because the code
  always creates public tags and then writes both alike.
* What the code computes between two awaits belongs to the action of the first.
* Nothing in the code keeps publications of a plan apart. `Lone` is a set of requests
  that the editors send when no other is at work and wait for before they send
  another; requests outside `Lone` overlap with each other as they like. With `Lone`
  empty nothing is assumed, with all requests in it publications never overlap.
* The arrival of a request advances the clock by one, so no two requests share a
  millisecond. Rows and edits may share one with a tag.
* `Promise.all` over independent rows of the base-only tables is one UPDATE per
  row, in any order.
* Version rows exist for the four base-and-version tables and the plan only; the rows
  a run starts with come with the rows they refer to, as foreign keys guarantee; a plan has finitely many versions (`KeysAssumption`,
  `InputAssumption`).
* The system stops when every request has been answered and the editors have
  nothing left to add, so deadlock is not an error in any run. Likewise for the
  single request of the other modules.

Search:

* A flow version is `<<id, versionID>>`; names, amounts and dates are left out.
  `Database` keeps only what filters read. A nested filter is given as the set of
  rows it matches. A sort key is a column of flow, an entity of flow objects, an
  external reference, or something unknown, which throws.
* The nested branch looks its ids up in batches of 1000; the lookup is one query
  here. The two queries of `getFlowIDsFromEntity` are one action.
* `FlowPages` starts from rows that pass the filters. It has three kinds of search:
  SQL paging (`onlyFlow`), filters among which conditions on flow rows exclude
  deleted flows (`flowFilter`), and other filters alone, whose tables keep the rows
  of deleted flows (`otherFilter`).
* The rows of a search are in the order of `sortField` and `sortOrder`. A row that is
  written moves to the place its columns then give it: the first under the default
  order, `updatedAt desc`, any place under another (`Put`). Rows that are equal in the
  order have a fixed one.
* `progresiveSearch` may ask for a batch of no references, as every page that begins
  past the end does; what a disjunction of no conditions selects is decided by
  hpc-api-core. `RowsOf` takes either answer, no row or every row, at each such batch;
  `flooded` remembers that every row was one. `ExactWhenQuiet` (for pages that begin
  past the end only), `PagesFit`, `OncePerPage`, `ExportWithinTable` and `CallsEnd`
  say nothing of a call after that; `UntouchedExported` and `LastPageReachesEnd` do.
* A query with a condition and an ORDER BY, and `Array.prototype.filter`, are `Keep`,
  the elements of a list that are in a set, in their order.
* `MaxExported` cuts the list of exported rows, so that an endless export has finitely
  many states. Calls that end stay below it in every run; the properties that speak of
  `exported` are stated for lists that are not `Cut`, so the theorems hold for every
  value of the bound and say the more the larger it is.
* `MaxPages` stops an export that has been answered every row for no references, where
  each page would have a next one. No other export of the runs gets there: with four
  rows at most and pages of one the last is page 3 or 4.

Enrichment:

* Rows of flows, plan versions and links stand for what the queries select: a row of
  `ActiveFlow` is in the database while its flow version is the active one, one of
  `PlanVersion` while it is current, `FlowLink` has no rows of depth 0 (a flow's link
  to itself). Lists in the answer are sets, since their order and the wording of an
  item are layout.
* `Item` is what is shown of a flow version except its plans and the source of a
  parked parent, which are variables of their own. `getPlansForFlows` keeps one plan
  of a flow in each direction (a parameter shadows the plan compared with), so plans
  are left to `PlansKeepShowing`: one is shown, not all.
* Report details are pushed once per version of their flow on the page, so a page
  with both versions shows copies. `Copies` counts them, because only the first copy
  is given a channel.
* `organizeObjectsByUniqueProperty` belongs to hpc-api-core. With two rows of one key
  it may throw or keep one of them, and the model does either.
* Without a category `Parked` the id in the condition on `categoryRef` is
  undefined; what the condition selects then is a free choice.
* The page is any set of flow versions, the empty one included. Which flows are on
  it is the business of `FlowPages`.

## 4. Runs

| Run | What it asks | Bounds, and why they are enough |
|---|---|---|
| `publish_retry` | `NamesIncrease`, `VersionsSettled`, `TagsNeverLost`, `CurrentNeverVanishes`, `LastPublishedNeverRegresses`, `LogSpec` | Two requests one after the other, of two reporting periods, one of which has no number, the first possibly stopped at any await; a plan with a location, an attachment with two versions, of which one may appear at any time, and two measurements. One failed publication and its repetition is the pattern; a third adds no new kind of state. |
| `publish_edited` | `VersionsSettled`, `BaseRowsSettled`, `RequestsEnd` | One request while the editors insert a plan version and a third attachment version and delete a location and an attachment, with clock values before, at and after the tag. `ChunkSize` 1 makes the old versions take several UPDATEs. |
| `publish_fresh` | `TypeOK`, `LastPublishedIsPublished` | Rows of every kind (base-only, cost attachment, entity, measurement) appear in any order from an empty plan, so that every error path is taken and a period may be generated before it has a measurement. |
| `publish_overlap` | `NoPhantomTags`, `CurrentIsPublished`, `VersionsSettled`, `BaseRowsSettled`, `CurrentNeverVanishes` | Two requests that overlap, alike up to symmetry, and a third that runs alone before or after them; an attachment whose third version may appear at any time; `ChunkSize` 1. Two requests reach every order of the reads and writes of one row, and what they leave is of three kinds: tagged by one, by the other, or not at all. |
| `search` | `TypeOK`, `AllMatchesFound`, `OnlyMatchesFound`, `ChildrenFound`, `FoundExactly` | Three versions of two flows, which tells versions from flows. Requests of every kind of filter, alone and together, over *every* content of the tables of categories and objects and a wide choice of the others; requests with up to two flow versions edited, deleted or categorised between the queries: one write tears a read, two tear different branches. |
| `search_three_filters`, `search_shortcut_off`, `search_two_names` | one property each, violated | see Findings |
| `pages` | `TypeOK`, `ExactWhenQuiet`, `PagesFit`, `UntouchedExported`, `LastPageReachesEnd`, `OncePerPage`, `ExportWithinTable`, `CallsEnd` | Zero to three rows and a fourth to write, at any place in the order, of which two may be deleted at the start; pages of one or two rows from every start, exports in pages of one, up to two writes, both answers to a batch of no references: several pages, several batches per page, ends that fall on and beside page boundaries. |
| `pages_deleted_rows`, `pages_without_page` | one property each, violated | see Findings |
| `page_rows` | `TypeOK`, `RowsKept`, `NothingForeign`, `PlansKeepShowing`, `ChannelsShown`, `SourcesShown`, `FailsForCause`, `ReaderSpec`, `PageEnds` | Flow 1 with two versions and flow 2, its parked parent, with two versions. Twelve pairs of a page and the tables it meets, one for each group of queries and its hazards: one version, both, parent and child, plans with one and two current versions, chains over the same report details, a parent with two sources, without an active version, without its category. One to three rows written at any moment: a publication that moves the current version takes two. |

What they show, in words:

* Publications that do not overlap do what they should even when they
  fail halfway: the next one repairs what was left, no tag is lost, names grow, and
  readers never see a published object without a current version. Every step of the
  code is a step of `PublishLog` or invisible there.
* Overlapping publications keep less. What remains is `NoPhantomTags`,
  `LastPublishedIsPublished`, `CurrentIsPublished` (proved for any number of
  requests) and types. Two tags may get one name (`NamesIncrease`), a
  later write of `versionTags` drops a tag (`TagsNeverLost`), and stated for the
  overlapping requests themselves TLC also refutes `VersionsSettled`,
  `CurrentNeverVanishes` and `LastPublishedNeverRegresses`. No document of the
  repository promises those for overlapping requests, so they are listed as hazards
  and not as findings.
* The damage does not last: the next publication that runs alone leaves every row it
  covers as if no others had overlapped, and while it runs no tag is lost, no current
  version vanishes and no last published period moves back. That is what `NoOverlap`
  in the action properties and `r \in Lone` in `VersionsSettled` and
  `BaseRowsSettled` say.
* An edit during a publication is decided by the creation time of the tag: versions
  newer than it are left for the next publication. A version created in the same
  millisecond as the tag, or a row deleted in it, may go either way.
* A search finds every flow version that passes the filters and was left alone
  while it ran, as far as its filters are of the kinds `Filtered` and
  `PlainCategories` name, and finds nothing else if some flow version passes at all.
  `PlainCategories` leaves out filters that name no existing category, mix ids with
  names, name categories of two groups, or give half a name: a filter with only a name
  or only a group adds no condition.
* A page shows what stayed in the database while its queries ran, and nothing that
  was never there; a flow with two versions on a page shares its rows between them,
  categories excepted. Every step of the code is a step of `PageReader` or invisible
  there. A flow linked to a plan goes on showing one while the plan is published.
* An export skips no flow that was left alone and lost none of the flows ahead of it.
  A flow that loses one may be pulled over the page boundary and skipped: that is what
  offset paging does, and `UntouchedExported` leaves those flows (`pulled`) out. Under
  the default order, where a write moves a flow to the front, only a *deletion* can
  do it; under another order an update that moves a flow to the back can as well.

**Fairness.** `RequestsEnd` is asked under weak fairness of `Work(r)` for
each request: the event loop continues a request whose query has been answered, and
the database answers. `Fail`, edits and arrivals are not fair. `FlowPages` assumes
the same of `Serve`, `PageEnds` the same of `Work`. No fairness is assumed of other services; writes are bounded.

## 5. Proofs

TLAPS checks, for every plan, number of requests, row, filter and table:

| Theorem | States |
|---|---|
| `PlanPublish_proofs!TypeCorrect` | `Spec => []TypeOK` |
| `PlanPublish_proofs!NoPhantomTagsHolds` | no row carries a tag the plan does not have, however publications overlap or fail |
| `PlanPublish_proofs!LastPublishedIsPublishedHolds` | the last published period has generated measurements, one of them published |
| `PlanPublishAlone_proofs!NamesIncreaseHolds` | if all requests run alone, tag names grow with the creation of the tags |
| `PlanPublishAlone_proofs!ImplementsLog` | if all requests run alone, `Spec => LogSpec` |
| `PlanPublishAlone_proofs!TagsNeverLostHolds` | while the request at work runs alone no row loses a tag |
| `PlanPublishCurrent_proofs!CurrentIsPublishedHolds` | whatever is current carries a tag, and a version existed at the time of it, however publications overlap or fail |
| `PlanPublishSettled_proofs!VersionsSettledHolds` | a publication that ran alone leaves of every base row one current and tagged version, the newest as of the tag, whatever overlapped or failed before it |
| `PlanPublishSettled_proofs!BaseRowsSettledHolds` | the same of rows without versions |
| `PlanPublishSettled_proofs!CurrentNeverVanishesHolds` | while the request at work runs alone, what has a current version keeps one |
| `PlanPublishSettled_proofs!LastPublishedNeverRegressesHolds` | while the request at work runs alone, the last published period does not move back |
| `FlowSearch_proofs!TypeCorrect` | `Spec => []TypeOK` |
| `FlowSearch_proofs!FoundExactlyHolds` | the branches' answers are intersected once a flow version is in all of them |
| `FlowSearch_proofs!AllMatchesFoundHolds` | what passes every filter and is left alone is found |
| `FlowSearch_proofs!OnlyMatchesFoundHolds` | and then nothing left alone that fails one |
| `FlowSearch_proofs!ChildrenFoundHolds` | children of parked parents with the objects asked for are found |
| `FlowPages_proofs!TypeCorrect` | `Spec => []TypeOK` |
| `FlowPages_proofs!ExactWhenQuietHolds` | while nobody writes, pages are slices and an export is all flows, once and in order; past the end unless a batch of no references had every row |
| `FlowPages_proofs!UntouchedExportedHolds` | an export misses nothing that was left alone and lost no row ahead of it, whatever is written meanwhile and under every order |
| `FlowPages_proofs!LastPageReachesEndHolds` | a page without a next one reaches the end of what was found |
| `FlowPages_proofs!PagesFitHolds` | no page is too long while the references hold no deleted flow and no batch of none had every row |
| `FlowPages_proofs!OncePerPageHolds` | a page shows no flow twice, unless a batch of no references had every row |
| `FlowPages_proofs!ExportWithinTableHolds` | an export asks for no page beyond the table, with the same exception |
| `FlowEnrichment_proofs!TypeCorrect` | `Spec => []TypeOK` |
| `FlowEnrichment_proofs!RowsKeptHolds` | no row of an `Item` that stayed is missing from a page |
| `FlowEnrichment_proofs!NothingForeignHolds` | a page shows nothing of other flows, nor rows that were never there |
| `FlowEnrichment_proofs!PlansKeepShowingHolds` | a linked plan is shown through every publication |
| `FlowEnrichment_proofs!ChannelsShownHolds` | no channel is missing or invented, whichever chain writes last |
| `FlowEnrichment_proofs!SourcesShownHolds` | the source of a parked parent is named, and no other |
| `FlowEnrichment_proofs!FailsForCauseHolds` | a page fails only for a cause |
| `FlowEnrichment_proofs!ImplementsReader` | `Spec => ReaderSpec` |

Assumptions are the named ones of the modules: `KeysAssumption` (foreign keys have
their types, version ids are numbers), `InputAssumption`, `NoneAssumption` (NULL is
no value), `CategoryAssumption`, `SearchAssumption`, `TablesAssumption`,
`RequestsAssumption`, `PagesAssumption` (a table lists a row once, limits are
positive); TLC evaluates them in the runs. `NamesIncreaseHolds`
and `ImplementsLog` assume `Lone = Request` in addition.

* *Publication, in general.* The properties are not inductive: when `SetLastPublished`
  writes, what was checked two awaits ago must still hold, and a tag that is written
  from a snapshot must still exist. `IInv` adds `JobOK(r, job[r])`: what a request
  knows at each step. The argument is that `generated` and the names of tags only
  grow, and that a row that has a tag never becomes a row without any.
* *Publications that run alone.* `AInv` adds that while one runs no other does
  (`OneRunning`), that its snapshots are still the rows' tags
  (`SnapshotsAreCurrent`, which overlapping requests break), that tags are older than
  a request that has yet to create its own and does not overlap with theirs
  (`TagsInThePast`), and, if all run alone, that the name at hand is after every other
  (`NameIsNewest`). `WorkShape` says what every step of a request leaves alone, so that
  a step of a request outside `Lone` keeps these (`StrangerAInv`). `TagsNeverLost` and
  the step simulation of `PublishLog` follow.
* *What is current, whatever overlaps.* A request may write tags another one has
  overwritten since, so `CInv` follows the rows and not the requests: the rows pending
  in the loop that tags were found in time (`FoundInTime`: versions that existed at the
  request's tag), a write always adds the writer's own name, and tags and the rows of a
  published version never go away. `RowsOK` says that a row is no older than those it
  refers to.
* *What a finished publication leaves.* `VersionsSettled` speaks of the last step of
  some fifty, so `DInv` says what every step has reached. `Rank` orders the tables and
  the steps within a table. `AtWork` says that the tables already passed are settled
  as of the tag (`RowsSoFar`, `VersionsSoFar`) and what the current one has so far:
  the rows found are those to tag (`RowsAtWork`), every base row is in the list
  (`BasesFound`), the newest version as of the tag was picked and tagged
  (`NewestFound`, `NewestTagged`), the stale ones are still listed (`StaleFound`).
  That all this survives the editors rests on `RowsOK`, `Fits` (the step a request is at
  fits its table) and `TagIsLast` (its tag is later than those of all it does not
  overlap with). All this is said of requests in `Lone`; the others may leave anything
  that `CInv` allows, which is where the proof of a request that runs alone starts:
  `ReachedByTag` takes from `CurrentIsPublished` that no current version is newer than
  its tag, and `StrangerDInv` that a request that may overlap either leaves the rows
  alone or has a later tag, so that no older request is the last to have finished. `Touched` and `Leaves`
  reduce each action to the few facts `WorkStep` needs. `PInv` (`NewVersionsUnpublished`,
  `PeriodIsHigher`) is the strengthening for the last published period. The newest
  version of a finite set exists because strict inclusion of its subsets is
  well-founded, a fact of the library.
* *Search: intersections.* `Intersect2` leaves out empty sets and starts again when the
  intersection is empty. `Intersect2Chain` shows that neither happens while one flow
  version is in all sets in use; the invariant adds that unused branches hold nothing
  (`UnusedIsEmpty`), that none starts before the strategy is chosen (`Started`), and
  that children of parked flows are only asked for with object filters
  (`ParentsOfObjects`).
* *Search: what is found.* `Steady` and `EditEffect` show that a write changes no
  answer to a condition about a flow version outside `edited`. So what a branch
  found about such a version is still what the tables say when all branches end
  (`CategoryInv`, `FlowInv`, `SortInv`, `ObjectInv` with one intersection per group,
  `NestedInv`, `OnlyFlowInv`, `ChildrenInv`); `SInv` keeps the arguments, defaults and
  shortcuts in step with what was asked. Both directions follow from these and the
  argument about intersections.
* *Pages: lists.* No list of a call names a row twice (`Lists`), so a list is its set
  of rows and, for each row, the set `Ahead` of the rows before it. `Keep`, `Slice` and
  the insertion of a row change both in ways the lemmas of `RowLists_proofs` give, and counting
  needs only cardinalities. `CallInv` also says where a call is (`Places`).
* *Pages: one page.* `Reach` says that the batches read so far hold every row left
  alone between the page's first row and the next batch; with the test that ends
  `progresiveSearch` this is `LastPageReachesEnd`. `Fit` says that nothing was lost
  in earlier batches: without deleted references the first batch is whole or the last
  one, so a page has `limit + 1` rows at most before the extra one is dropped.
* *Pages: no repetition.* `Once` says that the rows of a page are references from the
  page's first row up to the next batch, each once: batches take disjoint slices of a
  list without repetition. Counting them gives `Ends`: a page with an extra row ends
  before the last row of the table, and the table never shrinks, so the next page
  begins inside it.
* *Exports while others write.* `Export` says of a row left alone that it has been
  collected, or that enough rows are ahead of it: `page * limit` when a page begins, and
  what the queries of the page have read on top. A write that takes a row from ahead of
  it puts it into `pulled`, and every other only adds rows ahead of it, which is why
  offsets never pass it. `Awaits` splits this by where the
  page is (`AwaitsQueries`, `AwaitsBatch`, `OnPage`), `Listed` says the row is among
  the references when they were read.
* *Pages while nobody writes.* `QuietReads` keeps every answer equal to what the tables
  say, `QuietPages` keeps `exported` equal to the slice from the first row to the
  current page, which `SliceNext` extends by one page.
* *Enrichment.* `always` only shrinks and `ever` only grows, so every answer is caught
  between two bounds: what a query answered was in `ever`, and what stayed is in it
  once the query is no longer pending (`Complete`). The bounds compose along the
  chains, because later queries ask by ids of earlier answers, and give both halves of
  `PageReader`. `Channelled` adds that a chain that writes a channel last has seen a
  reference that stayed, if there is one; `Parented` and `Local` say the same of
  parked parents step by step; `PlansFit` relates `plansMap` to the rows read;
  `Blamed` gives the cause of a failure.

Only model-checked: the liveness properties `RequestsEnd`, `CallsEnd` and `PageEnds`,
because liveness under fairness and ENABLED are out of the prover's reach.

## 6. Findings

1. `search_three_filters` – `intersectSets` takes an intersection that has become
   empty for one that has not begun. With three filters, two of them without a common
   flow, the flows of the third are answered: in the run those the object filter
   finds, each of which fails the category filter, the conditions on flow rows, or both. Groups of object filters are joined by
   the same function.
2. `search_shortcut_off` – with forbidden categories alone only flows with a forbidden
   category are considered, so nothing is found.
3. `search_two_names` – category names of two groups are written to one key; the last
   group replaces the others.
4. `pages_deleted_rows` – `progresiveSearch` stops at exactly `batchSize` rows. After a
   batch that lost deleted flows it steps over that size and reads to the end, and
   the page has more rows than asked for.
5. `pages_without_page` – `searchFlowsBatches` without `page` and with more than one
   batch of flows reads its first page for ever (`undefined + 1`).

Seen while reading, without a run: the parked parents of object filters need *every*
id of a group (`numberOfConditions`, flow-service.ts:509) where one is enough for
flows; a category filter that names no existing category answers every categorised
flow; ordering by another entity with no filter, an empty list of object filters or
empty nested filters answers nothing; `total` counts deleted flows when no filter
reads flow rows; `searchBatches` replaces the resolver's default of 1000 by 5000;
`flowObjectFilters.inclusive` is never read; `mergeUniqueEntities`,
`intersectUniqueFlowEntities` and `buildSearchFlowsObjectConditions` have no caller;
`plan-service.ts:101` compares a plan with itself because a parameter shadows it.

## 7. Not modelled

* The order of flows *within* a page when it comes from a column of another entity:
  the order of the rows of an SQL join, planned below.
* The connection pool: knex's. No code holds a connection across two queries, so
  requests cannot wait for each other; what a full pool does is reject a query, which
  `Fail` and `Reject` model.
* Plan queries, software info, locations: single reads.
* Authentication, logging, start-up, GraphQL types: no state, or layout.

## 8. Plan

Done, in this order: publication (state machine, abstract log, proofs), the set a
search finds (filters, branches, usage years, proofs), pages and exports, what a
finished publication leaves (proofs), the enrichment of a page (abstract reader,
refinement, proofs), the proofs about pages and exports, what survives overlapping
publications (a run of its own, proofs).

Next:

1. Order within a page when it comes from another entity: `FlowPages` with an order
   in which a flow version occurs several times.
2. `SearchRequest`: `FlowSearch`, `FlowPages` and `FlowEnrichment` composed, with an
   abstract specification (a page is a slice of the flows that pass, each with its
   rows) that the composition implements while nobody writes.
3. Which tags a row keeps when publications overlap: at least those of the last
   request that wrote it, stated over the history of its writes.
