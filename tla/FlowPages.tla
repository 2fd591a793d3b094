------------------------------ MODULE FlowPages ------------------------------
(***************************************************************************)
(* How the flow versions a search has found are paged: the second half of  *)
(* FlowSearchService.search and of the two strategies, progresiveSearch,   *)
(* and the loop of searchBatches over it.  Only rows that pass the filters *)
(* are modelled; every awaited query is an action, and the services that   *)
(* write flows act in between.                                             *)
(***************************************************************************)
EXTENDS Integers, FiniteSets, Sequences, SequencesExt

CONSTANTS
  Item,        \* the flow versions that pass the filters, once they exist
  Stored,      \* the tables at the start: orders of some items
  Deleted,     \* those of them that may be deleted at the start
  Kinds,       \* what finds the flow versions, see Kind
  Calls,       \* the calls of the API, see Call
  BatchLimit,  \* args.limit of searchBatches: 5000
  MaxWrites,   \* bound on the writes of other services
  MaxExported, \* bound on the collected flows that are told apart
  MaxPages,    \* bound on the pages of an export that would never end
  NoPage,      \* the page of a caller that gives none
  NaN          \* NoPage + 1

\* The strategy for conditions on flow rows alone, which pages in SQL; the
\* strategy for several filters, with conditions on flow rows among them; the
\* same with other filters only, whose tables keep deleted flows.
Kind == {"onlyFlow", "flowFilter", "otherFilter"}

Page == Nat \cup {NoPage, NaN}
Call == [batches : BOOLEAN, limit : Nat \ {0}, page : Nat \cup {NoPage}]

ASSUME PagesAssumption ==
  /\ \A s \in Stored : s \in Seq(Item) /\ IsInjective(s)
  /\ Kinds \subseteq Kind
  /\ Calls \subseteq Call
  /\ BatchLimit \in Nat \ {0}
  /\ MaxWrites \in Nat /\ MaxExported \in Nat /\ MaxPages \in Nat
  /\ NoPage \notin Nat /\ NaN \notin Nat /\ NoPage # NaN

VARIABLES
  order,     \* the rows in the order of sortField and sortOrder
  deleted,   \* the rows with a deletedAt
  kind,      \* what finds the flow versions of this call
  pc,        \* what the call is at
  batches,   \* searchBatches, not one page
  limit,     \* args.limit
  page,      \* args.page
  read,      \* the queries of Promise.all that are answered
  matching,  \* what the filters found
  sorted,    \* what the sort query found
  refs,      \* referenceFlowList
  offset,    \* offset of the next batch
  rows,      \* flowResponse
  total,     \* count
  last,      \* the last response: its flows and hasNextPage
  exported,  \* the flows searchBatches has collected
  began,     \* history: where the first page begins
  flooded,   \* history: whether a batch of no references had every row
  touched,   \* history: the rows written since the call began
  pulled     \* history: the rows that lost one ahead of them since then

tableVars == <<order, deleted, touched, pulled>>
callVars == <<kind, batches, limit, began>>
queryVars == <<read, matching, sorted, refs, rows, total>>
vars ==
  <<tableVars, callVars, pc, page, queryVars, offset, flooded, last, exported>>

NoResponse == [flows |-> <<>>, hasNextPage |-> FALSE]

Init ==
  /\ order \in Stored
  /\ deleted \in SUBSET (Deleted \cap ToSet(order))
  /\ kind \in Kinds
  /\ pc = "idle"
  /\ batches = FALSE /\ limit = 1 /\ page = NoPage
  /\ read = {} /\ matching = {} /\ sorted = <<>> /\ refs = <<>> /\ rows = <<>>
  /\ total = 0
  /\ offset = 0
  /\ last = NoResponse
  /\ exported = <<>>
  /\ began = 0 /\ flooded = FALSE /\ touched = {} /\ pulled = {}

-----------------------------------------------------------------------------
\* The elements of s that are in S, in the order of s: a query with a
\* condition and an ORDER BY, Array.prototype.filter.
Keep(s, S) ==
  LET at == {i \in DOMAIN s : s[i] \in S}
      nth(k) == CHOOSE i \in at : Cardinality({j \in at : j <= i}) = k
  IN  [k \in 1..Cardinality(at) |-> s[nth(k)]]

Alive == Keep(order, Item \ deleted)

\* The rows that a list has before a row.
Ahead(s, x) == {y \in ToSet(s) : \E i, j \in DOMAIN s : i < j /\ s[i] = y /\ s[j] = x}

\* Array.prototype.slice and OFFSET ... LIMIT.
Slice(s, from, size) ==
  SubSeq(s, from + 1, IF from + size < Len(s) THEN from + size ELSE Len(s))

\* Mutant: pages are counted from 1.
FirstRow_FromOne(p, n) == IF p \in Nat THEN (p - 1) * n ELSE 0

\* page && limit ? page * limit : 0
FirstRow(p, n) == IF p \in Nat THEN p * n ELSE 0

\* Mutant: no row is added to see whether there is a next page.
SearchLimit_Exact(n) == n

SearchLimit(n) == n + 1

\* The page after p; the one after a page that was not given is not a number.
NextPage(p) == IF p \in Nat THEN p + 1 ELSE NaN

\* A call of FlowSearchService.search.
StartSearch(p, n) ==
  /\ page' = p
  /\ pc' = "queries"
  /\ read' = {}
  /\ offset' = FirstRow(p, n)
  /\ matching' = {} /\ sorted' = <<>> /\ refs' = <<>> /\ rows' = <<>>
  /\ total' = 0

SearchFlows(call) ==
  /\ pc = "idle"
  /\ batches' = call.batches
  /\ limit' = IF call.batches THEN BatchLimit ELSE call.limit
  /\ began' = FirstRow(call.page, limit')
  /\ StartSearch(call.page, limit')
  /\ UNCHANGED <<tableVars, kind, flooded, last, exported>>

-----------------------------------------------------------------------------
(* OnlyFlowFiltersStrategy: the page and the count, issued together.       *)

FindPage ==
  /\ pc = "queries" /\ kind = "onlyFlow" /\ "page" \notin read
  /\ rows' = Slice(Alive, offset, SearchLimit(limit))
  /\ read' = read \cup {"page"}
  /\ UNCHANGED <<tableVars, callVars, pc, page, matching, sorted, refs, total,
                 offset, flooded, last, exported>>

CountFlows ==
  /\ pc = "queries" /\ kind = "onlyFlow" /\ "count" \notin read
  /\ total' = Len(Alive)
  /\ read' = read \cup {"count"}
  /\ UNCHANGED <<tableVars, callVars, pc, page, matching, sorted, refs, rows,
                 offset, flooded, last, exported>>

-----------------------------------------------------------------------------
(* SearchFlowByFiltersStrategy: the filters (see FlowSearch) and the order, *)
(* issued together, then the rows of the page, batch after batch.          *)

FindMatching ==
  /\ pc = "queries" /\ kind # "onlyFlow" /\ "matching" \notin read
  /\ matching' = ToSet(IF kind = "flowFilter" THEN Alive ELSE order)
  /\ read' = read \cup {"matching"}
  /\ UNCHANGED <<tableVars, callVars, pc, page, sorted, refs, rows, total,
                 offset, flooded, last, exported>>

FindOrder ==
  /\ pc = "queries" /\ kind # "onlyFlow" /\ "order" \notin read
  /\ sorted' = order
  /\ read' = read \cup {"order"}
  /\ UNCHANGED <<tableVars, callVars, pc, page, matching, refs, rows, total,
                 offset, flooded, last, exported>>

\* Mutant: the order of the set of matches, not of the sort query.
SortMatching_Unsorted == SetToSeq(matching)

SortMatching ==
  IF sorted = <<>> THEN SetToSeq(matching)
                   ELSE Keep(sorted, matching)

Combine ==
  /\ pc = "queries" /\ {"matching", "order"} \subseteq read
  /\ refs' = SortMatching
  /\ total' = Len(refs')
  /\ pc' = IF matching = {} THEN "respond" ELSE "batch"
  /\ UNCHANGED <<tableVars, callVars, page, read, matching, sorted, rows,
                 offset, flooded, last, exported>>

\* buildSearchFlowsConditions and getFlows for one slice of the references.  For
\* no references it asks for a disjunction of no conditions: no row, or every
\* row if the library leaves it out, which is not decided in this repository.
RowsOf(slice) ==
  {Keep(Alive, ToSet(slice))} \cup {s \in {Alive} : slice = <<>>}

\* One batch is added to the rows, and the next one begins step further on.
AddBatch(slice, new, enough, step) ==
  /\ rows' = rows \o new
  /\ flooded' = (flooded \/ (slice = <<>> /\ new # <<>>))
  /\ IF enough THEN pc' = "respond" /\ UNCHANGED offset
               ELSE pc' = pc /\ offset' = offset + step
  /\ UNCHANGED <<tableVars, callVars, page, read, matching, sorted, refs, total,
                 last, exported>>

\* Exactly a batch of rows is found, or the references are used up.
Enough(slice, new) ==
  Len(rows \o new) = SearchLimit(limit) \/ Len(slice) < SearchLimit(limit)

\* Mutant: one batch has to do.
NextBatch_Once ==
  /\ pc = "batch"
  /\ LET slice == Slice(refs, offset, SearchLimit(limit)) IN
       \E new \in RowsOf(slice) : AddBatch(slice, new, TRUE, SearchLimit(limit))

\* Mutant: the offset is advanced by the limit, not by the size of a batch.
NextBatch_Overlap ==
  /\ pc = "batch"
  /\ LET slice == Slice(refs, offset, SearchLimit(limit)) IN
       \E new \in RowsOf(slice) : AddBatch(slice, new, Enough(slice, new), limit)

\* Mutant: the offset is advanced by the rows found, not by the size of a batch.
NextBatch_ByFound ==
  /\ pc = "batch"
  /\ LET slice == Slice(refs, offset, SearchLimit(limit)) IN
       \E new \in RowsOf(slice) :
         AddBatch(slice, new, Enough(slice, new), Len(new))

\* progresiveSearch, one turn of its recursion.
NextBatch ==
  /\ pc = "batch"
  /\ LET slice == Slice(refs, offset, SearchLimit(limit)) IN
       \E new \in RowsOf(slice) :
         AddBatch(slice, new, Enough(slice, new), SearchLimit(limit))

-----------------------------------------------------------------------------
Answered == pc = "respond" \/ (pc = "queries" /\ read = {"page", "count"})

\* Mutant: the row beyond the page is not removed.
Response_NoPop == [flows |-> rows, hasNextPage |-> Len(rows) > limit]

\* Mutant: a full page counts as one with a next page.
Response_Full == [flows |-> rows, hasNextPage |-> Len(rows) >= limit]

Response ==
  LET hasNext == Len(rows) > limit IN
    [flows |-> IF hasNext THEN Front(rows) ELSE rows, hasNextPage |-> hasNext]

\* One page is the answer; searchBatches asks for the next one while there is.
Respond ==
  /\ Answered
  /\ last' = Response
  /\ exported' = Slice(exported \o Response.flows, 0, MaxExported)
  /\ IF batches /\ Response.hasNextPage
       THEN /\ page # MaxPages
            /\ StartSearch(NextPage(page), limit)
            /\ UNCHANGED callVars
       ELSE /\ pc' = "done"
            /\ UNCHANGED <<callVars, page, queryVars, offset>>
  /\ UNCHANGED <<tableVars, flooded>>

-----------------------------------------------------------------------------
(* The services that write flows (external).                               *)

Write(x) ==
  /\ pc \notin {"idle", "done"}
  /\ Cardinality(touched) < MaxWrites
  /\ touched' = touched \cup {x}
  /\ pulled' = pulled \cup {y \in ToSet(order) :
                 x \in Ahead(order, y) /\ x \notin Ahead(order', y) \ deleted'}
  /\ UNCHANGED <<callVars, pc, page, queryVars, offset, flooded, last, exported>>

\* A row that is new or updated takes the place its columns give it: the first
\* one under the default order, updatedAt desc, any under another.
Put(x) ==
  /\ x \notin touched \cup deleted
  /\ LET others == Keep(order, Item \ {x}) IN
       \E i \in 1..Len(others) + 1 : order' = InsertAt(others, i, x)
  /\ UNCHANGED deleted
  /\ Write(x)

SoftDelete(x) ==
  /\ x \in ToSet(order) \ (touched \cup deleted)
  /\ deleted' = deleted \cup {x}
  /\ UNCHANGED order
  /\ Write(x)

Serve ==
  \/ FindPage \/ CountFlows
  \/ FindMatching \/ FindOrder \/ Combine
  \/ NextBatch
  \/ Respond

Next ==
  \/ \E call \in Calls : SearchFlows(call)
  \/ Serve
  \/ \E x \in Item : Put(x) \/ SoftDelete(x)

Spec == Init /\ [][Next]_vars

\* The database answers every query in the end.
FairSpec == Spec /\ WF_vars(Serve)

-----------------------------------------------------------------------------
(* Properties.                                                             *)

\* Every variable keeps its type, and the tables name a row once.
TypeOK ==
  /\ order \in Seq(Item) /\ IsInjective(order)
  /\ deleted \subseteq ToSet(order)
  /\ kind \in Kind /\ batches \in BOOLEAN /\ limit \in Nat \ {0}
  /\ pc \in {"idle", "queries", "batch", "respond", "done"}
  /\ page \in Page
  /\ read \subseteq {"page", "count", "matching", "order"}
  /\ matching \subseteq Item
  /\ \A s \in {sorted, refs, rows, last.flows, exported} : s \in Seq(Item)
  /\ {offset, total, began} \subseteq Nat
  /\ flooded \in BOOLEAN
  /\ touched \subseteq Item /\ pulled \subseteq Item

Untouched == ToSet(Alive) \ touched

\* A row was deleted since the call began.
Removed == touched \cap deleted # {}

\* The first row of the page that is being read.
Base == FirstRow(page, limit)

\* The tables of flow objects and categories keep rows of deleted flows, which
\* a search by those filters finds and has to drop again.
KeepsDeleted == kind = "otherFilter" /\ deleted # {}

\* The model may have dropped collected flows; the code never does.
Cut == Len(exported) = MaxExported

\* searchBatches exports every flow that was left alone and kept the flows
\* ahead of it, whatever is inserted, updated or deleted between two pages:
\* such a flow is only ever pushed to later pages, never past the one being
\* read.  Under the default order, updatedAt desc, a write moves a row to the
\* front, so that only a deletion ahead of a flow can hide it from an export;
\* under another order an update that moves a row behind it can as well.
UntouchedExported ==
  pc = "done" /\ batches /\ began = 0 /\ ~Cut =>
    Untouched \ pulled \subseteq ToSet(exported)

\* While nobody writes, a page is exactly its slice of the flows that exist,
\* an export all of them, each once and in order, and total counts them.  A
\* batch of no references, which might have every row, is only ever asked for
\* by a page that begins past the end.
ExactWhenQuiet ==
  /\ pc = "done" /\ touched = {} /\ ~KeepsDeleted /\ ~Cut
  /\ began < Len(Alive) \/ ~flooded
  => /\ exported = Slice(Alive, began, IF batches THEN Len(Alive) ELSE limit)
     /\ total = Len(Alive)
     /\ last.hasNextPage <=> ~batches /\ began + limit < Len(Alive)

\* A response without a next page holds every flow the search found from its
\* own first row on that still exists, also when progresiveSearch met deleted
\* rows and had to go on to further batches.
LastPageReachesEnd ==
  pc = "done" /\ kind # "onlyFlow" /\ ~last.hasNextPage =>
    \A i \in DOMAIN refs :
      i > Base /\ refs[i] \in Untouched => refs[i] \in ToSet(last.flows)

\* A page is never longer than asked for, as long as the references hold no
\* deleted flow: a batch then yields all its rows at once.
PagesFit ==
  ~Removed /\ ~KeepsDeleted /\ ~flooded => Len(last.flows) <= limit

\* A page shows no flow twice, although progresiveSearch appends batch after
\* batch while flows are written and take other places.
OncePerPage == ~flooded => IsInjective(last.flows)

\* An export asks for a further page only at an offset inside the table, so
\* it ends after as many pages as there are flows: the bound behind CallsEnd.
ExportWithinTable ==
  page \in Nat /\ Base # began /\ ~flooded => Base < Len(order)


\* Every call ends: the batches of a page and the pages of an export are used
\* up, although new flows push the end away.  Were every row the answer to a
\* batch of no references, each page of an export would have a next one.
CallsEnd == pc # "idle" ~> pc = "done" \/ flooded
=============================================================================
