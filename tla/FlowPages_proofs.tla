-------------------------- MODULE FlowPages_proofs ---------------------------
(***************************************************************************)
(* What a page and an export return, for every table, every call and every *)
(* order of the queries and of the writes of other services.               *)
(***************************************************************************)
EXTENDS RowLists_proofs

-----------------------------------------------------------------------------
(* The tables, the first row of a page, the response.                      *)

LEMMA StoredRows ==
  ASSUME NEW s \in Seq(Item) PROVE ToSet(s) \subseteq Item
<1>1. \A i \in DOMAIN s : s[i] \in Item
  BY ElementOfSeq
<1> QED BY <1>1 DEF ToSet

LEMMA AliveRows ==
  ASSUME TypeOK
  PROVE  /\ Alive \in Seq(Item) /\ IsInjective(Alive)
         /\ ToSet(Alive) = ToSet(order) \ deleted
<1>1. order \in Seq(Item) /\ IsInjective(order) /\ ToSet(order) \subseteq Item
  BY StoredRows DEF TypeOK
<1>2. Alive \in Seq(Item) /\ ToSet(Alive) = ToSet(order) \cap (Item \ deleted)
  BY <1>1, KeepType, KeepSet DEF Alive
<1>3. IsInjective(Alive)
  BY <1>1, KeepInjective DEF Alive
<1> QED BY <1>1, <1>2, <1>3

\* A row that is put takes none from ahead of another, unless it pulls that one.
LEMMA PutOrder ==
  ASSUME TypeOK, NEW x \in Item, Put(x)
  PROVE  /\ order' \in Seq(Item) /\ IsInjective(order')
         /\ ToSet(order') = {x} \cup ToSet(order)
         /\ \A y \in ToSet(order) \ {x} :
              /\ y \in pulled' \/ Ahead(order, y) \subseteq Ahead(order', y)
              /\ Ahead(order', y) \subseteq {x} \cup Ahead(order, y)
<1> DEFINE kept == Keep(order, Item \ {x})
<1>1. order \in Seq(Item) /\ IsInjective(order) /\ ToSet(order) \subseteq Item
  BY StoredRows DEF TypeOK
<1>2. /\ kept \in Seq(Item) /\ ToSet(kept) = ToSet(order) \ {x}
      /\ IsInjective(kept)
  BY <1>1, KeepType, KeepSet, KeepInjective
<1>3. \A y \in ToSet(order) \ {x} : Ahead(kept, y) = Ahead(order, y) \cap (Item \ {x})
  BY <1>1, AheadKeep
<1>4. PICK i \in 1..Len(kept) + 1 : order' = InsertAt(kept, i, x)
  BY DEF Put
<1> HIDE DEF kept
<1>5. /\ order' \in Seq(Item) /\ IsInjective(order')
      /\ ToSet(order') = {x} \cup ToSet(kept)
      /\ \A y \in ToSet(kept) : /\ Ahead(kept, y) \subseteq Ahead(order', y)
                               /\ Ahead(order', y) \subseteq {x} \cup Ahead(kept, y)
  BY <1>2, <1>4, PutAt
<1>6. \A y : Ahead(order, y) \subseteq ToSet(order)
  BY DEF Ahead
<1>7. ASSUME NEW y \in ToSet(order) \ {x}, y \notin pulled'
      PROVE  Ahead(order, y) \subseteq Ahead(order', y)
  <2>1. x \in Ahead(order, y) => x \in Ahead(order', y)
    BY <1>7 DEF Put, Write
  <2>2. Ahead(order, y) \ {x} \subseteq Ahead(order', y)
    BY <1>1, <1>2, <1>3, <1>5, <1>6
  <2> QED BY <2>1, <2>2
<1>8. \A y \in ToSet(order) \ {x} : Ahead(order', y) \subseteq {x} \cup Ahead(order, y)
  BY <1>2, <1>3, <1>5
<1> QED BY <1>1, <1>2, <1>5, <1>7, <1>8

LEMMA FirstRowType ==
  ASSUME NEW p \in Page, NEW n \in Nat
  PROVE  /\ FirstRow(p, n) \in Nat
         /\ NextPage(p) \in Page
<1>1. \A a \in Nat : a * n \in Nat /\ a + 1 \in Nat
  OBVIOUS
<1> QED BY <1>1 DEF FirstRow, NextPage, Page

LEMMA ResponseRows ==
  ASSUME rows \in Seq(Item), limit \in Nat \ {0}
  PROVE  /\ Response.flows \in Seq(Item)
         /\ Response.hasNextPage \in BOOLEAN
         /\ Response.hasNextPage = (Len(rows) > limit)
         /\ Len(rows) > limit => /\ Response.flows = Front(rows)
                                 /\ Len(Response.flows) = Len(rows) - 1
         /\ ~(Len(rows) > limit) => Response.flows = rows
<1>1. Response.hasNextPage = (Len(rows) > limit)
  BY DEF Response
<1>2. Len(rows) > limit => Response.flows = Front(rows)
  BY DEF Response
<1>3. ~(Len(rows) > limit) => Response.flows = rows
  BY DEF Response
<1>4. Len(rows) > limit => Front(rows) \in Seq(Item) /\ Len(Front(rows)) = Len(rows) - 1
  <2> SUFFICES ASSUME Len(rows) > limit
               PROVE  Front(rows) \in Seq(Item) /\ Len(Front(rows)) = Len(rows) - 1
    OBVIOUS
  <2>1. Len(rows) > 0
    <3>1. Len(rows) \in Nat
      OBVIOUS
    <3> QED BY <3>1
  <2> QED BY <2>1, FrontType
<1> QED BY <1>1, <1>2, <1>3, <1>4

LEMMA EmptyRows == <<>> \in Seq(Item) /\ IsInjective(<<>>) /\ ToSet(<<>>) = {}
BY DEF IsInjective, ToSet

LEMMA EmptySet ==
  ASSUME NEW T, NEW s \in Seq(T), ToSet(s) = {} PROVE s = <<>>
<1>1. Len(s) \in Nat /\ DOMAIN s = 1..Len(s)
  OBVIOUS
<1>2. Len(s) > 0 => 1 \in 1..Len(s)
  BY <1>1
<1>3. \A i \in DOMAIN s : s[i] \in ToSet(s)
  BY DEF ToSet
<1>4. ~(Len(s) > 0)
  BY <1>1, <1>2, <1>3
<1> QED BY <1>1, <1>4, EmptySeq

\* What progresiveSearch adds in one turn: the rows of the references that are
\* alive, and for no references either none or all that are.
LEMMA BatchStep ==
  ASSUME TypeOK, NextBatch
  PROVE  LET slice == Slice(refs, offset, SearchLimit(limit)) IN
           \E new \in Seq(Item) :
             /\ AddBatch(slice, new, Enough(slice, new), SearchLimit(limit))
             /\ IsInjective(new)
             /\ ToSet(Alive) \cap ToSet(slice) \subseteq ToSet(new)
             /\ slice # <<>> \/ ~flooded' => new = Keep(Alive, ToSet(slice))
<1> DEFINE slice == Slice(refs, offset, SearchLimit(limit))
<1> DEFINE kept == Keep(Alive, ToSet(slice))
<1>1. PICK new \in RowsOf(slice) :
        AddBatch(slice, new, Enough(slice, new), SearchLimit(limit))
  BY DEF NextBatch
<1>2. Alive \in Seq(Item) /\ IsInjective(Alive)
  BY AliveRows
<1>3. /\ kept \in Seq(Item) /\ IsInjective(kept)
      /\ ToSet(kept) = ToSet(Alive) \cap ToSet(slice)
  BY <1>2, KeepType, KeepSet, KeepInjective
<1>4. new = kept \/ (slice = <<>> /\ new = Alive)
  BY <1>1 DEF RowsOf
<1>5. flooded' = (flooded \/ (slice = <<>> /\ new # <<>>))
  BY <1>1 DEF AddBatch
<1>6. slice = <<>> => ToSet(slice) = {}
  BY EmptyRows
<1> HIDE DEF kept, slice
<1>7. slice = <<>> => kept = <<>>
  BY <1>3, <1>6, EmptySet
<1>8. slice # <<>> \/ ~flooded' => new = kept
  BY <1>4, <1>5, <1>7
<1>9. new \in Seq(Item) /\ IsInjective(new) /\ ToSet(Alive) \cap ToSet(slice) \subseteq ToSet(new)
  BY <1>2, <1>3, <1>4
<1> QED BY <1>1, <1>8, <1>9 DEF kept, slice

-----------------------------------------------------------------------------
(* Types.                                                                  *)

TypeInv ==
  /\ TypeOK
  /\ last.hasNextPage \in BOOLEAN
  /\ IsFiniteSet(matching)

LEMMA InitTypes == Init => TypeInv
<1> SUFFICES ASSUME Init PROVE TypeInv
  OBVIOUS
<1>1. order \in Seq(Item) /\ IsInjective(order)
  BY PagesAssumption DEF Init
<1>2. deleted \subseteq ToSet(order) /\ kind \in Kind
  BY PagesAssumption DEF Init
<1>3. page \in Page
  BY DEF Init, Page
<1>4. last.flows = <<>> /\ last.hasNextPage = FALSE
  BY DEF Init, NoResponse
<1>5. IsFiniteSet(matching)
  BY FS_EmptySet DEF Init
<1>6. \A s \in {sorted, refs, rows, last.flows, exported} : s \in Seq(Item)
  BY <1>4, EmptyRows DEF Init
<1>7. {offset, total, began} \subseteq Nat /\ limit \in Nat \ {0}
  BY DEF Init
<1>8. /\ batches \in BOOLEAN /\ flooded \in BOOLEAN /\ touched \subseteq Item /\ pulled \subseteq Item
      /\ pc = "idle" /\ read = {} /\ matching = {}
  BY DEF Init
<1> QED BY <1>1, <1>2, <1>3, <1>4, <1>5, <1>6, <1>7, <1>8 DEF TypeInv, TypeOK

LEMMA StartTypes ==
  ASSUME NEW p \in Page, NEW n \in Nat, StartSearch(p, n)
  PROVE  /\ page' \in Page /\ pc' = "queries" /\ read' = {}
         /\ offset' \in Nat /\ total' = 0
         /\ matching' = {} /\ IsFiniteSet(matching')
         /\ sorted' = <<>> /\ refs' = <<>> /\ rows' = <<>>
BY FirstRowType, FS_EmptySet DEF StartSearch

LEMMA WriteTypes ==
  ASSUME TypeOK, NEW x \in Item, Write(x)
  PROVE  touched' \subseteq Item /\ pulled' \subseteq Item
<1>1. ToSet(order) \subseteq Item
  BY StoredRows DEF TypeOK
<1>2. touched \subseteq Item /\ pulled \subseteq Item
  BY DEF TypeOK
<1>3. touched' = touched \cup {x}
  BY DEF Write
<1>4. pulled' \subseteq pulled \cup ToSet(order)
  BY DEF Write
<1> QED BY <1>1, <1>2, <1>3, <1>4

LEMMA NextTypes ==
  ASSUME TypeInv, [Next]_vars PROVE TypeInv'
<1> USE DEF TypeInv, TypeOK
<1>1. CASE UNCHANGED vars
  BY <1>1 DEF vars, tableVars, callVars, queryVars
<1>2. ASSUME NEW call \in Calls, SearchFlows(call) PROVE TypeInv'
  <2>1. /\ call.batches \in BOOLEAN /\ call.limit \in Nat \ {0} /\ call.page \in Page
        /\ BatchLimit \in Nat \ {0}
    BY PagesAssumption DEF Call, Page
  <2>2. batches' \in BOOLEAN /\ limit' \in Nat \ {0} /\ StartSearch(call.page, limit')
    BY <1>2, <2>1 DEF SearchFlows
  <2>3. began' \in Nat
    BY <1>2, <2>1, <2>2, FirstRowType DEF SearchFlows
  <2>4. /\ page' \in Page /\ pc' = "queries" /\ read' = {}
        /\ offset' \in Nat /\ total' = 0
        /\ matching' = {} /\ IsFiniteSet(matching')
        /\ sorted' = <<>> /\ refs' = <<>> /\ rows' = <<>>
    BY <2>1, <2>2, StartTypes
  <2>5. UNCHANGED <<tableVars, kind, flooded, last, exported>>
    BY <1>2 DEF SearchFlows
  <2> QED BY <2>2, <2>3, <2>4, <2>5, EmptyRows DEF tableVars
<1>3. CASE FindPage
  <2>1. SearchLimit(limit) \in Nat
    BY DEF SearchLimit
  <2>2. rows' \in Seq(Item)
    BY <1>3, <2>1, AliveRows, SliceType DEF FindPage
  <2> QED BY <1>3, <2>2 DEF FindPage, tableVars, callVars
<1>4. CASE CountFlows
  <2>1. total' \in Nat
    BY <1>4, AliveRows DEF CountFlows
  <2> QED BY <1>4, <2>1 DEF CountFlows, tableVars, callVars
<1>5. CASE FindMatching
  <2>1. matching' = ToSet(Alive) \/ matching' = ToSet(order)
    BY <1>5 DEF FindMatching
  <2>2. matching' \subseteq Item /\ IsFiniteSet(matching')
    BY <2>1, AliveRows, StoredRows, ListCount
  <2> QED BY <1>5, <2>2 DEF FindMatching, tableVars, callVars
<1>6. CASE FindOrder
  BY <1>6 DEF FindOrder, tableVars, callVars
<1>7. CASE Combine
  <2>1. SetToSeq(matching) \in Seq(Item)
    <3>1. SetToSeq(matching) \in Seq(matching) /\ matching \subseteq Item
      BY ListOfSet
    <3> QED BY <3>1
  <2>2. Keep(sorted, matching) \in Seq(Item)
    BY KeepType
  <2>3. refs' \in Seq(Item) /\ total' = Len(refs')
    BY <1>7, <2>1, <2>2 DEF Combine, SortMatching
  <2> QED BY <1>7, <2>3 DEF Combine, tableVars, callVars
<1>8. CASE NextBatch
  <2>1. SearchLimit(limit) \in Nat
    BY DEF SearchLimit
  <2>2. PICK new \in Seq(Item) : rows' = rows \o new
    BY <1>8, BatchStep DEF AddBatch
  <2>3. rows' \in Seq(Item)
    BY <2>2, ConcatProperties
  <2>4. offset' \in Nat /\ pc' \in {"batch", "respond"} /\ flooded' \in BOOLEAN
    BY <1>8, <2>1 DEF NextBatch, AddBatch
  <2> QED BY <1>8, <2>3, <2>4 DEF NextBatch, AddBatch, tableVars, callVars
<1>9. CASE Respond
  <2>1. last'.flows \in Seq(Item) /\ last'.hasNextPage \in BOOLEAN
    BY <1>9, ResponseRows DEF Respond
  <2>2. exported' \in Seq(Item)
    <3>1. exported \o Response.flows \in Seq(Item)
      BY ResponseRows, ConcatProperties
    <3> QED BY <1>9, <3>1, SliceType, PagesAssumption DEF Respond
  <2>3. CASE StartSearch(NextPage(page), limit) /\ UNCHANGED callVars
    <3>1. NextPage(page) \in Page
      BY FirstRowType
    <3>2. /\ page' \in Page /\ pc' = "queries" /\ read' = {}
          /\ offset' \in Nat /\ total' = 0
          /\ matching' = {} /\ IsFiniteSet(matching')
          /\ sorted' = <<>> /\ refs' = <<>> /\ rows' = <<>>
      BY <2>3, <3>1, StartTypes
    <3> QED BY <1>9, <2>1, <2>2, <2>3, <3>2, EmptyRows DEF Respond, tableVars, callVars
  <2>4. CASE pc' = "done" /\ UNCHANGED <<callVars, page, queryVars, offset>>
    BY <1>9, <2>1, <2>2, <2>4 DEF Respond, tableVars, callVars, queryVars
  <2> QED BY <1>9, <2>3, <2>4 DEF Respond
<1>10. ASSUME NEW x \in Item, Put(x) PROVE TypeInv'
  <2>1. order' \in Seq(Item) /\ IsInjective(order') /\ deleted' \subseteq ToSet(order')
    BY <1>10, PutOrder DEF Put
  <2>2. touched' \subseteq Item /\ pulled' \subseteq Item
    <3>1. Write(x)
      BY <1>10 DEF Put
    <3> QED BY <3>1, WriteTypes
  <2> QED BY <1>10, <2>1, <2>2 DEF Put, Write, callVars, queryVars
<1>11. ASSUME NEW x \in Item, SoftDelete(x) PROVE TypeInv'
  <2>1. touched' \subseteq Item /\ pulled' \subseteq Item
    <3>1. Write(x)
      BY <1>11 DEF SoftDelete
    <3> QED BY <3>1, WriteTypes
  <2>2. deleted' \subseteq ToSet(order') /\ order' = order
    BY <1>11 DEF SoftDelete
  <2> QED BY <1>11, <2>1, <2>2 DEF SoftDelete, Write, callVars, queryVars
<1> QED
  BY <1>1, <1>2, <1>3, <1>4, <1>5, <1>6, <1>7, <1>8, <1>9, <1>10, <1>11
     DEF Next, Serve

\* Every variable keeps its type, and a table names a row once, whatever the
\* services that write flows do between two queries of a call.
THEOREM TypeCorrect == Spec => [](TypeInv /\ TypeOK)
<1>1. TypeInv => TypeOK
  BY DEF TypeInv
<1> QED BY <1>1, InitTypes, NextTypes, PTL DEF Spec

-----------------------------------------------------------------------------
(* Where a call is, and the lists it has.                                  *)

Places ==
  /\ pc \in {"batch", "respond"} => kind # "onlyFlow"
  /\ kind = "onlyFlow" => read \subseteq {"page", "count"}
  /\ kind # "onlyFlow" => read \subseteq {"matching", "order"}
  /\ pc = "queries" => offset = Base
  /\ pc = "queries" /\ "page" \notin read => rows = <<>>
  /\ pc = "queries" => refs = <<>>
  /\ pc = "idle" => last = NoResponse /\ exported = <<>>

Lists ==
  /\ matching \subseteq ToSet(order)
  /\ IsInjective(sorted) /\ ToSet(sorted) \subseteq ToSet(order)
  /\ IsInjective(refs) /\ ToSet(refs) \subseteq matching

CallInv == TypeInv /\ Places /\ Lists

LEMMA InitCall == Init => CallInv
BY InitTypes, EmptyRows DEF CallInv, Places, Lists, Init

LEMMA Numbers ==
  ASSUME TypeInv
  PROVE  /\ Base \in Nat /\ offset \in Nat /\ began \in Nat
         /\ limit \in Nat /\ limit >= 1
         /\ SearchLimit(limit) \in Nat /\ SearchLimit(limit) = limit + 1
         /\ refs \in Seq(Item) /\ Len(refs) \in Nat
         /\ rows \in Seq(Item) /\ Len(rows) \in Nat
<1>1. limit \in Nat /\ limit >= 1 /\ page \in Page
  BY DEF TypeInv, TypeOK
<1>2. Base \in Nat
  BY <1>1, FirstRowType DEF Base
<1> QED BY <1>1, <1>2 DEF TypeInv, TypeOK, SearchLimit

LEMMA SortedMatches ==
  ASSUME TypeInv, Lists
  PROVE  IsInjective(SortMatching) /\ ToSet(SortMatching) \subseteq matching
<1>1. CASE sorted = <<>>
  BY <1>1, ListOfSet DEF SortMatching, TypeInv
<1>2. CASE sorted # <<>>
  BY <1>2, KeepInjective, KeepSet DEF SortMatching, TypeInv, TypeOK, Lists
<1> QED BY <1>1, <1>2

LEMMA NextPlaces ==
  ASSUME CallInv, [Next]_vars PROVE Places'
<1> USE DEF CallInv, Places, Base
<1>1. CASE UNCHANGED vars
  BY <1>1 DEF vars, tableVars, callVars, queryVars
<1>2. ASSUME NEW call \in Calls, SearchFlows(call) PROVE Places'
  BY <1>2 DEF SearchFlows, StartSearch
<1>3. CASE FindPage
  BY <1>3 DEF FindPage, tableVars, callVars
<1>4. CASE CountFlows
  BY <1>4 DEF CountFlows, tableVars, callVars
<1>5. CASE FindMatching
  BY <1>5 DEF FindMatching, tableVars, callVars
<1>6. CASE FindOrder
  BY <1>6 DEF FindOrder, tableVars, callVars
<1>7. CASE Combine
  <2>1. kind # "onlyFlow"
    BY <1>7 DEF Combine
  <2> QED BY <1>7, <2>1 DEF Combine, tableVars, callVars
<1>8. CASE NextBatch
  BY <1>8 DEF NextBatch, AddBatch, tableVars, callVars
<1>9. CASE Respond
  <2>1. pc' \in {"queries", "done"} /\ UNCHANGED callVars
    BY <1>9 DEF Respond, StartSearch
  <2>2. pc' = "queries" => /\ read' = {} /\ offset' = FirstRow(page', limit)
                           /\ rows' = <<>> /\ refs' = <<>>
    BY <1>9 DEF Respond, StartSearch
  <2>3. pc' = "done" => read' = read
    BY <1>9 DEF Respond, StartSearch, queryVars
  <2> QED BY <2>1, <2>2, <2>3 DEF callVars
<1>10. ASSUME NEW x \in Item, Put(x) \/ SoftDelete(x) PROVE Places'
  BY <1>10 DEF Put, SoftDelete, Write, callVars, queryVars
<1> QED
  BY <1>1, <1>2, <1>3, <1>4, <1>5, <1>6, <1>7, <1>8, <1>9, <1>10 DEF Next, Serve

LEMMA NextLists ==
  ASSUME CallInv, [Next]_vars PROVE Lists'
<1> USE DEF CallInv, Lists
<1>1. CASE UNCHANGED vars
  BY <1>1 DEF vars, tableVars, callVars, queryVars
<1>2. ASSUME NEW call \in Calls, SearchFlows(call) PROVE Lists'
  BY <1>2, EmptyRows DEF SearchFlows, StartSearch
<1>3. CASE FindPage \/ CountFlows \/ NextBatch
  BY <1>3 DEF FindPage, CountFlows, NextBatch, AddBatch, tableVars
<1>4. CASE FindMatching
  <2>1. matching' = ToSet(Alive) \/ matching' = ToSet(order)
    BY <1>4 DEF FindMatching
  <2>2. matching' \subseteq ToSet(order)
    BY <2>1, AliveRows DEF TypeInv
  <2>3. refs' = refs
    BY <1>4 DEF FindMatching
  <2>4. refs = <<>>
    BY <1>4 DEF FindMatching, Places
  <2> QED BY <1>4, <2>2, <2>3, <2>4, EmptyRows DEF FindMatching, tableVars
<1>5. CASE FindOrder
  BY <1>5 DEF FindOrder, tableVars, TypeInv, TypeOK
<1>6. CASE Combine
  BY <1>6, SortedMatches DEF Combine, tableVars
<1>7. CASE Respond
  BY <1>7, EmptyRows DEF Respond, StartSearch, tableVars, queryVars
<1>8. ASSUME NEW x \in Item, Put(x) PROVE Lists'
  <2>1. ToSet(order) \subseteq ToSet(order')
    BY <1>8, PutOrder DEF TypeInv
  <2> QED BY <1>8, <2>1 DEF Put, Write, queryVars
<1>9. ASSUME NEW x \in Item, SoftDelete(x) PROVE Lists'
  BY <1>9 DEF SoftDelete, Write, queryVars
<1> QED
  BY <1>1, <1>2, <1>3, <1>4, <1>5, <1>6, <1>7, <1>8, <1>9 DEF Next, Serve

LEMMA NextCall == CallInv /\ [Next]_vars => CallInv'
BY NextTypes, NextPlaces, NextLists DEF CallInv

LEMMA CallHolds == Spec => []CallInv
BY InitCall, NextCall, PTL DEF Spec

-----------------------------------------------------------------------------
(* A response without a next page reaches the end of the references.       *)

LEMMA UntouchedRows ==
  ASSUME TypeOK PROVE Untouched = ToSet(order) \ (deleted \cup touched)
BY AliveRows DEF Untouched

\* No write makes a row one that was left alone.
LEMMA UntouchedShrinks ==
  ASSUME TypeOK, NEW x \in Item, Put(x) \/ SoftDelete(x)
  PROVE  Untouched' \subseteq Untouched \ {x}
<1>1. Alive' = Keep(order', Item \ deleted')
  BY DEF Alive
<1>2. ASSUME NEW s \in Seq(Item), NEW D PROVE ToSet(Keep(s, Item \ D)) = ToSet(s) \ D
  BY KeepSet, StoredRows
<1>3. CASE Put(x)
  <2>1. order' \in Seq(Item) /\ ToSet(order') = {x} \cup ToSet(order)
    BY <1>3, PutOrder
  <2>2. deleted' = deleted /\ touched' = touched \cup {x}
    BY <1>3 DEF Put, Write
  <2>3. ToSet(Alive') = ToSet(order') \ deleted'
    BY <1>1, <1>2, <2>1
  <2> QED BY <2>1, <2>2, <2>3, UntouchedRows DEF Untouched
<1>4. CASE SoftDelete(x)
  <2>1. order' = order /\ deleted' = deleted \cup {x} /\ touched' = touched \cup {x}
    BY <1>4 DEF SoftDelete, Write
  <2>2. ToSet(Alive') = ToSet(order') \ deleted'
    BY <1>1, <1>2, <2>1 DEF TypeOK
  <2> QED BY <2>1, <2>2, UntouchedRows DEF Untouched
<1> QED BY <1>3, <1>4

LEMMA UntouchedStays ==
  UNCHANGED tableVars => Untouched' = Untouched /\ Alive' = Alive
BY DEF tableVars, Untouched, Alive

\* The references a batch has taken up to one of them have been answered.
Answers(from, upto) ==
  \A i \in DOMAIN refs :
    from < i /\ i <= upto /\ refs[i] \in Untouched => refs[i] \in ToSet(rows)

Reach ==
  /\ pc = "batch" => Base <= offset /\ Answers(Base, offset)
  /\ pc = "respond" => Len(rows) > limit \/ Answers(Base, Len(refs))

LEMMA BatchAnswers ==
  ASSUME CallInv, NextBatch, Base <= offset, Answers(Base, offset)
  PROVE  /\ \A i \in DOMAIN refs :
              Base < i /\ i <= offset + SearchLimit(limit) /\ refs[i] \in Untouched
                => refs[i] \in ToSet(rows')
<1> DEFINE size == SearchLimit(limit)
<1> DEFINE slice == Slice(refs, offset, size)
<1>1. /\ size \in Nat /\ offset \in Nat /\ refs \in Seq(Item) /\ rows \in Seq(Item)
      /\ Base \in Nat /\ Len(refs) \in Nat
  BY Numbers DEF CallInv
<1>2. PICK new \in Seq(Item) :
        rows' = rows \o new /\ ToSet(Alive) \cap ToSet(slice) \subseteq ToSet(new)
  BY BatchStep DEF AddBatch, CallInv, TypeInv
<1>3. ToSet(slice) = {refs[i] : i \in {j \in 1..Len(refs) : offset < j /\ j <= offset + size}}
  BY <1>1, SliceSet
<1> HIDE DEF slice
<1>4. ToSet(rows') = ToSet(rows) \cup ToSet(new)
  BY <1>1, <1>2, ConcatSet
<1> SUFFICES ASSUME NEW i \in DOMAIN refs, Base < i, i <= offset + size, refs[i] \in Untouched
             PROVE  refs[i] \in ToSet(rows')
  OBVIOUS
<1>5. CASE i <= offset
  BY <1>4, <1>5 DEF Answers
<1>6. CASE ~(i <= offset)
  <2>1. i \in 1..Len(refs) /\ offset < i
    BY <1>1, <1>6
  <2>2. refs[i] \in ToSet(slice)
    BY <1>3, <2>1
  <2>3. refs[i] \in ToSet(Alive)
    BY DEF Untouched
  <2> QED BY <1>2, <1>4, <2>2, <2>3
<1> QED BY <1>5, <1>6

LEMMA NextReach ==
  ASSUME CallInv, Reach, [Next]_vars PROVE Reach'
<1> USE DEF Reach
<1>1. CASE UNCHANGED <<tableVars, callVars, page, pc, refs, rows, offset>>
  BY <1>1, UntouchedStays DEF Answers, Base, callVars
<1>2. CASE pc' \notin {"batch", "respond"}
  BY <1>2
<1>3. CASE Combine
  <2>1. pc = "queries" /\ offset = Base /\ Base \in Nat
    BY <1>3, FirstRowType DEF Combine, CallInv, Places, Base, TypeInv, TypeOK
  <2>2. Base' = Base /\ offset' = offset
    BY <1>3 DEF Combine, Base, callVars
  <2>3. CASE matching = {}
    <3>1. pc' = "respond" /\ ToSet(refs') = {}
      BY <1>3, <2>3, SortedMatches DEF Combine, CallInv
    <3>2. DOMAIN refs' = {}
      BY <3>1 DEF ToSet
    <3> QED BY <3>1, <3>2 DEF Answers
  <2>4. CASE matching # {}
    <3>1. pc' = "batch"
      BY <1>3, <2>4 DEF Combine
    <3>2. \A i \in DOMAIN refs' : ~(Base < i /\ i <= Base)
      <4>1. DOMAIN refs' \subseteq Int
        <5>1. SortMatching \in Seq(Item)
          BY ListOfSet, KeepType DEF CallInv, TypeInv, TypeOK, SortMatching
        <5>2. refs' = SortMatching
          BY <1>3 DEF Combine
        <5> QED BY <5>1, <5>2
      <4> QED BY <2>1, <4>1
    <3> QED BY <2>1, <2>2, <3>1, <3>2 DEF Answers
  <2> QED BY <2>3, <2>4
<1>4. CASE NextBatch
  <2> DEFINE size == SearchLimit(limit)
  <2> DEFINE slice == Slice(refs, offset, size)
  <2>1. /\ size \in Nat /\ size = limit + 1 /\ limit \in Nat /\ offset \in Nat
        /\ refs \in Seq(Item) /\ Base \in Nat /\ Len(refs) \in Nat
    BY Numbers DEF CallInv
  <2>2. /\ Base' = Base /\ refs' = refs /\ UNCHANGED tableVars /\ limit' = limit
        /\ pc = "batch"
    BY <1>4 DEF NextBatch, AddBatch, callVars, Base
  <2>3. \A i \in DOMAIN refs :
          Base < i /\ i <= offset + size /\ refs[i] \in Untouched => refs[i] \in ToSet(rows')
    BY <1>4, <2>2, BatchAnswers
  <2>4. Untouched' = Untouched
    BY <2>2, UntouchedStays
  <2>5. CASE pc' = "batch"
    <3>1. offset' = offset + size
      BY <1>4, <2>5 DEF NextBatch, AddBatch
    <3>2. Base <= offset'
      BY <2>1, <2>2, <3>1
    <3> QED BY <2>2, <2>3, <2>4, <2>5, <3>1, <3>2 DEF Answers
  <2>6. CASE pc' = "respond"
    <3>1. Len(rows') = size \/ Len(slice) < size
      BY <1>4, <2>2, <2>6 DEF NextBatch, AddBatch, Enough
    <3>2. CASE Len(rows') = size
      BY <2>1, <2>2, <2>6, <3>2
    <3>3. CASE Len(slice) < size
      <4>1. ~(offset + size < Len(refs))
        BY <2>1, <3>3, SliceLen
      <4>2. \A i \in DOMAIN refs : i <= offset + size
        BY <2>1, <4>1
      <4> QED BY <2>2, <2>3, <2>4, <2>6, <4>2 DEF Answers
    <3> QED BY <3>2, <3>3, <3>1
  <2> QED BY <1>4, <2>5, <2>6 DEF NextBatch, AddBatch
<1>5. ASSUME NEW x \in Item, Put(x) \/ SoftDelete(x) PROVE Reach'
  <2>1. Untouched' \subseteq Untouched
    BY <1>5, UntouchedShrinks DEF CallInv, TypeInv
  <2>2. UNCHANGED <<callVars, page, pc, refs, rows, offset>>
    BY <1>5 DEF Put, SoftDelete, Write, queryVars
  <2> QED BY <2>1, <2>2 DEF Answers, Base, callVars
<1>7. \/ UNCHANGED <<tableVars, callVars, page, pc, refs, rows, offset>>
      \/ pc' \notin {"batch", "respond"}
      \/ Combine \/ NextBatch \/ \E x \in Item : Put(x) \/ SoftDelete(x)
  <2>1. UNCHANGED vars => UNCHANGED <<tableVars, callVars, page, pc, refs, rows, offset>>
    BY DEF vars, queryVars
  <2>2. \A call \in Calls : SearchFlows(call) => pc' = "queries"
    BY DEF SearchFlows, StartSearch
  <2>3. FindPage \/ CountFlows \/ FindMatching \/ FindOrder => pc' = "queries"
    BY DEF FindPage, CountFlows, FindMatching, FindOrder
  <2>4. Respond => pc' \in {"queries", "done"}
    BY DEF Respond, StartSearch
  <2> QED BY <2>1, <2>2, <2>3, <2>4 DEF Next, Serve
<1> QED BY <1>1, <1>2, <1>3, <1>4, <1>5, <1>7

LEMMA NextLastPage ==
  ASSUME CallInv, Reach, LastPageReachesEnd, [Next]_vars PROVE LastPageReachesEnd'
<1>1. CASE UNCHANGED vars
  BY <1>1, UntouchedStays DEF vars, callVars, queryVars, LastPageReachesEnd, Base
<1>2. CASE pc' # "done"
  BY <1>2 DEF LastPageReachesEnd
<1>3. CASE Respond /\ pc' = "done"
  <2>1. /\ UNCHANGED <<tableVars, callVars, page, refs>>
        /\ last' = Response /\ Answered
    BY <1>3 DEF Respond, StartSearch, queryVars
  <2>2. rows \in Seq(Item) /\ limit \in Nat \ {0} /\ refs \in Seq(Item)
    BY DEF CallInv, TypeInv, TypeOK
  <2> SUFFICES ASSUME kind' # "onlyFlow", ~last'.hasNextPage,
                      NEW i \in DOMAIN refs, i > Base, refs[i] \in Untouched
               PROVE  refs[i] \in ToSet(last'.flows)
    BY <2>1, UntouchedStays DEF LastPageReachesEnd, Base, callVars
  <2>3. kind # "onlyFlow" /\ ~(Len(rows) > limit) /\ last'.flows = rows
    BY <2>1, <2>2, ResponseRows DEF callVars
  <2>4. pc = "respond"
    BY <2>1, <2>3 DEF Answered, CallInv, Places
  <2>5. Answers(Base, Len(refs))
    BY <2>3, <2>4 DEF Reach
  <2>6. Base < i /\ i <= Len(refs)
    <3>1. i \in 1..Len(refs) /\ Len(refs) \in Nat /\ Base \in Nat
      BY Numbers DEF CallInv
    <3> QED BY <3>1
  <2> QED BY <2>3, <2>5, <2>6 DEF Answers
<1>4. Next => Respond \/ pc' # "done"
  BY DEF Next, Serve, SearchFlows, StartSearch, FindPage, CountFlows, FindMatching,
         FindOrder, Combine, NextBatch, AddBatch, Put, SoftDelete, Write
<1> QED BY <1>1, <1>2, <1>3, <1>4

\* However many batches progresiveSearch takes to find the rows of a page, a
\* response without a next page holds every flow from its first row on that
\* the search found and that was left alone.
THEOREM LastPageReachesEndHolds == Spec => []LastPageReachesEnd
<1>1. Init => Reach /\ LastPageReachesEnd
  BY DEF Init, Reach, LastPageReachesEnd
<1>2. CallInv /\ Reach /\ LastPageReachesEnd /\ [Next]_vars
        => Reach' /\ LastPageReachesEnd'
  BY NextReach, NextLastPage
<1> QED BY <1>1, <1>2, CallHolds, PTL DEF Spec

-----------------------------------------------------------------------------
(* A page fits, when the references hold no deleted flow.                  *)

LEMMA SliceInjective ==
  ASSUME NEW T, NEW s \in Seq(T), IsInjective(s), NEW from \in Nat, NEW size \in Nat
  PROVE  IsInjective(Slice(s, from, size))
<1> DEFINE u == Slice(s, from, size)
<1>1. /\ u \in Seq(T) /\ Len(s) \in Nat /\ DOMAIN u = 1..Len(u) /\ Len(u) \in Nat
      /\ \A i \in 1..Len(u) : from + i \in 1..Len(s) /\ u[i] = s[from + i]
  <2>1. Len(s) \in Nat
    OBVIOUS
  <2>2. u \in Seq(T)
    BY ZenonT(40), SliceType
  <2>3. \A i \in 1..Len(u) : from + i \in 1..Len(s) /\ u[i] = s[from + i]
    BY ZenonT(40), SliceType
  <2> HIDE DEF u
  <2> QED BY <2>1, <2>2, <2>3
<1> HIDE DEF u
<1> SUFFICES ASSUME NEW a \in 1..Len(u), NEW b \in 1..Len(u), u[a] = u[b]
             PROVE  a = b
  BY <1>1 DEF IsInjective, u
<1>2. /\ from + a \in DOMAIN s /\ from + b \in DOMAIN s
      /\ s[from + a] = s[from + b]
  BY <1>1
<1>3. from + a = from + b
  BY <1>2 DEF IsInjective
<1> QED BY <1>1, <1>3

\* Without deleted flows among the references, a batch yields a row for each.
LEMMA WholeBatch ==
  ASSUME CallInv, ToSet(refs) \cap deleted = {}
  PROVE  LET slice == Slice(refs, offset, SearchLimit(limit)) IN
           /\ Len(Keep(Alive, ToSet(slice))) = Len(slice)
           /\ Len(slice) \in Nat /\ Len(slice) <= SearchLimit(limit)
<1> DEFINE slice == Slice(refs, offset, SearchLimit(limit))
<1> DEFINE kept == Keep(Alive, ToSet(slice))
<1>1. /\ slice \in Seq(Item) /\ IsInjective(slice) /\ Len(slice) <= SearchLimit(limit)
      /\ Len(slice) \in Nat
  <2> DEFINE size == SearchLimit(limit)
  <2>1. refs \in Seq(Item) /\ IsInjective(refs) /\ offset \in Nat /\ size \in Nat
    BY Numbers DEF CallInv, Lists
  <2> HIDE DEF size
  <2>2. /\ Slice(refs, offset, size) \in Seq(Item)
        /\ Len(Slice(refs, offset, size)) <= size
    BY <2>1, SliceType
  <2>3. IsInjective(Slice(refs, offset, size))
    BY <2>1, SliceInjective
  <2> QED BY <2>2, <2>3 DEF size
<1>2. ToSet(slice) \subseteq ToSet(refs)
  <2>1. ToSet(slice) = {refs[i] : i \in {j \in 1..Len(refs) :
                          offset < j /\ j <= offset + SearchLimit(limit)}}
    BY Numbers, SliceSet DEF CallInv
  <2>2. DOMAIN refs = 1..Len(refs)
    BY Numbers DEF CallInv
  <2> HIDE DEF slice
  <2> QED BY <2>1, <2>2 DEF ToSet
<1> HIDE DEF slice
<1>3. ToSet(slice) \subseteq ToSet(Alive)
  BY <1>2, AliveRows DEF CallInv, TypeInv, Lists
<1>4. kept \in Seq(Item) /\ IsInjective(kept) /\ ToSet(kept) = ToSet(Alive) \cap ToSet(slice)
  BY AliveRows, KeepType, KeepSet, KeepInjective DEF CallInv, TypeInv
<1> HIDE DEF kept
<1>5. Len(kept) = Len(slice)
  <2>1. Cardinality(ToSet(kept)) = Len(kept)
    BY <1>4, ListCount
  <2>2. Cardinality(ToSet(slice)) = Len(slice)
    BY <1>1, ListCount
  <2>3. ToSet(kept) = ToSet(slice)
    BY <1>3, <1>4
  <2> QED BY <2>1, <2>2, <2>3
<1> QED BY <1>1, <1>5 DEF kept, slice

\* A batch that starts with nothing found and yields all its rows is the last.
LEMMA WholeBatchEnds ==
  ASSUME CallInv, ToSet(refs) \cap deleted = {}, rows = <<>>, NextBatch,
         Slice(refs, offset, SearchLimit(limit)) # <<>> \/ ~flooded'
  PROVE  /\ pc' = "respond"
         /\ rows' = Keep(Alive, ToSet(Slice(refs, offset, SearchLimit(limit))))
         /\ Len(rows') <= SearchLimit(limit)
<1> DEFINE slice == Slice(refs, offset, SearchLimit(limit))
<1>1. PICK new \in Seq(Item) :
        /\ AddBatch(slice, new, Enough(slice, new), SearchLimit(limit))
        /\ new = Keep(Alive, ToSet(slice))
  BY BatchStep DEF CallInv, TypeInv
<1>2. Len(new) = Len(slice) /\ Len(slice) \in Nat /\ Len(slice) <= SearchLimit(limit)
  BY <1>1, WholeBatch
<1>3. rows' = rows \o new /\ (Enough(slice, new) => pc' = "respond")
  BY <1>1 DEF AddBatch
<1> HIDE DEF slice
<1>4. rows \o new = new
  BY ConcatEmptySeq
<1>5. Enough(slice, new)
  BY <1>2, <1>4, Numbers DEF Enough, CallInv
<1> QED BY <1>1, <1>2, <1>3, <1>4, <1>5 DEF slice

Fit ==
  ~Removed /\ ~KeepsDeleted /\ ~flooded =>
    /\ matching \cap deleted = {}
    /\ pc = "batch" => rows = <<>>
    /\ pc \in {"queries", "respond"} => Len(rows) <= SearchLimit(limit)

LEMMA NextFit ==
  ASSUME CallInv, Fit, [Next]_vars PROVE Fit'
<1> USE DEF Fit
<1>1. CASE UNCHANGED vars
  BY <1>1 DEF vars, tableVars, callVars, queryVars, KeepsDeleted, Removed
<1>2. ASSUME NEW call \in Calls, SearchFlows(call) PROVE Fit'
  <2>1. matching' = {} /\ rows' = <<>> /\ pc' = "queries"
    BY <1>2 DEF SearchFlows, StartSearch
  <2>2. limit' \in Nat
    BY <1>2, PagesAssumption DEF SearchFlows, Call
  <2>3. SearchLimit(limit') \in Nat
    <3>1. \A n \in Nat : SearchLimit(n) \in Nat
      BY DEF SearchLimit
    <3> QED BY <2>2, <3>1
  <2>4. Len(rows') <= SearchLimit(limit')
    BY <2>1, <2>3
  <2> QED BY <2>1, <2>4
<1>3. CASE FindPage
  <2>1. Len(rows') <= SearchLimit(limit)
    BY <1>3, Numbers, AliveRows, SliceType DEF FindPage, CallInv, TypeInv
  <2> QED BY <1>3, <2>1 DEF FindPage, tableVars, callVars, KeepsDeleted, Removed
<1>4. CASE CountFlows \/ FindOrder
  BY <1>4 DEF CountFlows, FindOrder, tableVars, callVars, KeepsDeleted, Removed
<1>5. CASE FindMatching
  <2>1. kind = "flowFilter" => matching' = ToSet(order) \ deleted
    BY <1>5, AliveRows DEF FindMatching, CallInv, TypeInv
  <2>2. kind # "flowFilter" /\ ~KeepsDeleted => deleted = {}
    BY <1>5 DEF FindMatching, KeepsDeleted, CallInv, TypeInv, TypeOK, Kind
  <2> QED BY <1>5, <2>1, <2>2 DEF FindMatching, tableVars, callVars, KeepsDeleted, Removed
<1>6. CASE Combine
  <2>1. rows = <<>>
    BY <1>6 DEF Combine, CallInv, Places
  <2> QED BY <1>6, <2>1 DEF Combine, tableVars, callVars, KeepsDeleted, Removed
<1>7. CASE NextBatch
  <2> SUFFICES ASSUME ~Removed, ~KeepsDeleted, ~flooded, ~flooded' PROVE Fit'
    BY <1>7 DEF NextBatch, AddBatch, tableVars, callVars, KeepsDeleted, Removed, CallInv, TypeInv, TypeOK
  <2>1. rows = <<>> /\ ToSet(refs) \cap deleted = {} /\ matching \cap deleted = {}
    BY <1>7 DEF NextBatch, AddBatch, CallInv, Lists
  <2>2. pc' = "respond" /\ Len(rows') <= SearchLimit(limit)
    BY <1>7, <2>1, WholeBatchEnds
  <2> QED BY <1>7, <2>1, <2>2 DEF NextBatch, AddBatch, tableVars, callVars
<1>8. CASE Respond
  <2>1. UNCHANGED <<tableVars, callVars, flooded>>
    BY <1>8 DEF Respond
  <2>2. \/ matching' = {} /\ rows' = <<>> /\ pc' = "queries"
        \/ matching' = matching /\ pc' = "done"
    BY <1>8 DEF Respond, StartSearch, queryVars
  <2>3. Len(<<>>) = 0 /\ SearchLimit(limit) \in Nat
    BY Numbers DEF CallInv
  <2> QED BY <2>1, <2>2, <2>3 DEF tableVars, callVars, KeepsDeleted, Removed
<1>9. ASSUME NEW x \in Item, Put(x) PROVE Fit'
  BY <1>9 DEF Put, Write, callVars, queryVars, KeepsDeleted, Removed
<1>10. ASSUME NEW x \in Item, SoftDelete(x) PROVE Fit'
  BY <1>10 DEF SoftDelete, Write, Removed
<1> QED
  BY <1>1, <1>2, <1>3, <1>4, <1>5, <1>6, <1>7, <1>8, <1>9, <1>10 DEF Next, Serve

LEMMA NextPagesFit ==
  ASSUME CallInv, Fit, PagesFit, [Next]_vars PROVE PagesFit'
<1>1. CASE UNCHANGED <<last, limit, touched, kind, deleted>> /\ (flooded => flooded')
  BY <1>1 DEF PagesFit, KeepsDeleted, Removed
<1>2. ASSUME NEW call \in Calls, SearchFlows(call) PROVE PagesFit'
  <2>1. last' = NoResponse
    BY <1>2 DEF SearchFlows, CallInv, Places
  <2>2. limit' \in Nat
    BY <1>2, PagesAssumption DEF SearchFlows, Call
  <2>3. Len(last'.flows) = 0
    BY <2>1 DEF NoResponse
  <2> QED BY <2>2, <2>3 DEF PagesFit
<1>3. CASE Respond
  <2>1. UNCHANGED <<tableVars, callVars, flooded>> /\ last' = Response /\ pc \in {"queries", "respond"}
    BY <1>3 DEF Respond, Answered
  <2> SUFFICES ASSUME ~Removed, ~KeepsDeleted, ~flooded PROVE Len(last'.flows) <= limit
    BY <2>1 DEF PagesFit, tableVars, callVars, KeepsDeleted, Removed
  <2>2. Len(rows) <= limit + 1 /\ Len(rows) \in Nat /\ limit \in Nat
    BY <2>1, Numbers DEF Fit, CallInv
  <2>3. rows \in Seq(Item) /\ limit \in Nat \ {0}
    BY DEF CallInv, TypeInv, TypeOK
  <2>4. CASE Len(rows) > limit
    <3>1. Len(last'.flows) = Len(rows) - 1
      BY <2>1, <2>3, <2>4, ResponseRows
    <3> QED BY <2>2, <3>1
  <2>5. CASE ~(Len(rows) > limit)
    <3>1. last'.flows = rows
      BY <2>1, <2>3, <2>5, ResponseRows
    <3> QED BY <2>2, <2>5, <3>1
  <2> QED BY <2>4, <2>5
<1>4. ASSUME NEW x \in Item, Put(x) PROVE PagesFit'
  BY <1>4 DEF Put, Write, callVars, PagesFit, KeepsDeleted, Removed
<1>5. ASSUME NEW x \in Item, SoftDelete(x) PROVE PagesFit'
  BY <1>5 DEF SoftDelete, Write, PagesFit, Removed
<1>6. \/ UNCHANGED <<last, limit, touched, kind, deleted>> /\ (flooded => flooded')
      \/ \E call \in Calls : SearchFlows(call)
      \/ Respond
      \/ \E x \in Item : Put(x) \/ SoftDelete(x)
  BY DEF Next, Serve, vars, tableVars, callVars, FindPage, CountFlows, FindMatching,
         FindOrder, Combine, NextBatch, AddBatch
<1> QED BY <1>1, <1>2, <1>3, <1>4, <1>5, <1>6

\* A page has at most the rows asked for, whatever is inserted and updated
\* while it is read, as long as no deleted flow is among the references and no
\* batch of no references had every row.
THEOREM PagesFitHolds == Spec => []PagesFit
<1>1. Init => Fit /\ PagesFit
  <2> SUFFICES ASSUME Init PROVE Fit /\ PagesFit
    OBVIOUS
  <2>1. last.flows = <<>> /\ matching = {} /\ pc = "idle" /\ limit = 1
    BY DEF Init, NoResponse
  <2>2. Len(last.flows) = 0
    BY <2>1
  <2> QED BY <2>1, <2>2 DEF Fit, PagesFit
<1>2. CallInv /\ Fit /\ PagesFit /\ [Next]_vars => Fit' /\ PagesFit'
  BY NextFit, NextPagesFit
<1> QED BY <1>1, <1>2, CallHolds, PTL DEF Spec

-----------------------------------------------------------------------------
(* Pages and exports are exact while nobody writes.                        *)

LEMMA SliceNone ==
  ASSUME NEW T, NEW s \in Seq(T), NEW from \in Nat PROVE Slice(s, from, 0) = <<>>
<1>1. /\ Slice(s, from, 0) \in Seq(T) /\ Len(Slice(s, from, 0)) <= 0
  BY SliceType
<1>2. Len(Slice(s, from, 0)) = 0
  BY <1>1
<1> QED BY <1>1, <1>2, EmptySeq

\* The page after those collected so far.
LEMMA SliceNext ==
  ASSUME NEW T, NEW s \in Seq(T), NEW from \in Nat, NEW b \in Nat, from <= b, NEW n \in Nat
  PROVE  Slice(s, from, b - from) \o Slice(s, b, n) = Slice(s, from, (b - from) + n)
<1>1. b - from \in Nat /\ from + (b - from) = b
  OBVIOUS
<1>2. Slice(s, from, b - from) \o Slice(s, from + (b - from), n)
        = Slice(s, from, (b - from) + n)
  BY ZenonT(40), <1>1, SliceSplit
<1> QED BY <1>1, <1>2

LEMMA FirstRowNext ==
  ASSUME NEW p \in Nat, NEW n \in Nat
  PROVE  FirstRow(NextPage(p), n) = FirstRow(p, n) + n
<1>1. (p + 1) * n = p * n + n
  OBVIOUS
<1>2. p + 1 \in Nat
  OBVIOUS
<1> QED BY <1>1, <1>2 DEF FirstRow, NextPage

\* What is collected is not cut before it is full.
LEMMA Collects ==
  ASSUME CallInv, Respond, ~Cut'
  PROVE  /\ ~Cut
         /\ exported' = exported \o Response.flows
         /\ ToSet(exported') = ToSet(exported) \cup ToSet(Response.flows)
<1> DEFINE e == exported \o Response.flows
<1>1. /\ exported \in Seq(Item) /\ Response.flows \in Seq(Item)
      /\ MaxExported \in Nat
  BY ResponseRows, PagesAssumption DEF CallInv, TypeInv, TypeOK
<1>2. e \in Seq(Item) /\ Len(e) = Len(exported) + Len(Response.flows)
  BY <1>1, ConcatProperties
<1>3. exported' = Slice(e, 0, MaxExported) /\ Len(exported') # MaxExported
  BY DEF Respond, Cut
<1>4. ToSet(e) = ToSet(exported) \cup ToSet(Response.flows)
  BY <1>1, ConcatSet
<1>5. Len(exported) \in Nat /\ Len(Response.flows) \in Nat
  BY <1>1
<1> HIDE DEF e
<1>6. Len(e) <= MaxExported
  <2>1. 0 + MaxExported < Len(e) => Len(exported') = MaxExported
    BY <1>1, <1>2, <1>3, SliceLen
  <2> QED BY <1>1, <1>2, <1>3, <1>5, <2>1
<1>7. exported' = e
  BY <1>1, <1>2, <1>3, <1>6, SliceWhole
<1>8. Len(exported) # MaxExported
  BY <1>1, <1>2, <1>3, <1>5, <1>6, <1>7
<1> QED BY <1>4, <1>7, <1>8 DEF e, Cut

Quiet == touched = {} /\ ~KeepsDeleted /\ (began < Len(Alive) \/ ~flooded)

\* The pages an export has asked for so far; the one after a page that was not
\* given is only ever asked for when there are more rows than a page has.
QuietPages ==
  IF page = NaN
    THEN batches /\ limit < Len(Alive)
    ELSE /\ began <= Base
         /\ ~batches => Base = began
         /\ Base = began \/ Base < Len(Alive)
         /\ ~Cut => exported = Slice(Alive, began, Base - began)

QuietReads ==
  /\ "page" \in read => rows = Slice(Alive, Base, SearchLimit(limit))
  /\ "count" \in read => total = Len(Alive)
  /\ "matching" \in read => matching = ToSet(Alive)
  /\ "order" \in read => sorted = order

QuietCall ==
  Quiet =>
    /\ pc \in {"queries", "batch", "respond"} => QuietPages
    /\ pc = "queries" => QuietReads
    /\ pc = "batch" => refs = Alive /\ rows = <<>> /\ offset = Base /\ total = Len(Alive)
    /\ pc = "respond" =>
         rows = Slice(Alive, Base, SearchLimit(limit)) /\ total = Len(Alive)

LEMMA QuietMatches ==
  ASSUME CallInv, sorted = order, matching = ToSet(Alive)
  PROVE  SortMatching = Alive
<1>1. /\ order \in Seq(Item) /\ Alive \in Seq(Item)
      /\ ToSet(order) \subseteq Item /\ ToSet(Alive) = ToSet(order) \ deleted
  BY AliveRows, StoredRows DEF CallInv, TypeInv, TypeOK
<1>2. CASE sorted = <<>>
  <2>1. ToSet(Alive) = {}
    BY <1>1, <1>2, EmptyRows
  <2>2. SetToSeq({}) \in Seq({}) /\ ToSet(SetToSeq({})) = {}
    BY FS_EmptySet, ListOfSet
  <2>3. Alive = <<>> /\ SetToSeq({}) = <<>>
    BY <1>1, <2>1, <2>2, EmptySet
  <2> QED BY <1>2, <2>1, <2>3 DEF SortMatching
<1>3. CASE sorted # <<>>
  <2>1. ToSet(order) \cap ToSet(Alive) = ToSet(order) \cap (Item \ deleted)
    BY <1>1
  <2>2. Keep(order, ToSet(Alive)) = Keep(order, Item \ deleted)
    BY <2>1, KeepSame
  <2> QED BY <1>3, <2>2 DEF SortMatching, Alive
<1> QED BY <1>2, <1>3

\* The pages so far are not concerned by a step within a page.
LEMMA QuietPagesStay ==
  ASSUME QuietPages, UNCHANGED <<tableVars, callVars, page, exported>>
  PROVE  QuietPages'
BY UntouchedStays DEF QuietPages, Base, Cut, callVars

LEMMA QuietSame ==
  UNCHANGED <<tableVars, callVars, flooded>> => Quiet' = Quiet
BY UntouchedStays DEF Quiet, KeepsDeleted, tableVars, callVars

\* What a response adds when nobody writes.
LEMMA QuietResponse ==
  ASSUME CallInv, QuietCall, Quiet, Answered
  PROVE  /\ QuietPages
         /\ total = Len(Alive)
         /\ Len(Alive) \in Nat
         /\ Response.flows = Slice(Alive, Base, limit)
         /\ Response.hasNextPage = (Base + limit < Len(Alive))
<1>1. Alive \in Seq(Item) /\ Len(Alive) \in Nat
  BY AliveRows DEF CallInv, TypeInv
<1>2. /\ QuietPages /\ total = Len(Alive)
      /\ rows = Slice(Alive, Base, SearchLimit(limit))
  BY DEF Answered, QuietCall, QuietReads
<1>3. /\ limit \in Nat /\ Base \in Nat /\ rows \in Seq(Item) /\ limit \in Nat \ {0}
      /\ SearchLimit(limit) = limit + 1
  BY Numbers DEF CallInv
<1>4. /\ Len(rows) > limit => Front(rows) = Slice(Alive, Base, limit)
      /\ Len(rows) <= limit => rows = Slice(Alive, Base, limit)
      /\ Len(rows) > limit <=> Base + limit < Len(Alive)
  <2> DEFINE one == Slice(Alive, Base, limit + 1)
  <2>1. /\ Len(one) > limit => Front(one) = Slice(Alive, Base, limit)
        /\ Len(one) <= limit => one = Slice(Alive, Base, limit)
        /\ Len(one) > limit <=> Base + limit < Len(Alive)
    BY ZenonT(40), <1>1, <1>3, SliceFront
  <2>2. rows = one
    BY <1>2, <1>3
  <2> HIDE DEF one
  <2> QED BY <2>1, <2>2
<1>5. Len(rows) <= limit \/ Len(rows) > limit
  BY <1>3
<1>6. Response.flows = Slice(Alive, Base, limit)
  BY <1>3, <1>4, <1>5, ResponseRows
<1>7. Response.hasNextPage = (Base + limit < Len(Alive))
  BY <1>3, <1>4, ResponseRows
<1> QED BY <1>1, <1>2, <1>6, <1>7

LEMMA QuietNextPage ==
  ASSUME CallInv, QuietCall, Quiet, Respond, batches, Response.hasNextPage
  PROVE  QuietPages'
<1>1. /\ QuietPages /\ Response.flows = Slice(Alive, Base, limit) /\ Len(Alive) \in Nat
      /\ Base + limit < Len(Alive)
  BY QuietResponse DEF Respond
<1>2. /\ page' = NextPage(page) /\ UNCHANGED callVars /\ UNCHANGED tableVars
      /\ Alive' = Alive /\ batches' = batches /\ limit' = limit /\ began' = began
  BY UntouchedStays DEF Respond, StartSearch, callVars
<1>3. limit \in Nat /\ Base \in Nat /\ began \in Nat /\ page \in Page
  BY Numbers DEF CallInv, TypeInv, TypeOK
<1>4. CASE page \notin Nat
  <2>1. page' = NaN
    BY <1>2, <1>4 DEF NextPage
  <2>2. limit < Len(Alive)
    BY <1>1, <1>3
  <2> QED BY <1>2, <2>1, <2>2 DEF QuietPages
<1>5. CASE page \in Nat
  <2>1. page' \in Nat /\ page # NaN /\ page' # NaN
    BY <1>2, <1>5, PagesAssumption DEF NextPage
  <2>2. Base' = Base + limit
    BY <1>2, <1>3, <1>5, FirstRowNext DEF Base
  <2>4. began <= Base /\ (~Cut => exported = Slice(Alive, began, Base - began))
    BY <1>1, <2>1 DEF QuietPages
  <2>5. began <= Base + limit /\ (Base - began) + limit = (Base + limit) - began
    BY <1>3, <2>4
  <2>6. ASSUME ~Cut' PROVE exported' = Slice(Alive, began, (Base + limit) - began)
    <3>1. ~Cut /\ exported' = exported \o Response.flows
      BY <2>6, Collects
    <3>2. exported' = Slice(Alive, began, Base - began) \o Slice(Alive, Base, limit)
      BY <1>1, <2>4, <3>1
    <3>3. Alive \in Seq(Item)
      BY AliveRows DEF CallInv, TypeInv
    <3>4. Slice(Alive, began, Base - began) \o Slice(Alive, Base, limit)
            = Slice(Alive, began, (Base - began) + limit)
      BY ZenonT(40), <1>3, <2>4, <3>3, SliceNext
    <3> QED BY <2>5, <3>2, <3>4
  <2> QED BY <1>1, <1>2, <2>1, <2>2, <2>5, <2>6 DEF QuietPages
<1> QED BY <1>4, <1>5

LEMMA NextQuiet ==
  ASSUME CallInv, QuietCall, [Next]_vars PROVE QuietCall'
<1>1. CASE UNCHANGED vars
  <2>1. UNCHANGED <<tableVars, callVars, page, exported, pc, read, rows, total, matching,
                    sorted, refs, offset, flooded>>
    BY <1>1 DEF vars, queryVars
  <2>2. Quiet' = Quiet /\ Alive' = Alive /\ (QuietPages => QuietPages')
    BY <2>1, QuietSame, QuietPagesStay, UntouchedStays
  <2> QED BY <2>1, <2>2 DEF QuietCall, QuietReads, Base, callVars, tableVars
<1>2. ASSUME NEW call \in Calls, SearchFlows(call) PROVE QuietCall'
  <2>1. /\ pc' = "queries" /\ read' = {} /\ exported' = <<>> /\ page' = call.page
        /\ began' = FirstRow(call.page, limit') /\ UNCHANGED tableVars
    BY <1>2 DEF SearchFlows, StartSearch, CallInv, Places
  <2>2. page' # NaN /\ page' \in Page /\ limit' \in Nat
    BY <1>2, <2>1, PagesAssumption DEF SearchFlows, Call, Page
  <2>3. began' \in Nat /\ began' = Base'
    BY <2>1, <2>2, FirstRowType DEF Base
  <2>4. began' - began' = 0 /\ began' <= began'
    <3>1. \A n \in Nat : n - n = 0 /\ n <= n
      OBVIOUS
    <3> QED BY <2>3, <3>1
  <2>5. Alive' = Alive
    BY <2>1, UntouchedStays
  <2>6. exported' = Slice(Alive', began', 0)
    BY <2>1, <2>3, <2>5, AliveRows, SliceNone DEF CallInv, TypeInv
  <2>7. QuietPages'
    BY <2>2, <2>3, <2>4, <2>6 DEF QuietPages
  <2> QED BY <2>1, <2>7 DEF QuietCall, QuietReads
<1>3. ASSUME FindPage \/ CountFlows \/ FindMatching \/ FindOrder, Quiet'
      PROVE  QuietPages' /\ QuietReads' /\ pc' = "queries"
  <2>1. /\ UNCHANGED <<tableVars, callVars, page, exported, offset, flooded>>
        /\ pc = "queries" /\ pc' = "queries"
    BY <1>3 DEF FindPage, CountFlows, FindMatching, FindOrder
  <2>2. Quiet /\ Alive' = Alive /\ QuietPages /\ QuietReads
    BY <1>3, <2>1, QuietSame, UntouchedStays DEF QuietCall
  <2>3. QuietPages'
    BY <2>1, <2>2, QuietPagesStay
  <2>4. Base' = Base /\ limit' = limit /\ order' = order /\ offset = Base
    BY <2>1 DEF Base, callVars, tableVars, CallInv, Places
  <2>5. CASE FindPage
    BY <2>1, <2>2, <2>3, <2>4, <2>5 DEF FindPage, QuietReads
  <2>6. CASE CountFlows
    BY <2>1, <2>2, <2>3, <2>4, <2>6 DEF CountFlows, QuietReads
  <2>7. CASE FindMatching
    <3>1. matching' = ToSet(Alive)
      <4>1. CASE kind = "flowFilter"
        BY <2>7, <4>1 DEF FindMatching
      <4>2. CASE kind # "flowFilter"
        <5>1. kind = "otherFilter" /\ matching' = ToSet(order)
          BY <2>7, <4>2 DEF FindMatching, CallInv, TypeInv, TypeOK, Kind
        <5>2. deleted = {}
          BY <2>2, <5>1 DEF Quiet, KeepsDeleted
        <5> QED BY <5>1, <5>2, AliveRows DEF CallInv, TypeInv
      <4> QED BY <4>1, <4>2
    <3> QED BY <2>1, <2>2, <2>3, <2>4, <2>7, <3>1 DEF FindMatching, QuietReads
  <2>8. CASE FindOrder
    BY <2>1, <2>2, <2>3, <2>4, <2>8 DEF FindOrder, QuietReads
  <2> QED BY <1>3, <2>1, <2>3, <2>5, <2>6, <2>7, <2>8
<1>4. ASSUME Combine, Quiet' PROVE QuietCall'
  <2>1. /\ UNCHANGED <<tableVars, callVars, page, exported, offset, flooded, rows>>
        /\ pc = "queries" /\ {"matching", "order"} \subseteq read
        /\ refs' = SortMatching /\ total' = Len(refs')
        /\ pc' = IF matching = {} THEN "respond" ELSE "batch"
    BY <1>4 DEF Combine
  <2>2. Quiet /\ Alive' = Alive /\ QuietPages /\ QuietReads
    BY <1>4, <2>1, QuietSame, UntouchedStays DEF QuietCall
  <2>3. QuietPages'
    BY <2>1, <2>2, QuietPagesStay
  <2>4. /\ Base' = Base /\ limit' = limit /\ offset' = Base /\ rows' = <<>>
        /\ Base \in Nat /\ SearchLimit(limit) \in Nat
    <3>1. Base \in Nat /\ SearchLimit(limit) \in Nat
      BY Numbers DEF CallInv
    <3>2. "page" \notin read
      BY <2>1 DEF CallInv, Places
    <3> QED BY <2>1, <3>1, <3>2 DEF Base, callVars, CallInv, Places
  <2>5. refs' = Alive /\ matching = ToSet(Alive)
    BY <2>1, <2>2, QuietMatches DEF QuietReads
  <2>6. matching = {} => Slice(Alive, Base, SearchLimit(limit)) = <<>>
    <3> SUFFICES ASSUME matching = {} PROVE Slice(Alive, Base, SearchLimit(limit)) = <<>>
      OBVIOUS
    <3>1. Alive \in Seq(Item) /\ Alive = <<>>
      BY <2>5, AliveRows, EmptySet DEF CallInv, TypeInv
    <3>2. Len(Alive) <= Base
      BY <2>4, <3>1
    <3> QED BY <2>4, <3>1, <3>2, SliceBeyond
  <2>7. CASE matching = {}
    BY <2>1, <2>2, <2>3, <2>4, <2>5, <2>6, <2>7 DEF QuietCall
  <2>8. CASE matching # {}
    BY <2>1, <2>2, <2>3, <2>4, <2>5, <2>8 DEF QuietCall
  <2> QED BY <2>7, <2>8
<1>5. ASSUME NextBatch, Quiet' PROVE QuietCall'
  <2>1. /\ UNCHANGED <<tableVars, callVars, page, exported, total>> /\ pc = "batch"
        /\ flooded => flooded'
    BY <1>5 DEF NextBatch, AddBatch
  <2>2. /\ Quiet /\ Alive' = Alive /\ QuietPages
        /\ refs = Alive /\ rows = <<>> /\ offset = Base /\ total = Len(Alive)
    <3>1. Alive' = Alive
      BY <2>1, UntouchedStays
    <3>2. Quiet
      BY <1>5, <2>1, <3>1 DEF Quiet, KeepsDeleted, tableVars, callVars
    <3> QED BY <2>1, <3>1, <3>2 DEF QuietCall
  <2>3. QuietPages'
    BY <2>1, <2>2, QuietPagesStay
  <2>4. ToSet(refs) \cap deleted = {}
    BY <2>2, AliveRows DEF CallInv, TypeInv
  <2>5. Slice(refs, offset, SearchLimit(limit)) # <<>> \/ ~flooded'
    <3>1. began' = began /\ (began < Len(Alive) \/ ~flooded')
      BY <1>5, <2>1, <2>2 DEF Quiet, callVars
    <3>2. CASE Base < Len(Alive)
      <4>1. /\ Alive \in Seq(Item) /\ Len(Alive) \in Nat /\ Base \in Nat /\ limit \in Nat
            /\ SearchLimit(limit) = limit + 1
        BY AliveRows, Numbers DEF CallInv, TypeInv
      <4>2. Len(Slice(Alive, Base, limit + 1)) > 0
        <5> DEFINE one == Slice(Alive, Base, limit + 1)
        <5> DEFINE end == SliceEnd(Alive, Base, limit + 1)
        <5>1. limit + 1 \in Nat
          BY <4>1
        <5>2. Len(one) = (IF Base < end THEN end - Base ELSE 0)
          BY <4>1, <5>1, SliceType
        <5>3. end \in Nat /\ Base < end
          BY <3>2, <4>1 DEF SliceEnd
        <5> HIDE DEF one, end
        <5>4. Len(one) > 0
          BY <4>1, <5>2, <5>3
        <5> QED BY <5>4 DEF one
      <4>3. Slice(Alive, Base, limit + 1) # <<>>
        BY <4>2
      <4> QED BY <2>2, <4>1, <4>3
    <3>3. CASE ~(Base < Len(Alive))
      <4>1. ~(began < Len(Alive))
        <5>1. Base \in Nat /\ limit \in Nat /\ limit >= 1 /\ Len(Alive) \in Nat
          BY Numbers, AliveRows DEF CallInv, TypeInv
        <5>2. page # NaN
          <6>1. page = NaN => Base = 0 /\ limit < Len(Alive)
            BY <2>2, PagesAssumption DEF QuietPages, Base, FirstRow
          <6> QED BY <3>3, <5>1, <6>1
        <5> QED BY <2>2, <3>3, <5>2 DEF QuietPages
      <4> QED BY <3>1, <4>1
    <3> QED BY <3>2, <3>3
  <2>6. /\ pc' = "respond"
        /\ rows' = Keep(Alive, ToSet(Slice(Alive, Base, SearchLimit(limit))))
    BY <1>5, <2>2, <2>4, <2>5, WholeBatchEnds
  <2>7. Keep(Alive, ToSet(Slice(Alive, Base, SearchLimit(limit))))
          = Slice(Alive, Base, SearchLimit(limit))
    <3>1. Alive \in Seq(Item) /\ IsInjective(Alive) /\ Base \in Nat /\ SearchLimit(limit) \in Nat
      BY AliveRows, Numbers DEF CallInv, TypeInv
    <3> QED BY <3>1, KeepSlice
  <2> QED BY <2>1, <2>2, <2>3, <2>6, <2>7 DEF QuietCall, Base, callVars
<1>6. ASSUME Respond, Quiet' PROVE QuietCall'
  <2>1. UNCHANGED <<tableVars, callVars, flooded>>
    BY <1>6 DEF Respond
  <2>2. Quiet
    BY <1>6, <2>1, QuietSame
  <2>3. CASE batches /\ Response.hasNextPage
    <3>1. pc' = "queries" /\ read' = {}
      BY <1>6, <2>3 DEF Respond, StartSearch
    <3>2. QuietPages'
      BY <1>6, <2>2, <2>3, QuietNextPage
    <3> QED BY <3>1, <3>2 DEF QuietCall, QuietReads
  <2>4. CASE ~(batches /\ Response.hasNextPage)
    BY <1>6, <2>4 DEF Respond, QuietCall
  <2> QED BY <2>3, <2>4
<1>7. ASSUME NEW x \in Item, Put(x) \/ SoftDelete(x) PROVE QuietCall'
  <2>1. touched' # {}
    BY <1>7 DEF Put, SoftDelete, Write
  <2> QED BY <2>1 DEF QuietCall, Quiet
<1> QED
  BY <1>1, <1>2, <1>3, <1>4, <1>5, <1>6, <1>7 DEF Next, Serve, QuietCall

LEMMA QuietAnswer ==
  ASSUME CallInv, QuietCall, Respond, pc' = "done" PROVE ExactWhenQuiet'
<1>1. UNCHANGED <<tableVars, callVars, total, flooded>> /\ Answered /\ last' = Response
      /\ ~(batches /\ Response.hasNextPage)
  BY DEF Respond, StartSearch, queryVars
<1> SUFFICES ASSUME Quiet, ~Cut'
             PROVE  /\ exported' = Slice(Alive, began, IF batches THEN Len(Alive) ELSE limit)
                    /\ total = Len(Alive)
                    /\ Response.hasNextPage <=> ~batches /\ began + limit < Len(Alive)
  BY <1>1, UntouchedStays DEF ExactWhenQuiet, Quiet, KeepsDeleted, tableVars, callVars
<1>2. /\ QuietPages /\ total = Len(Alive) /\ Len(Alive) \in Nat
      /\ Response.flows = Slice(Alive, Base, limit)
      /\ Response.hasNextPage = (Base + limit < Len(Alive))
  BY <1>1, QuietResponse
<1>3. limit \in Nat /\ Base \in Nat /\ began \in Nat /\ Alive \in Seq(Item)
  BY Numbers, AliveRows DEF CallInv, TypeInv
<1>4. page # NaN
  <2> SUFFICES ASSUME page = NaN PROVE FALSE
    OBVIOUS
  <2>1. Base = 0 /\ batches /\ limit < Len(Alive)
    BY <1>2, PagesAssumption DEF Base, FirstRow, QuietPages
  <2>2. Base + limit < Len(Alive)
    BY <1>3, <2>1
  <2>3. Response.hasNextPage
    BY <1>2, <2>2
  <2> QED BY <1>1, <2>1, <2>3
<1>5. ~Cut /\ exported' = exported \o Response.flows
  BY Collects
<1>6. /\ began <= Base /\ (~batches => Base = began)
      /\ exported = Slice(Alive, began, Base - began)
  BY <1>2, <1>4, <1>5 DEF QuietPages
<1>7. exported' = Slice(Alive, began, (Base - began) + limit)
  <2>1. Slice(Alive, began, Base - began) \o Slice(Alive, Base, limit)
          = Slice(Alive, began, (Base - began) + limit)
    BY ZenonT(40), <1>3, <1>6, SliceNext
  <2> QED BY <1>2, <1>5, <1>6, <2>1
<1>8. CASE batches
  <2>1. ~(Base + limit < Len(Alive))
    BY <1>1, <1>2, <1>8
  <2>2. (Base - began) + limit \in Nat /\ began + ((Base - began) + limit) = Base + limit
    BY <1>3, <1>6
  <2>3. SliceEnd(Alive, began, (Base - began) + limit) = SliceEnd(Alive, began, Len(Alive))
    BY <1>2, <1>3, <2>1, <2>2 DEF SliceEnd
  <2>4. Slice(Alive, began, (Base - began) + limit) = Slice(Alive, began, Len(Alive))
    BY <1>2, <1>3, <2>2, <2>3, SliceSame
  <2> QED BY <1>1, <1>2, <1>7, <1>8, <2>4
<1>9. CASE ~batches
  <2>1. (Base - began) + limit = limit /\ Base = began
    BY <1>3, <1>6, <1>9
  <2> QED BY <1>2, <1>7, <1>9, <2>1
<1> QED BY <1>8, <1>9

\* While nobody writes, a page is its slice of the flows that exist, an export
\* all of them from where it began, each once and in order, and the count is
\* theirs: whatever the answer to a batch of no references is, for every page
\* that begins inside the table, and beyond it unless that answer is every row.
THEOREM ExactWhenQuietHolds == Spec => []ExactWhenQuiet
<1>1. Init => QuietCall /\ ExactWhenQuiet
  BY DEF Init, QuietCall, ExactWhenQuiet
<1>2. ASSUME CallInv, QuietCall, ExactWhenQuiet, [Next]_vars
      PROVE  QuietCall' /\ ExactWhenQuiet'
  <2>1. QuietCall'
    BY <1>2, NextQuiet
  <2>2. CASE UNCHANGED vars
    BY <1>2, <2>1, <2>2, UntouchedStays
       DEF vars, tableVars, callVars, queryVars, ExactWhenQuiet, KeepsDeleted, Cut
  <2>3. CASE pc' # "done"
    BY <2>1, <2>3 DEF ExactWhenQuiet
  <2>4. CASE Respond /\ pc' = "done"
    BY <1>2, <2>1, <2>4, QuietAnswer
  <2>5. Next => Respond \/ pc' # "done"
    BY DEF Next, Serve, SearchFlows, StartSearch, FindPage, CountFlows, FindMatching,
           FindOrder, Combine, NextBatch, AddBatch, Put, SoftDelete, Write
  <2> QED BY <1>2, <2>1, <2>2, <2>3, <2>4, <2>5
<1> QED BY <1>1, <1>2, CallHolds, PTL DEF Spec

-----------------------------------------------------------------------------
(* An export loses no flow that was left alone.  Such a flow is either     *)
(* collected or behind as many of the rows the search lists as the pages   *)
(* read so far have taken.  A write takes a row from ahead of it only by   *)
(* pulling it.                                                             *)

\* The rows the search finds: some tables keep rows of deleted flows.
Listed == IF kind = "otherFilter" THEN ToSet(order) ELSE ToSet(order) \ deleted

Before(y) == Ahead(order, y) \cap Listed

\* The page that is read has y, unless y is behind it.
OnPage(y) ==
  IF Len(rows) <= limit
    THEN y \in ToSet(rows)
    ELSE y \in ToSet(Front(rows)) \/ Cardinality(Before(y)) >= Base + limit

AwaitsQueries(y) ==
  /\ Cardinality(Before(y)) >= Base
  /\ "page" \in read => OnPage(y)
  /\ "order" \in read => /\ y \in ToSet(sorted) /\ Ahead(sorted, y) \subseteq Ahead(order, y)
                         /\ Cardinality(Ahead(sorted, y) \cap Listed) >= Base
  /\ "matching" \in read => /\ y \in matching /\ Ahead(order, y) \cap matching \subseteq Listed
                            /\ Cardinality(Ahead(order, y) \cap matching) >= Base
  /\ {"order", "matching"} \subseteq read =>
       Cardinality(Ahead(sorted, y) \cap matching) >= Base

AwaitsBatch(y) ==
  /\ y \in ToSet(refs) /\ Ahead(refs, y) \subseteq Before(y)
  /\ Cardinality(Ahead(refs, y)) >= Base
  /\ (offset = Base /\ rows = <<>>) \/ offset > Base + limit
  /\ Cardinality(Ahead(refs, y)) < offset => y \in ToSet(rows) /\ OnPage(y)

Awaits(y) ==
  /\ pc # "done"
  /\ pc = "queries" => AwaitsQueries(y)
  /\ pc = "batch" => AwaitsBatch(y)
  /\ pc = "respond" => OnPage(y)

Exports == batches /\ began = 0 /\ ~Cut

Export == Exports => \A y \in Untouched \ (pulled \cup ToSet(exported)) : Awaits(y)

LEMMA CountGrows ==
  ASSUME NEW U, IsFiniteSet(U), NEW S \in SUBSET U
  PROVE  /\ IsFiniteSet(S) /\ Cardinality(S) \in Nat /\ Cardinality(U) \in Nat
         /\ Cardinality(S) <= Cardinality(U)
<1>1. IsFiniteSet(S) /\ Cardinality(S) <= Cardinality(U)
  BY FS_Subset
<1> QED BY <1>1, FS_CardinalityType

LEMMA AheadFinite ==
  ASSUME NEW T, NEW s \in Seq(T), IsInjective(s), NEW y, NEW S
  PROVE  /\ IsFiniteSet(Ahead(s, y) \cap S)
         /\ Cardinality(Ahead(s, y) \cap S) \in Nat
<1>1. IsFiniteSet(ToSet(s)) /\ Ahead(s, y) \cap S \subseteq ToSet(s)
  BY ListCount DEF Ahead
<1> QED BY <1>1, CountGrows

LEMMA ListedRows ==
  ASSUME CallInv, NEW y \in Untouched
  PROVE  /\ y \in ToSet(order) /\ y \in Listed /\ y \in ToSet(Alive)
         /\ IsFiniteSet(Before(y)) /\ Cardinality(Before(y)) \in Nat
         /\ Ahead(Alive, y) = Ahead(order, y) \cap (Item \ deleted)
         /\ Ahead(Alive, y) \subseteq Before(y)
<1>1. /\ order \in Seq(Item) /\ IsInjective(order) /\ ToSet(order) \subseteq Item
      /\ ToSet(Alive) = ToSet(order) \ deleted
  BY AliveRows, StoredRows DEF CallInv, TypeInv, TypeOK
<1>2. y \in ToSet(Alive) /\ y \in ToSet(order) \cap (Item \ deleted)
  BY <1>1 DEF Untouched
<1>3. Ahead(Alive, y) = Ahead(order, y) \cap (Item \ deleted)
  BY <1>1, <1>2, AheadKeep DEF Alive
<1>4. Ahead(order, y) \subseteq ToSet(order)
  BY DEF Ahead
<1>5. IsFiniteSet(Before(y)) /\ Cardinality(Before(y)) \in Nat
  BY <1>1, AheadFinite DEF Before
<1> QED BY <1>1, <1>2, <1>3, <1>4, <1>5 DEF Before, Listed

LEMMA ListedStays ==
  UNCHANGED <<tableVars, callVars>> =>
    /\ Listed' = Listed
    /\ \A y : Before(y)' = Before(y)
BY DEF Listed, Before, tableVars, callVars

\* What becomes of a row of the list when a page of it is taken.
LEMMA TakePage ==
  ASSUME NEW T, NEW s \in Seq(T), NEW p \in 1..Len(s), NEW b \in Nat, NEW n \in Nat,
         b < p
  PROVE  LET u == Slice(s, b, n + 1) IN
           IF Len(u) <= n THEN s[p] \in ToSet(u)
                          ELSE s[p] \in ToSet(Front(u)) \/ p > b + n
<1> DEFINE u == Slice(s, b, n + 1)
<1> DEFINE v == Slice(s, b, n)
<1>1. Len(s) \in Nat /\ p \in Nat /\ p <= Len(s) /\ n + 1 \in Nat
  OBVIOUS
<1>2. u \in Seq(T) /\ Len(u) \in Nat
  <2>1. u \in Seq(T)
    BY <1>1, SliceType
  <2> HIDE DEF u
  <2> QED BY <2>1
<1>3. /\ Len(u) > n => Front(u) = v
      /\ Len(u) <= n => u = v
      /\ Len(u) > n <=> b + n < Len(s)
  BY SliceFront
<1>4. p <= b + n => s[p] \in ToSet(v)
  <2>1. ToSet(v) = {s[i] : i \in {j \in 1..Len(s) : b < j /\ j <= b + n}}
    BY SliceSet
  <2> QED BY <2>1
<1> HIDE DEF u, v
<1>5. CASE Len(u) <= n
  <2>1. p <= b + n
    BY <1>1, <1>2, <1>3, <1>5
  <2> QED BY <1>3, <1>4, <1>5, <2>1 DEF u
<1>6. CASE ~(Len(u) <= n)
  <2>1. Front(u) = v
    BY <1>2, <1>3, <1>6
  <2>2. p <= b + n \/ p > b + n
    BY <1>1
  <2> QED BY <1>4, <1>6, <2>1, <2>2 DEF u
<1> QED BY <1>5, <1>6

LEMMA FrontConcat ==
  ASSUME NEW T, NEW s \in Seq(T), NEW u \in Seq(T), Len(u) > 0
  PROVE  ToSet(s) \subseteq ToSet(Front(s \o u))
<1> DEFINE w == s \o u
<1>1. /\ w \in Seq(T) /\ Len(w) = Len(s) + Len(u) /\ Len(s) \in Nat /\ Len(u) \in Nat
      /\ \A i \in 1..Len(s) : w[i] = s[i]
  BY ConcatProperties
<1> HIDE DEF w
<1>2. Len(w) > 0 /\ Len(s) <= Len(w) - 1
  BY <1>1
<1>3. /\ Front(w) \in Seq(T) /\ Len(Front(w)) = Len(w) - 1
      /\ \A i \in 1..Len(w) - 1 : Front(w)[i] = w[i]
  BY <1>1, <1>2, FrontType
<1>4. ASSUME NEW i \in 1..Len(s) PROVE i \in DOMAIN Front(w) /\ Front(w)[i] = s[i]
  <2>1. i \in 1..Len(w) - 1
    BY <1>1, <1>2
  <2> QED BY <1>1, <1>3, <2>1
<1> QED BY <1>4 DEF ToSet, w

\* Where the row y is in a list.
LEMMA PlaceOf ==
  ASSUME NEW T, NEW s \in Seq(T), IsInjective(s), NEW y \in ToSet(s)
  PROVE  \E p \in 1..Len(s) : /\ s[p] = y
                              /\ Cardinality(Ahead(s, y)) = p - 1
                              /\ Ahead(s, y) = {s[j] : j \in 1..(p - 1)}
<1>1. PICK p \in 1..Len(s) : s[p] = y
  BY DEF ToSet
<1>2. Cardinality(Ahead(s, s[p])) = p - 1 /\ Ahead(s, s[p]) = {s[j] : j \in 1..(p - 1)}
  BY AheadCount, AheadAt
<1> QED BY <1>1, <1>2

\* The last row of the first batch is behind the rows before the page and
\* behind the others of the batch.
LEMMA FirstBatch ==
  ASSUME CallInv, NEW y \in Untouched, AwaitsBatch(y), offset = Base,
         NEW u, u = Slice(refs, offset, SearchLimit(limit)),
         y \in ToSet(u), Len(Keep(Alive, ToSet(u))) > limit
  PROVE  y \in ToSet(Front(Keep(Alive, ToSet(u)))) \/ Cardinality(Before(y)) >= Base + limit
<1> DEFINE R == Keep(Alive, ToSet(u))
<1>1. /\ Base \in Nat /\ limit \in Nat /\ limit >= 1 /\ refs \in Seq(Item)
      /\ SearchLimit(limit) \in Nat /\ IsInjective(refs) /\ Len(refs) \in Nat
  BY Numbers DEF CallInv, Lists
<1>2. u \in Seq(Item)
  BY <1>1, SliceType
<1>3. R \in Seq(Item) /\ IsInjective(R)
  BY AliveRows, KeepType, KeepInjective DEF CallInv, TypeInv
<1>4. Alive \in Seq(Item) /\ IsInjective(Alive) /\ y \in ToSet(Alive) \cap ToSet(u)
  BY AliveRows, ListedRows DEF CallInv, TypeInv
<1>5. y \in ToSet(R) /\ Ahead(R, y) = Ahead(Alive, y) \cap ToSet(u)
  BY <1>4, KeepSet, AheadKeep
<1> HIDE DEF R
<1>6. Len(R) \in Nat /\ Len(R) > limit /\ Len(R) > 0
  <2>1. Len(R) \in Nat /\ Len(R) > limit
    BY <1>3 DEF R
  <2> QED BY <1>1, <2>1
<1>7. CASE y \in ToSet(Front(R))
  BY <1>7 DEF R
<1>8. CASE y \notin ToSet(Front(R))
  <2> DEFINE W == Ahead(R, y)
  <2> DEFINE B == {refs[j] : j \in 1..Base}
  <2>1. y = R[Len(R)]
    BY <1>3, <1>5, <1>6, <1>8, FrontSet
  <2>2. IsFiniteSet(W) /\ Cardinality(W) = Len(R) - 1
    <3>1. Len(R) \in 1..Len(R)
      BY <1>6
    <3>2. IsFiniteSet(Ahead(R, R[Len(R)])) /\ Cardinality(Ahead(R, R[Len(R)])) = Len(R) - 1
      BY <1>3, <3>1, AheadCount
    <3> QED BY <2>1, <3>2
  <2>3. W \subseteq Before(y) /\ W \subseteq ToSet(u)
    BY <1>5, ListedRows
  <2>4. PICK p \in 1..Len(refs) : /\ refs[p] = y
                                  /\ Cardinality(Ahead(refs, y)) = p - 1
                                  /\ Ahead(refs, y) = {refs[j] : j \in 1..(p - 1)}
    BY <1>1, PlaceOf DEF AwaitsBatch
  <2>5. Base <= p - 1 /\ Base \in 0..Len(refs)
    BY <1>1, <2>4 DEF AwaitsBatch
  <2>6. IsFiniteSet(B) /\ Cardinality(B) = Base
    BY <1>1, <2>5, PrefixCount
  <2>7. B \subseteq Before(y)
    <3>1. \A j \in 1..Base : j \in 1..(p - 1)
      BY <1>1, <2>5
    <3> QED BY <2>4, <3>1 DEF AwaitsBatch
  <2>8. B \cap ToSet(u) = {}
    <3>1. ToSet(u) = {refs[i] : i \in {j \in 1..Len(refs) :
                        Base < j /\ j <= Base + SearchLimit(limit)}}
      BY <1>1, SliceSet
    <3>2. ASSUME NEW j \in 1..Base, NEW i \in 1..Len(refs), Base < i PROVE refs[j] # refs[i]
      <4>1. j \in Int /\ 1 <= j /\ j <= Base /\ i \in Int /\ j <= Len(refs)
        BY <1>1, <2>5
      <4>2. j \in 1..Len(refs) /\ j # i
        BY <1>1, <3>2, <4>1
      <4>3. DOMAIN refs = 1..Len(refs)
        BY <1>1
      <4> QED BY <1>1, <4>2, <4>3 DEF IsInjective
    <3> QED BY <3>1, <3>2
  <2> HIDE DEF W, B
  <2>9. Cardinality(W \cup B) = Cardinality(W) + Cardinality(B)
    <3>1. W \cap B = {}
      BY <2>3, <2>8
    <3>2. Cardinality(W \cup B) = Cardinality(W) + Cardinality(B) - Cardinality({})
      <4>1. Cardinality(W \cup B) = Cardinality(W) + Cardinality(B) - Cardinality(W \cap B)
        BY <2>2, <2>6, FS_Union
      <4> QED BY <3>1, <4>1
    <3>3. Cardinality({}) = 0 /\ Cardinality(W) \in Nat /\ Cardinality(B) \in Nat
      BY <1>1, <1>6, <2>2, <2>6, FS_EmptySet
    <3> QED BY <3>2, <3>3
  <2>10. Cardinality(W \cup B) <= Cardinality(Before(y)) /\ Cardinality(Before(y)) \in Nat
    BY <2>3, <2>7, ListedRows, CountGrows
  <2> QED BY <1>1, <1>6, <2>2, <2>6, <2>9, <2>10
<1> QED BY <1>7, <1>8

\* A further batch leaves a row awaited or on the page.
LEMMA BatchAwaits ==
  ASSUME CallInv, NextBatch, NEW y \in Untouched, AwaitsBatch(y)
  PROVE  Awaits(y)'
<1> DEFINE size == SearchLimit(limit)
<1> DEFINE u == Slice(refs, offset, size)
<1> DEFINE behind == Cardinality(Before(y)) >= Base + limit
<1>1. /\ Base \in Nat /\ limit \in Nat /\ offset \in Nat /\ refs \in Seq(Item)
      /\ rows \in Seq(Item) /\ size \in Nat /\ size = limit + 1 /\ IsInjective(refs)
      /\ Len(refs) \in Nat
  BY Numbers DEF CallInv, Lists
<1>2. PICK R \in Seq(Item) :
        /\ AddBatch(u, R, Enough(u, R), size)
        /\ ToSet(Alive) \cap ToSet(u) \subseteq ToSet(R)
        /\ u # <<>> => R = Keep(Alive, ToSet(u))
  BY BatchStep DEF CallInv, TypeInv
<1>3. /\ rows' = rows \o R
      /\ UNCHANGED <<tableVars, callVars, page, refs>>
      /\ \/ pc' = "respond" /\ (Len(rows') = size \/ Len(u) < size)
         \/ pc' = "batch" /\ offset' = offset + size
  BY <1>2 DEF AddBatch, Enough, NextBatch, AddBatch
<1>4. /\ ToSet(u) = {refs[i] : i \in {j \in 1..Len(refs) : offset < j /\ j <= offset + size}}
      /\ Len(u) < size => Len(refs) <= offset + size
  <2>1. ToSet(u) = {refs[i] : i \in {j \in 1..Len(refs) : offset < j /\ j <= offset + size}}
    BY <1>1, SliceSet
  <2>2. offset + size < Len(refs) => Len(u) = size
    BY <1>1, SliceLen
  <2> HIDE DEF u, size
  <2>3. Len(u) < size => Len(refs) <= offset + size
    BY <1>1, <2>2
  <2> QED BY <2>1, <2>3
<1>5. /\ IsFiniteSet(Before(y)) /\ Cardinality(Before(y)) \in Nat /\ y \in ToSet(Alive)
  BY ListedRows
<1>6. PICK p \in 1..Len(refs) : refs[p] = y /\ Cardinality(Ahead(refs, y)) = p - 1
  BY <1>1, PlaceOf DEF AwaitsBatch
<1>7. /\ p \in Nat /\ p - 1 >= Base /\ Cardinality(Before(y)) >= p - 1
      /\ p <= offset => y \in ToSet(rows) /\ OnPage(y)
      /\ (offset = Base /\ rows = <<>>) \/ offset > Base + limit
  <2>1. Cardinality(Ahead(refs, y)) <= Cardinality(Before(y))
    BY <1>5, CountGrows DEF AwaitsBatch
  <2>2. p <= offset => p - 1 < offset
    BY <1>1
  <2> QED BY <1>1, <1>5, <1>6, <2>1, <2>2 DEF AwaitsBatch
<1>8. p - 1 >= offset => behind \/ offset = Base
  <2> SUFFICES ASSUME p - 1 >= offset, offset > Base + limit PROVE behind
    BY <1>7
  <2> QED BY <1>1, <1>5, <1>7
<1>9. offset < p /\ p <= offset + size => y \in ToSet(u) /\ y \in ToSet(R)
  <2> HIDE DEF u, size
  <2>1. offset < p /\ p <= offset + size => y \in ToSet(u)
    BY <1>4, <1>6
  <2> QED BY <1>2, <1>5, <2>1
<1>10. ToSet(rows') = ToSet(rows) \cup ToSet(R)
  BY <1>1, <1>2, <1>3, ConcatSet
<1>11. p <= offset \/ p > offset
  BY <1>1, <1>7
<1>12. p <= offset + size => y \in ToSet(rows')
  <2> HIDE DEF u, size
  <2> QED BY <1>7, <1>9, <1>10, <1>11
<1>13. ASSUME p <= offset + size, Len(rows') > limit
       PROVE  y \in ToSet(Front(rows')) \/ behind
  <2>1. CASE offset = Base
    <3>1. rows = <<>> /\ p > offset
      BY <1>1, <1>7, <2>1
    <3>2. rows' = R
      <4> QED BY <1>2, <1>3, <3>1, ConcatEmptySeq
    <3>3. y \in ToSet(u)
      BY <1>9, <1>13, <3>1
    <3>4. R = Keep(Alive, ToSet(u))
      <4> HIDE DEF u
      <4> QED BY <1>2, <3>3, EmptyRows
    <3>5. Len(Keep(Alive, ToSet(u))) > limit
      BY <1>13, <3>2, <3>4
    <3> HIDE DEF u
    <3>6. y \in ToSet(Front(Keep(Alive, ToSet(u)))) \/ behind
      BY <2>1, <3>3, <3>5, FirstBatch DEF u
    <3> QED BY <3>2, <3>4, <3>6
  <2>2. CASE offset # Base /\ p > offset
    <3>1. p - 1 >= offset
      BY <1>1, <1>7, <2>2
    <3> QED BY <1>8, <2>2, <3>1
  <2>3. CASE p <= offset
    <3>1. y \in ToSet(rows) /\ OnPage(y)
      BY <1>7, <2>3
    <3>2. CASE R = <<>>
      <4>1. rows' = rows
        BY <1>1, <1>3, <3>2, ConcatEmptySeq
      <4>2. ~(Len(rows) <= limit)
        BY <1>1, <1>13, <4>1
      <4> QED BY <3>1, <4>1, <4>2 DEF OnPage
    <3>3. CASE R # <<>>
      <4>1. Len(R) > 0
        BY <1>2, <3>3, EmptySeq
      <4>2. ToSet(rows) \subseteq ToSet(Front(rows \o R))
        BY <1>1, <1>2, <4>1, FrontConcat
      <4> QED BY <1>3, <3>1, <4>2
    <3> QED BY <3>2, <3>3
  <2> QED BY <1>11, <2>1, <2>2, <2>3
<1>14. p > offset + size => behind
  BY <1>1, <1>5, <1>7
<1>15. Base' = Base /\ limit' = limit /\ Before(y)' = Before(y)
  BY <1>3, ListedStays DEF Base, callVars
<1>16. Len(rows') \in Nat
  <2> QED BY <1>1, <1>2, <1>3, ConcatProperties
<1>17. p <= offset + size => OnPage(y)'
  <2> SUFFICES ASSUME p <= offset + size PROVE OnPage(y)'
    OBVIOUS
  <2>1. Len(rows') <= limit \/ Len(rows') > limit
    BY <1>1, <1>16
  <2> HIDE DEF u, size
  <2> QED BY <1>12, <1>13, <1>15, <2>1 DEF OnPage
<1>18. CASE pc' = "batch"
  <2>1. offset' = offset + size
    BY <1>3, <1>18
  <2>2. offset' > Base + limit
    BY <1>1, <1>7, <2>1
  <2>3. p - 1 < offset + size => p <= offset + size
    BY <1>1, <1>7
  <2>4. Cardinality(Ahead(refs', y)) = p - 1 /\ p - 1 >= Base
    BY <1>3, <1>6, <1>7
  <2> HIDE DEF u, size
  <2>5. AwaitsBatch(y)'
    BY <1>3, <1>12, <1>15, <1>17, <2>1, <2>2, <2>3, <2>4 DEF AwaitsBatch
  <2> QED BY <1>18, <2>5 DEF Awaits
<1>19. CASE pc' = "respond"
  <2>1. OnPage(y)'
    <3>1. CASE p <= offset + size
      BY <1>17, <3>1
    <3>2. CASE ~(p <= offset + size)
      <4>1. p > offset + size
        BY <1>1, <1>7, <3>2
      <4>2. ~(Len(u) < size)
        <5> HIDE DEF u, size
        <5> QED BY <1>1, <1>4, <1>7, <4>1
      <4>3. Len(rows') = size
        BY <1>3, <1>19, <4>2
      <4>4. ~(Len(rows') <= limit)
        BY <1>1, <4>3
      <4>5. behind
        BY <1>14, <4>1
      <4> HIDE DEF u, size
      <4> QED BY <1>15, <4>4, <4>5 DEF OnPage
    <3> QED BY <3>1, <3>2
  <2> QED BY <1>19, <2>1 DEF Awaits
<1> QED BY <1>3, <1>18, <1>19

\* A page read in SQL takes its rows by their place among the listed ones.
LEMMA PageAwaits ==
  ASSUME CallInv, FindPage, NEW y \in Untouched, Cardinality(Before(y)) >= Base
  PROVE  OnPage(y)'
<1>1. /\ Base \in Nat /\ limit \in Nat /\ offset = Base
      /\ SearchLimit(limit) = limit + 1
  BY Numbers DEF CallInv, Places, FindPage
<1>2. /\ Alive \in Seq(Item) /\ IsInjective(Alive) /\ y \in ToSet(Alive)
      /\ Cardinality(Before(y)) \in Nat
  BY AliveRows, ListedRows DEF CallInv, TypeInv
<1>3. Ahead(Alive, y) = Before(y)
  <2>1. Ahead(Alive, y) = Ahead(order, y) \cap (Item \ deleted) /\ Ahead(Alive, y) \subseteq Before(y)
    BY ListedRows
  <2>2. Listed \subseteq Item \ deleted
    BY StoredRows DEF Listed, FindPage, CallInv, TypeInv, TypeOK
  <2> QED BY <2>1, <2>2 DEF Before
<1>4. PICK p \in 1..Len(Alive) : Alive[p] = y /\ Cardinality(Ahead(Alive, y)) = p - 1
  BY <1>2, PlaceOf
<1>5. Base < p /\ (p > Base + limit => Cardinality(Before(y)) >= Base + limit)
  BY <1>1, <1>2, <1>3, <1>4
<1>6. rows' = Slice(Alive, Base, limit + 1) /\ UNCHANGED <<tableVars, callVars, page>>
  BY <1>1 DEF FindPage
<1>7. IF Len(rows') <= limit THEN y \in ToSet(rows')
                             ELSE y \in ToSet(Front(rows')) \/ p > Base + limit
  BY <1>1, <1>2, <1>4, <1>5, <1>6, TakePage
<1>8. Base' = Base /\ limit' = limit /\ Before(y)' = Before(y)
  BY <1>6, ListedStays DEF Base, callVars
<1> QED BY <1>5, <1>7, <1>8 DEF OnPage

LEMMA QueryAwaits ==
  ASSUME CallInv, NEW y \in Untouched, AwaitsQueries(y), pc = "queries",
         FindPage \/ CountFlows \/ FindMatching \/ FindOrder
  PROVE  Awaits(y)'
<1>1. /\ UNCHANGED <<tableVars, callVars, page>> /\ pc' = "queries"
      /\ Base' = Base /\ limit' = limit /\ Listed' = Listed /\ order' = order
      /\ Before(y)' = Before(y)
  <2>1. UNCHANGED <<tableVars, callVars, page>> /\ pc' = "queries"
    BY DEF FindPage, CountFlows, FindMatching, FindOrder
  <2> QED BY <2>1, ListedStays DEF Base, callVars, tableVars
<1>2. CASE FindPage
  <2>1. OnPage(y)'
    BY <1>2, PageAwaits DEF AwaitsQueries
  <2>2. AwaitsQueries(y)'
    BY <1>1, <1>2, <2>1 DEF FindPage, AwaitsQueries
  <2> QED BY <1>1, <2>2 DEF Awaits
<1>3. CASE CountFlows
  <2>1. AwaitsQueries(y)'
    BY <1>1, <1>3 DEF CountFlows, AwaitsQueries, OnPage
  <2> QED BY <1>1, <2>1 DEF Awaits
<1>4. CASE FindMatching
  <2>1. matching' = Listed
    BY <1>4, AliveRows DEF FindMatching, Listed, CallInv, TypeInv, TypeOK, Kind
  <2>2. y \in Listed
    BY ListedRows
  <2>3. "page" \notin read'
    BY <1>4 DEF FindMatching, CallInv, Places
  <2>4. AwaitsQueries(y)'
    BY <1>1, <1>4, <2>1, <2>2, <2>3 DEF FindMatching, AwaitsQueries, Before
  <2> QED BY <1>1, <2>4 DEF Awaits
<1>5. CASE FindOrder
  <2>1. y \in ToSet(order)
    BY ListedRows
  <2>2. "page" \notin read'
    BY <1>5 DEF FindOrder, CallInv, Places
  <2>3. AwaitsQueries(y)'
    BY <1>1, <1>5, <2>1, <2>2 DEF FindOrder, AwaitsQueries, Before
  <2> QED BY <1>1, <2>3 DEF Awaits
<1> QED BY <1>2, <1>3, <1>4, <1>5

LEMMA CombineAwaits ==
  ASSUME CallInv, Combine, NEW y \in Untouched, AwaitsQueries(y)
  PROVE  Awaits(y)'
<1>1. /\ UNCHANGED <<tableVars, callVars, page, offset, rows>>
      /\ {"matching", "order"} \subseteq read /\ pc = "queries"
      /\ refs' = SortMatching
      /\ pc' = IF matching = {} THEN "respond" ELSE "batch"
  BY DEF Combine
<1>2. /\ y \in ToSet(sorted) /\ y \in matching
      /\ Ahead(order, y) \cap matching \subseteq Listed
      /\ Ahead(sorted, y) \subseteq Ahead(order, y)
      /\ Cardinality(Ahead(sorted, y) \cap matching) >= Base
  BY <1>1 DEF AwaitsQueries
<1>3. sorted \in Seq(Item) /\ IsInjective(sorted) /\ sorted # <<>>
  BY <1>2, EmptyRows DEF CallInv, TypeInv, TypeOK, Lists
<1>4. refs' = Keep(sorted, matching) /\ pc' = "batch"
  BY <1>1, <1>2, <1>3 DEF SortMatching
<1>5. /\ ToSet(Keep(sorted, matching)) = ToSet(sorted) \cap matching
      /\ Ahead(Keep(sorted, matching), y) = Ahead(sorted, y) \cap matching
  <2>1. y \in ToSet(sorted) \cap matching
    BY <1>2
  <2> QED BY <1>3, <2>1, KeepSet, AheadKeep
<1>6. /\ Base' = Base /\ limit' = limit /\ Before(y)' = Before(y)
      /\ offset' = Base /\ rows' = <<>> /\ Base \in Nat
      /\ Cardinality(Ahead(sorted, y) \cap matching) \in Nat
  <2>1. "page" \notin read
    BY <1>1 DEF Combine, CallInv, Places
  <2>2. offset = Base /\ rows = <<>>
    BY <1>1, <2>1 DEF CallInv, Places
  <2>3. Base' = Base /\ limit' = limit /\ Before(y)' = Before(y)
    BY <1>1, ListedStays DEF Base, callVars
  <2> QED BY <1>1, <1>3, <2>2, <2>3, Numbers, AheadFinite DEF CallInv
<1>7. ~(Cardinality(Ahead(refs', y)) < offset') /\ Cardinality(Ahead(refs', y)) >= Base
  BY <1>2, <1>4, <1>5, <1>6
<1>8. Ahead(refs', y) \subseteq Before(y)
  BY <1>2, <1>4, <1>5 DEF Before
<1>9. AwaitsBatch(y)'
  BY <1>2, <1>4, <1>5, <1>6, <1>7, <1>8 DEF AwaitsBatch
<1> QED BY <1>4, <1>9 DEF Awaits

LEMMA RespondAwaits ==
  ASSUME CallInv, Respond, batches, ~Cut', NEW y \in Untouched, y \notin ToSet(exported'), Awaits(y)
  PROVE  Awaits(y)'
<1>1. UNCHANGED <<tableVars, callVars>> /\ Answered
  BY DEF Respond
<1>2. OnPage(y)
  BY <1>1 DEF Awaits, AwaitsQueries, Answered
<1>3. y \notin ToSet(Response.flows)
  BY Collects
<1>4. rows \in Seq(Item) /\ limit \in Nat \ {0} /\ Len(rows) \in Nat /\ Base \in Nat
  BY Numbers DEF CallInv, TypeInv, TypeOK
<1>5. Len(rows) > limit
  <2>1. CASE Len(rows) <= limit
    <3>1. ~(Len(rows) > limit)
      BY <1>4, <2>1
    <3> QED BY <1>2, <1>3, <1>4, <2>1, <3>1, ResponseRows DEF OnPage
  <2> QED BY <1>4, <2>1
<1>6. Response.hasNextPage /\ Response.flows = Front(rows)
  BY <1>4, <1>5, ResponseRows
<1>7. Cardinality(Before(y)) >= Base + limit
  <2>1. ~(Len(rows) <= limit)
    BY <1>4, <1>5
  <2> QED BY <1>2, <1>3, <1>6, <2>1 DEF OnPage
<1>8. /\ page' = NextPage(page) /\ pc' = "queries" /\ read' = {}
      /\ limit' = limit
  BY <1>6 DEF Respond, StartSearch, callVars
<1>9. Base' <= Base + limit /\ Base' \in Nat
  <2>1. CASE page \in Nat
    <3>1. Base' = Base + limit
      BY <1>4, <1>8, <2>1, FirstRowNext DEF Base
    <3> QED BY <1>4, <3>1
  <2>2. CASE page \notin Nat
    <3>1. Base' = 0
      BY <1>8, <2>2, PagesAssumption DEF Base, FirstRow, NextPage
    <3> QED BY <1>4, <3>1
  <2> QED BY <2>1, <2>2
<1>10. Before(y)' = Before(y) /\ Cardinality(Before(y)) \in Nat
  BY <1>1, ListedStays, ListedRows
<1>11. Cardinality(Before(y)') >= Base'
  BY <1>4, <1>7, <1>9, <1>10
<1> QED BY <1>8, <1>11 DEF Awaits, AwaitsQueries

\* A row that is put is at most one more ahead of a row it does not pull.
LEMMA PutAwaits ==
  ASSUME CallInv, NEW x \in Item, Put(x), NEW y \in Untouched, y # x, y \notin pulled',
         Awaits(y)
  PROVE  Awaits(y)'
<1>1. /\ UNCHANGED <<callVars, pc, page, queryVars, offset, deleted>>
      /\ Base' = Base /\ limit' = limit /\ kind' = kind
  BY DEF Put, Write, callVars, Base
<1>2. /\ order' \in Seq(Item) /\ IsInjective(order')
      /\ ToSet(order) \subseteq ToSet(order')
      /\ Ahead(order, y) \subseteq Ahead(order', y)
      /\ Ahead(order', y) \subseteq {x} \cup Ahead(order, y) /\ x \in ToSet(order')
  BY PutOrder, ListedRows DEF CallInv, TypeInv
<1>3. Listed \subseteq Listed' /\ x \in Listed'
  BY <1>1, <1>2 DEF Listed, Put
<1>4. /\ order \in Seq(Item) /\ IsInjective(order) /\ sorted \in Seq(Item) /\ IsInjective(sorted)
      /\ Base \in Nat /\ limit \in Nat
  BY Numbers DEF CallInv, TypeInv, TypeOK, Lists
<1>5. ASSUME NEW S, NEW U, S \subseteq U, IsFiniteSet(U), NEW n \in Nat, Cardinality(S) >= n
      PROVE  Cardinality(U) >= n
  <2>1. Cardinality(S) \in Nat /\ Cardinality(U) \in Nat /\ Cardinality(S) <= Cardinality(U)
    BY <1>5, CountGrows
  <2> QED BY <1>5, <2>1
<1>6. Before(y) \subseteq Before(y)' /\ IsFiniteSet(Before(y)')
  <2>1. Before(y)' = Ahead(order', y) \cap Listed'
    BY DEF Before
  <2>2. \A S : IsFiniteSet(Ahead(order', y) \cap S)
    BY <1>2, AheadFinite
  <2> QED BY <1>2, <1>3, <2>1, <2>2 DEF Before
<1>7. \A n \in Nat : Cardinality(Before(y)) >= n => Cardinality(Before(y)') >= n
  BY <1>5, <1>6
<1>8. OnPage(y) => OnPage(y)'
  <2>1. Base + limit \in Nat
    BY <1>4
  <2> QED BY <1>1, <1>7, <2>1 DEF OnPage, queryVars
<1>9. CASE pc = "queries"
  <2>1. AwaitsQueries(y)
    BY <1>9 DEF Awaits
  <2>2. \A S : IsFiniteSet(Ahead(order', y) \cap S) /\ IsFiniteSet(Ahead(sorted, y) \cap S)
    BY <1>2, <1>4, AheadFinite
  <2>3. Cardinality(Before(y)') >= Base
    BY <1>4, <1>7, <2>1 DEF AwaitsQueries
  <2>4. "order" \in read => Cardinality(Ahead(sorted, y) \cap Listed') >= Base
    <3>1. Ahead(sorted, y) \cap Listed \subseteq Ahead(sorted, y) \cap Listed'
      BY <1>3
    <3>2. "order" \in read => Cardinality(Ahead(sorted, y) \cap Listed) >= Base
      BY <2>1 DEF AwaitsQueries
    <3> QED BY <1>4, <1>5, <2>2, <3>1, <3>2
  <2>5. "matching" \in read => Cardinality(Ahead(order', y) \cap matching) >= Base
    <3>1. Ahead(order, y) \cap matching \subseteq Ahead(order', y) \cap matching
      BY <1>2
    <3>2. "matching" \in read => Cardinality(Ahead(order, y) \cap matching) >= Base
      BY <2>1 DEF AwaitsQueries
    <3> QED BY <1>4, <1>5, <2>2, <3>1, <3>2
  <2>6. UNCHANGED <<read, matching, sorted, refs, rows>>
    BY <1>1 DEF queryVars
  <2>7. AwaitsQueries(y)'
    BY <1>1, <1>2, <1>3, <1>8, <2>1, <2>3, <2>4, <2>5, <2>6 DEF AwaitsQueries
  <2> QED BY <1>1, <1>9, <2>7 DEF Awaits
<1>10. CASE pc = "batch"
  <2>1. AwaitsBatch(y)
    BY <1>10 DEF Awaits
  <2>2. AwaitsBatch(y)'
    BY <1>1, <1>6, <1>8, <2>1 DEF AwaitsBatch, queryVars
  <2> QED BY <1>1, <1>10, <2>2 DEF Awaits
<1>11. CASE pc \notin {"queries", "batch"}
  BY <1>1, <1>8, <1>11 DEF Awaits
<1> QED BY <1>9, <1>10, <1>11

\* A row that is deleted leaves the rows behind it pulled, the others where
\* they were.
LEMMA DeleteAwaits ==
  ASSUME CallInv, NEW x \in Item, SoftDelete(x), NEW y \in Untouched, y \notin pulled', Awaits(y)
  PROVE  Awaits(y)'
<1>1. /\ UNCHANGED <<callVars, pc, page, queryVars, offset, order>>
      /\ Base' = Base /\ limit' = limit /\ kind' = kind /\ deleted' = deleted \cup {x}
  BY DEF SoftDelete, Write, callVars, Base
<1>2. x \notin Ahead(order, y)
  BY <1>1, ListedRows DEF SoftDelete, Write
<1>3. Listed \ {x} \subseteq Listed' /\ Listed' \subseteq Listed
  BY <1>1 DEF Listed
<1>4. Before(y)' = Before(y)
  BY <1>1, <1>2, <1>3 DEF Before
<1>5. OnPage(y) => OnPage(y)'
  BY <1>1, <1>4 DEF OnPage, queryVars
<1>6. CASE pc = "queries"
  <2>1. AwaitsQueries(y)
    BY <1>6 DEF Awaits
  <2>2. UNCHANGED <<read, matching, sorted, refs, rows>>
    BY <1>1 DEF queryVars
  <2>3. "order" \in read => Ahead(sorted, y) \cap Listed' = Ahead(sorted, y) \cap Listed
    BY <1>2, <1>3, <2>1 DEF AwaitsQueries
  <2>4. Ahead(order, y) \cap matching \subseteq Listed => Ahead(order, y) \cap matching \subseteq Listed'
    BY <1>2, <1>3
  <2>5. AwaitsQueries(y)'
    BY <1>1, <1>4, <1>5, <2>1, <2>2, <2>3, <2>4 DEF AwaitsQueries
  <2> QED BY <1>1, <1>6, <2>5 DEF Awaits
<1>7. CASE pc = "batch"
  BY <1>1, <1>4, <1>5, <1>7 DEF Awaits, AwaitsBatch, queryVars
<1>8. CASE pc \notin {"queries", "batch"}
  BY <1>1, <1>5, <1>8 DEF Awaits
<1> QED BY <1>6, <1>7, <1>8

LEMMA AwaitsStays ==
  ASSUME NEW y, Awaits(y), UNCHANGED vars PROVE Awaits(y)'
<1>1. /\ UNCHANGED <<tableVars, callVars, page, pc, read, rows, matching, sorted, refs, offset>>
      /\ Base' = Base /\ limit' = limit /\ Listed' = Listed /\ order' = order
      /\ Before(y)' = Before(y)
  BY ListedStays DEF vars, queryVars, Base, callVars, tableVars
<1>2. OnPage(y) => OnPage(y)'
  BY <1>1 DEF OnPage
<1> QED BY <1>1, <1>2 DEF Awaits, AwaitsQueries, AwaitsBatch

LEMMA NextExport ==
  ASSUME CallInv, Export, [Next]_vars PROVE Export'
<1> SUFFICES ASSUME Exports', NEW y \in Untouched', y \notin pulled',
                    y \notin ToSet(exported')
             PROVE  Awaits(y)'
  BY DEF Export
<1>1. ASSUME UNCHANGED <<tableVars, callVars, exported>>
      PROVE  y \in Untouched /\ Awaits(y)
  BY <1>1, UntouchedStays DEF Export, Exports, Cut, tableVars, callVars
<1>2. CASE UNCHANGED vars
  BY <1>1, <1>2, AwaitsStays DEF vars
<1>3. ASSUME NEW call \in Calls, SearchFlows(call) PROVE Awaits(y)'
  <2>1. /\ pc' = "queries" /\ read' = {} /\ UNCHANGED <<tableVars, kind>>
        /\ page' = call.page /\ began' = FirstRow(call.page, limit')
    BY <1>3 DEF SearchFlows, StartSearch
  <2>2. Base' = 0
    BY <2>1 DEF Base, Exports
  <2>3. y \in Untouched /\ Before(y)' = Before(y)
    BY <2>1, UntouchedStays DEF Before, Listed, tableVars
  <2>4. Cardinality(Before(y)) \in Nat
    BY <2>3, ListedRows
  <2>5. Cardinality(Before(y)') >= Base'
    BY <2>2, <2>3, <2>4
  <2> QED BY <2>1, <2>5 DEF Awaits, AwaitsQueries
<1>4. CASE FindPage \/ CountFlows \/ FindMatching \/ FindOrder
  <2>1. UNCHANGED <<tableVars, callVars, exported>> /\ pc = "queries"
    BY <1>4 DEF FindPage, CountFlows, FindMatching, FindOrder
  <2>2. y \in Untouched /\ AwaitsQueries(y)
    BY <1>1, <2>1 DEF Awaits
  <2> QED BY <1>4, <2>1, <2>2, QueryAwaits
<1>5. CASE Combine
  <2>1. UNCHANGED <<tableVars, callVars, exported>> /\ pc = "queries"
    BY <1>5 DEF Combine
  <2>2. y \in Untouched /\ AwaitsQueries(y)
    BY <1>1, <2>1 DEF Awaits
  <2> QED BY <1>5, <2>2, CombineAwaits
<1>6. CASE NextBatch
  <2>1. UNCHANGED <<tableVars, callVars, exported>> /\ pc = "batch"
    BY <1>6 DEF NextBatch, AddBatch
  <2>2. y \in Untouched /\ AwaitsBatch(y)
    BY <1>1, <2>1 DEF Awaits
  <2> QED BY <1>6, <2>2, BatchAwaits
<1>7. CASE Respond
  <2>1. UNCHANGED <<tableVars, callVars>>
    BY <1>7 DEF Respond
  <2>2. ~Cut /\ ~Cut' /\ ToSet(exported) \subseteq ToSet(exported')
    BY <1>7, Collects DEF Exports
  <2>3. Exports /\ batches
    BY <2>1, <2>2 DEF Exports, tableVars, callVars
  <2>4. y \in Untouched /\ Awaits(y)
    BY <2>1, <2>2, <2>3, UntouchedStays DEF Export, tableVars
  <2> QED BY <1>7, <2>2, <2>3, <2>4, RespondAwaits
<1>8. ASSUME NEW x \in Item, Put(x) PROVE Awaits(y)'
  <2>1. UNCHANGED <<callVars, exported>> /\ y \notin pulled
    BY <1>8 DEF Put, Write
  <2>2. y \in Untouched /\ y # x
    BY <1>8, UntouchedShrinks DEF CallInv, TypeInv
  <2>3. Awaits(y)
    BY <2>1, <2>2 DEF Export, Exports, Cut, callVars
  <2> QED BY <1>8, <2>2, <2>3, PutAwaits
<1>9. ASSUME NEW x \in Item, SoftDelete(x) PROVE Awaits(y)'
  <2>1. UNCHANGED <<callVars, exported>> /\ y \notin pulled
    BY <1>9 DEF SoftDelete, Write
  <2>2. y \in Untouched
    BY <1>9, UntouchedShrinks DEF CallInv, TypeInv
  <2>3. Awaits(y)
    BY <2>1, <2>2 DEF Export, Exports, Cut, callVars
  <2> QED BY <1>9, <2>2, <2>3, DeleteAwaits
<1> QED
  BY <1>2, <1>3, <1>4, <1>5, <1>6, <1>7, <1>8, <1>9 DEF Next, Serve

\* An export from the first page on has every flow that was left alone and
\* that lost no row ahead of it, under every order of the rows, though they
\* move and are deleted while it asks for page after page.
THEOREM UntouchedExportedHolds == Spec => []UntouchedExported
<1>1. Init => Export
  BY DEF Init, Export, Exports
<1>2. CallInv /\ Export /\ [Next]_vars => Export'
  BY NextExport
<1>3. Export => UntouchedExported
  BY DEF Export, Exports, Awaits, UntouchedExported
<1> QED BY <1>1, <1>2, <1>3, CallHolds, PTL DEF Spec
-----------------------------------------------------------------------------
(* A page names no flow twice, and an export stays inside the table.       *)

\* The rows found are references from the page's first row on.
Refs(from, upto) == {refs[i] : i \in {j \in 1..Len(refs) : from < j /\ j <= upto}}
Found(upto) == ToSet(rows) \subseteq Refs(Base, upto)

Once ==
  ~flooded =>
    /\ IsInjective(rows)
    /\ pc = "batch" => Base <= offset /\ Found(offset)
    /\ pc = "respond" => Found(Len(refs))

\* A batch adds the rows of references that no earlier batch had.
LEMMA BatchOnce ==
  ASSUME CallInv, Once, NextBatch, ~flooded, ~flooded'
  PROVE  /\ IsInjective(rows')
         /\ Base <= offset + SearchLimit(limit)
         /\ ToSet(rows') \subseteq Refs(Base, offset + SearchLimit(limit))
         /\ ToSet(rows') \subseteq Refs(Base, Len(refs))
         /\ UNCHANGED <<refs, page, limit>>
<1> DEFINE size == SearchLimit(limit)
<1> DEFINE slice == Slice(refs, offset, size)
<1> DEFINE new == Keep(Alive, ToSet(slice))
<1>1. /\ size \in Nat /\ offset \in Nat /\ Base \in Nat /\ refs \in Seq(Item)
      /\ rows \in Seq(Item) /\ Len(refs) \in Nat /\ IsInjective(refs)
  BY Numbers DEF CallInv, Lists
<1>2. slice \in Seq(Item) /\ ToSet(slice) = Refs(offset, offset + size)
  BY <1>1, SliceType, SliceSet DEF Refs
<1>3. pc = "batch" /\ rows' = rows \o new /\ UNCHANGED <<refs, page, limit>>
  BY BatchStep DEF NextBatch, AddBatch, callVars, CallInv, TypeInv
<1> HIDE DEF slice
<1>4. Alive \in Seq(Item) /\ IsInjective(Alive)
  BY AliveRows DEF CallInv, TypeInv
<1>5. new \in Seq(Item) /\ IsInjective(new)
  BY <1>4, KeepType, KeepInjective
<1>6. ToSet(new) \subseteq ToSet(slice)
  BY <1>4, KeepSet
<1>7. IsInjective(rows) /\ Base <= offset /\ ToSet(rows) \subseteq Refs(Base, offset)
  BY <1>3 DEF Once, Found
<1> HIDE DEF new, size
<1>8. Refs(Base, offset) \cap Refs(offset, offset + size) = {}
  <2> SUFFICES ASSUME NEW x \in Refs(Base, offset), x \in Refs(offset, offset + size)
               PROVE  FALSE
    OBVIOUS
  <2>1. PICK i \in 1..Len(refs) : i <= offset /\ x = refs[i]
    BY DEF Refs
  <2>2. PICK k \in 1..Len(refs) : offset < k /\ x = refs[k]
    BY DEF Refs
  <2>3. i \in DOMAIN refs /\ k \in DOMAIN refs /\ refs[i] = refs[k]
    BY <1>1, <2>1, <2>2
  <2>4. i = k
    BY <1>1, <2>3 DEF IsInjective
  <2> QED BY <1>1, <2>1, <2>2, <2>4
<1>9. Refs(Base, offset) \cup Refs(offset, offset + size) \subseteq Refs(Base, offset + size)
  <2> SUFFICES ASSUME NEW i \in 1..Len(refs),
                      (Base < i /\ i <= offset) \/ (offset < i /\ i <= offset + size)
               PROVE  Base < i /\ i <= offset + size
    BY DEF Refs
  <2> QED BY <1>1, <1>7
<1>10. Refs(Base, offset + size) \subseteq Refs(Base, Len(refs))
  <2> SUFFICES ASSUME NEW i \in 1..Len(refs) PROVE i <= Len(refs)
    BY DEF Refs
  <2> QED BY <1>1
<1>11. ToSet(rows) \cap ToSet(new) = {}
  BY <1>2, <1>6, <1>7, <1>8
<1>12. IsInjective(rows')
  BY <1>1, <1>3, <1>5, <1>7, <1>11, ConcatInjective
<1>13. ToSet(rows') = ToSet(rows) \cup ToSet(new)
  BY <1>1, <1>3, <1>5, ConcatSet
<1>14. /\ ToSet(rows') \subseteq Refs(Base, offset + size)
       /\ ToSet(rows') \subseteq Refs(Base, Len(refs))
  BY <1>2, <1>6, <1>7, <1>9, <1>10, <1>13
<1>15. Base <= offset + size
  BY <1>1, <1>7
<1> QED BY <1>3, <1>12, <1>14, <1>15 DEF size

LEMMA NextOnce ==
  ASSUME CallInv, Once, [Next]_vars PROVE Once'
<1> SUFFICES ASSUME ~flooded' PROVE Once'
  BY DEF Once
<1>0. ~flooded
  BY DEF Next, Serve, vars, SearchFlows, FindPage, CountFlows, FindMatching, FindOrder,
         Combine, NextBatch, AddBatch, Respond, Put, SoftDelete, Write, CallInv, TypeInv, TypeOK
<1>1. CASE UNCHANGED <<page, limit, pc, refs, rows, offset>>
  BY <1>0, <1>1 DEF Once, Found, Refs, Base
<1>2. CASE pc' \notin {"batch", "respond"} /\ rows' \in {rows, <<>>}
  BY <1>0, <1>2, EmptyRows DEF Once
<1>3. CASE FindPage
  <2>1. IsInjective(rows')
    BY <1>3, Numbers, AliveRows, SliceInjective DEF FindPage, CallInv, TypeInv
  <2>2. pc' = "queries"
    BY <1>3 DEF FindPage
  <2> QED BY <2>1, <2>2 DEF Once
<1>4. CASE Combine
  <2>1. rows = <<>> /\ rows' = rows /\ offset' = Base /\ Base' = Base
    BY <1>4 DEF Combine, CallInv, Places, Base, callVars
  <2>2. Base \in Nat
    BY Numbers DEF CallInv
  <2>3. ToSet(rows') = {} /\ IsInjective(rows')
    BY <2>1, EmptyRows
  <2> QED BY <2>1, <2>2, <2>3 DEF Once, Found
<1>5. CASE NextBatch
  <2>1. /\ IsInjective(rows')
        /\ Base <= offset + SearchLimit(limit)
        /\ ToSet(rows') \subseteq Refs(Base, offset + SearchLimit(limit))
        /\ ToSet(rows') \subseteq Refs(Base, Len(refs))
        /\ UNCHANGED <<refs, page, limit>>
    BY <1>0, <1>5, BatchOnce
  <2>2. pc' = "respond" \/ (pc' = "batch" /\ offset' = offset + SearchLimit(limit))
    BY <1>5 DEF NextBatch, AddBatch
  <2> QED BY <2>1, <2>2 DEF Once, Found, Refs, Base
<1>6. \/ UNCHANGED <<page, limit, pc, refs, rows, offset>>
      \/ pc' \notin {"batch", "respond"} /\ rows' \in {rows, <<>>}
      \/ FindPage \/ Combine \/ NextBatch
  <2>1. \A call \in Calls : SearchFlows(call) => pc' = "queries" /\ rows' = <<>>
    BY DEF SearchFlows, StartSearch
  <2>2. CountFlows \/ FindMatching \/ FindOrder => pc' = "queries" /\ rows' = rows
    BY DEF CountFlows, FindMatching, FindOrder
  <2>3. Respond => pc' \in {"queries", "done"} /\ rows' \in {rows, <<>>}
    BY DEF Respond, StartSearch, queryVars
  <2>4. \A x \in Item : Put(x) \/ SoftDelete(x) =>
                          UNCHANGED <<page, limit, pc, refs, rows, offset>>
    BY DEF Put, SoftDelete, Write, callVars, queryVars
  <2>5. UNCHANGED vars => UNCHANGED <<page, limit, pc, refs, rows, offset>>
    BY DEF vars, callVars, queryVars
  <2> QED BY <2>1, <2>2, <2>3, <2>4, <2>5 DEF Next, Serve
<1> QED BY <1>1, <1>2, <1>3, <1>4, <1>5, <1>6

LEMMA NextOncePerPage ==
  ASSUME CallInv, Once, OncePerPage, [Next]_vars PROVE OncePerPage'
<1> SUFFICES ASSUME ~flooded' PROVE IsInjective(last'.flows)
  BY DEF OncePerPage
<1>0. ~flooded
  BY DEF Next, Serve, vars, SearchFlows, FindPage, CountFlows, FindMatching, FindOrder,
         Combine, NextBatch, AddBatch, Respond, Put, SoftDelete, Write, CallInv, TypeInv, TypeOK
<1>1. CASE last' = last
  BY <1>0, <1>1 DEF OncePerPage
<1>2. CASE last' = Response
  <2>1. rows \in Seq(Item) /\ limit \in Nat \ {0} /\ IsInjective(rows)
    BY <1>0 DEF CallInv, TypeInv, TypeOK, Once
  <2>2. CASE ~(Len(rows) > limit)
    BY <1>2, <2>1, <2>2, ResponseRows DEF OncePerPage
  <2>3. CASE Len(rows) > limit
    <3>1. Response.flows = Front(rows) /\ Len(rows) > 0 /\ Len(rows) \in Nat
      BY <2>1, <2>3, ResponseRows
    <3>2. /\ DOMAIN Front(rows) = 1..Len(rows) - 1
          /\ \A i \in 1..Len(rows) - 1 : Front(rows)[i] = rows[i] /\ i \in DOMAIN rows
      BY <2>1, <3>1, FrontType
    <3> QED BY <1>2, <2>1, <3>1, <3>2 DEF OncePerPage, IsInjective
  <2> QED BY <2>2, <2>3
<1>3. last' = last \/ last' = Response
  BY DEF Next, Serve, vars, SearchFlows, FindPage, CountFlows, FindMatching,
         FindOrder, Combine, NextBatch, AddBatch, Respond, Put, SoftDelete, Write
<1> QED BY <1>1, <1>2, <1>3

\* No page shows a flow twice, whatever is written between its batches, unless
\* one of them had no references and every row.
THEOREM OncePerPageHolds == Spec => []OncePerPage
<1>1. Init => Once /\ OncePerPage
  BY EmptyRows DEF Init, NoResponse, Once, OncePerPage
<1>2. CallInv /\ Once /\ OncePerPage /\ [Next]_vars => Once' /\ OncePerPage'
  BY NextOnce, NextOncePerPage
<1> QED BY <1>1, <1>2, CallHolds, PTL DEF Spec

\* A page with a further one ends inside the table.
Ends ==
  /\ ExportWithinTable
  /\ pc = "queries" /\ Len(rows) > limit => Base + limit < Len(order)

LEMMA OrderCount ==
  ASSUME CallInv
  PROVE  /\ Len(order) \in Nat /\ Len(refs) <= Len(order)
         /\ Len(Alive) \in Nat /\ Len(Alive) <= Len(order)
<1>1. /\ order \in Seq(Item) /\ IsInjective(order)
      /\ refs \in Seq(Item) /\ IsInjective(refs)
      /\ Alive \in Seq(Item) /\ IsInjective(Alive)
      /\ ToSet(refs) \subseteq ToSet(order) /\ ToSet(Alive) \subseteq ToSet(order)
  BY AliveRows DEF CallInv, Lists, TypeInv, TypeOK
<1>2. /\ IsFiniteSet(ToSet(order)) /\ Cardinality(ToSet(order)) = Len(order)
      /\ Cardinality(ToSet(refs)) = Len(refs) /\ Cardinality(ToSet(Alive)) = Len(Alive)
  BY <1>1, ListCount
<1>3. Len(order) \in Nat /\ Len(Alive) \in Nat
  BY <1>1
<1> QED BY <1>1, <1>2, <1>3, FS_Subset

LEMMA FurtherPage ==
  ASSUME CallInv, Once, Ends, ~flooded, Answered, Len(rows) > limit
  PROVE  Base + limit < Len(order)
<1>1. CASE pc = "queries"
  BY <1>1 DEF Ends
<1>2. CASE pc = "respond"
  <2> DEFINE n == Len(refs)
  <2> DEFINE slice == Slice(refs, Base, n)
  <2>1. /\ refs \in Seq(Item) /\ IsInjective(refs) /\ n \in Nat /\ Base \in Nat
        /\ rows \in Seq(Item) /\ IsInjective(rows) /\ limit \in Nat /\ Len(rows) \in Nat
    BY Numbers DEF CallInv, Lists, Once
  <2>2. ToSet(rows) \subseteq ToSet(slice)
    <3>1. ToSet(slice) = {refs[i] : i \in {j \in 1..n : Base < j /\ j <= Base + n}}
      BY <2>1, SliceSet
    <3>2. \A j \in 1..n : j <= Base + n
      BY <2>1
    <3>3. Refs(Base, n) \subseteq ToSet(slice)
      BY <3>1, <3>2 DEF Refs
    <3> QED BY <1>2, <3>3 DEF Once, Found
  <2>3. slice \in Seq(Item) /\ IsInjective(slice)
    BY <2>1, SliceType, SliceInjective
  <2>4. /\ Base < n => Len(slice) = n - Base
        /\ ~(Base < n) => Len(slice) = 0
    <3>1. ~(Base + n < n)
      BY <2>1
    <3> QED BY <2>1, <3>1, SliceLen
  <2> HIDE DEF slice
  <2>5. Len(rows) <= Len(slice)
    <3>1. /\ Cardinality(ToSet(rows)) = Len(rows)
          /\ IsFiniteSet(ToSet(slice)) /\ Cardinality(ToSet(slice)) = Len(slice)
      BY <2>1, <2>3, ListCount
    <3> QED BY <2>2, <3>1, FS_Subset
  <2>6. n <= Len(order) /\ Len(order) \in Nat
    BY OrderCount
  <2> QED BY <2>1, <2>4, <2>5, <2>6
<1> QED BY <1>1, <1>2 DEF Answered

LEMMA NextEnds ==
  ASSUME CallInv, Once, Ends, [Next]_vars PROVE Ends'
<1>1. CASE UNCHANGED <<order, page, limit, began>> /\ (flooded => flooded') /\ (pc' # "queries" \/ UNCHANGED <<pc, rows>>)
  BY <1>1 DEF Ends, ExportWithinTable, Base
<1>2. ASSUME NEW call \in Calls, SearchFlows(call) PROVE Ends'
  <2>1. Base' = began' /\ rows' = <<>> /\ limit' \in Nat
    BY <1>2, PagesAssumption DEF SearchFlows, StartSearch, Base, Call
  <2>2. ~(Len(rows') > limit')
    BY <2>1
  <2> QED BY <2>1, <2>2 DEF Ends, ExportWithinTable
<1>3. CASE FindPage
  <2>1. /\ UNCHANGED <<order, page, limit, began, flooded>> /\ offset = Base
        /\ rows' = Slice(Alive, Base, limit + 1)
    BY <1>3, Numbers DEF FindPage, CallInv, Places, tableVars, callVars
  <2>2. Len(rows') > limit <=> Base + limit < Len(Alive)
    BY <2>1, Numbers, AliveRows, SliceFront DEF CallInv, TypeInv
  <2>3. Len(rows') > limit => Base + limit < Len(order)
    BY <2>2, OrderCount, Numbers DEF CallInv
  <2> QED BY <2>1, <2>3 DEF Ends, ExportWithinTable, Base
<1>4. CASE Respond
  <2>1. UNCHANGED <<order, limit, began, flooded>>
    BY <1>4 DEF Respond, tableVars, callVars
  <2>2. CASE pc' = "done"
    <3>1. page' = page
      BY <1>4, <2>2 DEF Respond, StartSearch
    <3> QED BY <2>1, <2>2, <3>1 DEF Ends, ExportWithinTable, Base
  <2>3. CASE pc' # "done"
    <3>1. page' = NextPage(page) /\ rows' = <<>> /\ Response.hasNextPage
      BY <1>4, <2>3 DEF Respond, StartSearch
    <3>2. limit \in Nat /\ limit \in Nat \ {0} /\ rows \in Seq(Item)
      BY DEF CallInv, TypeInv, TypeOK
    <3>3. ~flooded => Base + limit < Len(order)
      BY <1>4, <3>1, <3>2, ResponseRows, FurtherPage DEF Respond
    <3>4. page \in Nat => Base' = Base + limit
      BY <2>1, <3>1, <3>2, FirstRowNext DEF Base
    <3>5. page \notin Nat => page' \notin Nat
      BY <3>1, PagesAssumption DEF NextPage
    <3>6. ~(Len(rows') > limit')
      BY <2>1, <3>1, <3>2
    <3> QED BY <2>1, <3>3, <3>4, <3>5, <3>6 DEF Ends, ExportWithinTable
  <2> QED BY <2>2, <2>3
<1>5. ASSUME NEW x \in Item, Put(x) PROVE Ends'
  <2>1. UNCHANGED <<page, limit, began, pc, rows, flooded>>
    BY <1>5 DEF Put, Write, callVars, queryVars
  <2>2. /\ order \in Seq(Item) /\ IsInjective(order)
        /\ order' \in Seq(Item) /\ IsInjective(order') /\ ToSet(order) \subseteq ToSet(order')
    BY <1>5, PutOrder DEF CallInv, TypeInv, TypeOK
  <2>3. /\ Cardinality(ToSet(order)) = Len(order)
        /\ IsFiniteSet(ToSet(order')) /\ Cardinality(ToSet(order')) = Len(order')
    BY <2>2, ListCount
  <2>4. Len(order) <= Len(order') /\ Len(order) \in Nat /\ Len(order') \in Nat
    BY <2>2, <2>3, FS_Subset
  <2>5. Base \in Nat /\ limit \in Nat
    BY Numbers DEF CallInv
  <2>6. Base' = Base
    BY <2>1 DEF Base
  <2> QED BY <2>1, <2>4, <2>5, <2>6 DEF Ends, ExportWithinTable
<1>6. \/ /\ UNCHANGED <<order, page, limit, began>> /\ (flooded => flooded')
         /\ pc' # "queries" \/ UNCHANGED <<pc, rows>>
      \/ \E call \in Calls : SearchFlows(call)
      \/ FindPage \/ Respond
      \/ \E x \in Item : Put(x)
  BY DEF Next, Serve, vars, tableVars, callVars, queryVars, CountFlows, FindMatching,
         FindOrder, Combine, NextBatch, AddBatch, SoftDelete, Write
<1> QED BY <1>1, <1>2, <1>3, <1>4, <1>5, <1>6

\* An export asks for no further page that begins beyond the flows there are,
\* unless a batch of no references had every row.
THEOREM ExportWithinTableHolds == Spec => []ExportWithinTable
<1>1. Init => Once /\ Ends
  BY EmptyRows, PagesAssumption DEF Init, Once, Ends, ExportWithinTable
<1>2. CallInv /\ Once /\ Ends /\ [Next]_vars => Once' /\ Ends'
  BY NextOnce, NextEnds
<1>3. Ends => ExportWithinTable
  BY DEF Ends
<1> QED BY <1>1, <1>2, <1>3, CallHolds, PTL DEF Spec
=============================================================================
