--------------------------- MODULE FlowSearch_proofs --------------------------
(***************************************************************************)
(* What one search answers, for every set of tables, every request, every  *)
(* interleaving of its queries and everything other services write in      *)
(* between.  IInv: while one flow version is in the answer of every branch *)
(* in use, intersectSets is the intersection.  TInv: types.  SInv and the  *)
(* branches' invariants: of a flow version nobody wrote, each branch has   *)
(* kept what its filter says, so the answer is what the filters ask.       *)
(***************************************************************************)
EXTENDS FlowSearch, FiniteSetTheorems, TLAPS

\* The order of the filters' sets in Candidates does not matter once they have
\* an element x in common: an intersection that holds x never starts again.
LEMMA Intersect2Chain ==
  ASSUME NEW a, NEW b, NEW x, a = {} \/ x \in a, b = {} \/ x \in b
  PROVE  /\ Intersect2(a, b) = {} <=> a = {} /\ b = {}
         /\ Intersect2(a, b) = {} \/ x \in Intersect2(a, b)
         /\ \A e : e \in Intersect2(a, b) <=>
              /\ a # {} \/ b # {}
              /\ a = {} \/ e \in a
              /\ b = {} \/ e \in b
BY DEF Intersect2

\* Sorted is the intersection of the sort order and of the branches in use.
LEMMA SortedExact ==
  ASSUME NEW sets, NEW U \in SUBSET (Branch \ {"sort"}), U # {},
         \A b \in (Branch \ {"sort"}) \ U : sets[b] = {},
         NEW x \in sets["sort"], \A b \in U : x \in sets[b]
  PROVE  Sorted(sets) = {e \in sets["sort"] : \A b \in U : e \in sets[b]}
<1> DEFINE c == sets["category"]
           f == sets["flow"]
           n == sets["nested"]
           o == sets["object"]
           cf == Intersect2(c, f)
           cfn == Intersect2(cf, n)
           all == Intersect2(cfn, o)
<1>1. U \subseteq {"category", "flow", "nested", "object"}
  BY DEF Branch
<1>2. /\ c = {} \/ x \in c
      /\ f = {} \/ x \in f
      /\ n = {} \/ x \in n
      /\ o = {} \/ x \in o
  BY DEF Branch
<1>3. /\ cf = {} <=> c = {} /\ f = {}
      /\ cf = {} \/ x \in cf
      /\ \A e : e \in cf <=> /\ c # {} \/ f # {}
                             /\ c = {} \/ e \in c
                             /\ f = {} \/ e \in f
  <2> HIDE DEF c, f
  <2> QED BY <1>2, Intersect2Chain
<1>4. /\ cfn = {} <=> cf = {} /\ n = {}
      /\ cfn = {} \/ x \in cfn
      /\ \A e : e \in cfn <=> /\ cf # {} \/ n # {}
                              /\ cf = {} \/ e \in cf
                              /\ n = {} \/ e \in n
  <2> HIDE DEF cf, n
  <2> QED BY <1>2, <1>3, Intersect2Chain
<1>5. /\ all = {} <=> cfn = {} /\ o = {}
      /\ \A e : e \in all <=> /\ cfn # {} \/ o # {}
                              /\ cfn = {} \/ e \in cfn
                              /\ o = {} \/ e \in o
  <2> HIDE DEF cfn, o
  <2> QED BY <1>2, <1>4, Intersect2Chain
<1>6. PICK u \in U : x \in sets[u]
  OBVIOUS
<1>7. ~(c = {} /\ f = {} /\ n = {} /\ o = {})
  BY <1>1, <1>6
<1>8. \A e : e \in all <=> /\ c = {} \/ e \in c
                           /\ f = {} \/ e \in f
                           /\ n = {} \/ e \in n
                           /\ o = {} \/ e \in o
  <2> HIDE DEF c, f, n, o, cf, cfn, all
  <2> QED BY <1>3, <1>4, <1>5, <1>7
<1>9. \A e : e \in all <=> \A b \in U : e \in sets[b]
  <2> SUFFICES ASSUME NEW e
               PROVE  e \in all <=> \A b \in U : e \in sets[b]
    OBVIOUS
  <2>1. \A b \in {"category", "flow", "nested", "object"} :
          (sets[b] = {} \/ e \in sets[b]) <=> (b \in U => e \in sets[b])
    BY DEF Branch
  <2>2. e \in all <=> \A b \in {"category", "flow", "nested", "object"} :
                        sets[b] = {} \/ e \in sets[b]
    <3> HIDE DEF all
    <3> QED BY <1>8
  <2> HIDE DEF c, f, n, o, cf, cfn, all
  <2> QED BY <2>1, <2>2, <1>1
<1>10. Candidates(sets) = all
  BY DEF Candidates
<1>11. x \in all
  BY <1>9
<1>12. Sorted(sets) = all \cap sets["sort"]
  <2> HIDE DEF all
  <2> QED BY <1>10, <1>11 DEF Sorted
<1> HIDE DEF all
<1> QED BY <1>9, <1>12

-----------------------------------------------------------------------------
(* The inductive invariant: branches that were not started have no answer, *)
(* none is started before the strategy is chosen, and the children of      *)
(* parked parents are only asked for when the object branch is in use.     *)

Started == phase \in {"idle", "shortcuts", "onlyFlow"} => \A b \in Branch : step[b] = "unused"
UnusedIsEmpty == \A b \in Branch : step[b] = "unused" => found[b] = {}
ParentsOfObjects == phase \in {"parents", "links", "children"} => step["object"] # "unused"

IInv ==
  /\ DOMAIN step = Branch /\ DOMAIN found = Branch
  /\ Started /\ UnusedIsEmpty /\ ParentsOfObjects
  /\ FoundExactly

\* Nothing is found before the request arrives.
LEMMA InitIInv == Init => IInv
BY DEF Init, IInv, Started, UnusedIsEmpty, ParentsOfObjects, FoundExactly, Used, Branch

\* A branch that answers stays in use.
LEMMA AnswerIInv ==
  ASSUME IInv, phase = "gather", phase' = phase,
         NEW b \in Branch, step[b] # "unused",
         NEW next, next # "unused", NEW rows, Answer(b, next, rows)
  PROVE  IInv'
BY DEF IInv, Started, UnusedIsEmpty, ParentsOfObjects, FoundExactly, Answer

\* Sorted answers what FoundExactly asks for.
LEMMA SortedIsPassing ==
  ASSUME NEW sets, \A b \in Branch : step[b] = "unused" => sets[b] = {},
         Used # {},
         NEW x \in sets["sort"], \A b \in Used : x \in sets[b]
  PROVE  Sorted(sets) = {e \in sets["sort"] : \A b \in Used : e \in sets[b]}
<1>1. Used \in SUBSET (Branch \ {"sort"})
  BY DEF Used
<1>2. \A b \in (Branch \ {"sort"}) \ Used : sets[b] = {}
  BY DEF Used
<1> QED BY <1>1, <1>2, SortedExact

\* Every step keeps the inductive invariant.
LEMMA NextIInv == IInv /\ [Next]_vars => IInv'
<1> SUFFICES ASSUME IInv, [Next]_vars PROVE IInv'
  OBVIOUS
<1> USE DEF IInv
<1>1. CASE UNCHANGED vars
  BY <1>1 DEF vars, tables, Started, UnusedIsEmpty, ParentsOfObjects, FoundExactly, Used, Passing
<1>2. ASSUME Search \/ FindUsageYears PROVE IInv'
  BY <1>2 DEF Search, FindUsageYears, Started, UnusedIsEmpty, ParentsOfObjects, FoundExactly
<1>3. CASE MapShortcuts
  <2>1. \A b \in Branch : found[b] = {}
    BY <1>3 DEF MapShortcuts, Started, UnusedIsEmpty
  <2>2. found' = found /\ phase' \in {"onlyFlow", "gather"}
    BY <1>3 DEF MapShortcuts
  <2>3. \/ phase' = "onlyFlow" /\ step' = step
        \/ phase' = "gather" /\ \E a, used : step' = FirstSteps(a, used)
    BY <1>3 DEF MapShortcuts
  <2>4. \A a, used : DOMAIN FirstSteps(a, used) = Branch
    BY DEF FirstSteps, Branch
  <2>5. DOMAIN step' = Branch
    BY <2>3, <2>4
  <2>6. Started'
    BY <1>3, <2>3 DEF Started, MapShortcuts
  <2> QED BY <2>1, <2>2, <2>5, <2>6 DEF UnusedIsEmpty, ParentsOfObjects, FoundExactly
<1>4. CASE SearchOnlyFlows
  <2>1. Used' = {}
    BY <1>4 DEF SearchOnlyFlows, Started, Used
  <2> QED BY <1>4, <2>1 DEF SearchOnlyFlows, Started, UnusedIsEmpty, ParentsOfObjects, FoundExactly
<1>5. CASE FindCategories
  BY <1>5 DEF FindCategories, Ready, Started, UnusedIsEmpty, ParentsOfObjects, FoundExactly
<1>6. CASE FindCategoryRefs
  BY <1>6, AnswerIInv DEF FindCategoryRefs, Ready, Branch
<1>7. CASE FindObjects
  BY <1>7, AnswerIInv DEF FindObjects, Ready, Branch
<1>8. CASE FindNested
  BY <1>8, AnswerIInv DEF FindNested, Ready, Branch
<1>9. CASE LookupNested
  BY <1>9, AnswerIInv DEF LookupNested, Ready, Branch
<1>10. CASE FindFlows
  BY <1>10, AnswerIInv DEF FindFlows, Ready, Branch
<1>11. CASE FindSortOrder
  <2>1. CASE ~Sortable(args.sort)
    BY <1>11, <2>1 DEF FindSortOrder, Ready, Started, UnusedIsEmpty, ParentsOfObjects, FoundExactly
  <2>2. CASE Sortable(args.sort)
    BY <1>11, <2>2, AnswerIInv DEF FindSortOrder, Ready, Branch
  <2> QED BY <2>1, <2>2
<1>12. CASE Combine
  <2> USE <1>12 DEF Combine
  <2>1. Used' = Used /\ Passing' = Passing
    BY DEF Used, Passing
  <2>2. FoundExactly'
    <3> SUFFICES ASSUME phase' = "done", Used # {}, NEW x \in Passing
                 PROVE  refs' = Passing
      BY <2>1 DEF FoundExactly
    <3>1. ~ \E b \in Used : found[b] = {}
      BY DEF Passing
    <3>2. refs' = Sorted(found)
      BY <3>1
    <3>3. Sorted(found) = Passing
      BY SortedIsPassing DEF Passing, UnusedIsEmpty
    <3> QED BY <3>2, <3>3
  <2>3. ParentsOfObjects'
    BY DEF ParentsOfObjects, Used
  <2> QED BY <2>2, <2>3 DEF Started, UnusedIsEmpty
<1>13. CASE FindParents
  BY <1>13 DEF FindParents, Started, UnusedIsEmpty, ParentsOfObjects, FoundExactly
<1>14. CASE FindLinks
  BY <1>14 DEF FindLinks, Started, UnusedIsEmpty, ParentsOfObjects, FoundExactly
<1>15. CASE FindChildren
  <2> USE <1>15 DEF FindChildren
  <2> DEFINE sets == [found EXCEPT !["object"] = @ \cup ActiveRows(db, children)]
  <2>1. found' = sets /\ refs' = Sorted(sets) /\ step' = step /\ phase' = "done"
    OBVIOUS
  <2>2. step["object"] # "unused"
    BY DEF ParentsOfObjects
  <2>3. UnusedIsEmpty' /\ DOMAIN found' = Branch
    BY <2>1, <2>2 DEF UnusedIsEmpty
  <2>4. Used' = Used /\ Passing' = {e \in sets["sort"] : \A b \in Used : e \in sets[b]}
    <3> HIDE DEF sets
    <3> QED BY <2>1 DEF Used, Passing
  <2>5. FoundExactly'
    <3> SUFFICES ASSUME Used # {}, NEW x \in Passing'
                 PROVE  refs' = Passing'
      BY <2>4 DEF FoundExactly
    <3>1. \A b \in Branch : step[b] = "unused" => sets[b] = {}
      BY <2>1, <2>3 DEF UnusedIsEmpty
    <3> HIDE DEF sets
    <3> QED BY <2>1, <2>4, <3>1, SortedIsPassing
  <2> QED BY <2>1, <2>3, <2>5 DEF Started, ParentsOfObjects
<1>16. CASE Edit
  <2>1. \E rows, new : Write(rows, new)
    BY <1>16 DEF Edit, SoftDelete, InsertVersion, Categorise
  <2>2. UNCHANGED <<phase, step, found, refs>>
    BY <2>1 DEF Write
  <2> QED BY <2>2 DEF Started, UnusedIsEmpty, ParentsOfObjects, FoundExactly, Used, Passing
<1> QED
  BY <1>1, <1>2, <1>3, <1>4, <1>5, <1>6, <1>7, <1>8, <1>9, <1>10, <1>11, <1>12, <1>13,
     <1>14, <1>15, <1>16 DEF Next, Gather

\* Whatever the tables, the filters and the order of the queries are: if some
\* flow version is in the answer of every branch in use, intersectSets and the
\* sort give exactly the flow versions that are.
THEOREM FoundExactlyHolds == Spec => []FoundExactly
<1>1. Spec => []IInv
  BY InitIInv, NextIInv, PTL DEF Spec
<1>2. IInv => FoundExactly
  BY DEF IInv
<1> QED BY <1>1, <1>2, PTL

-----------------------------------------------------------------------------
(* Sequences and what is in them.                                          *)

LEMMA HeadTail ==
  ASSUME NEW S, NEW s \in Seq(S), s # <<>>
  PROVE  /\ Head(s) \in ToSet(s) /\ Head(s) \in S /\ Tail(s) \in Seq(S)
         /\ ToSet(Tail(s)) \subseteq ToSet(s)
         /\ ToSet(s) \subseteq {Head(s)} \cup ToSet(Tail(s))
         /\ Len(s) = 1 => ToSet(Tail(s)) = {}
         /\ Len(s) # 1 => Tail(s) # <<>>
<1>1. Len(s) \in Nat /\ Len(s) >= 1 /\ DOMAIN s = 1..Len(s)
  OBVIOUS
<1>2. /\ Head(s) = s[1] /\ Tail(s) \in Seq(S) /\ Len(Tail(s)) = Len(s) - 1
      /\ DOMAIN Tail(s) = 1..(Len(s) - 1)
      /\ \A i \in 1..(Len(s) - 1) : Tail(s)[i] = s[i + 1]
  BY <1>1
<1>3. ToSet(Tail(s)) \subseteq ToSet(s)
  BY <1>1, <1>2 DEF ToSet
<1>4. ToSet(s) \subseteq {Head(s)} \cup ToSet(Tail(s))
  <2> SUFFICES ASSUME NEW i \in 1..Len(s), i # 1 PROVE s[i] \in ToSet(Tail(s))
    BY <1>1, <1>2 DEF ToSet
  <2>1. i - 1 \in 1..(Len(s) - 1) /\ Tail(s)[i - 1] = s[i]
    BY <1>1, <1>2
  <2> QED BY <1>2, <2>1 DEF ToSet
<1>5. Len(s) = 1 => ToSet(Tail(s)) = {}
  BY <1>2 DEF ToSet
<1>6. Len(s) # 1 => Tail(s) # <<>>
  <2>1. Len(s) # 1 => Len(Tail(s)) # 0
    BY <1>1, <1>2
  <2>2. Len(<<>>) = 0
    OBVIOUS
  <2> QED BY <2>1, <2>2
<1>7. Head(s) \in ToSet(s) /\ Head(s) \in S
  BY <1>1, <1>2 DEF ToSet
<1> QED BY <1>2, <1>3, <1>4, <1>5, <1>6, <1>7

LEMMA ConcatSet ==
  ASSUME NEW S, NEW s \in Seq(S), NEW t \in Seq(S)
  PROVE  ToSet(s \o t) = ToSet(s) \cup ToSet(t)
<1>1. /\ s \o t \in Seq(S) /\ DOMAIN (s \o t) = 1..(Len(s) + Len(t))
      /\ Len(s) \in Nat /\ Len(t) \in Nat
      /\ DOMAIN s = 1..Len(s) /\ DOMAIN t = 1..Len(t)
      /\ \A i \in 1..(Len(s) + Len(t)) :
           (s \o t)[i] = IF i <= Len(s) THEN s[i] ELSE t[i - Len(s)]
  OBVIOUS
<1>2. ASSUME NEW i \in 1..Len(s) PROVE s[i] \in ToSet(s \o t)
  BY <1>1 DEF ToSet
<1>3. ASSUME NEW i \in 1..Len(t) PROVE t[i] \in ToSet(s \o t)
  <2>1. i + Len(s) \in 1..(Len(s) + Len(t)) /\ (s \o t)[i + Len(s)] = t[i]
    BY <1>1
  <2> QED BY <1>1, <2>1 DEF ToSet
<1>4. ASSUME NEW i \in 1..(Len(s) + Len(t)) PROVE (s \o t)[i] \in ToSet(s) \cup ToSet(t)
  <2>1. CASE i <= Len(s)
    BY <1>1, <2>1 DEF ToSet
  <2>2. CASE ~(i <= Len(s))
    <3>1. i - Len(s) \in 1..Len(t) /\ (s \o t)[i] = t[i - Len(s)]
      BY <1>1, <2>2
    <3> QED BY <1>1, <3>1 DEF ToSet
  <2> QED BY <2>1, <2>2
<1> QED BY <1>1, <1>2, <1>3, <1>4 DEF ToSet

\* A sequence of a set's elements, each once, holds all of them.
LEMMA OrderHasAll ==
  ASSUME NEW S, IsFiniteSet(S), NEW order \in SetToSeqs(S)
  PROVE  order \in Seq(S) /\ ToSet(order) = S
<1>1. Cardinality(S) \in Nat
  BY FS_CardinalityType
<1>2. /\ order \in [1..Cardinality(S) -> S]
      /\ \A i, j \in 1..Cardinality(S) : i # j => order[i] # order[j]
  BY DEF SetToSeqs
<1>3. order \in Injection(1..Cardinality(S), S)
  BY <1>2 DEF Injection, IsInjective
<1>4. Cardinality(1..Cardinality(S)) = Cardinality(S)
  BY <1>1, FS_Interval
<1>5. order \in Surjection(1..Cardinality(S), S)
  BY <1>3, <1>4, FS_Injection
<1>6. \A x \in S : \E i \in 1..Cardinality(S) : order[i] = x
  BY <1>5 DEF Surjection
<1> QED BY <1>1, <1>2, <1>6 DEF ToSet

LEMMA FiniteGroups ==
  ASSUME NEW S, NEW s \in Seq(S)
  PROVE  IsFiniteSet({GroupOf(o) : o \in ToSet(s)})
<1> DEFINE T == {GroupOf(o) : o \in ToSet(s)}
           f == [i \in 1..Len(s) |-> GroupOf(s[i])]
<1>1. Len(s) \in Nat /\ DOMAIN s = 1..Len(s)
  OBVIOUS
<1>2. T = {GroupOf(s[i]) : i \in 1..Len(s)}
  BY <1>1 DEF ToSet
<1>3. f \in Surjection(1..Len(s), T)
  <2> HIDE DEF T
  <2> QED BY <1>2 DEF Surjection
<1>4. IsFiniteSet(1..Len(s))
  BY <1>1, FS_Interval
<1> HIDE DEF f
<1> QED BY <1>3, <1>4, FS_Surjection

Year(d, y) == [type |-> "usageYear", direction |-> d, id |-> y]

\* The filters a batch adds: every year in both directions.
LEMMA YearsAdded ==
  ASSUME NEW years \in Seq(RecentYear), ToSet(years) = RecentYear
  PROVE  /\ YearFilters(years) \in Seq(Object)
         /\ ToSet(YearFilters(years)) =
              {Year(p[1], p[2]) : p \in Direction \X RecentYear}
<1> DEFINE n == Len(years)
           F == YearFilters(years)
<1>1. n \in Nat /\ DOMAIN years = 1..n /\ \A i \in 1..n : years[i] \in RecentYear
  OBVIOUS
<1>2. /\ DOMAIN F = 1..(2 * n)
      /\ \A i \in 1..(2 * n) :
           F[i] = Year(IF i % 2 = 1 THEN "source" ELSE "destination", years[(i + 1) \div 2])
  BY DEF YearFilters, Year
<1>3. \A i \in 1..(2 * n) : (i + 1) \div 2 \in 1..n
  BY <1>1
<1>4. \A i \in 1..(2 * n) : F[i] \in Object
  BY <1>1, <1>2, <1>3, SearchAssumption DEF Object, Year, Direction
<1>5. YearFilters(years) \in Seq(Object)
  <2>1. F = [i \in 1..(2 * n) |-> F[i]]
    BY DEF YearFilters
  <2>2. 2 * n \in Nat
    BY <1>1
  <2> HIDE DEF F, n
  <2> QED BY <1>4, <2>1, <2>2 DEF F
<1>6. ASSUME NEW i \in 1..(2 * n)
      PROVE  \E p \in Direction \X RecentYear : F[i] = Year(p[1], p[2])
  <2>1. years[(i + 1) \div 2] \in RecentYear
    BY <1>1, <1>3
  <2>2. F[i] = Year(IF i % 2 = 1 THEN "source" ELSE "destination", years[(i + 1) \div 2])
    BY <1>2
  <2> DEFINE p == <<IF i % 2 = 1 THEN "source" ELSE "destination", years[(i + 1) \div 2]>>
  <2>3. p \in Direction \X RecentYear /\ F[i] = Year(p[1], p[2])
    BY <2>1, <2>2 DEF Direction
  <2> QED BY <2>3
<1>7. ASSUME NEW d \in Direction, NEW y \in RecentYear PROVE Year(d, y) \in ToSet(F)
  <2>1. PICK k \in 1..n : years[k] = y
    BY <1>1 DEF ToSet
  <2>2. CASE d = "source"
    <3>1. /\ 2 * k - 1 \in 1..(2 * n) /\ (2 * k - 1) % 2 = 1
          /\ ((2 * k - 1) + 1) \div 2 = k
      BY <1>1
    <3>2. F[2 * k - 1] = Year(d, y)
      BY <1>2, <2>1, <2>2, <3>1
    <3> QED BY <1>2, <3>1, <3>2 DEF ToSet
  <2>3. CASE d = "destination"
    <3>1. 2 * k \in 1..(2 * n) /\ (2 * k) % 2 = 0 /\ (2 * k + 1) \div 2 = k
      BY <1>1
    <3>2. F[2 * k] = Year(d, y)
      BY <1>2, <2>1, <2>3, <3>1
    <3> QED BY <1>2, <3>1, <3>2 DEF ToSet
  <2> QED BY <2>2, <2>3 DEF Direction
<1>8. ToSet(F) = {Year(p[1], p[2]) : p \in Direction \X RecentYear}
  <2>1. ToSet(F) = {F[i] : i \in 1..(2 * n)}
    BY <1>2 DEF ToSet
  <2>2. \A p \in Direction \X RecentYear : Year(p[1], p[2]) \in ToSet(F)
    BY <1>7
  <2> HIDE DEF F
  <2>3. ToSet(F) \subseteq {Year(p[1], p[2]) : p \in Direction \X RecentYear}
    BY <1>6, <2>1
  <2>4. {Year(p[1], p[2]) : p \in Direction \X RecentYear} \subseteq ToSet(F)
    BY <2>2
  <2> QED BY <2>3, <2>4
<1> QED BY <1>5, <1>8

-----------------------------------------------------------------------------
(* What other services can and cannot change.                              *)

\* The tables say the same of a flow version.
Alike(old, new, e) ==
  /\ e \in new.rows <=> e \in old.rows
  /\ e \in new.deleted <=> e \in old.deleted
  /\ e \in new.active <=> e \in old.active
  /\ \A c : <<e, c>> \in new.cats <=> <<e, c>> \in old.cats
  /\ \A o : <<e, o>> \in new.objects <=> <<e, o>> \in old.objects

Untouched(old, new, but) ==
  /\ new \in Database /\ new.links = old.links /\ new.externals = old.externals
  /\ new.nested = old.nested
  /\ \A e : e \notin but => Alike(old, new, e)

LEMMA WriteEffect ==
  ASSUME TypeOK, NEW rws \in SUBSET Entity, IsFiniteSet(rws), NEW new,
         Write(rws, new), Untouched(db, new, rws)
  PROVE  /\ Untouched(db, db', edited') /\ edited \subseteq edited'
         /\ edited' \subseteq Entity /\ edits' \in Nat /\ Busy
         /\ UNCHANGED <<asked, phase, args, step, found, refs, requestVars>>
<1>1. Cardinality(rws) \in Nat
  BY FS_CardinalityType
<1>2. edits' \in Nat
  BY <1>1 DEF Write, TypeOK
<1> QED BY <1>2 DEF Write, TypeOK, Untouched

LEMMA EditEffect ==
  ASSUME TypeOK, Edit
  PROVE  /\ Untouched(db, db', edited') /\ edited \subseteq edited'
         /\ edited' \subseteq Entity /\ edits' \in Nat /\ Busy
         /\ UNCHANGED <<asked, phase, args, step, found, refs, requestVars>>
<1>1. /\ db = [rows |-> db.rows, deleted |-> db.deleted, active |-> db.active,
               cats |-> db.cats, objects |-> db.objects, links |-> db.links,
               externals |-> db.externals, nested |-> db.nested]
      /\ db.rows \in SUBSET Entity /\ db.deleted \in SUBSET Entity
      /\ db.active \in SUBSET Entity
      /\ db.cats \in SUBSET (Entity \X Category)
      /\ db.objects \in SUBSET (Entity \X Object)
      /\ db.links \in SUBSET (Flow \X Flow)
      /\ db.externals \in SUBSET Entity /\ db.nested \in [NestedKey -> SUBSET Entity]
  BY DEF TypeOK, Database
<1>2. ASSUME NEW e \in Entity, SoftDelete(e)
      PROVE  \E rws \in SUBSET Entity : \E new :
               IsFiniteSet(rws) /\ Write(rws, new) /\ Untouched(db, new, rws)
  <2> DEFINE deleted == db.deleted \cup {e}
             new == [db EXCEPT !.deleted = deleted]
  <2>1. new = [rows |-> db.rows, deleted |-> deleted, active |-> db.active,
               cats |-> db.cats, objects |-> db.objects, links |-> db.links,
               externals |-> db.externals, nested |-> db.nested]
    <3> HIDE DEF deleted
    <3> QED BY <1>1
  <2>2. Untouched(db, new, {e})
    <3> HIDE DEF new
    <3> QED BY <1>1, <2>1 DEF Untouched, Alike, Database
  <2>3. IsFiniteSet({e})
    BY FS_Singleton
  <2>4. Write({e}, new)
    BY <1>2 DEF SoftDelete
  <2> QED BY <2>2, <2>3, <2>4
<1>3. ASSUME NEW e \in Entity, NEW c \in Category, Categorise(e, c)
      PROVE  \E rws \in SUBSET Entity : \E new :
               IsFiniteSet(rws) /\ Write(rws, new) /\ Untouched(db, new, rws)
  <2> DEFINE cats == IF <<e, c>> \in db.cats THEN db.cats \ {<<e, c>>}
                                             ELSE db.cats \cup {<<e, c>>}
             new == [db EXCEPT !.cats = cats]
  <2>1. Write({e}, new)
    BY <1>3 DEF Categorise
  <2>2. new = [rows |-> db.rows, deleted |-> db.deleted, active |-> db.active,
               cats |-> cats, objects |-> db.objects, links |-> db.links,
               externals |-> db.externals, nested |-> db.nested]
    <3> HIDE DEF cats
    <3> QED BY <1>1
  <2>3. /\ cats \in SUBSET (Entity \X Category)
        /\ \A f, k : f # e => (<<f, k>> \in cats <=> <<f, k>> \in db.cats)
    BY <1>1
  <2>4. Untouched(db, new, {e})
    <3> HIDE DEF new, cats
    <3> QED BY <1>1, <2>2, <2>3 DEF Untouched, Alike, Database
  <2>5. IsFiniteSet({e})
    BY FS_Singleton
  <2> QED BY <2>1, <2>4, <2>5
<1>4. ASSUME NEW e \in Entity, InsertVersion(e)
      PROVE  \E rws \in SUBSET Entity : \E new :
               IsFiniteSet(rws) /\ Write(rws, new) /\ Untouched(db, new, rws)
  <2> DEFINE next == <<e[1], e[2] + 1>>
             copied(table) == table \cup {<<next, r[2]>> : r \in {x \in table : x[1] = e}}
             cats == copied(db.cats)
             objects == copied(db.objects)
             rws == db.rows \cup {next}
             active == (db.active \ {e}) \cup {next}
             new1 == [db EXCEPT !.rows = rws]
             new2 == [new1 EXCEPT !.active = active]
             new3 == [new2 EXCEPT !.cats = cats]
             new == [new3 EXCEPT !.objects = objects]
  <2>1. Write({e, next}, new) /\ e[2] < MaxVersion
    BY <1>4 DEF InsertVersion
  <2>2. next \in Entity
    BY <2>1, CategoryAssumption DEF Entity
  <2>3. new = [rows |-> rws, deleted |-> db.deleted, active |-> active,
               cats |-> cats, objects |-> objects, links |-> db.links,
               externals |-> db.externals, nested |-> db.nested]
    <3> HIDE DEF cats, objects, rws, active
    <3>1. new1 = [rows |-> rws, deleted |-> db.deleted, active |-> db.active,
                   cats |-> db.cats, objects |-> db.objects, links |-> db.links,
                   externals |-> db.externals, nested |-> db.nested]
      BY <1>1
    <3>2. new2 = [rows |-> rws, deleted |-> db.deleted, active |-> active,
                   cats |-> db.cats, objects |-> db.objects, links |-> db.links,
                   externals |-> db.externals, nested |-> db.nested]
      <4> HIDE DEF new1
      <4> QED BY <3>1
    <3>3. new3 = [rows |-> rws, deleted |-> db.deleted, active |-> active,
                   cats |-> cats, objects |-> db.objects, links |-> db.links,
                   externals |-> db.externals, nested |-> db.nested]
      <4> HIDE DEF new2
      <4> QED BY <3>2
    <3> HIDE DEF new3
    <3> QED BY <3>3
  <2>4. /\ cats \in SUBSET (Entity \X Category)
        /\ \A f, k : f # next => (<<f, k>> \in cats <=> <<f, k>> \in db.cats)
    <3> HIDE DEF next
    <3> QED BY <1>1, <2>2
  <2>5. /\ objects \in SUBSET (Entity \X Object)
        /\ \A f, k : f # next => (<<f, k>> \in objects <=> <<f, k>> \in db.objects)
    <3> HIDE DEF next
    <3> QED BY <1>1, <2>2
  <2>6. Untouched(db, new, {e, next})
    <3> HIDE DEF new, cats, objects, next
    <3> QED BY <1>1, <2>2, <2>3, <2>4, <2>5 DEF Untouched, Alike, Database
  <2>7. IsFiniteSet({e, next}) /\ {e, next} \in SUBSET Entity
    <3> HIDE DEF next
    <3>1. IsFiniteSet({e} \cup {next})
      BY FS_Singleton, FS_AddElement
    <3>2. {e} \cup {next} = {e, next}
      OBVIOUS
    <3> QED BY <2>2, <3>1, <3>2
  <2> HIDE DEF new, next
  <2> QED BY <2>1, <2>6, <2>7
<1>5. \E rws \in SUBSET Entity : \E new :
        IsFiniteSet(rws) /\ Write(rws, new) /\ Untouched(db, new, rws)
  BY <1>2, <1>3, <1>4 DEF Edit
<1>6. PICK rws \in SUBSET Entity : \E new :
        IsFiniteSet(rws) /\ Write(rws, new) /\ Untouched(db, new, rws)
  BY <1>5
<1>7. PICK new : IsFiniteSet(rws) /\ Write(rws, new) /\ Untouched(db, new, rws)
  BY <1>6
<1> QED BY <1>6, <1>7, WriteEffect

-----------------------------------------------------------------------------
(* Types.  A branch that is queried again has something left to ask.       *)

TInv ==
  /\ TypeOK
  /\ groups \in Seq(ObjectGroup) /\ keys \in Seq(NestedKey)
  /\ step["object"] = "query" => groups # <<>>
  /\ step["nested"] = "query" => keys # <<>>

LEMMA InitTInv == Init => TInv
<1> SUFFICES ASSUME Init PROVE TInv
  OBVIOUS
<1>1. PICK q \in Requests : db = q[1] /\ args = q[2] /\ edits = q[3]
  BY DEF Init
<1>2. db \in Database /\ args \in SearchFlowsArgs /\ edits \in Nat
  BY <1>1, SearchAssumption
<1>3. step \in [Branch -> Step] /\ found \in [Branch -> SUBSET Entity]
  BY DEF Init, Step
<1>4. /\ groups = <<>> /\ keys = <<>>
      /\ <<>> \in Seq(ObjectGroup) /\ <<>> \in Seq(NestedKey)
  BY DEF Init
<1>5. DOMAIN groups = {} /\ DOMAIN keys = {}
  BY <1>4
<1>6. step["object"] = "unused" /\ step["nested"] = "unused"
  BY DEF Init, Branch
<1> QED BY <1>2, <1>3, <1>4, <1>5, <1>6 DEF Init, TInv, TypeOK, Phase

\* Sequences of the right type have elements of the right type.
LEMMA TailTypes ==
  ASSUME NEW S, NEW s \in Seq(S)
  PROVE  \A i \in DOMAIN s : s[i] \in S
OBVIOUS

LEMMA IntersectType ==
  ASSUME NEW S, NEW a \in SUBSET S, NEW b \in SUBSET S
  PROVE  Intersect2(a, b) \in SUBSET S
BY DEF Intersect2

\* What the queries answer are flow versions.
LEMMA AnswerTypes ==
  ASSUME db \in Database
  PROVE  /\ \A r, f : CategoryRows(db, r, f) \subseteq Entity
         /\ \A os : ObjectRows(db, os) \subseteq Entity
         /\ \A k \in NestedKey : NestedRows(k) \subseteq Entity
         /\ \A f, s : FlowRows(db, f, s) \subseteq Entity
         /\ \A k : SortRows(db, k) \subseteq Entity
         /\ \A os : ParentRows(db, os) \subseteq Entity
         /\ \A ps : ChildrenOf(db, ps) \subseteq Flow
         /\ \A cs : ActiveRows(db, cs) \subseteq Entity
<1>1. /\ db.rows \subseteq Entity /\ db.externals \subseteq Entity
      /\ db.cats \subseteq Entity \X Category /\ db.objects \subseteq Entity \X Object
      /\ db.links \subseteq Flow \X Flow /\ \A k \in NestedKey : db.nested[k] \subseteq Entity
  BY DEF Database
<1>2. \A r, f : CategoryRows(db, r, f) \subseteq Entity
  BY <1>1 DEF CategoryRows, FetchedRefs
<1>3. \A os : ObjectRows(db, os) \subseteq Entity
  BY <1>1 DEF ObjectRows
<1>4. ASSUME NEW k \in NestedKey PROVE NestedRows(k) \subseteq Entity
  <2>1. \A e \in Entity : <<e[1], 1>> \in Entity
    BY CategoryAssumption DEF Entity
  <2> QED BY <1>1, <2>1 DEF NestedRows
<1>5. \A f, s : FlowRows(db, f, s) \subseteq Entity
  BY <1>1 DEF FlowRows
<1>6. \A k : SortRows(db, k) \subseteq Entity
  BY <1>1 DEF SortRows
<1>7. \A ps : ChildrenOf(db, ps) \subseteq Flow
  BY <1>1 DEF ChildrenOf
<1>8. \A cs : ActiveRows(db, cs) \subseteq Entity
  BY <1>1 DEF ActiveRows
<1>9. \A os : ParentRows(db, os) \subseteq Entity
  BY DEF ParentRows
<1> QED BY <1>2, <1>3, <1>4, <1>5, <1>6, <1>7, <1>8, <1>9

\* An answer and the next query of its branch.
LEMMA AnswerTInv ==
  ASSUME TypeOK, NEW b \in Branch, NEW next \in Step, NEW rows \in SUBSET Entity,
         Answer(b, next, rows)
  PROVE  /\ step' \in [Branch -> Step] /\ found' \in [Branch -> SUBSET Entity]
         /\ step'[b] = next /\ \A a \in Branch : a # b => step'[a] = step[a]
BY DEF Answer, TypeOK

\* The arguments with the years of a batch.
LEMMA YearsTInv ==
  ASSUME TypeOK, FindUsageYears
  PROVE  /\ args' \in SearchFlowsArgs
         /\ \E years \in Seq(RecentYear) :
              /\ ToSet(years) = RecentYear
              /\ args' = [args EXCEPT !.object = args.object \o YearFilters(years)]
<1>1. PICK years \in SetToSeqs(RecentYear) :
        args' = [args EXCEPT !.object = args.object \o YearFilters(years)]
  BY DEF FindUsageYears
<1>2. years \in Seq(RecentYear) /\ ToSet(years) = RecentYear
  BY OrderHasAll, SearchAssumption
<1>3. YearFilters(years) \in Seq(Object)
  BY <1>2, YearsAdded
<1>4. args.object \in Seq(Object)
  BY DEF FindUsageYears, NeedsYears, TypeOK, SearchFlowsArgs
<1>5. args.object \o YearFilters(years) \in Seq(Object)
  BY <1>3, <1>4
<1> DEFINE all == args.object \o YearFilters(years)
<1>6. args' = [args EXCEPT !.object = all] /\ all \in Seq(Object)
  BY <1>1, <1>5
<1>7. args' \in SearchFlowsArgs
  <2> HIDE DEF all
  <2> QED BY <1>6 DEF TypeOK, SearchFlowsArgs
<1> QED BY <1>1, <1>2, <1>7

\* What MapShortcuts does to the arguments: it may ask for inactive flows.
LEMMA PendingDefault ==
  ASSUME NEW a \in SearchFlowsArgs, NEW used
  PROVE  /\ WithPendingDefault(a, used) \in SearchFlowsArgs
         /\ WithPendingDefault(a, used).object = a.object
         /\ WithPendingDefault(a, used).category = a.category
         /\ WithPendingDefault(a, used).nested = a.nested
         /\ WithPendingDefault(a, used).status = a.status
         /\ WithPendingDefault(a, used).sort = a.sort
         /\ WithPendingDefault(a, used).children = a.children
<1> DEFINE flow == IF a.flow = None THEN [ids |-> None, active |-> FALSE]
                                    ELSE [a.flow EXCEPT !.active = FALSE]
<1>1. flow \in FlowFilter
  <2>1. a.flow = None \/ a.flow \in FlowFilter
    BY DEF SearchFlowsArgs
  <2>2. CASE a.flow = None
    BY <2>2 DEF FlowFilter
  <2>3. CASE a.flow # None
    <3>1. a.flow \in FlowFilter
      BY <2>1, <2>3
    <3>2. [a.flow EXCEPT !.active = FALSE] \in FlowFilter
      BY <3>1 DEF FlowFilter
    <3> QED BY <2>3, <3>2
  <2> QED BY <2>2, <2>3
<1>2. \/ WithPendingDefault(a, used) = a
      \/ WithPendingDefault(a, used) = [a EXCEPT !.flow = flow]
  BY DEF WithPendingDefault
<1> HIDE DEF flow
<1> QED BY <1>1, <1>2 DEF SearchFlowsArgs

\* The strategy: the shortcuts' categories, and every branch that is started
\* has something to ask.
LEMMA Shortcuts ==
  ASSUME TypeOK, MapShortcuts
  PROVE  \E used \in SUBSET (Category \X BOOLEAN) :
           /\ shortcuts' = used
           /\ args' = WithPendingDefault(args, used)
           /\ IF OnlyFlowFilters(args', used)
                THEN phase' = "onlyFlow" /\ UNCHANGED <<step, groups, keys>>
                ELSE /\ phase' = "gather"
                     /\ step' = FirstSteps(args', used)
                     /\ groups' \in IF args'.object = None THEN {<<>>}
                                                           ELSE Grouped(args'.object)
                     /\ keys' = IF args'.nested = None THEN <<>> ELSE args'.nested
           /\ UNCHANGED <<tables, selected, found, parents, children, refs>>
<1> DEFINE named == {s \in DOMAIN args.flags : ShortcutMatches[s] # {}}
<1>1. PICK pick \in [named -> Category] :
        /\ \A s \in named : pick[s] \in ShortcutMatches[s]
        /\ LET used == {<<pick[s], args.flags[s]>> : s \in named}
               a == WithPendingDefault(args, used) IN
             /\ args' = a
             /\ shortcuts' = used
             /\ IF OnlyFlowFilters(a, used)
                  THEN /\ phase' = "onlyFlow"
                       /\ UNCHANGED <<step, groups, keys>>
                  ELSE /\ phase' = "gather"
                       /\ step' = FirstSteps(a, used)
                       /\ groups' \in IF a.object = None THEN {<<>>}
                                                         ELSE Grouped(a.object)
                       /\ keys' = IF a.nested = None THEN <<>> ELSE a.nested
  BY DEF MapShortcuts
<1> DEFINE used == {<<pick[s], args.flags[s]>> : s \in named}
<1>2. PICK given \in SUBSET DOMAIN ShortcutMatches : args.flags \in [given -> BOOLEAN]
  BY DEF TypeOK, SearchFlowsArgs
<1>3. used \in SUBSET (Category \X BOOLEAN)
  BY <1>1, <1>2
<1>4. UNCHANGED <<tables, selected, found, parents, children, refs>>
  BY DEF MapShortcuts
<1> WITNESS used \in SUBSET (Category \X BOOLEAN)
<1> HIDE DEF used
<1> QED BY <1>1, <1>4 DEF used

\* The order of the groups.
LEMMA GroupedAll ==
  ASSUME NEW filters \in Seq(Object), NEW order \in Grouped(filters)
  PROVE  /\ order \in Seq(ObjectGroup)
         /\ ToSet(order) = {GroupOf(o) : o \in ToSet(filters)}
<1> DEFINE G == {GroupOf(o) : o \in ToSet(filters)}
<1>1. IsFiniteSet(G)
  BY FiniteGroups
<1>2. order \in SetToSeqs(G)
  BY DEF Grouped
<1>3. order \in Seq(G) /\ ToSet(order) = G
  <2> HIDE DEF G
  <2> QED BY <1>1, <1>2, OrderHasAll
<1>4. G \subseteq ObjectGroup
  <2>1. \A o \in Object : GroupOf(o) \in ObjectGroup
    BY DEF GroupOf, Object, ObjectGroup
  <2>2. ToSet(filters) \subseteq Object
    BY DEF ToSet
  <2> QED BY <2>1, <2>2
<1>5. order \in Seq(ObjectGroup)
  <2> HIDE DEF G
  <2> QED BY <1>3, <1>4
<1> QED BY <1>3, <1>5

LEMMA FirstStepsTypes ==
  ASSUME NEW a \in SearchFlowsArgs, NEW used
  PROVE  /\ FirstSteps(a, used) \in [Branch -> Step]
         /\ FirstSteps(a, used)["object"] = "query" =>
              a.object \in Seq(Object) /\ a.object # <<>>
         /\ FirstSteps(a, used)["nested"] = "query" =>
              a.nested \in Seq(NestedKey) /\ a.nested # <<>>
BY DEF FirstSteps, Branch, Step, SearchFlowsArgs

LEMMA ShortcutsTInv == TInv /\ MapShortcuts => TInv'
<1> SUFFICES ASSUME TInv, MapShortcuts PROVE TInv'
  OBVIOUS
<1> USE DEF TInv
<1>1. PICK used \in SUBSET (Category \X BOOLEAN) :
        /\ shortcuts' = used
        /\ args' = WithPendingDefault(args, used)
        /\ IF OnlyFlowFilters(args', used)
             THEN phase' = "onlyFlow" /\ UNCHANGED <<step, groups, keys>>
             ELSE /\ phase' = "gather"
                  /\ step' = FirstSteps(args', used)
                  /\ groups' \in IF args'.object = None THEN {<<>>}
                                                        ELSE Grouped(args'.object)
                  /\ keys' = IF args'.nested = None THEN <<>> ELSE args'.nested
        /\ UNCHANGED <<tables, selected, found, parents, children, refs>>
  BY Shortcuts
<1>2. args' \in SearchFlowsArgs
  BY <1>1, PendingDefault DEF TypeOK
<1>3. CASE OnlyFlowFilters(args', used)
  BY <1>1, <1>2, <1>3 DEF TypeOK, tables, Phase
<1>4. CASE ~OnlyFlowFilters(args', used)
  <2>1. step' = FirstSteps(args', used) /\ phase' = "gather"
    BY <1>1, <1>4
  <2>2. step' \in [Branch -> Step]
    BY <1>2, <2>1, FirstStepsTypes
  <2>3. args'.object = None \/ args'.object \in Seq(Object)
    BY <1>2 DEF SearchFlowsArgs
  <2>4. groups' \in Seq(ObjectGroup)
    <3>1. CASE args'.object = None
      BY <1>1, <1>4, <3>1
    <3>2. CASE args'.object # None
      BY <1>1, <1>4, <2>3, <3>2, GroupedAll
    <3> QED BY <3>1, <3>2
  <2>5. keys' \in Seq(NestedKey)
    <3>1. args'.nested = None \/ args'.nested \in Seq(NestedKey)
      BY <1>2 DEF SearchFlowsArgs
    <3>2. keys' = IF args'.nested = None THEN <<>> ELSE args'.nested
      BY <1>1, <1>4
    <3>3. <<>> \in Seq(NestedKey)
      OBVIOUS
    <3> QED BY <3>1, <3>2, <3>3
  <2>6. step'["nested"] = "query" => keys' # <<>>
    BY <1>1, <1>2, <1>4, <2>1, FirstStepsTypes DEF SearchFlowsArgs, FirstSteps
  <2>7. step'["object"] = "query" => groups' # <<>>
    <3> SUFFICES ASSUME step'["object"] = "query", groups' = <<>> PROVE FALSE
      OBVIOUS
    <3>1. args'.object \in Seq(Object) /\ args'.object # <<>> /\ args'.object # None
      BY <1>2, <2>1, FirstStepsTypes DEF FirstSteps
    <3>2. Head(args'.object) \in ToSet(args'.object)
      BY <3>1, HeadTail
    <3>3. groups' \in Grouped(args'.object)
      BY <1>1, <1>4, <3>1
    <3>4. ToSet(groups') = {GroupOf(o) : o \in ToSet(args'.object)}
      BY <3>1, <3>3, GroupedAll
    <3>5. ToSet(groups') = {}
      BY DEF ToSet
    <3> QED BY <3>2, <3>4, <3>5
  <2> QED
    BY <1>1, <1>2, <2>1, <2>2, <2>4, <2>5, <2>6, <2>7, TailTypes DEF TypeOK, tables, Phase
<1> QED BY <1>3, <1>4

LEMMA ObjectsTInv == TInv /\ FindObjects => TInv'
<1> SUFFICES ASSUME TInv, FindObjects PROVE TInv'
  OBVIOUS
<1> USE DEF TInv
<1>1. step["object"] = "query" /\ groups # <<>>
  BY DEF FindObjects, Ready
<1>2. Intersect2(found["object"], ObjectRows(db, OfGroup(args.object, Head(groups))))
        \in SUBSET Entity
  BY AnswerTypes, IntersectType DEF TypeOK, Branch
<1>3. groups' \in Seq(ObjectGroup) /\ (Len(groups) # 1 => groups' # <<>>)
  BY <1>1, HeadTail DEF FindObjects
<1>4. /\ step' \in [Branch -> Step] /\ found' \in [Branch -> SUBSET Entity]
      /\ step'["object"] = IF Len(groups) = 1 THEN "end" ELSE "query"
      /\ \A a \in Branch : a # "object" => step'[a] = step[a]
  BY <1>2, AnswerTInv DEF FindObjects, Branch, Step
<1>5. step'["nested"] = step["nested"]
  BY <1>4 DEF Branch
<1> QED BY <1>3, <1>4, <1>5, TailTypes DEF FindObjects, TypeOK, tables, Phase

LEMMA MoreThanOne ==
  ASSUME NEW n \in Nat, n > 1
  PROVE  n # 1
OBVIOUS

LEMMA NestedTInv == TInv /\ FindNested => TInv'
<1> SUFFICES ASSUME TInv, FindNested PROVE TInv'
  OBVIOUS
<1> USE DEF TInv
<1> DEFINE rows == Intersect2(found["nested"], NestedRows(Head(keys)))
           next == IF Len(keys) > 1 THEN "query"
                   ELSE IF rows = {} THEN "end" ELSE "lookup"
<1>1. step["nested"] = "query" /\ keys # <<>>
  BY DEF FindNested, Ready
<1>2. Head(keys) \in NestedKey /\ keys' \in Seq(NestedKey)
      /\ (Len(keys) # 1 => keys' # <<>>)
  BY <1>1, HeadTail DEF FindNested
<1>3. rows \in SUBSET Entity
  BY <1>2, AnswerTypes, IntersectType DEF TypeOK, Branch
<1>4. Answer("nested", next, rows)
  BY DEF FindNested
<1>5. next \in Step /\ (next = "query" => Len(keys) # 1)
  <2>1. Len(keys) \in Nat
    OBVIOUS
  <2> HIDE DEF rows
  <2>2. CASE Len(keys) > 1
    <3>1. Len(keys) # 1
      BY <2>1, <2>2, MoreThanOne
    <3>2. next = "query"
      BY <2>2, Zenon
    <3> QED BY <3>1, <3>2 DEF Step
  <2>3. CASE ~(Len(keys) > 1)
    <3>1. CASE rows = {}
      BY <2>3, <3>1 DEF Step
    <3>2. CASE rows # {}
      BY <2>3, <3>2 DEF Step
    <3> QED BY <3>1, <3>2
  <2> QED BY <2>2, <2>3
<1>6. /\ step' \in [Branch -> Step] /\ found' \in [Branch -> SUBSET Entity]
      /\ step'["nested"] = next
      /\ \A a \in Branch : a # "nested" => step'[a] = step[a]
  <2> HIDE DEF rows, next
  <2> QED BY <1>3, <1>4, <1>5, AnswerTInv DEF Branch
<1>7. step'["object"] = step["object"]
  BY <1>6 DEF Branch
<1> HIDE DEF rows, next
<1> QED BY <1>2, <1>5, <1>6, <1>7, TailTypes DEF FindNested, TypeOK, tables, Phase

\* The branches that ask once.
LEMMA OnceTInv ==
  ASSUME TInv, NEW b \in {"category", "nested", "flow", "sort"},
         NEW rows \in SUBSET Entity, Answer(b, "end", rows),
         UNCHANGED <<tables, phase, args, refs, requestVars>>
  PROVE  TInv'
<1>1. /\ step' \in [Branch -> Step] /\ found' \in [Branch -> SUBSET Entity]
      /\ step'[b] = "end" /\ \A a \in Branch : a # b => step'[a] = step[a]
  BY AnswerTInv DEF TInv, Branch, Step
<1>2. /\ step'["object"] = step["object"]
      /\ step'["nested"] = "query" => step["nested"] = "query"
  BY <1>1 DEF Branch
<1> QED BY <1>1, <1>2 DEF TInv, TypeOK, tables, requestVars

LEMMA NextTInv == TInv /\ [Next]_vars => TInv'
<1> SUFFICES ASSUME TInv, [Next]_vars PROVE TInv'
  OBVIOUS
<1> USE DEF TInv
<1>1. CASE UNCHANGED vars
  BY <1>1 DEF vars, tables, requestVars, TypeOK
<1>2. CASE FindUsageYears
  BY <1>2, YearsTInv DEF FindUsageYears, TypeOK, tables, requestVars, Phase
<1>3. CASE Search
  BY <1>3 DEF Search, TypeOK, tables, requestVars, Phase
<1>4. CASE MapShortcuts
  BY <1>4, ShortcutsTInv
<1>5. CASE SearchOnlyFlows
  BY <1>5, AnswerTypes DEF SearchOnlyFlows, TypeOK, tables, requestVars, Phase
<1>6. CASE FindCategories
  <2>1. selected' \subseteq Category
    BY <1>6 DEF FindCategories, SelectedCategories
  <2>2. /\ step' \in [Branch -> Step] /\ step'["object"] = step["object"]
        /\ step'["nested"] = step["nested"]
    BY <1>6 DEF FindCategories, TypeOK, Branch, Step
  <2> QED BY <1>6, <2>1, <2>2 DEF FindCategories, TypeOK, tables
<1>7. CASE FindCategoryRefs
  BY <1>7, AnswerTypes, OnceTInv DEF FindCategoryRefs, TypeOK
<1>8. CASE FindObjects
  BY <1>8, ObjectsTInv
<1>9. CASE FindNested
  BY <1>9, NestedTInv
<1>10. CASE LookupNested
  <2>1. found["nested"] \cap db.rows \in SUBSET Entity
    BY DEF TypeOK, Branch
  <2> QED BY <1>10, <2>1, OnceTInv DEF LookupNested
<1>11. CASE FindFlows
  BY <1>11, AnswerTypes, OnceTInv DEF FindFlows, TypeOK
<1>12. CASE FindSortOrder
  <2>1. CASE ~Sortable(args.sort)
    BY <1>12, <2>1 DEF FindSortOrder, TypeOK, tables, requestVars, Phase
  <2>2. CASE Sortable(args.sort)
    BY <1>12, <2>2, AnswerTypes, OnceTInv DEF FindSortOrder, TypeOK
  <2> QED BY <2>1, <2>2
<1>13. CASE Combine
  <2>1. Sorted(found) \subseteq Entity
    BY IntersectType DEF Sorted, Candidates, TypeOK, Branch
  <2> QED BY <1>13, <2>1 DEF Combine, TypeOK, tables, requestVars, Phase
<1>14. CASE FindParents
  BY <1>14, AnswerTypes DEF FindParents, TypeOK, tables, Phase
<1>15. CASE FindLinks
  BY <1>15, AnswerTypes DEF FindLinks, TypeOK, tables, Phase
<1>16. CASE FindChildren
  <2> DEFINE sets == [found EXCEPT !["object"] = @ \cup ActiveRows(db, children)]
  <2>1. sets \in [Branch -> SUBSET Entity]
    BY AnswerTypes DEF TypeOK, Branch
  <2>2. Sorted(sets) \subseteq Entity
    <3> HIDE DEF sets
    <3> QED BY <2>1, IntersectType DEF Sorted, Candidates, Branch
  <2> QED BY <1>16, <2>1, <2>2 DEF FindChildren, TypeOK, tables, requestVars, Phase
<1>17. CASE Edit
  BY <1>17, EditEffect DEF Untouched, TypeOK, requestVars
<1> QED
  BY <1>1, <1>2, <1>3, <1>4, <1>5, <1>6, <1>7, <1>8, <1>9, <1>10, <1>11, <1>12, <1>13,
     <1>14, <1>15, <1>16, <1>17 DEF Next, Gather

\* Every variable keeps its type, for every set of tables and requests.
THEOREM TypeCorrect == Spec => []TypeOK
<1>1. Spec => []TInv
  BY InitTInv, NextTInv, PTL DEF Spec
<1>2. TInv => TypeOK
  BY DEF TInv
<1> QED BY <1>1, <1>2, PTL

-----------------------------------------------------------------------------
(* What a step of the search leaves alone.  Once the strategy is chosen the *)
(* filters stay, a branch is written by its own queries, and the tables say *)
(* the same of every flow version nobody has written.                      *)

Settled == Untouched(db, db', edited') /\ edited \subseteq edited'
           /\ UNCHANGED <<asked, args, shortcuts>>

Still(b) == step'[b] = step[b] /\ found'[b] = found[b]

Steady ==
  /\ Settled
  /\ \A b \in Branch : step'[b] = "unused" <=> step[b] = "unused"
  /\ FindCategories \/ FindCategoryRefs \/ (Still("category") /\ selected' = selected)
  /\ FindObjects \/ FindChildren \/ (Still("object") /\ groups' = groups)
  /\ FindNested \/ LookupNested \/ (Still("nested") /\ keys' = keys)
  /\ FindFlows \/ Still("flow")
  /\ FindSortOrder \/ Still("sort")

LEMMA SettledTables ==
  ASSUME TypeOK, UNCHANGED <<tables, args, shortcuts>>
  PROVE  Settled
<1>1. db \in Database /\ db' = db /\ edited' = edited
  BY DEF TypeOK, tables
<1>2. Untouched(db, db', edited')
  BY <1>1 DEF Untouched, Alike
<1> QED BY <1>1, <1>2 DEF Settled, tables

LEMMA AnswerStill ==
  ASSUME TypeOK, NEW b \in Branch, NEW next, NEW rows, Answer(b, next, rows)
  PROVE  /\ step'[b] = next /\ found'[b] = rows
         /\ \A a \in Branch : a # b => Still(a)
BY DEF Answer, TypeOK, Still

\* The queries of a branch.
LEMMA OwnSteady ==
  ASSUME TInv, NEW b \in Branch, step[b] # "unused", step'[b] # "unused",
         \A a \in Branch : a # b => Still(a),
         UNCHANGED <<tables, args, shortcuts>>,
         b # "category" => selected' = selected,
         b # "object" => groups' = groups,
         b # "nested" => keys' = keys,
         b = "category" => FindCategories \/ FindCategoryRefs,
         b = "object" => FindObjects \/ FindChildren,
         b = "nested" => FindNested \/ LookupNested,
         b = "flow" => FindFlows, b = "sort" => FindSortOrder
  PROVE  Steady
<1>1. Settled
  BY SettledTables DEF TInv
<1>2. \A a \in Branch : step'[a] = "unused" <=> step[a] = "unused"
  BY DEF Still
<1>3. \A a \in {"category", "nested", "object", "flow", "sort"} : a \in Branch
  BY DEF Branch
<1>4. FindCategories \/ FindCategoryRefs \/ (Still("category") /\ selected' = selected)
  BY <1>3
<1>5. FindObjects \/ FindChildren \/ (Still("object") /\ groups' = groups)
  BY <1>3
<1>6. FindNested \/ LookupNested \/ (Still("nested") /\ keys' = keys)
  BY <1>3
<1>7. FindFlows \/ Still("flow")
  BY <1>3
<1>8. FindSortOrder \/ Still("sort")
  BY <1>3
<1> QED BY <1>1, <1>2, <1>4, <1>5, <1>6, <1>7, <1>8 DEF Steady

LEMMA AllStill ==
  ASSUME TInv, UNCHANGED <<tables, args, step, found, shortcuts, selected, groups, keys>>
  PROVE  Steady
<1>1. Settled
  BY SettledTables DEF TInv
<1> QED BY <1>1 DEF Steady, Still

LEMMA NextSteady ==
  ASSUME TInv, IInv, [Next]_vars
  PROVE  FindUsageYears \/ Search \/ MapShortcuts \/ Steady
<1>1. CASE UNCHANGED vars
  BY <1>1, AllStill DEF vars, tables, requestVars
<1>2. CASE SearchOnlyFlows \/ Combine \/ FindParents \/ FindLinks
  BY <1>2, AllStill DEF SearchOnlyFlows, Combine, FindParents, FindLinks, requestVars
<1>3. CASE FindCategories
  <2>1. /\ step["category"] # "unused" /\ step'["category"] # "unused"
        /\ \A a \in Branch : a # "category" => Still(a)
    BY <1>3 DEF FindCategories, Ready, TInv, TypeOK, Branch, Still
  <2> QED BY <1>3, <2>1, OwnSteady DEF FindCategories, Branch
<1>4. CASE FindCategoryRefs
  <2>1. /\ step["category"] # "unused" /\ step'["category"] # "unused"
        /\ \A a \in Branch : a # "category" => Still(a)
    BY <1>4, AnswerStill DEF FindCategoryRefs, Ready, TInv, Branch
  <2> QED BY <1>4, <2>1, OwnSteady DEF FindCategoryRefs, Branch, requestVars
<1>5. CASE FindObjects
  <2>1. /\ step["object"] # "unused"
        /\ step'["object"] = IF Len(groups) = 1 THEN "end" ELSE "query"
        /\ \A a \in Branch : a # "object" => Still(a)
    BY <1>5, AnswerStill DEF FindObjects, Ready, TInv, Branch
  <2>2. step'["object"] # "unused"
    BY <2>1
  <2> QED BY <1>5, <2>1, <2>2, OwnSteady DEF FindObjects, Branch
<1>6. CASE FindNested
  <2> DEFINE rows == Intersect2(found["nested"], NestedRows(Head(keys)))
             next == IF Len(keys) > 1 THEN "query"
                     ELSE IF rows = {} THEN "end" ELSE "lookup"
  <2>1. Answer("nested", next, rows)
    BY <1>6 DEF FindNested
  <2>2. next # "unused"
    <3> HIDE DEF rows
    <3> QED OBVIOUS
  <2>3. /\ step["nested"] # "unused" /\ step'["nested"] # "unused"
        /\ \A a \in Branch : a # "nested" => Still(a)
    <3> HIDE DEF rows, next
    <3> QED BY <1>6, <2>1, <2>2, AnswerStill DEF FindNested, Ready, TInv, Branch
  <2> QED BY <1>6, <2>3, OwnSteady DEF FindNested, Branch
<1>7. CASE LookupNested
  <2>1. /\ step["nested"] # "unused" /\ step'["nested"] # "unused"
        /\ \A a \in Branch : a # "nested" => Still(a)
    BY <1>7, AnswerStill DEF LookupNested, Ready, TInv, Branch
  <2> QED BY <1>7, <2>1, OwnSteady DEF LookupNested, Branch, requestVars
<1>8. CASE FindFlows
  <2>1. /\ step["flow"] # "unused" /\ step'["flow"] # "unused"
        /\ \A a \in Branch : a # "flow" => Still(a)
    BY <1>8, AnswerStill DEF FindFlows, Ready, TInv, Branch
  <2> QED BY <1>8, <2>1, OwnSteady DEF FindFlows, Branch, requestVars
<1>9. CASE FindSortOrder
  <2>1. CASE ~Sortable(args.sort)
    BY <1>9, <2>1, AllStill DEF FindSortOrder, requestVars
  <2>2. CASE Sortable(args.sort)
    <3>1. /\ step["sort"] # "unused" /\ step'["sort"] # "unused"
          /\ \A a \in Branch : a # "sort" => Still(a)
      BY <1>9, <2>2, AnswerStill DEF FindSortOrder, Ready, TInv, Branch
    <3> QED BY <1>9, <3>1, OwnSteady DEF FindSortOrder, Branch, requestVars
  <2> QED BY <2>1, <2>2
<1>10. CASE FindChildren
  <2>1. step["object"] # "unused" /\ step' = step
    BY <1>10 DEF FindChildren, IInv, ParentsOfObjects
  <2>2. \A a \in Branch : a # "object" => Still(a)
    BY <1>10, <2>1 DEF FindChildren, Still, TInv, TypeOK
  <2> QED BY <1>10, <2>1, <2>2, OwnSteady DEF FindChildren, Branch, requestVars
<1>11. CASE Edit
  <2>1. /\ Untouched(db, db', edited') /\ edited \subseteq edited'
        /\ UNCHANGED <<asked, args, step, found, shortcuts, selected, groups, keys>>
    BY <1>11, EditEffect DEF TInv, requestVars
  <2> QED BY <2>1 DEF Steady, Settled, Still
<1> QED
  BY <1>1, <1>2, <1>3, <1>4, <1>5, <1>6, <1>7, <1>8, <1>9, <1>10, <1>11 DEF Next, Gather

-----------------------------------------------------------------------------
(* What the request asks, and which branches that starts.                  *)

Years == {Year(p[1], p[2]) : p \in Direction \X RecentYear}

Asked ==
  /\ phase = "idle" => args = asked
  /\ phase # "idle" =>
       IF NeedsYears(asked)
         THEN args.object # None /\ ToSet(args.object) = ToSet(asked.object) \cup Years
         ELSE args.object = asked.object

Begun ==
  phase \notin {"idle", "shortcuts"} =>
    /\ step["category"] = "unused" => args.category \in {None, <<>>} /\ shortcuts = {}
    /\ step["object"] = "unused" <=> args.object \in {None, <<>>}
    /\ step["nested"] = "unused" <=> args.nested = None
    /\ step["sort"] = "unused" =>
         args.sort = None /\ \A b \in Branch : step[b] = "unused"
    /\ step["sort"] # "unused" =>
         (step["flow"] = "unused" <=> args.flow = None /\ args.status = None)

Paths ==
  /\ phase = "onlyFlow" => step["sort"] = "unused"
  /\ phase \in {"gather", "parents", "links", "children"} => step["sort"] # "unused"
  /\ phase \in {"parents", "links", "children", "done"} =>
       \A b \in Branch : step[b] \in {"unused", "end"}
  /\ phase \in {"parents", "links", "children"} => args.children

SInv == Asked /\ Begun /\ Paths

LEMMA InitSInv == Init => SInv
BY DEF Init, SInv, Asked, Begun, Paths

LEMMA ShortcutsSInv ==
  ASSUME TInv, IInv, SInv, MapShortcuts
  PROVE  SInv'
<1>1. PICK used \in SUBSET (Category \X BOOLEAN) :
        /\ shortcuts' = used
        /\ args' = WithPendingDefault(args, used)
        /\ IF OnlyFlowFilters(args', used)
             THEN phase' = "onlyFlow" /\ UNCHANGED <<step, groups, keys>>
             ELSE /\ phase' = "gather"
                  /\ step' = FirstSteps(args', used)
                  /\ groups' \in IF args'.object = None THEN {<<>>}
                                                        ELSE Grouped(args'.object)
                  /\ keys' = IF args'.nested = None THEN <<>> ELSE args'.nested
        /\ UNCHANGED <<tables, selected, found, parents, children, refs>>
  BY Shortcuts DEF TInv
<1>2. phase = "shortcuts" /\ \A b \in Branch : step[b] = "unused"
  BY DEF MapShortcuts, IInv, Started
<1>3. args'.object = args.object
  BY <1>1, PendingDefault DEF TInv, TypeOK
<1>4. asked' = asked
  BY <1>1 DEF tables
<1>5. phase' # "idle"
  BY <1>1
<1>6. Asked'
  BY <1>2, <1>3, <1>4, <1>5 DEF SInv, Asked
<1>7. CASE OnlyFlowFilters(args', used)
  <2>1. phase' = "onlyFlow" /\ step' = step /\ shortcuts' = {}
    BY <1>1, <1>7 DEF OnlyFlowFilters
  <2> QED BY <1>2, <1>6, <1>7, <2>1 DEF SInv, Begun, Paths, OnlyFlowFilters, Branch
<1>8. CASE ~OnlyFlowFilters(args', used)
  <2>1. step' = FirstSteps(args', used) /\ phase' = "gather" /\ shortcuts' = used
    BY <1>1, <1>8
  <2>2. /\ step'["category"] = "unused" => args'.category \in {None, <<>>} /\ used = {}
        /\ step'["object"] = "unused" <=> args'.object \in {None, <<>>}
        /\ step'["nested"] = "unused" <=> args'.nested = None
        /\ step'["sort"] # "unused"
        /\ step'["flow"] = "unused" <=> args'.flow = None /\ args'.status = None
    BY <2>1 DEF FirstSteps
  <2> QED BY <1>6, <2>1, <2>2 DEF SInv, Begun, Paths
<1> QED BY <1>7, <1>8

\* Begun speaks of arguments that stay and of branches that stay in use.
LEMMA SteadyBegun ==
  ASSUME Begun, Steady, phase \in {"idle", "shortcuts"} => phase' = phase
  PROVE  Begun'
BY DEF Begun, Steady, Settled, Branch

Passes ==
  \/ phase' = phase /\ step' = step
  \/ phase = "gather" /\ phase' \in {"gather", "failed"}
  \/ SearchOnlyFlows \/ Combine \/ FindParents \/ FindLinks \/ FindChildren

LEMMA Phases ==
  ASSUME TInv, [Next]_vars, ~(FindUsageYears \/ Search \/ MapShortcuts)
  PROVE  Passes
<1>1. CASE UNCHANGED vars
  BY <1>1 DEF vars, Passes
<1>2. CASE Gather
  BY <1>2 DEF Gather, FindCategories, FindCategoryRefs, FindObjects, FindNested,
              LookupNested, FindFlows, FindSortOrder, Ready, Passes
<1>3. CASE Edit
  BY <1>3, EditEffect DEF Passes, TInv
<1> QED BY <1>1, <1>2, <1>3 DEF Next, Passes

LEMMA NextSInv ==
  ASSUME TInv, IInv, SInv, [Next]_vars
  PROVE  SInv'
<1>1. CASE FindUsageYears
  <2>1. PICK years \in Seq(RecentYear) :
          /\ ToSet(years) = RecentYear
          /\ args' = [args EXCEPT !.object = args.object \o YearFilters(years)]
    BY <1>1, YearsTInv DEF TInv
  <2>2. args = asked /\ asked' = asked /\ phase' = "shortcuts" /\ NeedsYears(args)
    BY <1>1 DEF FindUsageYears, SInv, Asked, tables
  <2>3. args \in SearchFlowsArgs /\ args.object \in Seq(Object)
    BY <2>2 DEF TInv, TypeOK, SearchFlowsArgs, NeedsYears
  <2>4. YearFilters(years) \in Seq(Object) /\ ToSet(YearFilters(years)) = Years
    BY <2>1, YearsAdded DEF Years
  <2>5. args'.object = args.object \o YearFilters(years)
    BY <2>1, <2>3 DEF SearchFlowsArgs
  <2>6. args'.object \in Seq(Object) /\ ToSet(args'.object) = ToSet(asked.object) \cup Years
    BY <2>2, <2>3, <2>4, <2>5, ConcatSet
  <2>7. args'.object # None
    BY <2>6, CategoryAssumption
  <2> QED BY <2>2, <2>6, <2>7 DEF SInv, Asked, Begun, Paths, NeedsYears
<1>2. CASE Search
  BY <1>2 DEF Search, SInv, Asked, Begun, Paths, tables
<1>3. CASE MapShortcuts
  BY <1>3, ShortcutsSInv
<1>4. CASE ~(FindUsageYears \/ Search \/ MapShortcuts)
  <2>1. Steady
    BY <1>4, NextSteady
  <2>2. Passes
    BY <1>4, Phases
  <2>3. \/ phase' = phase
        \/ phase \notin {"idle", "shortcuts"} /\ phase' \notin {"idle", "shortcuts"}
    BY <2>2 DEF Passes, SearchOnlyFlows, Combine, FindParents, FindLinks, FindChildren
  <2>4. Asked'
    BY <2>1, <2>3 DEF Steady, Settled, SInv, Asked, NeedsYears
  <2>5. Begun'
    BY <2>1, <2>3, SteadyBegun DEF SInv
  <2>6. Paths'
    <3>1. CASE phase' = phase /\ step' = step
      BY <2>1, <3>1 DEF Steady, Settled, SInv, Paths
    <3>2. CASE phase = "gather" /\ phase' \in {"gather", "failed"}
      BY <2>1, <3>2 DEF Steady, SInv, Paths, Branch
    <3>3. CASE SearchOnlyFlows
      BY <3>3 DEF SearchOnlyFlows, IInv, Started, SInv, Paths
    <3>4. CASE Combine
      BY <3>4 DEF Combine, SInv, Paths
    <3>5. CASE FindParents \/ FindLinks \/ FindChildren
      BY <3>5 DEF FindParents, FindLinks, FindChildren, SInv, Paths
    <3> QED BY <2>2, <3>1, <3>2, <3>3, <3>4, <3>5 DEF Passes
  <2> QED BY <2>4, <2>5, <2>6 DEF SInv
<1> QED BY <1>1, <1>2, <1>3, <1>4

-----------------------------------------------------------------------------
(* Branches that ask once.  What a branch answered is still what its filter *)
(* says of every flow version that nobody has written since.               *)

\* With plain filters the code selects the categories the caller names.
LEMMA SelectedAreWanted ==
  ASSUME NEW filters \in Seq(CategoryFilter),
         \/ NamedOf(filters) = {} /\ IdsOf(filters) # {}
         \/ /\ NamedOf(filters) # {} /\ IdsOf(filters) = {}
            /\ \A c, d \in NamedOf(filters) : c.group = d.group
  PROVE  SelectedCategories(filters) =
           {k \in Category : \E c \in ToSet(filters) :
              \/ c.id = k
              \/ /\ c.id = None
                 /\ c.group = CategoryGroup[k] /\ c.name = CategoryName[k]}
<1>1. \A c \in ToSet(filters) : c \in CategoryFilter
  BY DEF ToSet
<1>2. \A k \in Category : /\ k # None /\ CategoryGroup[k] # None /\ CategoryName[k] # None
  BY CategoryAssumption DEF Range
<1> SUFFICES ASSUME NEW k \in Category
             PROVE  k \in SelectedCategories(filters) <=>
                      \E c \in ToSet(filters) :
                        \/ c.id = k
                        \/ /\ c.id = None
                           /\ c.group = CategoryGroup[k] /\ c.name = CategoryName[k]
  BY DEF SelectedCategories
<1>3. CASE NamedOf(filters) = {} /\ IdsOf(filters) # {}
  <2>1. k \in SelectedCategories(filters) <=> k \in IdsOf(filters)
    BY <1>3 DEF SelectedCategories
  <2>2. k \in IdsOf(filters) <=> \E c \in ToSet(filters) : c.id = k
    BY <1>2 DEF IdsOf
  <2>3. \A c \in ToSet(filters) :
          ~(c.id = None /\ c.group = CategoryGroup[k] /\ c.name = CategoryName[k])
    BY <1>2, <1>3 DEF NamedOf, Named
  <2> QED BY <2>1, <2>2, <2>3
<1>4. CASE /\ NamedOf(filters) # {} /\ IdsOf(filters) = {}
           /\ \A c, d \in NamedOf(filters) : c.group = d.group
  <2>1. k \in SelectedCategories(filters) <=>
          /\ EntersLast(filters, CategoryGroup[k])
          /\ CategoryName[k] \in NamesIn(filters, CategoryGroup[k])
    BY <1>4 DEF SelectedCategories
  <2>2. CategoryName[k] \in NamesIn(filters, CategoryGroup[k]) <=>
          \E c \in NamedOf(filters) :
            c.group = CategoryGroup[k] /\ c.name = CategoryName[k]
    BY DEF NamesIn
  <2>3. CategoryName[k] \in NamesIn(filters, CategoryGroup[k]) =>
          EntersLast(filters, CategoryGroup[k])
    BY <1>4, <2>2 DEF EntersLast
  <2>4. \A c \in ToSet(filters) : c.id # k
    BY <1>2, <1>4 DEF IdsOf
  <2>5. \A c \in ToSet(filters) :
          c.id = None /\ c.group = CategoryGroup[k] /\ c.name = CategoryName[k]
            <=> c \in NamedOf(filters) /\ c.group = CategoryGroup[k]
                /\ c.name = CategoryName[k]
    BY <1>2 DEF NamedOf, Named
  <2>6. NamedOf(filters) \subseteq ToSet(filters)
    BY DEF NamedOf
  <2> QED BY <2>1, <2>2, <2>3, <2>4, <2>5, <2>6
<1> QED BY <1>3, <1>4

CategoryInv ==
  /\ step["category"] = "unused" => selected = {}
  /\ step["category"] = "categories" => args.category \notin {None, <<>>}
  /\ step["category"] \in {"query", "end"} /\ PlainCategories =>
       Required = WantedCategories
  /\ step["category"] = "end" /\ PlainCategories =>
       \A e \in Entity \ edited : e \in found["category"] <=> PassesCategories(e)

\* The query of the references answers what the filter asks.
LEMMA CategoryAnswer ==
  ASSUME Required = WantedCategories, WantedCategories # {}
  PROVE  \A e : e \in CategoryRows(db, Required, Forbidden) <=> PassesCategories(e)
<1> DEFINE fetched == FetchedRefs(db, Required, Forbidden)
<1>1. \A e : \A c \in Required \cup Forbidden :
        <<e, c>> \in fetched <=> <<e, c>> \in db.cats
  BY DEF FetchedRefs
<1>2. PICK k : k \in Required
  OBVIOUS
<1>3. \A e : <<e, k>> \in fetched => e \in {r[1] : r \in fetched}
  <2> HIDE DEF fetched
  <2> SUFFICES ASSUME NEW e, <<e, k>> \in fetched PROVE e \in {r[1] : r \in fetched}
    OBVIOUS
  <2> DEFINE r == <<e, k>>
  <2>1. r \in fetched /\ r[1] = e
    OBVIOUS
  <2> HIDE DEF r
  <2> QED BY <2>1
<1>4. \A e : e \in CategoryRows(db, Required, Forbidden) <=>
        /\ e \in {r[1] : r \in fetched}
        /\ \A c \in Forbidden : <<e, c>> \notin fetched
        /\ \A c \in Required : <<e, c>> \in fetched
  BY DEF CategoryRows
<1> HIDE DEF fetched
<1> QED BY <1>1, <1>2, <1>3, <1>4 DEF PassesCategories

LEMMA SteadyCategory ==
  ASSUME CategoryInv, Steady, Still("category"), selected' = selected
  PROVE  CategoryInv'
<1>1. /\ args' = args /\ shortcuts' = shortcuts
      /\ step'["category"] = step["category"] /\ found'["category"] = found["category"]
  BY DEF Steady, Settled, Still
<1>2. WantedCategories' = WantedCategories /\ Required' = Required /\ Forbidden' = Forbidden
  BY <1>1 DEF WantedCategories, Required, Forbidden
<1>3. PlainCategories' <=> PlainCategories
  BY <1>1, <1>2 DEF PlainCategories
<1>4. \A e \in Entity \ edited' :
        e \notin edited /\ (PassesCategories(e)' <=> PassesCategories(e))
  BY <1>2 DEF Steady, Settled, Untouched, Alike, PassesCategories
<1> QED BY <1>1, <1>2, <1>3, <1>4 DEF CategoryInv

LEMMA NextCategory ==
  ASSUME TInv, IInv, SInv, CategoryInv, [Next]_vars
  PROVE  CategoryInv'
<1>1. CASE FindUsageYears \/ Search
  <2>1. phase = "idle" /\ step' = step /\ selected' = selected
    BY <1>1 DEF FindUsageYears, Search, requestVars
  <2>2. step["category"] = "unused"
    BY <2>1 DEF IInv, Started, Branch
  <2> QED BY <2>1, <2>2 DEF CategoryInv
<1>2. CASE MapShortcuts
  <2>1. /\ step["category"] = "unused" /\ selected = {} /\ selected' = selected
    BY <1>2 DEF MapShortcuts, IInv, Started, Branch, CategoryInv
  <2>2. PICK used \in SUBSET (Category \X BOOLEAN) :
          /\ shortcuts' = used
          /\ \/ step' = step
             \/ step' = FirstSteps(args', used)
    BY <1>2, Shortcuts DEF TInv
  <2>3. CASE step' = step
    BY <2>1, <2>3 DEF CategoryInv
  <2>4. CASE step' = FirstSteps(args', used)
    <3>1. CASE args'.category \notin {None, <<>>}
      <4>1. step'["category"] = "categories"
        BY <2>4, <3>1 DEF FirstSteps
      <4> QED BY <3>1, <4>1 DEF CategoryInv
    <3>2. CASE args'.category \in {None, <<>>}
      <4>1. step'["category"] \in {"query", "unused"}
        BY <2>4, <3>2 DEF FirstSteps
      <4>2. ToSet(<<>>) = {}
        BY DEF ToSet
      <4>3. Required' = WantedCategories'
        BY <2>1, <3>2, <4>2 DEF Required, WantedCategories
      <4> QED BY <2>1, <4>1, <4>3 DEF CategoryInv
    <3> QED BY <3>1, <3>2
  <2> QED BY <2>2, <2>3, <2>4
<1>3. CASE FindCategories
  <2>1. /\ step["category"] = "categories" /\ step'["category"] = "query"
        /\ selected' = SelectedCategories(args.category)
        /\ args' = args /\ shortcuts' = shortcuts
    BY <1>3 DEF FindCategories, Ready, TInv, TypeOK, Branch
  <2>2. args.category \in Seq(CategoryFilter) /\ args.category # None /\ args.category # <<>>
    BY <2>1 DEF CategoryInv, TInv, TypeOK, SearchFlowsArgs
  <2>3. ASSUME PlainCategories' PROVE Required' = WantedCategories'
    <3> DEFINE f == args.category
    <3>1. \/ NamedOf(f) = {} /\ IdsOf(f) # {}
          \/ /\ NamedOf(f) # {} /\ IdsOf(f) = {}
             /\ \A c, d \in NamedOf(f) : c.group = d.group
      BY <2>1, <2>2, <2>3 DEF PlainCategories
    <3>2. selected' = {k \in Category : \E c \in ToSet(f) :
              \/ c.id = k
              \/ /\ c.id = None
                 /\ c.group = CategoryGroup[k] /\ c.name = CategoryName[k]}
      BY <2>1, <2>2, <3>1, SelectedAreWanted
    <3> QED BY <2>1, <2>2, <3>2 DEF Required, WantedCategories
  <2> QED BY <2>1, <2>3 DEF CategoryInv
<1>4. CASE FindCategoryRefs
  <2>1. /\ step["category"] = "query" /\ step'["category"] = "end"
        /\ found'["category"] = CategoryRows(db, Required, Forbidden)
        /\ args' = args /\ shortcuts' = shortcuts /\ selected' = selected
        /\ db' = db /\ edited' = edited
    BY <1>4, AnswerStill DEF FindCategoryRefs, Ready, TInv, Branch, tables, requestVars
  <2>2. /\ WantedCategories' = WantedCategories /\ Required' = Required
        /\ Forbidden' = Forbidden
    BY <2>1 DEF WantedCategories, Required, Forbidden
  <2>3. PlainCategories' => PlainCategories /\ WantedCategories # {}
    BY <2>1, <2>2 DEF PlainCategories
  <2>4. PlainCategories' => Required = WantedCategories
    BY <2>1, <2>3 DEF CategoryInv
  <2>5. PlainCategories' =>
          \A e : e \in found'["category"] <=> PassesCategories(e)
    BY <2>1, <2>3, <2>4, CategoryAnswer
  <2>6. \A e : PassesCategories(e)' <=> PassesCategories(e)
    BY <2>1, <2>2 DEF PassesCategories
  <2> QED BY <2>1, <2>2, <2>3, <2>4, <2>5, <2>6 DEF CategoryInv
<1>5. CASE Steady /\ ~FindCategories /\ ~FindCategoryRefs
  BY <1>5, SteadyCategory DEF Steady
<1> QED BY <1>1, <1>2, <1>3, <1>4, <1>5, NextSteady

FlowInv ==
  step["flow"] = "end" =>
    \A e \in Entity \ edited :
      e \in found["flow"] <=> e \in db.rows \ db.deleted /\ PassesFlow(e)

OnlyFlowInv ==
  phase = "done" /\ step["sort"] = "unused" =>
    \A e \in Entity \ edited : e \in refs <=> e \in db.rows \ db.deleted /\ PassesFlow(e)

SortInv ==
  step["sort"] = "end" =>
    \A e \in Entity \ edited :
      e \in found["sort"] <=> (args.sort = None => e \in db.rows) /\ HasPlace(e)

\* The conditions on flow rows say what the filter means.
LEMMA FlowAnswer ==
  ASSUME TypeOK, NEW e \in Entity
  PROVE  e \in FlowRows(db, args.flow, args.status) <=>
           e \in db.rows \ db.deleted /\ PassesFlow(e)
<1>1. e[2] \in Nat /\ e[2] >= 1
  BY CategoryAssumption DEF Entity
<1>2. args.status \in {None, "new", "updated"}
  BY DEF TypeOK, SearchFlowsArgs
<1>3. /\ args.status = "new" => (StatusOK(e[2], args.status) <=> e[2] = 1)
      /\ args.status = "updated" => (StatusOK(e[2], args.status) <=> e[2] # 1)
      /\ args.status \notin {"new", "updated"} => StatusOK(e[2], args.status)
  BY <1>1 DEF StatusOK
<1>4. StatusOK(e[2], args.status) <=>
        (args.status = "new" => e[2] = 1) /\ (args.status = "updated" => e[2] # 1)
  BY <1>3
<1>5. args.flow # None => args.flow.active = None \/ args.flow.active \in BOOLEAN
  BY DEF TypeOK, SearchFlowsArgs, FlowFilter
<1>6. args.flow # None /\ args.flow.active # None =>
        (((e \in db.active) = args.flow.active) <=> (e \in db.active <=> args.flow.active))
  BY <1>5
<1> QED BY <1>4, <1>6 DEF FlowRows, PassesFlow

LEMMA SortAnswer ==
  ASSUME TypeOK, NEW e
  PROVE  e \in SortRows(db, args.sort) <=>
           (args.sort = None => e \in db.rows) /\ HasPlace(e)
<1>1. CASE args.sort = None
  BY <1>1, CategoryAssumption DEF SortRows, HasPlace
<1>3. CASE args.sort = "externalReference"
  BY <1>3, CategoryAssumption DEF SortRows, HasPlace
<1>2. CASE args.sort \notin {None, "externalReference"}
  <2>1. db.objects \subseteq Entity \X Object
    BY DEF TypeOK, Database
  <2>2. e \in SortRows(db, args.sort) <=>
          \E r \in db.objects : GroupOf(r[2]) = args.sort /\ r[1] = e
    BY <1>2 DEF SortRows
  <2>3. ASSUME NEW r \in db.objects, r[1] = e
        PROVE  r[2] \in Object /\ <<e, r[2]>> \in db.objects
    BY <2>1, <2>3
  <2>4. ASSUME NEW o \in Object, GroupOf(o) = args.sort, <<e, o>> \in db.objects
        PROVE  \E r \in db.objects : GroupOf(r[2]) = args.sort /\ r[1] = e
    <3> DEFINE r == <<e, o>>
    <3>1. r \in db.objects /\ r[2] = o /\ r[1] = e
      BY <2>4
    <3> HIDE DEF r
    <3> QED BY <2>4, <3>1
  <2>5. HasPlace(e) <=> \E o \in Object : GroupOf(o) = args.sort /\ <<e, o>> \in db.objects
    BY <1>2 DEF HasPlace
  <2> QED BY <1>2, <2>2, <2>3, <2>4, <2>5
<1> QED BY <1>1, <1>2, <1>3

\* The two filters of a flow version nobody wrote stay as they were.
LEMMA SteadyFilters ==
  ASSUME Settled, NEW e \in Entity \ edited'
  PROVE  /\ e \notin edited /\ Alike(db, db', e)
         /\ PassesFlow(e)' <=> PassesFlow(e)
         /\ HasPlace(e)' <=> HasPlace(e)
         /\ PassesNested(e)' <=> PassesNested(e)
         /\ PassesObjects(e)' <=> PassesObjects(e)
         /\ PassesCategories(e)' <=> PassesCategories(e)
<1>1. /\ args' = args /\ asked' = asked /\ shortcuts' = shortcuts
      /\ e \notin edited /\ Alike(db, db', e) /\ db'.nested = db.nested
      /\ db'.externals = db.externals
  BY DEF Settled, Untouched
<1>2. PassesFlow(e)' <=> PassesFlow(e)
  BY <1>1 DEF Alike, PassesFlow
<1>3. HasPlace(e)' <=> HasPlace(e)
  BY <1>1 DEF Alike, HasPlace
<1>4. PassesNested(e)' <=> PassesNested(e)
  BY <1>1 DEF Alike, PassesNested
<1>5. PassesObjects(e)' <=> PassesObjects(e)
  BY <1>1 DEF Alike, PassesObjects, NeedsYears
<1>6. PassesCategories(e)' <=> PassesCategories(e)
  BY <1>1 DEF Alike, PassesCategories, WantedCategories, Forbidden
<1> QED BY <1>1, <1>2, <1>3, <1>4, <1>5, <1>6

\* Before the strategy is chosen no branch is in use.
LEMMA NotBegun ==
  ASSUME IInv, FindUsageYears \/ Search
  PROVE  /\ \A b \in Branch : step[b] = "unused" /\ step'[b] = "unused"
         /\ phase' = "shortcuts"
BY DEF FindUsageYears, Search, IInv, Started, Branch

LEMMA JustBegun ==
  ASSUME TInv, IInv, MapShortcuts
  PROVE  /\ \A b \in Branch : found'[b] = {}
         /\ phase' \in {"onlyFlow", "gather"}
         /\ step'["flow"] \in {"unused", "query"} /\ step'["sort"] \in {"unused", "query"}
<1>1. \A b \in Branch : step[b] = "unused" /\ found[b] = {}
  BY DEF MapShortcuts, IInv, Started, UnusedIsEmpty
<1>2. PICK used \in SUBSET (Category \X BOOLEAN) :
        /\ \/ step' = step
           \/ step' = FirstSteps(args', used)
        /\ phase' \in {"onlyFlow", "gather"} /\ found' = found
  BY Shortcuts DEF TInv
<1>3. step'["flow"] \in {"unused", "query"} /\ step'["sort"] \in {"unused", "query"}
  BY <1>1, <1>2 DEF FirstSteps, Branch
<1> QED BY <1>1, <1>2, <1>3

LEMMA NextFlow ==
  ASSUME TInv, IInv, FlowInv, [Next]_vars
  PROVE  FlowInv'
<1>1. CASE FindUsageYears \/ Search
  BY <1>1, NotBegun DEF FlowInv, Branch
<1>2. CASE MapShortcuts
  BY <1>2, JustBegun DEF FlowInv
<1>3. CASE FindFlows
  <2>1. /\ found'["flow"] = FlowRows(db, args.flow, args.status)
        /\ db' = db /\ edited' = edited /\ args' = args
    BY <1>3, AnswerStill DEF FindFlows, TInv, Branch, tables
  <2>2. \A e : PassesFlow(e)' <=> PassesFlow(e)
    BY <2>1 DEF PassesFlow
  <2> QED BY <2>1, <2>2, FlowAnswer DEF FlowInv, TInv
<1>4. CASE Steady /\ Still("flow")
  <2>1. Settled
    BY <1>4 DEF Steady
  <2>2. \A e \in Entity \ edited' :
          /\ e \notin edited /\ Alike(db, db', e)
          /\ PassesFlow(e)' <=> PassesFlow(e)
    BY <2>1, SteadyFilters
  <2> QED BY <1>4, <2>2 DEF FlowInv, Still, Alike
<1> QED BY <1>1, <1>2, <1>3, <1>4, NextSteady DEF Steady

LEMMA NextSort ==
  ASSUME TInv, IInv, SortInv, [Next]_vars
  PROVE  SortInv'
<1>1. CASE FindUsageYears \/ Search
  BY <1>1, NotBegun DEF SortInv, Branch
<1>2. CASE MapShortcuts
  BY <1>2, JustBegun DEF SortInv
<1>3. CASE FindSortOrder /\ ~Still("sort")
  <2>1. /\ found'["sort"] = SortRows(db, args.sort)
        /\ db' = db /\ edited' = edited /\ args' = args
    BY <1>3, AnswerStill DEF FindSortOrder, TInv, Branch, tables, Still
  <2>2. \A e : HasPlace(e)' <=> HasPlace(e)
    BY <2>1 DEF HasPlace
  <2> QED BY <2>1, <2>2, SortAnswer DEF SortInv, TInv
<1>4. CASE Steady /\ Still("sort")
  <2>1. Settled /\ args' = args
    BY <1>4 DEF Steady, Settled
  <2>2. \A e \in Entity \ edited' :
          /\ e \notin edited /\ Alike(db, db', e)
          /\ HasPlace(e)' <=> HasPlace(e)
    BY <2>1, SteadyFilters
  <2> QED BY <1>4, <2>1, <2>2 DEF SortInv, Still, Alike
<1> QED BY <1>1, <1>2, <1>3, <1>4, NextSteady DEF Steady

LEMMA NextOnlyFlow ==
  ASSUME TInv, IInv, SInv, OnlyFlowInv, [Next]_vars
  PROVE  OnlyFlowInv'
<1>1. CASE FindUsageYears \/ Search
  BY <1>1, NotBegun DEF OnlyFlowInv
<1>2. CASE MapShortcuts
  BY <1>2, JustBegun DEF OnlyFlowInv
<1>3. CASE SearchOnlyFlows
  <2>1. /\ refs' = FlowRows(db, args.flow, args.status)
        /\ db' = db /\ edited' = edited /\ args' = args
    BY <1>3 DEF SearchOnlyFlows, tables
  <2>2. \A e : PassesFlow(e)' <=> PassesFlow(e)
    BY <2>1 DEF PassesFlow
  <2> QED BY <2>1, <2>2, FlowAnswer DEF OnlyFlowInv, TInv
<1>4. CASE Combine \/ FindChildren
  <2>1. step["sort"] # "unused" /\ step' = step
    BY <1>4 DEF Combine, FindChildren, SInv, Paths
  <2> QED BY <2>1 DEF OnlyFlowInv
<1>5. CASE ~(FindUsageYears \/ Search \/ MapShortcuts \/ SearchOnlyFlows
               \/ Combine \/ FindChildren)
  <2>1. Steady
    BY <1>5, NextSteady
  <2>2. Settled /\ (step'["sort"] = "unused" <=> step["sort"] = "unused")
    BY <2>1 DEF Steady, Branch
  <2>3. phase' = "done" => phase = "done" /\ refs' = refs
    <3>1. CASE UNCHANGED vars
      BY <3>1 DEF vars
    <3>2. CASE Gather
      BY <3>2 DEF Gather, FindCategories, FindCategoryRefs, FindObjects, FindNested,
                  LookupNested, FindFlows, FindSortOrder, Ready
    <3>3. CASE FindParents \/ FindLinks
      BY <3>3 DEF FindParents, FindLinks
    <3>4. CASE Edit
      BY <3>4, EditEffect DEF TInv
    <3> QED BY <1>5, <3>1, <3>2, <3>3, <3>4 DEF Next
  <2>4. \A e \in Entity \ edited' :
          /\ e \notin edited /\ Alike(db, db', e)
          /\ PassesFlow(e)' <=> PassesFlow(e)
    BY <2>2, SteadyFilters
  <2> QED BY <2>2, <2>3, <2>4 DEF OnlyFlowInv, Alike
<1> QED BY <1>1, <1>2, <1>3, <1>4, <1>5

-----------------------------------------------------------------------------
(* Branches that ask again and again.  If a flow version that passes is    *)
(* there, every answer holds it and the intersection never starts again.   *)

Groups == {GroupOf(o) : o \in ToSet(args.object)}
InGroup(e, g) == \E p \in ToSet(args.object) : GroupOf(p) = g /\ <<e, p>> \in db.objects
InAllGroups(e) == \A g \in Groups : InGroup(e, g)

ObjectInv ==
  step["object"] # "unused" =>
    /\ step["object"] = "end" => ToSet(groups) = {}
    /\ ToSet(groups) \subseteq Groups
    /\ \A x \in Entity \ edited : InAllGroups(x) =>
         \/ x \in found["object"]
         \/ /\ step["object"] = "query" /\ found["object"] = {}
            /\ Groups \subseteq ToSet(groups)
    /\ ~args.children /\ (\E x \in Entity \ edited : InAllGroups(x)) =>
         \A f \in found["object"] \ edited : \A g \in Groups :
           g \in ToSet(groups) \/ InGroup(f, g)

LEMMA SteadyObjects ==
  ASSUME Settled
  PROVE  /\ Groups' = Groups /\ args' = args
         /\ \A e : e \notin edited' =>
              /\ e \notin edited
              /\ \A g : InGroup(e, g)' <=> InGroup(e, g)
              /\ InAllGroups(e)' <=> InAllGroups(e)
<1>1. Groups' = Groups /\ args' = args
  BY DEF Settled, Groups
<1>2. ASSUME NEW e, e \notin edited'
      PROVE  e \notin edited /\ Alike(db, db', e)
  BY <1>2 DEF Settled, Untouched
<1>3. ASSUME NEW e, e \notin edited', NEW g
      PROVE  InGroup(e, g)' <=> InGroup(e, g)
  BY <1>1, <1>2, <1>3 DEF InGroup, Alike
<1> QED BY <1>1, <1>2, <1>3 DEF InAllGroups

\* One query: the flow versions with an object of the group.
LEMMA ObjectAnswer ==
  ASSUME NEW e, NEW g, db.objects \subseteq Entity \X Object
  PROVE  e \in ObjectRows(db, OfGroup(args.object, g)) <=> InGroup(e, g)
<1>1. e \in ObjectRows(db, OfGroup(args.object, g)) <=>
        \E r \in db.objects : r[2] \in ToSet(args.object) /\ GroupOf(r[2]) = g /\ r[1] = e
  BY DEF ObjectRows, OfGroup
<1>2. ASSUME NEW r \in db.objects, r[1] = e PROVE r = <<e, r[2]>>
  BY <1>2
<1>3. ASSUME NEW p \in ToSet(args.object), GroupOf(p) = g, <<e, p>> \in db.objects
      PROVE  \E r \in db.objects : r[2] \in ToSet(args.object) /\ GroupOf(r[2]) = g /\ r[1] = e
  <2> DEFINE r == <<e, p>>
  <2>1. r \in db.objects /\ r[2] = p /\ r[1] = e
    BY <1>3
  <2> HIDE DEF r
  <2> QED BY <1>3, <2>1
<1> QED BY <1>1, <1>2, <1>3 DEF InGroup

LEMMA FindObjectsInv ==
  ASSUME TInv, SInv, ObjectInv, FindObjects
  PROVE  ObjectInv'
<1> DEFINE g == Head(groups)
           rows == ObjectRows(db, OfGroup(args.object, g))
<1>1. /\ step["object"] = "query" /\ groups # <<>> /\ groups \in Seq(ObjectGroup)
      /\ groups' = Tail(groups) /\ found'["object"] = Intersect2(found["object"], rows)
      /\ step'["object"] = IF Len(groups) = 1 THEN "end" ELSE "query"
      /\ db' = db /\ edited' = edited /\ args' = args
  BY AnswerStill DEF FindObjects, Ready, TInv, Branch, tables
<1>2. /\ g \in ToSet(groups) /\ ToSet(groups') \subseteq ToSet(groups)
      /\ ToSet(groups) \subseteq {g} \cup ToSet(groups')
      /\ Len(groups) = 1 => ToSet(groups') = {}
  BY <1>1, HeadTail
<1>3. db.objects \subseteq Entity \X Object
  BY DEF TInv, TypeOK, Database
<1>4. \A e : e \in rows <=> InGroup(e, g)
  BY <1>3, ObjectAnswer
<1>5. /\ Groups' = Groups /\ \A e, h : InGroup(e, h)' <=> InGroup(e, h)
      /\ \A e : InAllGroups(e)' <=> InAllGroups(e)
  BY <1>1 DEF Groups, InGroup, InAllGroups
<1>6. g \in Groups /\ ToSet(groups') \subseteq Groups
  BY <1>1, <1>2 DEF ObjectInv
<1> HIDE DEF g, rows
<1>7. ASSUME NEW x \in Entity \ edited, InAllGroups(x)
      PROVE  x \in rows /\ x \in found'["object"]
  <2>1. x \in rows
    BY <1>4, <1>6, <1>7 DEF InAllGroups
  <2>2. x \in found["object"] \/ found["object"] = {}
    BY <1>1, <1>7 DEF ObjectInv
  <2> QED BY <1>1, <2>1, <2>2 DEF Intersect2
<1>8. ASSUME NEW x \in Entity \ edited, InAllGroups(x), ~args.children,
             NEW f \in found'["object"] \ edited, NEW h \in Groups, h \notin ToSet(groups')
      PROVE  InGroup(f, h)
  <2>1. x \in rows
    BY <1>7, <1>8
  <2>2. f \in rows /\ (found["object"] = {} \/ f \in found["object"])
    BY <1>1, <1>8, <2>1 DEF Intersect2
  <2>3. CASE h = g
    BY <1>4, <2>2, <2>3
  <2>4. CASE h # g
    <3>1. h \notin ToSet(groups)
      BY <1>2, <1>8, <2>4
    <3>2. found["object"] # {}
      BY <1>1, <1>8, <3>1 DEF ObjectInv
    <3> QED BY <1>1, <1>8, <2>2, <3>1, <3>2 DEF ObjectInv
  <2> QED BY <2>3, <2>4
<1>9. step'["object"] \in {"query", "end"} /\ (step'["object"] = "end" => ToSet(groups') = {})
  BY <1>1, <1>2
<1> QED BY <1>1, <1>5, <1>6, <1>7, <1>8, <1>9 DEF ObjectInv

LEMMA NextObjects ==
  ASSUME TInv, IInv, SInv, ObjectInv, [Next]_vars
  PROVE  ObjectInv'
<1>1. CASE FindUsageYears \/ Search
  BY <1>1, NotBegun DEF ObjectInv, Branch
<1>2. CASE MapShortcuts
  <2>1. PICK used \in SUBSET (Category \X BOOLEAN) :
          \/ step' = step
          \/ /\ step' = FirstSteps(args', used)
             /\ groups' \in IF args'.object = None THEN {<<>>} ELSE Grouped(args'.object)
    BY <1>2, Shortcuts DEF TInv
  <2>2. CASE step' = step
    BY <1>2, <2>2 DEF MapShortcuts, IInv, Started, Branch, ObjectInv
  <2>3. CASE /\ step' = FirstSteps(args', used)
             /\ groups' \in IF args'.object = None THEN {<<>>} ELSE Grouped(args'.object)
    <3> SUFFICES ASSUME step'["object"] # "unused" PROVE ObjectInv'
      BY DEF ObjectInv
    <3>1. step'["object"] = "query" /\ args'.object \notin {None, <<>>}
      BY <2>3 DEF FirstSteps
    <3>2. args' \in SearchFlowsArgs
      BY <1>2, ShortcutsTInv DEF TInv, TypeOK
    <3>3. args'.object \in Seq(Object)
      BY <3>1, <3>2 DEF SearchFlowsArgs
    <3>4. ToSet(groups') = Groups'
      BY <2>3, <3>1, <3>3, GroupedAll DEF Groups
    <3>5. found'["object"] = {}
      BY <1>2, JustBegun DEF Branch
    <3> QED BY <3>1, <3>4, <3>5 DEF ObjectInv
  <2> QED BY <2>1, <2>2, <2>3
<1>3. CASE FindObjects
  BY <1>3, FindObjectsInv
<1>4. CASE FindChildren
  <2>1. /\ step["object"] # "unused" /\ step' = step /\ groups' = groups
        /\ found["object"] \subseteq found'["object"]
        /\ db' = db /\ edited' = edited /\ args' = args
    BY <1>4 DEF FindChildren, IInv, ParentsOfObjects, tables, requestVars, TInv, TypeOK, Branch
  <2>2. step["object"] = "end" /\ args.children
    BY <1>4, <2>1 DEF FindChildren, SInv, Paths, Branch
  <2>3. /\ Groups' = Groups /\ \A e : InAllGroups(e)' <=> InAllGroups(e)
    BY <2>1 DEF Groups, InGroup, InAllGroups
  <2> QED BY <2>1, <2>2, <2>3 DEF ObjectInv
<1>5. CASE Steady /\ ~FindObjects /\ ~FindChildren
  <2>1. /\ Settled /\ step'["object"] = step["object"]
        /\ found'["object"] = found["object"] /\ groups' = groups
    BY <1>5 DEF Steady, Still
  <2>2. /\ Groups' = Groups /\ args' = args
        /\ \A e : e \notin edited' =>
             /\ e \notin edited
             /\ \A g : InGroup(e, g)' <=> InGroup(e, g)
             /\ InAllGroups(e)' <=> InAllGroups(e)
    BY <2>1, SteadyObjects
  <2> QED BY <2>1, <2>2 DEF ObjectInv
<1> QED BY <1>1, <1>2, <1>3, <1>4, <1>5, NextSteady

Keys == ToSet(args.nested)
InKey(e, k) == IF k = "legacyID" THEN e[2] = 1 /\ e[1] \in {x[1] : x \in db.nested[k]}
                                 ELSE e \in db.nested[k]
InAllKeys(e) == e \in db.rows /\ \A k \in Keys : InKey(e, k)

NestedInv ==
  step["nested"] # "unused" /\ args.nested # <<>> =>
    /\ step["nested"] # "query" => ToSet(keys) = {}
    /\ ToSet(keys) \subseteq Keys
    /\ \A x \in Entity \ edited : InAllKeys(x) =>
         \/ x \in found["nested"]
         \/ /\ step["nested"] = "query" /\ found["nested"] = {}
            /\ Keys \subseteq ToSet(keys)
    /\ step["nested"] = "end" => found["nested"] \ edited \subseteq db.rows
    /\ (\E x \in Entity \ edited : InAllKeys(x)) =>
         \A f \in found["nested"] \ edited : \A k \in Keys :
           k \in ToSet(keys) \/ InKey(f, k)

LEMMA SteadyKeys ==
  ASSUME Settled
  PROVE  /\ Keys' = Keys /\ args' = args
         /\ \A e : e \notin edited' =>
              /\ e \notin edited
              /\ e \in db'.rows <=> e \in db.rows
              /\ \A k : InKey(e, k)' <=> InKey(e, k)
              /\ InAllKeys(e)' <=> InAllKeys(e)
<1>1. Keys' = Keys /\ args' = args /\ db'.nested = db.nested
  BY DEF Settled, Keys, Untouched
<1>2. ASSUME NEW e, e \notin edited'
      PROVE  e \notin edited /\ (e \in db'.rows <=> e \in db.rows)
  BY <1>2 DEF Settled, Untouched, Alike
<1>3. \A e, k : InKey(e, k)' <=> InKey(e, k)
  BY <1>1 DEF InKey
<1> QED BY <1>1, <1>2, <1>3 DEF InAllKeys

LEMMA NestedAnswer ==
  ASSUME NEW e \in Entity, NEW k
  PROVE  e \in NestedRows(k) <=> InKey(e, k)
<1>1. e = <<e[1], e[2]>>
  BY DEF Entity
<1>2. CASE k = "legacyID"
  <2>1. e \in NestedRows(k) <=> \E x \in db.nested[k] : e = <<x[1], 1>>
    BY <1>2 DEF NestedRows
  <2>2. \A x : e = <<x[1], 1>> <=> e[1] = x[1] /\ e[2] = 1
    BY <1>1
  <2> QED BY <1>2, <2>1, <2>2 DEF InKey
<1>3. CASE k # "legacyID"
  BY <1>3 DEF NestedRows, InKey
<1> QED BY <1>2, <1>3

LEMMA OneAtMost ==
  ASSUME NEW n \in Nat, n >= 1, ~(n > 1)
  PROVE  n = 1
OBVIOUS

LEMMA FindNestedInv ==
  ASSUME TInv, NestedInv, FindNested
  PROVE  NestedInv'
<1> DEFINE k == Head(keys)
           asks == NestedRows(k)
           rows == Intersect2(found["nested"], asks)
           next == IF Len(keys) > 1 THEN "query"
                   ELSE IF rows = {} THEN "end" ELSE "lookup"
<1>1. Answer("nested", next, rows)
  BY DEF FindNested
<1>2. /\ step["nested"] = "query" /\ keys # <<>> /\ keys \in Seq(NestedKey)
      /\ keys' = Tail(keys) /\ db' = db /\ edited' = edited /\ args' = args
  BY DEF FindNested, Ready, TInv, tables
<1>3. step'["nested"] = next /\ found'["nested"] = rows
  <2> HIDE DEF next, rows
  <2> QED BY <1>1, AnswerStill DEF TInv, Branch
<1>4. /\ k \in ToSet(keys) /\ ToSet(keys') \subseteq ToSet(keys)
      /\ ToSet(keys) \subseteq {k} \cup ToSet(keys')
      /\ Len(keys) = 1 => ToSet(keys') = {}
      /\ k \in NestedKey
  BY <1>2, HeadTail
<1>5. Len(keys) \in Nat /\ Len(keys) >= 1
  BY <1>2
<1>6. /\ next # "query" => Len(keys) = 1
      /\ next \in {"query", "end", "lookup"}
      /\ next = "end" => rows = {}
      /\ next = "lookup" => rows # {}
  <2>1. CASE Len(keys) > 1
    BY <2>1, Zenon
  <2>2. CASE ~(Len(keys) > 1)
    <3>1. Len(keys) = 1
      BY <1>5, <2>2, OneAtMost
    <3> HIDE DEF rows
    <3>2. CASE rows = {}
      BY <2>2, <3>1, <3>2, Zenon
    <3>3. CASE rows # {}
      BY <2>2, <3>1, <3>3, Zenon
    <3> QED BY <3>2, <3>3
  <2> QED BY <2>1, <2>2
<1>7. asks \subseteq Entity /\ found["nested"] \subseteq Entity
  BY <1>4, AnswerTypes DEF TInv, TypeOK, Branch
<1>8. \A e \in Entity : e \in asks <=> InKey(e, k)
  BY NestedAnswer
<1>9. /\ Keys' = Keys /\ \A e, h : InKey(e, h)' <=> InKey(e, h)
      /\ \A e : InAllKeys(e)' <=> InAllKeys(e)
  BY <1>2 DEF Keys, InKey, InAllKeys
<1> SUFFICES ASSUME args.nested # <<>> PROVE NestedInv'
  BY <1>2 DEF NestedInv
<1>10. k \in Keys /\ ToSet(keys') \subseteq Keys
  BY <1>2, <1>4 DEF NestedInv
<1> DEFINE old == found["nested"]
<1>11. rows = Intersect2(old, asks)
  OBVIOUS
<1> HIDE DEF k, asks, rows, next
<1>12. ASSUME NEW x \in Entity \ edited, InAllKeys(x)
       PROVE  x \in asks /\ x \in rows
  <2>1. x \in asks
    BY <1>8, <1>10, <1>12 DEF InAllKeys
  <2>2. x \in old \/ old = {}
    BY <1>2, <1>12 DEF NestedInv
  <2> QED BY <1>11, <2>1, <2>2 DEF Intersect2
<1>13. ASSUME NEW x \in Entity \ edited, InAllKeys(x),
              NEW f \in rows \ edited, NEW h \in Keys, h \notin ToSet(keys')
       PROVE  InKey(f, h)
  <2>1. x \in asks
    BY <1>12, <1>13
  <2>2. f \in asks /\ (old = {} \/ f \in old)
    BY <1>11, <1>13, <2>1 DEF Intersect2
  <2>3. CASE h = k
    BY <1>7, <1>8, <2>2, <2>3
  <2>4. CASE h # k
    <3>1. h \notin ToSet(keys)
      BY <1>4, <1>13, <2>4
    <3>2. old # {}
      BY <1>2, <1>13, <3>1 DEF NestedInv
    <3> QED BY <1>2, <1>13, <2>2, <3>1, <3>2 DEF NestedInv
  <2> QED BY <2>3, <2>4
<1>14. step'["nested"] # "query" => ToSet(keys') = {}
  BY <1>3, <1>4, <1>6
<1>15. step'["nested"] = "end" => found'["nested"] = {}
  BY <1>3, <1>6
<1> QED BY <1>2, <1>3, <1>9, <1>10, <1>12, <1>13, <1>14, <1>15 DEF NestedInv

LEMMA NextNested ==
  ASSUME TInv, IInv, NestedInv, [Next]_vars
  PROVE  NestedInv'
<1>1. CASE FindUsageYears \/ Search
  BY <1>1, NotBegun DEF NestedInv, Branch
<1>2. CASE MapShortcuts
  <2>1. PICK used \in SUBSET (Category \X BOOLEAN) :
          \/ step' = step
          \/ /\ step' = FirstSteps(args', used)
             /\ keys' = IF args'.nested = None THEN <<>> ELSE args'.nested
    BY <1>2, Shortcuts DEF TInv
  <2>2. CASE step' = step
    BY <1>2, <2>2 DEF MapShortcuts, IInv, Started, Branch, NestedInv
  <2>3. CASE /\ step' = FirstSteps(args', used)
             /\ keys' = IF args'.nested = None THEN <<>> ELSE args'.nested
    <3> SUFFICES ASSUME step'["nested"] # "unused", args'.nested # <<>> PROVE NestedInv'
      BY DEF NestedInv
    <3>1. step'["nested"] = "query" /\ args'.nested # None
      BY <2>3 DEF FirstSteps
    <3>2. ToSet(keys') = Keys'
      BY <2>3, <3>1 DEF Keys
    <3>3. found'["nested"] = {}
      BY <1>2, JustBegun DEF Branch
    <3> QED BY <3>1, <3>2, <3>3 DEF NestedInv
  <2> QED BY <2>1, <2>2, <2>3
<1>3. CASE FindNested
  BY <1>3, FindNestedInv
<1>4. CASE LookupNested
  <2>1. /\ step["nested"] = "lookup" /\ step'["nested"] = "end" /\ keys' = keys
        /\ found'["nested"] = found["nested"] \cap db.rows
        /\ db' = db /\ edited' = edited /\ args' = args
    BY <1>4, AnswerStill DEF LookupNested, Ready, TInv, Branch, tables, requestVars
  <2>2. /\ Keys' = Keys /\ \A e, h : InKey(e, h)' <=> InKey(e, h)
        /\ \A e : InAllKeys(e)' <=> InAllKeys(e)
    BY <2>1 DEF Keys, InKey, InAllKeys
  <2>3. \A e : InAllKeys(e) => e \in db.rows
    BY DEF InAllKeys
  <2> QED BY <2>1, <2>2, <2>3 DEF NestedInv
<1>5. CASE Steady /\ ~FindNested /\ ~LookupNested
  <2>1. /\ Settled /\ step'["nested"] = step["nested"]
        /\ found'["nested"] = found["nested"] /\ keys' = keys
    BY <1>5 DEF Steady, Still
  <2>2. /\ Keys' = Keys /\ args' = args
        /\ \A e : e \notin edited' =>
             /\ e \notin edited
             /\ e \in db'.rows <=> e \in db.rows
             /\ \A k : InKey(e, k)' <=> InKey(e, k)
             /\ InAllKeys(e)' <=> InAllKeys(e)
    BY <2>1, SteadyKeys
  <2> QED BY <2>1, <2>2 DEF NestedInv
<1> QED BY <1>1, <1>2, <1>3, <1>4, <1>5, NextSteady

-----------------------------------------------------------------------------
(* The answer.                                                             *)

LEMMA YearGroup ==
  ASSUME NEW d, NEW y
  PROVE  Year(d, y).type = "usageYear" /\ GroupOf(Year(d, y)) = <<"usageYear", d>>
BY DEF Year, GroupOf

\* What the caller asks of a flow version's objects is what the branch asks,
\* with the years a batch adds.
LEMMA ObjectsAsked ==
  ASSUME SInv, phase # "idle", NEW e
  PROVE  PassesObjects(e) <=> (args.object # None => InAllGroups(e))
<1> DEFINE A == ToSet(asked.object)
           H(o) == <<e, o>> \in db.objects
<1>1. InAllGroups(e) <=>
        \A o \in ToSet(args.object) :
          \E p \in ToSet(args.object) : GroupOf(p) = GroupOf(o) /\ H(p)
  BY DEF InAllGroups, InGroup, Groups
<1>2. CASE ~NeedsYears(asked)
  <2>1. args.object = asked.object
    BY <1>2 DEF SInv, Asked
  <2> QED BY <1>1, <1>2, <2>1 DEF PassesObjects
<1>3. CASE NeedsYears(asked)
  <2>1. /\ args.object # None /\ ToSet(args.object) = A \cup Years
        /\ asked.object # None /\ \A o \in A : o.type # "usageYear"
    BY <1>3 DEF SInv, Asked, NeedsYears
  <2>2. PassesObjects(e) <=>
          /\ \A o \in A : \E p \in A : GroupOf(p) = GroupOf(o) /\ H(p)
          /\ RecentYear # {} => \A d \in Direction : \E y \in RecentYear : H(Year(d, y))
    BY <1>3, <2>1 DEF PassesObjects, Year
  <2>3. \A d \in Direction, y \in RecentYear : Year(d, y) \in Years
    <3> SUFFICES ASSUME NEW d \in Direction, NEW y \in RecentYear PROVE Year(d, y) \in Years
      OBVIOUS
    <3> DEFINE q == <<d, y>>
    <3>1. q \in Direction \X RecentYear /\ q[1] = d /\ q[2] = y
      OBVIOUS
    <3> HIDE DEF q
    <3> QED BY <3>1 DEF Years
  <2>4. \A o \in Years : \E d \in Direction, y \in RecentYear : o = Year(d, y)
    BY DEF Years
  <2>5. \A o \in A, p \in Years : GroupOf(o) # GroupOf(p)
    <3> SUFFICES ASSUME NEW o \in A, NEW p \in Years, GroupOf(o) = GroupOf(p) PROVE FALSE
      OBVIOUS
    <3>1. p.type = "usageYear"
      BY <2>4, YearGroup
    <3>2. o.type = p.type
      BY DEF GroupOf
    <3> QED BY <2>1, <3>1, <3>2
  <2>6. ASSUME PassesObjects(e) PROVE InAllGroups(e)
    <3> SUFFICES ASSUME NEW o \in A \cup Years
                 PROVE  \E p \in A \cup Years : GroupOf(p) = GroupOf(o) /\ H(p)
      BY <1>1, <2>1
    <3>1. CASE o \in A
      BY <2>2, <2>6, <3>1
    <3>2. CASE o \in Years
      <4>1. PICK d \in Direction : \E y \in RecentYear : o = Year(d, y)
        BY <2>4, <3>2
      <4>2. PICK y \in RecentYear : H(Year(d, y))
        BY <2>2, <2>6, <4>1
      <4>3. GroupOf(Year(d, y)) = GroupOf(o)
        BY <4>1, YearGroup
      <4> QED BY <2>3, <4>2, <4>3
    <3> QED BY <3>1, <3>2
  <2>7. ASSUME InAllGroups(e) PROVE PassesObjects(e)
    <3>1. \A o \in A \cup Years : \E p \in A \cup Years : GroupOf(p) = GroupOf(o) /\ H(p)
      BY <1>1, <2>1, <2>7
    <3>2. \A o \in A : \E p \in A : GroupOf(p) = GroupOf(o) /\ H(p)
      BY <2>5, <3>1
    <3>3. ASSUME NEW d \in Direction, NEW y \in RecentYear
          PROVE  \E z \in RecentYear : H(Year(d, z))
      <4>1. PICK p \in A \cup Years : GroupOf(p) = GroupOf(Year(d, y)) /\ H(p)
        BY <2>3, <3>1
      <4>2. p \in Years
        BY <2>3, <2>5, <4>1
      <4>3. PICK c \in Direction : \E z \in RecentYear : p = Year(c, z)
        BY <2>4, <4>2
      <4>4. PICK z \in RecentYear : p = Year(c, z)
        BY <4>3
      <4>5. GroupOf(p) = <<"usageYear", c>> /\ GroupOf(Year(d, y)) = <<"usageYear", d>>
        BY <4>4, YearGroup
      <4>6. <<"usageYear", c>> = <<"usageYear", d>>
        BY <4>1, <4>5, Zenon
      <4>7. c = d
        BY ONLY <4>6
      <4> QED BY <4>1, <4>4, <4>7
    <3> QED BY <2>2, <3>2, <3>3
  <2> QED BY <2>1, <2>6, <2>7
<1> QED BY <1>2, <1>3

LEMMA NestedAsked ==
  ASSUME NEW e
  PROVE  PassesNested(e) <=> (args.nested # None => InAllKeys(e))
BY DEF PassesNested, InAllKeys, InKey, Keys

SearchInv ==
  /\ TInv /\ IInv /\ SInv
  /\ CategoryInv /\ FlowInv /\ SortInv /\ OnlyFlowInv /\ ObjectInv /\ NestedInv

LEMMA InitSearchInv == Init => SearchInv
<1> SUFFICES ASSUME Init PROVE SearchInv
  OBVIOUS
<1>1. \A b \in Branch : step[b] = "unused"
  BY DEF Init
<1>2. CategoryInv /\ FlowInv /\ SortInv /\ OnlyFlowInv /\ ObjectInv /\ NestedInv
  BY <1>1 DEF Branch, Init, CategoryInv, FlowInv, SortInv, OnlyFlowInv, ObjectInv, NestedInv
<1> QED BY <1>2, InitTInv, InitIInv, InitSInv DEF SearchInv

LEMMA NextSearchInv == SearchInv /\ [Next]_vars => SearchInv'
BY NextTInv, NextIInv, NextSInv, NextCategory, NextFlow, NextSort, NextOnlyFlow,
   NextObjects, NextNested DEF SearchInv

\* A flow version that passes every filter is in the answer of every branch.
LEMMA InEveryAnswer ==
  ASSUME SearchInv, phase = "done", step["sort"] # "unused",
         PlainCategories, args.nested # <<>>,
         NEW e \in Unedited,
         PassesFlow(e), PassesCategories(e), PassesNested(e), HasPlace(e)
  PROVE  /\ e \in found["sort"]
         /\ \A b \in Used \ {"object"} : e \in found[b]
         /\ PassesObjects(e) => \A b \in Used : e \in found[b]
<1>1. e \in Entity \ edited /\ e \in db.rows \ db.deleted
  BY DEF Unedited, SearchInv, TInv, TypeOK, Database
<1>2. \A b \in Branch : step[b] # "unused" => step[b] = "end"
  BY DEF SearchInv, SInv, Paths
<1>3. e \in found["sort"]
  BY <1>1, <1>2 DEF SearchInv, SortInv, Branch
<1>4. step["category"] # "unused" => e \in found["category"]
  BY <1>1, <1>2 DEF SearchInv, CategoryInv, Branch
<1>5. step["flow"] # "unused" => e \in found["flow"]
  BY <1>1, <1>2 DEF SearchInv, FlowInv, Branch
<1>6. step["nested"] # "unused" => e \in found["nested"]
  <2> SUFFICES ASSUME step["nested"] # "unused" PROVE e \in found["nested"]
    OBVIOUS
  <2>1. args.nested # None /\ step["nested"] = "end"
    BY <1>2 DEF SearchInv, SInv, Begun, Branch
  <2>2. InAllKeys(e)
    BY <2>1, NestedAsked
  <2> QED BY <1>1, <2>1, <2>2 DEF SearchInv, NestedInv
<1>7. PassesObjects(e) /\ step["object"] # "unused" => e \in found["object"]
  <2> SUFFICES ASSUME PassesObjects(e), step["object"] # "unused" PROVE e \in found["object"]
    OBVIOUS
  <2>1. args.object # None /\ step["object"] = "end"
    BY <1>2 DEF SearchInv, SInv, Begun, Branch
  <2>2. InAllGroups(e)
    BY <2>1, ObjectsAsked DEF SearchInv
  <2> QED BY <1>1, <2>1, <2>2 DEF SearchInv, ObjectInv
<1> QED BY <1>3, <1>4, <1>5, <1>6, <1>7 DEF Used, Branch

LEMMA AllMatches == SearchInv => AllMatchesFound
<1> SUFFICES ASSUME SearchInv, phase = "done", Filtered, PlainCategories,
                    NEW e \in Unedited, Matches(e)
             PROVE  e \in refs
  BY DEF AllMatchesFound
<1>1. e \in Entity \ edited /\ e \in db.rows \ db.deleted
  BY DEF Unedited, SearchInv, TInv, TypeOK, Database
<1>2. CASE step["sort"] = "unused"
  BY <1>1, <1>2 DEF SearchInv, OnlyFlowInv, Matches
<1>3. CASE step["sort"] # "unused"
  <2>1. e \in Passing
    BY <1>3, InEveryAnswer DEF Filtered, Matches, Passing
  <2>2. Used # {}
    BY <1>3 DEF Filtered
  <2> QED BY <2>1, <2>2 DEF SearchInv, IInv, FoundExactly
<1> QED BY <1>2, <1>3

LEMMA OnlyMatches == SearchInv => OnlyMatchesFound
<1> SUFFICES ASSUME SearchInv, phase = "done", Filtered, PlainCategories, ~args.children,
                    NEW x \in Unedited, Matches(x), NEW e \in refs \ edited
             PROVE  Matches(e)
  BY DEF OnlyMatchesFound
<1>1. e \in Entity \ edited /\ x \in Entity \ edited
  BY DEF Unedited, SearchInv, TInv, TypeOK, Database
<1>2. args.object \in {None, <<>>} => PassesObjects(e)
  <2>1. ToSet(<<>>) = {}
    BY DEF ToSet
  <2>2. args.object = <<>> => InAllGroups(e)
    BY <2>1 DEF InAllGroups, Groups
  <2> QED BY <2>2, ObjectsAsked DEF SearchInv
<1>3. shortcuts = {} /\ args.category \in {None, <<>>} => PassesCategories(e)
  <2>1. ToSet(<<>>) = {}
    BY DEF ToSet
  <2> QED BY <2>1 DEF PassesCategories, WantedCategories, Forbidden
<1>4. args.flow = None /\ args.status = None => PassesFlow(e)
  BY SearchAssumption DEF PassesFlow
<1>5. CASE step["sort"] = "unused"
  <2>1. args.sort = None /\ \A b \in Branch : step[b] = "unused"
    BY <1>5 DEF SearchInv, SInv, Begun
  <2>2. /\ args.object \in {None, <<>>} /\ args.nested = None
        /\ shortcuts = {} /\ args.category \in {None, <<>>}
    BY <2>1 DEF SearchInv, SInv, Begun, Branch
  <2>3. PassesFlow(e)
    BY <1>1, <1>5 DEF SearchInv, OnlyFlowInv
  <2>4. HasPlace(e)
    BY <2>1, CategoryAssumption DEF HasPlace
  <2> QED BY <1>2, <1>3, <2>2, <2>3, <2>4 DEF Matches, PassesNested
<1>6. CASE step["sort"] # "unused"
  <2>1. x \in Passing
    BY <1>6, InEveryAnswer DEF Filtered, Matches, Passing
  <2>2. e \in Passing
    BY <1>6, <2>1 DEF Filtered, SearchInv, IInv, FoundExactly
  <2>3. \A b \in Branch : step[b] # "unused" => step[b] = "end" /\ e \in found[b]
    BY <2>2 DEF SearchInv, SInv, Paths, Passing, Used
  <2>4. PassesCategories(e)
    BY <1>1, <1>3, <2>3 DEF SearchInv, CategoryInv, SInv, Begun, Branch
  <2>5. PassesFlow(e)
    BY <1>1, <1>4, <1>6, <2>3 DEF SearchInv, FlowInv, SInv, Begun, Branch
  <2>6. HasPlace(e)
    BY <1>1, <1>6, <2>3 DEF SearchInv, SortInv, Branch
  <2>7. PassesNested(e)
    <3> SUFFICES ASSUME args.nested # None PROVE PassesNested(e)
      BY NestedAsked
    <3>1. step["nested"] = "end" /\ e \in found["nested"]
      BY <2>3 DEF SearchInv, SInv, Begun, Branch
    <3>2. InAllKeys(x)
      BY NestedAsked DEF Matches
    <3>3. e \in db.rows /\ ToSet(keys) = {} /\ \A k \in Keys : InKey(e, k)
      BY <1>1, <3>1, <3>2 DEF SearchInv, NestedInv, Filtered
    <3> QED BY <3>3, NestedAsked DEF InAllKeys
  <2>8. PassesObjects(e)
    <3> SUFFICES ASSUME args.object \notin {None, <<>>} PROVE PassesObjects(e)
      BY <1>2
    <3>1. step["object"] = "end" /\ e \in found["object"]
      BY <2>3 DEF SearchInv, SInv, Begun, Branch
    <3>2. InAllGroups(x)
      BY ObjectsAsked DEF Matches, SearchInv
    <3>3. \A g \in Groups : InGroup(e, g)
      BY <1>1, <3>1, <3>2 DEF SearchInv, ObjectInv
    <3> QED BY <3>3, ObjectsAsked DEF InAllGroups, SearchInv
  <2> QED BY <2>4, <2>5, <2>6, <2>7, <2>8 DEF Matches
<1> QED BY <1>5, <1>6

\* For every set of tables, every request and every write while the queries
\* are under way: a flow version nobody wrote that passes every filter, in a
\* search something filters with plain category filters, is in the answer.
THEOREM AllMatchesFoundHolds == Spec => []AllMatchesFound
BY InitSearchInv, NextSearchInv, AllMatches, PTL DEF Spec

\* And when there is one, whatever nobody wrote and is in the answer passes
\* every filter: the intersection of the branches never starts again.
THEOREM OnlyMatchesFoundHolds == Spec => []OnlyMatchesFound
BY InitSearchInv, NextSearchInv, OnlyMatches, PTL DEF Spec

-----------------------------------------------------------------------------
(* Children of parked parents.                                             *)

Distinct ==
  \A i, j \in DOMAIN args.object :
    GroupOf(args.object[i]) = GroupOf(args.object[j]) => i = j

\* A sequence without repetitions has as many elements as places.
LEMMA DistinctCount ==
  ASSUME NEW S, NEW s \in Seq(S), \A i, j \in DOMAIN s : s[i] = s[j] => i = j
  PROVE  Cardinality(ToSet(s)) = Len(s)
<1> DEFINE n == Len(s)
           T == ToSet(s)
<1>1. n \in Nat /\ DOMAIN s = 1..n /\ T = {s[i] : i \in 1..n}
  BY DEF ToSet
<1>2. s \in [1..n -> T]
  BY <1>1
<1>3. s \in Bijection(1..n, T)
  <2> HIDE DEF T, n
  <2> QED BY <1>1, <1>2 DEF Bijection, Injection, Surjection, IsInjective
<1>4. ExistsBijection(1..n, T)
  BY <1>3 DEF ExistsBijection
<1> HIDE DEF T, n
<1>5. Cardinality(T) = n
  BY <1>1, <1>4, FS_CountingElements
<1> QED BY <1>5 DEF T, n

\* A parent with an object of every group has them all when no group is asked
\* for twice, and is counted in full.
LEMMA ParentsFound ==
  ASSUME args.object \in Seq(Object), args.object # <<>>, Distinct,
         NEW p \in Entity, InAllGroups(p)
  PROVE  p \in ParentRows(db, args.object)
<1> DEFINE s == args.object
           has == {o \in ToSet(s) : <<p, o>> \in db.objects}
<1>1. DOMAIN s = 1..Len(s) /\ \A o \in ToSet(s) : \E i \in DOMAIN s : s[i] = o
  BY DEF ToSet
<1>2. \A o \in ToSet(s) : <<p, o>> \in db.objects
  <2> SUFFICES ASSUME NEW o \in ToSet(s) PROVE <<p, o>> \in db.objects
    OBVIOUS
  <2>1. PICK q \in ToSet(s) : GroupOf(q) = GroupOf(o) /\ <<p, q>> \in db.objects
    BY DEF InAllGroups, InGroup, Groups
  <2>2. PICK i \in DOMAIN s : s[i] = o
    BY <1>1
  <2>3. PICK j \in DOMAIN s : s[j] = q
    BY <1>1
  <2>4. i = j
    BY <2>1, <2>2, <2>3 DEF Distinct
  <2> QED BY <2>1, <2>2, <2>3, <2>4
<1>3. has = ToSet(s)
  BY <1>2
<1>4. Cardinality(ToSet(s)) = Len(s)
  <2>1. \A i, j \in DOMAIN s : s[i] = s[j] => i = j
    BY DEF Distinct
  <2> HIDE DEF s
  <2> QED BY <2>1, DistinctCount DEF s
<1>5. Head(s) \in ToSet(s)
  BY HeadTail
<1>6. \E o \in ToSet(s) : <<p, o>> \in db.objects
  BY <1>2, <1>5
<1> HIDE DEF has, s
<1>7. Cardinality(has) = Len(s)
  BY <1>3, <1>4
<1> QED BY <1>6, <1>7 DEF ParentRows, has, s

Reaches(p, l, e) == InAllGroups(p) /\ l[1] = p[1] /\ l[2] = e[1]

ChildrenInv ==
  Distinct /\ step["object"] # "unused" =>
    /\ phase = "links" => \A p \in Entity \ edited : InAllGroups(p) => p \in parents
    /\ phase = "children" =>
         \A p \in Entity \ edited, l \in db.links :
           InAllGroups(p) /\ l[1] = p[1] => l[2] \in children
    /\ phase = "done" /\ args.children /\ (\A b \in Used : found[b] # {}) =>
         \A p \in Entity \ edited, l \in db.links, e \in Unedited \cap db.active :
           Reaches(p, l, e) => e \in found["object"]

\* The filters of an object branch in use.
LEMMA ObjectsGiven ==
  ASSUME TInv, SInv, step["object"] # "unused", phase \notin {"idle", "shortcuts"}
  PROVE  args.object \in Seq(Object) /\ args.object # <<>> /\ args.object # None
BY DEF TInv, TypeOK, SearchFlowsArgs, SInv, Begun

LEMMA SteadyChildren ==
  ASSUME Steady, ChildrenInv, phase' = phase, found' = found, step' = step,
         parents' = parents, children' = children
  PROVE  ChildrenInv'
<1>1. Settled
  BY DEF Steady
<1>2. /\ Groups' = Groups /\ args' = args /\ db'.links = db.links
      /\ \A e : e \notin edited' =>
           /\ e \notin edited
           /\ \A g : InGroup(e, g)' <=> InGroup(e, g)
           /\ InAllGroups(e)' <=> InAllGroups(e)
  BY <1>1, SteadyObjects DEF Settled, Untouched
<1>3. \A e : e \in (Unedited \cap db.active)' => e \in Unedited \cap db.active
  BY <1>1, <1>2 DEF Settled, Untouched, Alike, Unedited
<1>4. Distinct' <=> Distinct
  BY <1>2 DEF Distinct
<1>5. Used' = Used
  BY DEF Used
<1>6. CASE phase # "done"
  BY <1>2, <1>4, <1>6 DEF ChildrenInv
<1>7. CASE phase = "done"
  BY <1>2, <1>3, <1>4, <1>5, <1>7 DEF ChildrenInv, Reaches
<1> QED BY <1>6, <1>7

LEMMA NextChildren ==
  ASSUME TInv, IInv, SInv, ChildrenInv, [Next]_vars
  PROVE  ChildrenInv'
<1>1. CASE FindUsageYears \/ Search
  BY <1>1, NotBegun DEF ChildrenInv
<1>2. CASE MapShortcuts
  BY <1>2, JustBegun DEF ChildrenInv
<1>3. CASE SearchOnlyFlows
  BY <1>3 DEF SearchOnlyFlows, IInv, Started, Branch, ChildrenInv
<1>4. CASE Gather
  <2>1. phase' \in {"gather", "failed"}
    BY <1>4 DEF Gather, FindCategories, FindCategoryRefs, FindObjects, FindNested,
                LookupNested, FindFlows, FindSortOrder, Ready
  <2> QED BY <2>1 DEF ChildrenInv
<1>5. CASE Combine
  <2>1. phase' = "parents" \/ phase' = "done"
    BY <1>5 DEF Combine
  <2>2. Used' = Used /\ found' = found /\ step' = step /\ args' = args
    BY <1>5 DEF Combine, Used
  <2>3. phase' = "done" /\ args.children /\ step["object"] # "unused" =>
          \E b \in Used : found[b] = {}
    BY <1>5 DEF Combine, Used, Branch
  <2> QED BY <2>1, <2>2, <2>3 DEF ChildrenInv
<1>6. CASE FindParents
  <2>1. /\ phase = "parents" /\ phase' = "links" /\ parents' = ParentRows(db, args.object)
        /\ db' = db /\ edited' = edited /\ args' = args /\ step' = step
    BY <1>6 DEF FindParents, tables
  <2>2. (Distinct' <=> Distinct) /\ \A e : InAllGroups(e)' <=> InAllGroups(e)
    BY <2>1 DEF Distinct, InAllGroups, InGroup, Groups
  <2>3. Distinct /\ step["object"] # "unused" =>
          \A p \in Entity : InAllGroups(p) => p \in parents'
    BY <2>1, ObjectsGiven, ParentsFound
  <2> QED BY <2>1, <2>2, <2>3 DEF ChildrenInv
<1>7. CASE FindLinks
  <2>1. /\ phase = "links" /\ phase' = "children" /\ children' = ChildrenOf(db, parents)
        /\ db' = db /\ edited' = edited /\ args' = args /\ step' = step
    BY <1>7 DEF FindLinks, tables
  <2>2. (Distinct' <=> Distinct) /\ \A e : InAllGroups(e)' <=> InAllGroups(e)
    BY <2>1 DEF Distinct, InAllGroups, InGroup, Groups
  <2>3. \A p \in parents, l \in db.links : l[1] = p[1] => l[2] \in children'
    BY <2>1 DEF ChildrenOf
  <2> QED BY <2>1, <2>2, <2>3 DEF ChildrenInv
<1>8. CASE FindChildren
  <2>1. /\ phase = "children" /\ phase' = "done"
        /\ found'["object"] = found["object"] \cup ActiveRows(db, children)
        /\ db' = db /\ edited' = edited /\ args' = args /\ step' = step
    BY <1>8 DEF FindChildren, tables, TInv, TypeOK, Branch
  <2>2. /\ Distinct' <=> Distinct
        /\ \A e : InAllGroups(e)' <=> InAllGroups(e)
        /\ (Unedited \cap db.active)' = Unedited \cap db.active
    BY <2>1 DEF Distinct, InAllGroups, InGroup, Groups, Unedited
  <2>3. \A e \in Unedited \cap db.active : e[1] \in children => e \in ActiveRows(db, children)
    BY DEF Unedited, ActiveRows
  <2>4. \A p, l, e : Reaches(p, l, e)' <=> Reaches(p, l, e)
    BY <2>2 DEF Reaches
  <2>5. ASSUME Distinct, step["object"] # "unused",
               NEW p \in Entity \ edited, NEW l \in db.links,
               NEW e \in Unedited \cap db.active, Reaches(p, l, e)
        PROVE  e \in found'["object"]
    <3>1. l[2] \in children
      BY <2>1, <2>5 DEF ChildrenInv, Reaches
    <3> QED BY <2>1, <2>3, <2>5, <3>1 DEF Reaches
  <2> QED BY <2>1, <2>2, <2>4, <2>5 DEF ChildrenInv
<1>9. CASE UNCHANGED vars
  <2>1. Steady
    BY <1>9, AllStill DEF vars, tables, requestVars
  <2> QED BY <1>9, <2>1, SteadyChildren DEF vars, requestVars
<1>10. CASE Edit
  <2>1. /\ Untouched(db, db', edited') /\ edited \subseteq edited'
        /\ UNCHANGED <<asked, phase, args, step, found, refs, requestVars>>
    BY <1>10, EditEffect DEF TInv
  <2>2. Steady
    BY <2>1 DEF Steady, Settled, Still, requestVars
  <2> QED BY <2>1, <2>2, SteadyChildren DEF requestVars
<1> QED
  BY <1>1, <1>2, <1>3, <1>4, <1>5, <1>6, <1>7, <1>8, <1>9, <1>10 DEF Next

LEMMA Children == SearchInv /\ ChildrenInv => ChildrenFound
<1> SUFFICES ASSUME SearchInv, ChildrenInv, phase = "done", PlainCategories,
                    args.nested # <<>>, args.children,
                    args.object \notin {None, <<>>}, Distinct,
                    NEW e \in Unedited \cap db.active, NEW l \in db.links,
                    l[2] = e[1],
                    NEW p \in Entity \ edited, p[1] = l[1], PassesObjects(p),
                    PassesFlow(e), PassesCategories(e), PassesNested(e), HasPlace(e)
             PROVE  e \in refs
  BY DEF ChildrenFound, Distinct
<1>1. step["object"] # "unused" /\ step["sort"] # "unused"
  BY DEF SearchInv, SInv, Begun, Branch
<1>2. e \in found["sort"] /\ \A b \in Used \ {"object"} : e \in found[b]
  BY <1>1, InEveryAnswer
<1>3. InAllGroups(p)
  BY ObjectsAsked DEF SearchInv
<1>4. p \in found["object"]
  BY <1>1, <1>3 DEF SearchInv, ObjectInv, SInv, Paths, Branch
<1>5. \A b \in Used : found[b] # {}
  BY <1>2, <1>4
<1>6. e \in found["object"]
  BY <1>1, <1>3, <1>5 DEF ChildrenInv, Reaches
<1>7. e \in Passing /\ Used # {}
  BY <1>1, <1>2, <1>6 DEF Passing, Used, Branch
<1> QED BY <1>7 DEF SearchInv, IInv, FoundExactly

\* For every set of tables and every write: the active children of a parked
\* parent that has the objects asked for are in the answer when they pass the
\* other filters, over all the queries that find them.
THEOREM ChildrenFoundHolds == Spec => []ChildrenFound
<1>1. Init => ChildrenInv
  BY DEF Init, ChildrenInv, Branch
<1>2. SearchInv /\ ChildrenInv /\ [Next]_vars => ChildrenInv'
  BY NextChildren DEF SearchInv
<1> QED BY <1>1, <1>2, InitSearchInv, NextSearchInv, Children, PTL DEF Spec
=============================================================================
