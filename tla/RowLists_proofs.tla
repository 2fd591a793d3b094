--------------------------- MODULE RowLists_proofs ---------------------------
(***************************************************************************)
(* What Keep, Slice and the list of a set return: the facts about lists of *)
(* rows the proofs about pages need.  No row occurs twice in the lists     *)
(* that matter, so a list is its set of rows and, for every row, the set   *)
(* of rows Ahead of it.                                                    *)
(***************************************************************************)
EXTENDS FlowPages, FiniteSetTheorems, FunctionTheorems,
        SequenceTheorems, TLAPS

(***************************************************************************)
(* The elements of a finite set of positions in their order.               *)
(***************************************************************************)
Rank(P, i) == Cardinality({j \in P : j <= i})

LEMMA PositionsFinite ==
  ASSUME NEW n \in Nat, NEW P \in SUBSET (1..n)
  PROVE  /\ IsFiniteSet(P)
         /\ Cardinality(P) \in Nat
<1>1. IsFiniteSet(1..n)
  BY FS_Interval
<1>2. IsFiniteSet(P)
  BY <1>1, FS_Subset
<1> QED BY <1>2, FS_CardinalityType

LEMMA RankType ==
  ASSUME NEW n \in Nat, NEW P \in SUBSET (1..n), NEW i \in P
  PROVE  Rank(P, i) \in 1..Cardinality(P)
<1> DEFINE U == {j \in P : j <= i}
<1>1. U \in SUBSET P
  OBVIOUS
<1>2. IsFiniteSet(P) /\ Cardinality(P) \in Nat
  BY PositionsFinite
<1>3. IsFiniteSet(U) /\ Cardinality(U) <= Cardinality(P)
  BY <1>1, <1>2, FS_Subset
<1>4. i \in U
  <2>1. i \in 1..n
    OBVIOUS
  <2> QED BY <2>1
<1>5. Cardinality(U) \in Nat /\ Cardinality(U) # 0
  BY <1>3, <1>4, FS_CardinalityType, FS_EmptySet
<1> QED BY <1>2, <1>3, <1>5 DEF Rank

LEMMA RankGrows ==
  ASSUME NEW n \in Nat, NEW P \in SUBSET (1..n), NEW i \in P, NEW j \in P, i < j
  PROVE  Rank(P, i) < Rank(P, j)
<1> DEFINE U == {k \in P : k <= i}
<1> DEFINE V == {k \in P : k <= j}
<1>1. IsFiniteSet(P)
  BY PositionsFinite
<1>2. \A k \in P : k \in Int
  OBVIOUS
<1>3. U \in SUBSET V
  <2>1. \A k \in P : k <= i => k <= j
    BY <1>2
  <2> QED BY <2>1
<1>4. V \in SUBSET P
  OBVIOUS
<1>5. j \in V /\ j \notin U
  <2>1. i \in Int /\ j \in Int
    BY <1>2
  <2>2. j <= j /\ ~(j <= i)
    BY <2>1
  <2> QED BY <2>2
<1>6. IsFiniteSet(V)
  BY <1>1, <1>4, FS_Subset
<1>7. IsFiniteSet(U) /\ Cardinality(U) <= Cardinality(V) /\ Cardinality(U) # Cardinality(V)
  BY <1>3, <1>5, <1>6, FS_Subset
<1>8. Cardinality(U) \in Nat /\ Cardinality(V) \in Nat
  BY <1>6, <1>7, FS_CardinalityType
<1> QED BY <1>7, <1>8 DEF Rank

LEMMA RankInjective ==
  ASSUME NEW n \in Nat, NEW P \in SUBSET (1..n), NEW i \in P, NEW j \in P,
         Rank(P, i) = Rank(P, j)
  PROVE  i = j
<1>1. \A k \in P : k \in Int
  OBVIOUS
<1>2. Rank(P, i) \in 1..Cardinality(P)
  BY RankType
<1>3. ~(i < j) /\ ~(j < i)
  BY SMTT(40), <1>2, RankGrows
<1> QED BY <1>1, <1>3

LEMMA RankOnto ==
  ASSUME NEW n \in Nat, NEW P \in SUBSET (1..n), NEW k \in 1..Cardinality(P)
  PROVE  \E i \in P : Rank(P, i) = k
<1> DEFINE N == 1..Cardinality(P)
<1> DEFINE f == [i \in P |-> Rank(P, i)]
<1>1. IsFiniteSet(P) /\ Cardinality(P) \in Nat
  BY PositionsFinite
<1>2. f \in [P -> N]
  BY RankType
<1>3. \A i, j \in P : f[i] = f[j] => i = j
  BY RankInjective
<1>4. f \in Injection(P, N)
  BY <1>2, <1>3, Fun_IsInj
<1>5. IsFiniteSet(N) /\ Cardinality(N) = Cardinality(P)
  BY <1>1, FS_Interval
<1>6. f \in Surjection(P, N)
  BY <1>4, <1>5, FS_Injection
<1>7. \E i \in P : f[i] = k
  <2>1. k \in N
    OBVIOUS
  <2> HIDE DEF f, N
  <2>2. \A t \in N : \E i \in P : f[i] = t
    BY <1>6, Fun_SurjectionProperties
  <2> QED BY <2>1, <2>2
<1> QED BY <1>7

-----------------------------------------------------------------------------
(* Keep(s, S): the positions of s it keeps, in their order.                *)

At(s, S) == {i \in DOMAIN s : s[i] \in S}
Nth(s, S, k) == CHOOSE i \in At(s, S) : Rank(At(s, S), i) = k

LEMMA KeepUnfold ==
  \A s, S : Keep(s, S) = [k \in 1..Cardinality(At(s, S)) |-> s[Nth(s, S, k)]]
BY DEF Keep, Nth, At, Rank

LEMMA AtType ==
  ASSUME NEW T, NEW s \in Seq(T), NEW S
  PROVE  /\ Len(s) \in Nat
         /\ At(s, S) \in SUBSET (1..Len(s))
         /\ IsFiniteSet(At(s, S))
         /\ Cardinality(At(s, S)) \in Nat
<1>1. Len(s) \in Nat /\ At(s, S) \in SUBSET (1..Len(s))
  BY DEF At
<1> QED BY <1>1, PositionsFinite

LEMMA NthType ==
  ASSUME NEW T, NEW s \in Seq(T), NEW S, NEW k \in 1..Cardinality(At(s, S))
  PROVE  /\ Nth(s, S, k) \in At(s, S)
         /\ Rank(At(s, S), Nth(s, S, k)) = k
<1>1. \E i \in At(s, S) : Rank(At(s, S), i) = k
  <2>1. Len(s) \in Nat /\ At(s, S) \in SUBSET (1..Len(s))
    BY AtType
  <2> QED BY <2>1, RankOnto
<1> QED BY <1>1 DEF Nth

\* A kept list is a list of elements of both.
LEMMA KeepType ==
  ASSUME NEW T, NEW s \in Seq(T), NEW S
  PROVE  /\ Keep(s, S) \in Seq(T)
         /\ Len(Keep(s, S)) = Cardinality(At(s, S))
         /\ \A k \in 1..Len(Keep(s, S)) : Keep(s, S)[k] = s[Nth(s, S, k)]
<1> DEFINE n == Cardinality(At(s, S))
<1>1. n \in Nat
  BY AtType
<1>2. \A k \in 1..n : Nth(s, S, k) \in 1..Len(s)
  BY AtType, NthType
<1>3. \A k \in 1..n : s[Nth(s, S, k)] \in T
  BY <1>2, ElementOfSeq
<1> HIDE DEF n
<1>4. Keep(s, S) = [k \in 1..n |-> s[Nth(s, S, k)]]
  BY KeepUnfold DEF n
<1>5. Keep(s, S) \in [1..n -> T]
  BY <1>3, <1>4
<1>6. Keep(s, S) \in Seq(T) /\ Len(Keep(s, S)) = n
  BY <1>1, <1>5
<1> QED BY <1>4, <1>6 DEF n

\* Every kept position has its place in the list.
LEMMA KeepPlace ==
  ASSUME NEW T, NEW s \in Seq(T), NEW S, NEW i \in At(s, S)
  PROVE  /\ Rank(At(s, S), i) \in 1..Len(Keep(s, S))
         /\ Nth(s, S, Rank(At(s, S), i)) = i
         /\ Keep(s, S)[Rank(At(s, S), i)] = s[i]
<1> DEFINE k == Rank(At(s, S), i)
<1>1. k \in 1..Cardinality(At(s, S))
  BY AtType, RankType
<1>2. Nth(s, S, k) \in At(s, S) /\ Rank(At(s, S), Nth(s, S, k)) = k
  BY <1>1, NthType
<1>3. Nth(s, S, k) = i
  <2>1. Len(s) \in Nat /\ At(s, S) \in SUBSET (1..Len(s))
    BY AtType
  <2> QED BY <1>2, <2>1, RankInjective
<1> QED BY <1>1, <1>3, KeepType

LEMMA KeepSet ==
  ASSUME NEW T, NEW s \in Seq(T), NEW S
  PROVE  ToSet(Keep(s, S)) = ToSet(s) \cap S
<1> DEFINE u == Keep(s, S)
<1>1. ASSUME NEW x \in ToSet(u) PROVE x \in ToSet(s) \cap S
  <2>1. PICK k \in 1..Len(u) : x = u[k]
    BY KeepType DEF ToSet
  <2>2. Nth(s, S, k) \in At(s, S) /\ x = s[Nth(s, S, k)]
    BY <2>1, KeepType, NthType
  <2> QED BY <2>2 DEF At, ToSet
<1>2. ASSUME NEW x \in ToSet(s) \cap S PROVE x \in ToSet(u)
  <2>1. PICK i \in DOMAIN s : x = s[i]
    BY DEF ToSet
  <2>2. i \in At(s, S)
    BY <2>1 DEF At
  <2>3. Rank(At(s, S), i) \in 1..Len(u) /\ u[Rank(At(s, S), i)] = x
    BY <2>1, <2>2, KeepPlace
  <2> QED BY <2>3, KeepType DEF ToSet
<1> QED BY <1>1, <1>2

LEMMA KeepInjective ==
  ASSUME NEW T, NEW s \in Seq(T), NEW S, IsInjective(s)
  PROVE  IsInjective(Keep(s, S))
<1> DEFINE u == Keep(s, S)
<1> SUFFICES ASSUME NEW a \in 1..Len(u), NEW b \in 1..Len(u), u[a] = u[b]
             PROVE  a = b
  BY KeepType DEF IsInjective
<1>1. /\ Nth(s, S, a) \in At(s, S) /\ Rank(At(s, S), Nth(s, S, a)) = a
      /\ Nth(s, S, b) \in At(s, S) /\ Rank(At(s, S), Nth(s, S, b)) = b
  BY KeepType, NthType
<1>2. s[Nth(s, S, a)] = s[Nth(s, S, b)]
  BY KeepType
<1>3. Nth(s, S, a) = Nth(s, S, b)
  BY <1>1, <1>2 DEF At, IsInjective
<1> QED BY <1>1, <1>3

\* Only the elements of the list matter in the set.
LEMMA KeepSame ==
  ASSUME NEW s, NEW S, NEW U, ToSet(s) \cap S = ToSet(s) \cap U
  PROVE  Keep(s, S) = Keep(s, U)
<1>1. At(s, S) = At(s, U)
  BY DEF At, ToSet
<1>2. \A k : Nth(s, S, k) = Nth(s, U, k)
  BY <1>1 DEF Nth
<1> QED BY <1>1, <1>2, KeepUnfold

\* A list of which nothing is left out is itself.
LEMMA KeepAll ==
  ASSUME NEW T, NEW s \in Seq(T), NEW S, ToSet(s) \subseteq S
  PROVE  Keep(s, S) = s
<1> DEFINE n == Len(s)
<1>1. n \in Nat /\ DOMAIN s = 1..n
  OBVIOUS
<1>2. At(s, S) = 1..n
  BY <1>1 DEF At, ToSet
<1>3. Cardinality(1..n) = n
  BY <1>1, FS_Interval
<1>4. ASSUME NEW i \in 1..n PROVE Rank(1..n, i) = i
  <2>1. {j \in 1..n : j <= i} = 1..i
    BY <1>1
  <2>2. Cardinality(1..i) = i
    BY <1>1, FS_Interval
  <2> QED BY <2>1, <2>2 DEF Rank
<1>5. Len(Keep(s, S)) = n
  BY <1>2, <1>3, KeepType
<1>6. ASSUME NEW i \in 1..n PROVE Keep(s, S)[i] = s[i]
  <2>1. i \in At(s, S)
    BY <1>2
  <2> QED BY <2>1, <1>2, <1>4, KeepPlace
<1> QED BY <1>5, <1>6, KeepType, SeqEqual

-----------------------------------------------------------------------------
(* Slice, Front and concatenation, with the arithmetic done.               *)

\* min of the length and of the end of a slice.
SliceEnd(s, from, size) == IF from + size < Len(s) THEN from + size ELSE Len(s)

LEMMA SliceType ==
  ASSUME NEW T, NEW s \in Seq(T), NEW from \in Nat, NEW size \in Nat
  PROVE  /\ Slice(s, from, size) \in Seq(T)
         /\ SliceEnd(s, from, size) \in Nat
         /\ SliceEnd(s, from, size) <= Len(s)
         /\ SliceEnd(s, from, size) <= from + size
         /\ Len(Slice(s, from, size)) =
              IF from < SliceEnd(s, from, size)
                THEN SliceEnd(s, from, size) - from ELSE 0
         /\ Len(Slice(s, from, size)) <= size
         /\ \A i \in 1..Len(Slice(s, from, size)) :
              from + i \in 1..Len(s) /\ Slice(s, from, size)[i] = s[from + i]
<1> DEFINE e == SliceEnd(s, from, size)
<1>1. Len(s) \in Nat
  OBVIOUS
<1>2. e \in Nat /\ e <= Len(s) /\ e <= from + size
  BY <1>1 DEF SliceEnd
<1>3. Slice(s, from, size) = SubSeq(s, from + 1, e)
  BY DEF Slice, SliceEnd
<1> HIDE DEF e
<1>4. \A i \in from + 1 .. e : s[i] \in T
  BY <1>1, <1>2
<1>5. /\ SubSeq(s, from + 1, e) \in Seq(T)
      /\ Len(SubSeq(s, from + 1, e)) = IF from + 1 <= e THEN e - (from + 1) + 1 ELSE 0
      /\ \A i \in 1 .. e - (from + 1) + 1 : SubSeq(s, from + 1, e)[i] = s[from + 1 + i - 1]
  <2>1. from + 1 \in Int /\ e \in Int
    BY <1>2
  <2> QED BY <1>4, <2>1, SubSeqProperties
<1>6. Len(Slice(s, from, size)) = IF from < e THEN e - from ELSE 0
  BY <1>2, <1>3, <1>5
<1>7. ASSUME NEW i \in 1..Len(Slice(s, from, size))
      PROVE  from + i \in 1..Len(s) /\ Slice(s, from, size)[i] = s[from + i]
  <2>1. i \in Nat /\ i >= 1 /\ from < e /\ i <= e - from
    BY <1>2, <1>6
  <2>2. i \in 1 .. e - (from + 1) + 1 /\ from + 1 + i - 1 = from + i
    BY <2>1, <1>2
  <2>3. Slice(s, from, size)[i] = s[from + i]
    BY <2>2, <1>3, <1>5
  <2> QED BY <2>1, <2>3, <1>1, <1>2
<1> QED BY <1>1, <1>2, <1>3, <1>5, <1>6, <1>7 DEF e

LEMMA SliceLen ==
  ASSUME NEW T, NEW s \in Seq(T), NEW from \in Nat, NEW size \in Nat
  PROVE  /\ from + size < Len(s) => Len(Slice(s, from, size)) = size
         /\ from < Len(s) /\ ~(from + size < Len(s)) => Len(Slice(s, from, size)) = Len(s) - from
         /\ ~(from < Len(s)) => Len(Slice(s, from, size)) = 0
<1> DEFINE l == Len(Slice(s, from, size))
<1> DEFINE e == SliceEnd(s, from, size)
<1>1. Len(s) \in Nat /\ e = IF from + size < Len(s) THEN from + size ELSE Len(s)
  BY DEF SliceEnd
<1>2. l = IF from < e THEN e - from ELSE 0
  BY SliceType
<1> HIDE DEF e, l
<1>3. from + size < Len(s) => l = size
  BY <1>1, <1>2
<1>4. from < Len(s) /\ ~(from + size < Len(s)) => l = Len(s) - from
  BY <1>1, <1>2
<1>5. ~(from < Len(s)) => l = 0
  BY <1>1, <1>2
<1> QED BY <1>3, <1>4, <1>5 DEF l

LEMMA SliceSet ==
  ASSUME NEW T, NEW s \in Seq(T), NEW from \in Nat, NEW size \in Nat
  PROVE  ToSet(Slice(s, from, size)) =
           {s[i] : i \in {j \in 1..Len(s) : from < j /\ j <= from + size}}
<1> DEFINE u == Slice(s, from, size)
<1> DEFINE N == {j \in 1..Len(s) : from < j /\ j <= from + size}
<1>1. Len(s) \in Nat
  OBVIOUS
<1>2. ASSUME NEW x \in ToSet(u) PROVE x \in {s[i] : i \in N}
  <2>1. PICK i \in 1..Len(u) : x = u[i]
    BY SliceType DEF ToSet
  <2>2. from + i \in 1..Len(s) /\ x = s[from + i] /\ Len(u) <= size
    BY <2>1, SliceType
  <2>3. from + i \in N
    BY <2>1, <2>2, SliceType
  <2> QED BY <2>2, <2>3
<1>3. ASSUME NEW i \in N PROVE s[i] \in ToSet(u)
  <2> DEFINE e == SliceEnd(s, from, size)
  <2>1. i \in Nat /\ i <= e /\ from < i /\ e \in Nat
    BY <1>1 DEF SliceEnd
  <2>2. Len(u) = e - from
    BY <2>1, SliceType
  <2>3. i - from \in 1..Len(u) /\ from + (i - from) = i
    BY <2>1, <2>2
  <2>4. u[i - from] = s[i]
    BY <2>3, SliceType
  <2> QED BY <2>3, <2>4, SliceType DEF ToSet
<1> QED BY <1>2, <1>3

LEMMA FrontType ==
  ASSUME NEW T, NEW s \in Seq(T), Len(s) > 0
  PROVE  /\ Front(s) \in Seq(T)
         /\ Len(Front(s)) = Len(s) - 1
         /\ \A i \in 1..Len(s) - 1 : Front(s)[i] = s[i]
<1>1. Len(s) \in Nat
  OBVIOUS
<1>2. \A i \in 1 .. Len(s) - 1 : s[i] \in T
  BY <1>1
<1>3. 1 \in Int /\ Len(s) - 1 \in Int
  BY <1>1
<1>4. /\ SubSeq(s, 1, Len(s) - 1) \in Seq(T)
      /\ Len(SubSeq(s, 1, Len(s) - 1)) = IF 1 <= Len(s) - 1 THEN Len(s) - 1 - 1 + 1 ELSE 0
      /\ \A i \in 1 .. Len(s) - 1 - 1 + 1 : SubSeq(s, 1, Len(s) - 1)[i] = s[1 + i - 1]
  BY <1>2, <1>3, SubSeqProperties
<1>5. Front(s) = SubSeq(s, 1, Len(s) - 1)
  BY DEF Front
<1>6. Len(Front(s)) = Len(s) - 1
  <2>1. CASE 1 <= Len(s) - 1
    BY <1>1, <1>4, <1>5, <2>1
  <2>2. CASE ~(1 <= Len(s) - 1)
    <3>1. Len(s) - 1 = 0
      <4> DEFINE n == Len(s)
      <4>1. n \in Nat /\ n > 0 /\ ~(1 <= n - 1)
        BY <1>1, <2>2
      <4> HIDE DEF n
      <4>2. n - 1 = 0
        BY <4>1
      <4> QED BY <4>2 DEF n
    <3> QED BY <1>4, <1>5, <2>2, <3>1
  <2> QED BY <2>1, <2>2
<1>7. ASSUME NEW i \in 1..Len(s) - 1 PROVE Front(s)[i] = s[i]
  <2>1. i \in 1 .. Len(s) - 1 - 1 + 1 /\ 1 + i - 1 = i
    BY <1>1
  <2>2. SubSeq(s, 1, Len(s) - 1)[i] = s[1 + i - 1]
    BY <1>4, <2>1
  <2> QED BY <2>1, <2>2, <1>5
<1> QED BY <1>4, <1>5, <1>6, <1>7

LEMMA FrontSet ==
  ASSUME NEW T, NEW s \in Seq(T), Len(s) > 0
  PROVE  ToSet(s) = ToSet(Front(s)) \cup {s[Len(s)]}
<1>1. Len(s) \in Nat
  OBVIOUS
<1>2. DOMAIN s = 1..Len(s) /\ DOMAIN Front(s) = 1..Len(s) - 1
  BY FrontType
<1>3. ASSUME NEW x \in ToSet(s) PROVE x \in ToSet(Front(s)) \cup {s[Len(s)]}
  <2>1. PICK i \in 1..Len(s) : x = s[i]
    BY <1>2 DEF ToSet
  <2>2. CASE i = Len(s)
    BY <2>1, <2>2
  <2>3. CASE i # Len(s)
    <3>1. i \in 1..Len(s) - 1
      BY <1>1, <2>3
    <3> QED BY <2>1, <3>1, <1>2, FrontType DEF ToSet
  <2> QED BY <2>2, <2>3
<1>4. s[Len(s)] \in ToSet(s)
  BY <1>1, <1>2 DEF ToSet
<1>5. ASSUME NEW x \in ToSet(Front(s)) PROVE x \in ToSet(s)
  <2>1. PICK i \in 1..Len(s) - 1 : x = Front(s)[i]
    BY <1>2 DEF ToSet
  <2>2. i \in 1..Len(s)
    BY <1>1
  <2> QED BY <2>1, <2>2, <1>2, FrontType DEF ToSet
<1> QED BY <1>3, <1>4, <1>5

LEMMA ConcatSet ==
  ASSUME NEW T, NEW s \in Seq(T), NEW u \in Seq(T)
  PROVE  ToSet(s \o u) = ToSet(s) \cup ToSet(u)
<1>1. /\ Len(s) \in Nat /\ Len(u) \in Nat /\ Len(s \o u) = Len(s) + Len(u)
      /\ DOMAIN s = 1..Len(s) /\ DOMAIN u = 1..Len(u)
      /\ DOMAIN (s \o u) = 1..Len(s) + Len(u)
  BY ConcatProperties
<1>2. \A i \in 1..Len(s) + Len(u) :
        (s \o u)[i] = IF i <= Len(s) THEN s[i] ELSE u[i - Len(s)]
  BY ConcatProperties
<1>3. ASSUME NEW x \in ToSet(s \o u) PROVE x \in ToSet(s) \cup ToSet(u)
  <2>1. PICK i \in 1..Len(s) + Len(u) : x = (s \o u)[i]
    BY <1>1 DEF ToSet
  <2>2. CASE i <= Len(s)
    <3>1. i \in 1..Len(s)
      BY <1>1, <2>2
    <3> QED BY <2>1, <2>2, <3>1, <1>1, <1>2 DEF ToSet
  <2>3. CASE ~(i <= Len(s))
    <3>1. i - Len(s) \in 1..Len(u)
      BY <1>1, <2>3
    <3> QED BY <2>1, <2>3, <3>1, <1>1, <1>2 DEF ToSet
  <2> QED BY <2>2, <2>3
<1>4. ASSUME NEW x \in ToSet(s) PROVE x \in ToSet(s \o u)
  <2>1. PICK i \in 1..Len(s) : x = s[i]
    BY <1>1 DEF ToSet
  <2>2. i \in 1..Len(s) + Len(u) /\ i <= Len(s)
    BY <1>1
  <2> QED BY <2>1, <2>2, <1>1, <1>2 DEF ToSet
<1>5. ASSUME NEW x \in ToSet(u) PROVE x \in ToSet(s \o u)
  <2>1. PICK i \in 1..Len(u) : x = u[i]
    BY <1>1 DEF ToSet
  <2>2. /\ i + Len(s) \in 1..Len(s) + Len(u) /\ ~(i + Len(s) <= Len(s))
        /\ (i + Len(s)) - Len(s) = i
    BY <1>1
  <2> QED BY <2>1, <2>2, <1>1, <1>2 DEF ToSet
<1> QED BY <1>3, <1>4, <1>5

LEMMA ConcatInjective ==
  ASSUME NEW T, NEW s \in Seq(T), NEW u \in Seq(T), IsInjective(s), IsInjective(u),
         ToSet(s) \cap ToSet(u) = {}
  PROVE  IsInjective(s \o u)
<1> DEFINE c == s \o u
<1>1. /\ Len(s) \in Nat /\ Len(u) \in Nat
      /\ DOMAIN s = 1..Len(s) /\ DOMAIN u = 1..Len(u)
      /\ DOMAIN c = 1..Len(s) + Len(u)
  BY ConcatProperties
<1>2. \A i \in 1..Len(s) + Len(u) : c[i] = IF i <= Len(s) THEN s[i] ELSE u[i - Len(s)]
  BY ConcatProperties
<1> HIDE DEF c
<1>3. ASSUME NEW i \in DOMAIN c
      PROVE  \/ i \in DOMAIN s /\ c[i] = s[i] /\ c[i] \in ToSet(s)
             \/ i - Len(s) \in DOMAIN u /\ c[i] = u[i - Len(s)] /\ c[i] \in ToSet(u)
  <2>1. i \in 1..Len(s) \/ i - Len(s) \in 1..Len(u)
    BY <1>1
  <2>2. CASE i \in 1..Len(s)
    BY <1>1, <1>2, <2>2 DEF ToSet
  <2>3. CASE i - Len(s) \in 1..Len(u)
    <3>1. ~(i <= Len(s))
      BY <1>1, <2>3
    <3> QED BY <1>1, <1>2, <2>3, <3>1 DEF ToSet
  <2> QED BY <2>1, <2>2, <2>3
<1>4. ASSUME NEW a \in DOMAIN c, NEW b \in DOMAIN c, c[a] = c[b] PROVE a = b
  <2>1. CASE c[a] \in ToSet(s)
    <3>1. a \in DOMAIN s /\ b \in DOMAIN s /\ s[a] = s[b]
      BY <1>3, <1>4, <2>1
    <3> QED BY <3>1 DEF IsInjective
  <2>2. CASE c[a] \in ToSet(u)
    <3>1. /\ a - Len(s) \in DOMAIN u /\ b - Len(s) \in DOMAIN u
          /\ u[a - Len(s)] = u[b - Len(s)]
      BY <1>3, <1>4, <2>2
    <3>2. a - Len(s) = b - Len(s)
      BY <3>1 DEF IsInjective
    <3> QED BY <1>1, <3>2
  <2> QED BY <1>3, <2>1, <2>2
<1> QED BY <1>4 DEF IsInjective, c

LEMMA SliceSame ==
  ASSUME NEW T, NEW s \in Seq(T), NEW from \in Nat, NEW m \in Nat, NEW n \in Nat,
         SliceEnd(s, from, m) = SliceEnd(s, from, n)
  PROVE  Slice(s, from, m) = Slice(s, from, n)
BY DEF Slice, SliceEnd

\* Two slices one after the other.
LEMMA SliceSplit ==
  ASSUME NEW T, NEW s \in Seq(T), NEW from \in Nat, NEW m \in Nat, NEW n \in Nat
  PROVE  Slice(s, from, m) \o Slice(s, from + m, n) = Slice(s, from, m + n)
<1> DEFINE a == Slice(s, from, m)
<1> DEFINE b == Slice(s, from + m, n)
<1> DEFINE c == Slice(s, from, m + n)
<1>1. Len(s) \in Nat /\ from + m \in Nat /\ m + n \in Nat
  OBVIOUS
<1>2. /\ a \in Seq(T) /\ b \in Seq(T) /\ c \in Seq(T)
      /\ Len(a) \in Nat /\ Len(b) \in Nat /\ Len(c) \in Nat
  BY <1>1, SliceType
<1>3. a \o b \in Seq(T) /\ Len(a \o b) = Len(a) + Len(b)
  BY <1>2, ConcatProperties
<1>4. /\ from + m < Len(s) => Len(a) = m
      /\ from < Len(s) /\ ~(from + m < Len(s)) => Len(a) = Len(s) - from
      /\ ~(from < Len(s)) => Len(a) = 0
  BY <1>1, SliceLen
<1>5. /\ (from + m) + n < Len(s) => Len(b) = n
      /\ from + m < Len(s) /\ ~((from + m) + n < Len(s)) => Len(b) = Len(s) - (from + m)
      /\ ~(from + m < Len(s)) => Len(b) = 0
  BY <1>1, SliceLen
<1>6. /\ from + (m + n) < Len(s) => Len(c) = m + n
      /\ from < Len(s) /\ ~(from + (m + n) < Len(s)) => Len(c) = Len(s) - from
      /\ ~(from < Len(s)) => Len(c) = 0
  BY <1>1, SliceLen
<1>7. Len(a \o b) = Len(c)
  <2> HIDE DEF a, b, c
  <2> QED BY SMTT(40), <1>1, <1>2, <1>3, <1>4, <1>5, <1>6
<1>8. ASSUME NEW i \in 1..Len(a \o b) PROVE (a \o b)[i] = c[i]
  <2>1. i \in 1..Len(a) + Len(b)
    BY <1>3
  <2>2. (a \o b)[i] = IF i <= Len(a) THEN a[i] ELSE b[i - Len(a)]
    BY <1>2, <2>1, ConcatProperties
  <2>3. c[i] = s[from + i]
    BY <1>1, <1>7, SliceType
  <2>4. CASE i <= Len(a)
    <3>1. i \in 1..Len(a)
      BY <1>2, <2>4
    <3>2. a[i] = s[from + i]
      BY <1>1, <3>1, SliceType
    <3> QED BY <2>2, <2>3, <2>4, <3>2
  <2>5. CASE ~(i <= Len(a))
    <3>1. i - Len(a) \in 1..Len(b)
      BY <1>2, <2>1, <2>5
    <3>2. Len(a) = m
      BY <1>1, <1>4, <1>5, <3>1
    <3>3. b[i - Len(a)] = s[(from + m) + (i - Len(a))]
      BY <1>1, <3>1, SliceType
    <3>4. (from + m) + (i - Len(a)) = from + i
      BY <3>2
    <3> QED BY <2>2, <2>3, <2>5, <3>3, <3>4
  <2> QED BY <2>4, <2>5
<1> HIDE DEF a, b, c
<1>9. a \o b = c
  BY <1>2, <1>3, <1>7, <1>8, SeqEqual
<1> QED BY <1>9 DEF a, b, c

\* A slice with one row more, and what Response makes of it.
LEMMA SliceFront ==
  ASSUME NEW T, NEW s \in Seq(T), NEW from \in Nat, NEW size \in Nat
  PROVE  /\ Len(Slice(s, from, size + 1)) > size
              => Front(Slice(s, from, size + 1)) = Slice(s, from, size)
         /\ Len(Slice(s, from, size + 1)) <= size
              => Slice(s, from, size + 1) = Slice(s, from, size)
         /\ Len(Slice(s, from, size + 1)) > size <=> from + size < Len(s)
<1> DEFINE a == Slice(s, from, size + 1)
<1> DEFINE b == Slice(s, from, size)
<1>1. Len(s) \in Nat /\ size + 1 \in Nat
  OBVIOUS
<1>2. a \in Seq(T) /\ b \in Seq(T) /\ Len(a) \in Nat /\ Len(b) \in Nat
  BY <1>1, SliceType
<1>3. /\ from + (size + 1) < Len(s) => Len(a) = size + 1
      /\ from < Len(s) /\ ~(from + (size + 1) < Len(s)) => Len(a) = Len(s) - from
      /\ ~(from < Len(s)) => Len(a) = 0
  BY <1>1, SliceLen
<1>4. from + size < Len(s) => Len(b) = size
  BY <1>1, SliceLen
<1>5. Len(a) > size <=> from + size < Len(s)
  <2> HIDE DEF a, b
  <2> QED BY <1>1, <1>2, <1>3
<1>6. ASSUME Len(a) > size PROVE Front(a) = b
  <2>1. Len(a) = size + 1 /\ Len(b) = size
    <3> HIDE DEF a, b
    <3> QED BY <1>1, <1>2, <1>3, <1>4, <1>5, <1>6
  <2>2. Front(a) \in Seq(T) /\ Len(Front(a)) = size /\ \A i \in 1..size : Front(a)[i] = a[i]
    <3>1. Len(a) > 0 /\ Len(a) - 1 = size
      BY <2>1
    <3> HIDE DEF a
    <3> QED BY <1>2, <3>1, FrontType
  <2>3. ASSUME NEW i \in 1..size PROVE Front(a)[i] = b[i]
    <3>1. i \in 1..Len(a) /\ i \in 1..Len(b)
      BY <2>1
    <3>2. a[i] = s[from + i] /\ b[i] = s[from + i]
      BY <1>1, <3>1, SliceType
    <3> QED BY <2>2, <3>2
  <2> HIDE DEF a, b
  <2> QED BY <1>2, <2>1, <2>2, <2>3, SeqEqual
<1>7. ASSUME Len(a) <= size PROVE a = b
  <2>1. SliceEnd(s, from, size + 1) = SliceEnd(s, from, size)
    BY <1>1, <1>5, <1>7 DEF SliceEnd
  <2> QED BY <1>1, <2>1, SliceSame
<1> QED BY <1>5, <1>6, <1>7

LEMMA SliceWhole ==
  ASSUME NEW T, NEW s \in Seq(T), NEW size \in Nat, Len(s) <= size
  PROVE  Slice(s, 0, size) = s
<1>1. Len(s) \in Nat
  OBVIOUS
<1>2. Slice(s, 0, size) = SubSeq(s, 1, Len(s))
  BY <1>1 DEF Slice
<1> QED BY <1>2, SubSeqFull

LEMMA SliceBeyond ==
  ASSUME NEW T, NEW s \in Seq(T), NEW from \in Nat, NEW size \in Nat, Len(s) <= from
  PROVE  Slice(s, from, size) = <<>>
<1>1. Len(s) \in Nat
  OBVIOUS
<1>2. Len(Slice(s, from, size)) = 0
  BY <1>1, SliceType DEF SliceEnd
<1> QED BY <1>2, SliceType, EmptySeq

-----------------------------------------------------------------------------
(* Rows ahead of a row, in a list without repetition.                      *)

LEMMA AheadAt ==
  ASSUME NEW T, NEW s \in Seq(T), IsInjective(s), NEW i \in 1..Len(s)
  PROVE  Ahead(s, s[i]) = {s[j] : j \in 1..(i - 1)}
<1>1. Len(s) \in Nat /\ DOMAIN s = 1..Len(s)
  OBVIOUS
<1>2. ASSUME NEW y \in Ahead(s, s[i]) PROVE y \in {s[j] : j \in 1..(i - 1)}
  <2>1. PICK j, k \in 1..Len(s) : j < k /\ s[j] = y /\ s[k] = s[i]
    BY <1>1, <1>2 DEF Ahead
  <2>2. k = i
    BY <1>1, <2>1 DEF IsInjective
  <2>3. j \in 1..(i - 1)
    BY <2>1, <2>2
  <2> QED BY <2>1, <2>3
<1>3. ASSUME NEW j \in 1..(i - 1) PROVE s[j] \in Ahead(s, s[i])
  <2>1. j \in 1..Len(s) /\ j < i
    BY <1>1
  <2> QED BY <1>1, <2>1 DEF Ahead, ToSet
<1> QED BY <1>2, <1>3

LEMMA PrefixCount ==
  ASSUME NEW T, NEW s \in Seq(T), IsInjective(s), NEW n \in 0..Len(s)
  PROVE  /\ IsFiniteSet({s[j] : j \in 1..n})
         /\ Cardinality({s[j] : j \in 1..n}) = n
<1> DEFINE U == {s[j] : j \in 1..n}
<1> DEFINE f == [j \in 1..n |-> s[j]]
<1>1. n \in Nat /\ \A j \in 1..n : j \in DOMAIN s
  OBVIOUS
<1>2. f \in [1..n -> U]
  OBVIOUS
<1>3. \A a, b \in 1..n : f[a] = f[b] => a = b
  BY <1>1 DEF IsInjective
<1>4. \A y \in U : \E j \in 1..n : f[j] = y
  OBVIOUS
<1> HIDE DEF f, U
<1>5. f \in Bijection(1..n, U)
  BY <1>2, <1>3, <1>4, Fun_IsBij
<1>6. ExistsBijection(1..n, U)
  BY <1>5 DEF ExistsBijection
<1>7. IsFiniteSet(1..n) /\ Cardinality(1..n) = n
  BY <1>1, FS_Interval
<1>8. IsFiniteSet(U) /\ Cardinality(U) = n
  BY <1>6, <1>7, FS_Bijection
<1> QED BY <1>8 DEF U

\* The place of a row is given by how many are ahead of it.
LEMMA AheadCount ==
  ASSUME NEW T, NEW s \in Seq(T), IsInjective(s), NEW i \in 1..Len(s)
  PROVE  IsFiniteSet(Ahead(s, s[i])) /\ Cardinality(Ahead(s, s[i])) = i - 1
<1>1. i - 1 \in 0..Len(s)
  OBVIOUS
<1>2. IsFiniteSet({s[j] : j \in 1..(i - 1)}) /\ Cardinality({s[j] : j \in 1..(i - 1)}) = i - 1
  BY <1>1, PrefixCount
<1>3. Ahead(s, s[i]) = {s[j] : j \in 1..(i - 1)}
  BY AheadAt
<1> QED BY <1>2, <1>3

LEMMA ListCount ==
  ASSUME NEW T, NEW s \in Seq(T), IsInjective(s)
  PROVE  IsFiniteSet(ToSet(s)) /\ Cardinality(ToSet(s)) = Len(s)
<1>1. Len(s) \in 0..Len(s) /\ ToSet(s) = {s[j] : j \in 1..Len(s)}
  BY DEF ToSet
<1> QED BY <1>1, PrefixCount

LEMMA AheadKeep ==
  ASSUME NEW T, NEW s \in Seq(T), IsInjective(s), NEW S, NEW x \in ToSet(s) \cap S
  PROVE  Ahead(Keep(s, S), x) = Ahead(s, x) \cap S
<1> DEFINE u == Keep(s, S)
<1> DEFINE P == At(s, S)
<1>1. /\ Len(s) \in Nat /\ DOMAIN s = 1..Len(s) /\ P \in SUBSET (1..Len(s))
      /\ u \in Seq(T) /\ DOMAIN u = 1..Len(u) /\ Len(u) = Cardinality(P)
  BY AtType, KeepType
<1>2. PICK i \in 1..Len(s) : s[i] = x
  BY <1>1 DEF ToSet
<1>3. i \in P
  BY <1>1, <1>2 DEF At
<1>4. ASSUME NEW y \in Ahead(u, x) PROVE y \in Ahead(s, x) \cap S
  <2>1. PICK a, b \in 1..Len(u) : a < b /\ u[a] = y /\ u[b] = x
    BY <1>1, <1>4 DEF Ahead
  <2>2. /\ Nth(s, S, a) \in P /\ Rank(P, Nth(s, S, a)) = a /\ y = s[Nth(s, S, a)]
        /\ Nth(s, S, b) \in P /\ Rank(P, Nth(s, S, b)) = b /\ x = s[Nth(s, S, b)]
    BY <1>1, <2>1, NthType, KeepType
  <2>3. Nth(s, S, a) \in 1..Len(s) /\ Nth(s, S, b) \in 1..Len(s) /\ y \in S
    BY <1>1, <2>2 DEF At
  <2> DEFINE p == Nth(s, S, a)
  <2> DEFINE q == Nth(s, S, b)
  <2>4. ~(q < p) /\ p # q
    <3>1. Rank(P, p) = a /\ Rank(P, q) = b /\ p \in P /\ q \in P
      BY <2>2
    <3> HIDE DEF p, q, P
    <3>2. q < p => Rank(P, q) < Rank(P, p)
      BY <1>1, <3>1, RankGrows
    <3>3. a \in Int /\ b \in Int
      OBVIOUS
    <3> QED BY <2>1, <3>1, <3>2, <3>3
  <2>5. Nth(s, S, a) < Nth(s, S, b)
    BY <2>3, <2>4
  <2> QED BY <1>1, <2>2, <2>3, <2>5 DEF Ahead, ToSet
<1>5. ASSUME NEW y \in Ahead(s, x) \cap S PROVE y \in Ahead(u, x)
  <2>1. PICK j, k \in 1..Len(s) : j < k /\ s[j] = y /\ s[k] = x
    BY <1>1, <1>5 DEF Ahead
  <2>2. j \in P /\ k \in P
    BY <1>1, <2>1 DEF At
  <2>3. Rank(P, j) < Rank(P, k)
    BY <1>1, <2>1, <2>2, RankGrows
  <2>4. /\ Rank(P, j) \in 1..Len(u) /\ u[Rank(P, j)] = y
        /\ Rank(P, k) \in 1..Len(u) /\ u[Rank(P, k)] = x
    BY <2>1, <2>2, KeepPlace
  <2> QED BY <1>1, <2>3, <2>4 DEF Ahead, ToSet
<1> QED BY <1>4, <1>5

\* A row put into a list leaves the others in their order.
LEMMA PutAt ==
  ASSUME NEW T, NEW s \in Seq(T), IsInjective(s), NEW x \in T, x \notin ToSet(s),
         NEW i \in 1..Len(s) + 1
  PROVE  /\ InsertAt(s, i, x) \in Seq(T)
         /\ IsInjective(InsertAt(s, i, x))
         /\ ToSet(InsertAt(s, i, x)) = {x} \cup ToSet(s)
         /\ \A y \in ToSet(s) : /\ Ahead(s, y) \subseteq Ahead(InsertAt(s, i, x), y)
                               /\ Ahead(InsertAt(s, i, x), y) \subseteq {x} \cup Ahead(s, y)
<1> DEFINE a == SubSeq(s, 1, i - 1)
<1> DEFINE b == SubSeq(s, i, Len(s))
<1> DEFINE u == InsertAt(s, i, x)
<1> DEFINE at(j) == IF j < i THEN j ELSE j + 1
<1>1. /\ Len(s) \in Nat /\ DOMAIN s = 1..Len(s) /\ i \in Int /\ 1 <= i /\ i <= Len(s) + 1
      /\ \A j \in 1..Len(s) : s[j] \in T
  OBVIOUS
<1>2. a \in Seq(T) /\ Len(a) = i - 1 /\ \A j \in 1..(i - 1) : a[j] = s[j]
  <2>1. 1 \in Int /\ i - 1 \in Int /\ \A j \in 1..(i - 1) : s[j] \in T
    BY <1>1
  <2>2. /\ a \in Seq(T) /\ Len(a) = IF 1 <= i - 1 THEN (i - 1) - 1 + 1 ELSE 0
        /\ \A j \in 1..(i - 1) - 1 + 1 : a[j] = s[1 + j - 1]
    BY <2>1, SubSeqProperties
  <2> HIDE DEF a
  <2>3. \A j \in 1..(i - 1) : 1 + j - 1 = j /\ j \in 1..(i - 1) - 1 + 1
    BY <1>1
  <2> QED BY <1>1, <2>2, <2>3
<1>3. /\ b \in Seq(T) /\ Len(b) = Len(s) - i + 1
      /\ \A j \in 1..Len(s) - i + 1 : b[j] = s[i + j - 1]
  <2>1. Len(s) \in Int /\ \A j \in i..Len(s) : s[j] \in T
    BY <1>1
  <2>2. /\ b \in Seq(T) /\ Len(b) = IF i <= Len(s) THEN Len(s) - i + 1 ELSE 0
        /\ \A j \in 1..Len(s) - i + 1 : b[j] = s[i + j - 1]
    BY <1>1, <2>1, SubSeqProperties
  <2> HIDE DEF b
  <2> QED BY <1>1, <2>2
<1>4. <<x>> \in Seq(T) /\ Len(<<x>>) = 1 /\ <<x>>[1] = x
  OBVIOUS
<1> HIDE DEF a, b
<1>5. /\ a \o <<x>> \in Seq(T) /\ Len(a \o <<x>>) = i
      /\ \A j \in 1..(i - 1) : (a \o <<x>>)[j] = s[j]
      /\ (a \o <<x>>)[i] = x
  <2>1. /\ a \o <<x>> \in Seq(T) /\ Len(a \o <<x>>) = Len(a) + 1
        /\ \A j \in 1..Len(a) + 1 :
             (a \o <<x>>)[j] = IF j <= Len(a) THEN a[j] ELSE <<x>>[j - Len(a)]
    BY <1>2, <1>4, ConcatProperties
  <2>2. Len(a) + 1 = i /\ i - Len(a) = 1 /\ ~(i <= Len(a)) /\ i \in 1..Len(a) + 1
    BY <1>1, <1>2
  <2>3. (a \o <<x>>)[i] = x
    BY <1>4, <2>1, <2>2
  <2>4. \A j \in 1..(i - 1) : j \in 1..Len(a) + 1 /\ j <= Len(a)
    BY <1>1, <1>2
  <2> QED BY <1>2, <2>1, <2>2, <2>3, <2>4
<1>6. /\ u \in Seq(T) /\ Len(u) = Len(s) + 1 /\ u[i] = x
      /\ \A j \in 1..Len(s) : u[at(j)] = s[j]
  <2> DEFINE c == a \o <<x>>
  <2>1. c \in Seq(T) /\ Len(c) = i /\ c[i] = x /\ \A j \in 1..(i - 1) : c[j] = s[j]
    BY <1>5
  <2>2. u = c \o b
    BY DEF InsertAt, a, b
  <2> HIDE DEF c, u
  <2>3. /\ u \in Seq(T) /\ Len(u) = Len(c) + Len(b)
        /\ \A j \in 1..Len(c) + Len(b) :
             u[j] = IF j <= Len(c) THEN c[j] ELSE b[j - Len(c)]
    BY <1>3, <2>1, <2>2, ConcatProperties
  <2>4. Len(u) = Len(s) + 1 /\ i \in 1..Len(u) /\ u[i] = x
    BY <1>1, <1>3, <2>1, <2>3
  <2>5. ASSUME NEW j \in 1..Len(s) PROVE u[at(j)] = s[j]
    <3>1. CASE j < i
      <4>1. j \in 1..Len(c) + Len(b) /\ j <= Len(c) /\ j \in 1..(i - 1)
        BY <1>1, <1>3, <2>1, <3>1
      <4> QED BY <2>1, <2>3, <3>1, <4>1
    <3>2. CASE ~(j < i)
      <4>1. /\ j + 1 \in 1..Len(c) + Len(b) /\ ~(j + 1 <= Len(c))
            /\ (j + 1) - Len(c) \in 1..Len(s) - i + 1
            /\ i + ((j + 1) - Len(c)) - 1 = j
        BY <1>1, <1>3, <2>1, <3>2
      <4> QED BY <1>3, <2>3, <3>2, <4>1
    <3> QED BY <3>1, <3>2
  <2> QED BY <2>3, <2>4, <2>5
<1> HIDE DEF u
<1>7. DOMAIN u = 1..Len(s) + 1
  BY <1>6
<1>8. ASSUME NEW k \in DOMAIN u, k # i
      PROVE  \E j \in 1..Len(s) : k = at(j) /\ u[k] = s[j]
  <2>1. CASE k < i
    <3>1. k \in 1..Len(s) /\ at(k) = k
      BY <1>1, <1>7, <2>1
    <3> QED BY <1>6, <3>1
  <2>2. CASE ~(k < i)
    <3>1. k - 1 \in 1..Len(s) /\ at(k - 1) = k
      BY <1>1, <1>7, <1>8, <2>2
    <3> QED BY <1>6, <3>1
  <2> QED BY <2>1, <2>2
<1>9. /\ i \in DOMAIN u
      /\ \A j \in 1..Len(s) : at(j) \in DOMAIN u /\ at(j) # i /\ s[j] # x
  <2>1. \A j \in 1..Len(s) : s[j] # x
    BY <1>1 DEF ToSet
  <2> QED BY <1>1, <1>7, <2>1
<1>10. \A j, k \in 1..Len(s) : j < k => at(j) < at(k)
  BY <1>1
<1> HIDE DEF at
<1>11. IsInjective(u)
  <2> SUFFICES ASSUME NEW k \in DOMAIN u, NEW l \in DOMAIN u, u[k] = u[l]
               PROVE  k = l
    BY DEF IsInjective
  <2>1. CASE k # i /\ l # i
    <3>1. PICK j \in 1..Len(s) : k = at(j) /\ u[k] = s[j]
      BY <1>8, <2>1
    <3>2. PICK m \in 1..Len(s) : l = at(m) /\ u[l] = s[m]
      BY <1>8, <2>1
    <3>3. j = m
      BY <1>1, <3>1, <3>2 DEF IsInjective
    <3> QED BY <3>1, <3>2, <3>3
  <2>2. CASE k = i /\ l # i
    BY <1>6, <1>8, <1>9, <2>2
  <2>3. CASE k # i /\ l = i
    BY <1>6, <1>8, <1>9, <2>3
  <2> QED BY <2>1, <2>2, <2>3
<1>12. ToSet(u) = {x} \cup ToSet(s)
  <2>1. ASSUME NEW k \in DOMAIN u PROVE u[k] \in {x} \cup ToSet(s)
    <3>1. CASE k = i
      BY <1>6, <3>1
    <3>2. CASE k # i
      BY <1>1, <1>8, <3>2 DEF ToSet
    <3> QED BY <3>1, <3>2
  <2>2. \A j \in 1..Len(s) : s[j] \in ToSet(u)
    BY <1>6, <1>9 DEF ToSet
  <2>3. x \in ToSet(u)
    BY <1>6, <1>9 DEF ToSet
  <2>4. ToSet(u) \subseteq {x} \cup ToSet(s)
    BY <2>1 DEF ToSet
  <2>5. ToSet(s) \subseteq ToSet(u)
    BY <1>1, <2>2 DEF ToSet
  <2> QED BY <2>3, <2>4, <2>5
<1>13. ASSUME NEW y \in ToSet(s), NEW z \in Ahead(s, y) PROVE z \in Ahead(u, y)
  <2>1. PICK j, k \in 1..Len(s) : j < k /\ s[j] = z /\ s[k] = y
    BY <1>1, <1>13 DEF Ahead
  <2>2. /\ at(j) \in DOMAIN u /\ at(k) \in DOMAIN u /\ at(j) < at(k)
        /\ u[at(j)] = z /\ u[at(k)] = y
    BY <1>6, <1>9, <1>10, <2>1
  <2> QED BY <2>2 DEF Ahead, ToSet
<1>14. ASSUME NEW y \in ToSet(s), NEW z \in Ahead(u, y), z # x PROVE z \in Ahead(s, y)
  <2>1. PICK k, l \in DOMAIN u : k < l /\ u[k] = z /\ u[l] = y
    BY <1>14 DEF Ahead
  <2>2. y # x
    BY <1>14
  <2>3. k # i /\ l # i
    BY <1>6, <1>14, <2>1, <2>2
  <2>4. PICK j \in 1..Len(s) : k = at(j) /\ u[k] = s[j]
    BY <1>8, <2>3
  <2>5. PICK m \in 1..Len(s) : l = at(m) /\ u[l] = s[m]
    BY <1>8, <2>3
  <2>6. k \in Int /\ l \in Int /\ j \in Int /\ m \in Int
    BY <1>1, <1>7
  <2>7. j < m
    <3>1. CASE m < j
      <4>1. l < k
        BY <1>10, <2>4, <2>5, <3>1
      <4> QED BY <2>1, <2>6, <4>1
    <3>2. CASE m = j
      BY <2>1, <2>4, <2>5, <2>6, <3>2
    <3> QED BY <2>6, <3>1, <3>2
  <2> QED BY <1>1, <2>1, <2>4, <2>5, <2>7 DEF Ahead, ToSet
<1> QED BY <1>6, <1>11, <1>12, <1>13, <1>14 DEF u

\* The rows of a slice, kept in the order of the list, are the slice.
LEMMA KeepSlice ==
  ASSUME NEW T, NEW s \in Seq(T), IsInjective(s), NEW from \in Nat, NEW size \in Nat
  PROVE  Keep(s, ToSet(Slice(s, from, size))) = Slice(s, from, size)
<1> DEFINE u == Slice(s, from, size)
<1> DEFINE S == ToSet(u)
<1> DEFINE e == SliceEnd(s, from, size)
<1> DEFINE P == {j \in 1..Len(s) : from < j /\ j <= from + size}
<1>1. Len(s) \in Nat /\ DOMAIN s = 1..Len(s) /\ e \in Nat
  BY SliceType
<1>2. S = {s[i] : i \in P}
  <2>1. ToSet(Slice(s, from, size)) = {s[i] : i \in {j \in 1..Len(s) : from < j /\ j <= from + size}}
    BY SliceSet, SMTT(40)
  <2> QED BY <2>1
<1>3. At(s, S) = P
  BY <1>1, <1>2 DEF At, IsInjective
<1>4. P = (from + 1)..e
  BY <1>1 DEF SliceEnd
<1>5. u \in Seq(T) /\ Len(u) = IF from < e THEN e - from ELSE 0
  BY SliceType
<1> HIDE DEF e
<1>6. Cardinality(P) = Len(u)
  <2>1. from + 1 \in Int /\ e \in Int
    BY <1>1
  <2>2. Cardinality((from + 1)..e) = IF from + 1 > e THEN 0 ELSE e - (from + 1) + 1
    BY <2>1, FS_Interval
  <2>3. Cardinality(P) = IF from + 1 > e THEN 0 ELSE e - (from + 1) + 1
    BY <1>4, <2>2
  <2> HIDE DEF P, u
  <2>4. CASE from < e
    BY <1>1, <1>5, <2>3, <2>4
  <2>5. CASE ~(from < e)
    BY <1>1, <1>5, <2>3, <2>5
  <2> QED BY <2>4, <2>5
<1>7. ASSUME NEW i \in 1..Len(u) PROVE Keep(s, S)[i] = u[i]
  <2>1. from + i \in P
    <3>1. i \in Nat /\ i >= 1 /\ from < e /\ i <= e - from
      <4> HIDE DEF u
      <4>1. i \in Nat /\ i >= 1 /\ i <= Len(u)
        BY <1>1, <1>5
      <4> QED BY <1>1, <1>5, <4>1
    <3>2. from + i \in (from + 1)..e
      BY <3>1, <1>1
    <3> QED BY <1>4, <3>2
  <2>2. {j \in P : j <= from + i} = (from + 1)..(from + i)
    BY <1>1, <1>4, <2>1
  <2>3. Cardinality((from + 1)..(from + i)) = i
    <3>1. from + 1 \in Int /\ from + i \in Int /\ ~(from + 1 > from + i)
      OBVIOUS
    <3>2. Cardinality((from + 1)..(from + i)) = (from + i) - (from + 1) + 1
      BY <3>1, FS_Interval
    <3> QED BY <3>2
  <2>4. Rank(P, from + i) = i
    BY <2>2, <2>3 DEF Rank
  <2>5. Keep(s, S)[i] = s[from + i]
    <3> HIDE DEF P, S
    <3> QED BY <1>3, <2>1, <2>4, KeepPlace
  <2>6. u[i] = s[from + i]
    BY SliceType
  <2> QED BY <2>5, <2>6
<1>8. Keep(s, S) \in Seq(T) /\ Len(Keep(s, S)) = Len(u)
  <2> HIDE DEF P, S
  <2> QED BY <1>3, <1>6, KeepType
<1> HIDE DEF u, S
<1> QED BY <1>5, <1>7, <1>8, SeqEqual DEF S, u

\* The list of a finite set.
LEMMA ListOfSet ==
  ASSUME NEW S, IsFiniteSet(S)
  PROVE  /\ SetToSeq(S) \in Seq(S)
         /\ IsInjective(SetToSeq(S))
         /\ ToSet(SetToSeq(S)) = S
<1> DEFINE n == Cardinality(S)
<1>1. n \in Nat /\ ExistsBijection(1..n, S)
  BY FS_CardinalityType
<1>2. PICK f \in Bijection(1..n, S) : TRUE
  BY <1>1 DEF ExistsBijection
<1>3. f \in [1..n -> S] /\ \A a, b \in 1..n : f[a] = f[b] => a = b
  <2> HIDE DEF n
  <2> QED BY <1>2, Fun_BijectionProperties
<1>4. f \in [1..n -> S] /\ IsInjective(f)
  BY <1>3 DEF IsInjective
<1> DEFINE g == SetToSeq(S)
<1>5. g \in [1..n -> S] /\ IsInjective(g)
  BY <1>4 DEF SetToSeq
<1> HIDE DEF g, n
<1>6. g \in Injection(1..n, S)
  BY <1>5 DEF Injection
<1>7. IsFiniteSet(1..n) /\ Cardinality(1..n) = n
  BY <1>1, FS_Interval
<1>8. g \in Surjection(1..n, S)
  BY <1>6, <1>7, FS_Injection DEF n
<1>9. \A y \in S : \E i \in 1..n : g[i] = y
  <2> DEFINE N == 1..n
  <2>1. g \in Surjection(N, S)
    BY <1>8
  <2> HIDE DEF N
  <2>2. \A y \in S : \E i \in N : g[i] = y
    BY <2>1, Fun_SurjectionProperties
  <2> QED BY <2>2 DEF N
<1>10. g \in Seq(S)
  BY <1>1, <1>5
<1>11. ToSet(g) = S
  BY <1>5, <1>9 DEF ToSet
<1> QED BY <1>5, <1>10, <1>11 DEF g
=============================================================================
