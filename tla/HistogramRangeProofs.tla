------------------------ MODULE HistogramRangeProofs ------------------------
(* Proofs about HistogramRange for any rows, requests and limits: what the  *)
(* engine reads of a built series, and that each SQL statement gives what   *)
(* the engine gives. The first sections are a theory of what the models are *)
(* made of: ranks, selected and sorted sequences, and sums.                 *)
EXTENDS HistogramRange, FiniteSetTheorems, SequenceTheorems, TLAPS

-----------------------------------------------------------------------------
(* Ranks.                                                                   *)

(* R orders S totally.                                                      *)
TotalOrder(R, S) ==
    /\ \A x \in S : <<x, x>> \in R
    /\ \A x, y \in S : <<x, y>> \in R \/ <<y, x>> \in R
    /\ \A x, y \in S : <<x, y>> \in R /\ <<y, x>> \in R => x = y
    /\ \A x, y, z \in S : <<x, y>> \in R /\ <<y, z>> \in R => <<x, z>> \in R

Below(R, S, x) == {y \in S : <<y, x>> \in R}

(* The rank grows with the order.                                           *)
LEMMA RankGrows ==
    ASSUME NEW S, IsFiniteSet(S), NEW R, TotalOrder(R, S),
           NEW x \in S, NEW y \in S, <<x, y>> \in R, x # y
    PROVE  Cardinality(Below(R, S, x)) < Cardinality(Below(R, S, y))
  <1>1. Below(R, S, x) \subseteq Below(R, S, y) /\ Below(R, S, y) \subseteq S
    BY DEF TotalOrder, Below
  <1>2. y \in Below(R, S, y) /\ y \notin Below(R, S, x)
    BY DEF TotalOrder, Below
  <1>3. IsFiniteSet(Below(R, S, y))
    BY <1>1, FS_Subset
  <1>4. /\ IsFiniteSet(Below(R, S, x))
        /\ Cardinality(Below(R, S, x)) <= Cardinality(Below(R, S, y))
        /\ Cardinality(Below(R, S, y)) = Cardinality(Below(R, S, x)) => Below(R, S, y) = Below(R, S, x)
    BY <1>1, <1>3, FS_Subset
  <1>5. Cardinality(Below(R, S, x)) \in Nat /\ Cardinality(Below(R, S, y)) \in Nat
    BY <1>3, <1>4, FS_CardinalityType
  <1> QED
    BY <1>2, <1>4, <1>5

(* Every rank is taken.                                                     *)
LEMMA RankTaken ==
    ASSUME NEW S, IsFiniteSet(S), NEW R, TotalOrder(R, S)
    PROVE  /\ Cardinality(S) \in Nat
           /\ \A k \in 1..Cardinality(S) : \E x \in S : Cardinality(Below(R, S, x)) = k
           /\ \A x \in S : Cardinality(Below(R, S, x)) \in 1..Cardinality(S)
  <1> DEFINE n == Cardinality(S)
             T == 1..n
             f == [x \in S |-> Cardinality(Below(R, S, x))]
  <1>1. n \in Nat
    BY FS_CardinalityType
  <1>2. ASSUME NEW x \in S PROVE Cardinality(Below(R, S, x)) \in T
    <2>1. Below(R, S, x) \subseteq S /\ x \in Below(R, S, x)
      BY DEF Below, TotalOrder
    <2>2. IsFiniteSet(Below(R, S, x)) /\ Cardinality(Below(R, S, x)) <= n
      BY <2>1, FS_Subset
    <2>3. Cardinality(Below(R, S, x)) \in Nat /\ Cardinality(Below(R, S, x)) # 0
      BY <2>1, <2>2, FS_CardinalityType, FS_EmptySet
    <2> QED
      BY <1>1, <2>2, <2>3
  <1>3. \A x, y \in S : f[x] = f[y] => x = y
    <2> SUFFICES ASSUME NEW x \in S, NEW y \in S, f[x] = f[y], x # y PROVE FALSE
      OBVIOUS
    <2>1. f[x] \in Nat /\ f[y] \in Nat
      BY <1>2
    <2>2. CASE <<x, y>> \in R
      BY <2>1, <2>2, RankGrows
    <2>3. CASE <<y, x>> \in R
      BY <2>1, <2>3, RankGrows
    <2> QED
      BY <2>2, <2>3 DEF TotalOrder
  <1>4. f \in [S -> T] /\ DOMAIN f = S
    BY <1>2
  <1>5. IsFiniteSet(T) /\ Cardinality(T) = n
    <2>1. IsFiniteSet(T) /\ Cardinality(T) = IF 1 > n THEN 0 ELSE n - 1 + 1
      BY <1>1, FS_Interval
    <2> QED
      BY <1>1, <2>1
  <1>6. \A x \in S : f[x] = Cardinality(Below(R, S, x))
    OBVIOUS
  <1> HIDE DEF f, T
  <1>7. f \in Injection(S, T)
    BY <1>3, <1>4 DEF Injection, IsInjective
  <1>8. f \in Surjection(S, T)
    BY <1>5, <1>7, FS_Injection
  <1>9. \A k \in T : \E x \in S : f[x] = k
    BY <1>8 DEF Surjection
  <1> QED
    BY <1>1, <1>2, <1>6, <1>9 DEF T

(* A sequence that has the element of rank k at k.                          *)
ByRank(order, R, S) ==
    /\ DOMAIN order = 1..Cardinality(S)
    /\ \A k \in 1..Cardinality(S) :
          order[k] \in S /\ Cardinality(Below(R, S, order[k])) = k

(* Such a sequence lists S in order.                                        *)
LEMMA RankedSequence ==
    ASSUME NEW S, IsFiniteSet(S), NEW R, TotalOrder(R, S), NEW order, ByRank(order, R, S)
    PROVE  /\ \A k, l \in 1..Cardinality(S) : k < l => <<order[k], order[l]>> \in R /\ order[k] # order[l]
           /\ \A x \in S : \E k \in 1..Cardinality(S) : order[k] = x
  <1>1. ASSUME NEW k \in 1..Cardinality(S), NEW l \in 1..Cardinality(S), k < l
        PROVE  <<order[k], order[l]>> \in R /\ order[k] # order[l]
    <2>0. /\ order[k] \in S /\ Cardinality(Below(R, S, order[k])) = k
          /\ order[l] \in S /\ Cardinality(Below(R, S, order[l])) = l
      BY DEF ByRank
    <2>1. order[k] # order[l]
      BY <1>1, <2>0
    <2>2. CASE <<order[l], order[k]>> \in R
      <3>1. Cardinality(Below(R, S, order[l])) < Cardinality(Below(R, S, order[k]))
        BY <2>0, <2>1, <2>2, RankGrows
      <3> QED
        BY <1>1, <2>0, <3>1
    <2> QED
      BY <2>0, <2>1, <2>2 DEF TotalOrder
  <1>2. ASSUME NEW x \in S PROVE \E k \in 1..Cardinality(S) : order[k] = x
    <2> DEFINE k == Cardinality(Below(R, S, x))
    <2>1. k \in 1..Cardinality(S)
      BY RankTaken
    <2>2. order[k] \in S /\ Cardinality(Below(R, S, order[k])) = k
      BY <2>1 DEF ByRank
    <2>3. order[k] = x
      <3> SUFFICES ASSUME order[k] # x PROVE FALSE
        OBVIOUS
      <3>1. CASE <<x, order[k]>> \in R
        BY <2>1, <2>2, <3>1, RankGrows
      <3>2. CASE <<order[k], x>> \in R
        BY <2>1, <2>2, <3>2, RankGrows
      <3> QED
        BY <2>2, <3>1, <3>2 DEF TotalOrder
    <2> QED
      BY <2>1, <2>3
  <1> QED
    BY <1>1, <1>2

-----------------------------------------------------------------------------
(* Induction.                                                               *)

(* A nonempty set of naturals has a least element.                          *)
LEMMA LeastNatural ==
    ASSUME NEW T \in SUBSET Nat, T # {}
    PROVE  \E i \in T : \A j \in T : i <= j
  <1> DEFINE Less == {ss \in Nat \X Nat : ss[1] < ss[2]}
  <1>1. IsWellFoundedOn(Less, Nat)
    BY NatLessThanWellFounded, Zenon DEF OpToRel
  <1> HIDE DEF Less
  <1>2. \E i \in T : \A j \in T : ~(<<j, i>> \in Less)
    BY <1>1, WFMin
  <1>3. PICK i \in T : \A j \in T : ~(<<j, i>> \in Less)
    BY <1>2
  <1>4. ASSUME NEW j \in T PROVE i <= j
    <2>1. i \in Nat /\ j \in Nat /\ ~(<<j, i>> \in Less)
      BY <1>3
    <2>2. j < i => <<j, i>> \in Less
      BY <2>1 DEF Less
    <2> QED
      BY <2>1, <2>2
  <1> QED
    BY <1>3, <1>4

(* Induction, for a property given as the set of numbers that have it.      *)
LEMMA InductionBySet ==
    ASSUME NEW S, 0 \in S, \A n \in Nat : n \in S => n + 1 \in S
    PROVE  \A n \in Nat : n \in S
  <1> SUFFICES ASSUME NEW T, T = Nat \ S, T # {} PROVE FALSE
    OBVIOUS
  <1>1. T \in SUBSET Nat
    OBVIOUS
  <1>2. PICK i \in T : \A j \in T : i <= j
    BY <1>1, LeastNatural
  <1>3. i \in Nat /\ i \notin S /\ i # 0
    BY <1>2
  <1>4. i - 1 \in Nat /\ i - 1 \notin T
    BY <1>2, <1>3
  <1> QED
    BY <1>3, <1>4

-----------------------------------------------------------------------------
(* Selecting and sorting.                                                   *)

(* A point of a series: a stored value or a stale marker.                   *)
Point == [t : Int, v : Int \cup {Stale}]

(* In time order; with one point per time.                                  *)
Timed(s) == \A i, j \in DOMAIN s : i < j => s[i].t <= s[j].t
Strict(s) == \A i, j \in DOMAIN s : i < j => s[i].t < s[j].t

Increasing(order, n) == \A k, l \in 1..n : k < l => order[k] < order[l]

(* The usual order, as a relation.                                          *)
UpTo(I) == {p \in I \X I : p[1] <= p[2]}

(* Every rank is taken by a number of the set.                              *)
LEMMA NumbersRanked ==
    ASSUME NEW I, I \subseteq Int, IsFiniteSet(I)
    PROVE  /\ TotalOrder(UpTo(I), I)
           /\ Cardinality(I) \in Nat
           /\ \A x \in I : {y \in I : y <= x} = Below(UpTo(I), I, x)
           /\ \A k \in 1..Cardinality(I) : \E x \in I : Cardinality({y \in I : y <= x}) = k
  <1>1. \A x, y \in I : <<x, y>> \in UpTo(I) <=> x <= y
    BY DEF UpTo
  <1>2. TotalOrder(UpTo(I), I)
    BY <1>1 DEF TotalOrder
  <1>3. \A x \in I : {y \in I : y <= x} = Below(UpTo(I), I, x)
    BY <1>1 DEF Below
  <1>4. \A k \in 1..Cardinality(I) : \E x \in I : Cardinality(Below(UpTo(I), I, x)) = k
    BY ONLY IsFiniteSet(I), <1>2, RankTaken
  <1> QED
    BY <1>2, <1>3, <1>4, FS_CardinalityType

(* The elements of a finite set of numbers, in order.                       *)
LEMMA RankedNumbers ==
    ASSUME NEW I, I \subseteq Int, IsFiniteSet(I)
    PROVE  /\ Cardinality(I) \in Nat
           /\ Ranked(I, <=) \in [1..Cardinality(I) -> I]
           /\ Increasing(Ranked(I, <=), Cardinality(I))
           /\ \A x \in I : \E k \in 1..Cardinality(I) : Ranked(I, <=)[k] = x
  <1> DEFINE order == [k \in 1..Cardinality(I) |->
                          CHOOSE x \in I : Cardinality({y \in I : y <= x}) = k]
  <1>1. Ranked(I, <=) = order
    BY DEF Ranked
  <1>2. ASSUME NEW k \in 1..Cardinality(I)
        PROVE  order[k] \in I /\ Cardinality(Below(UpTo(I), I, order[k])) = k
    <2>1. \E x \in I : Cardinality({y \in I : y <= x}) = k
      BY NumbersRanked
    <2>2. order[k] = CHOOSE x \in I : Cardinality({y \in I : y <= x}) = k
      OBVIOUS
    <2> HIDE DEF order
    <2>3. order[k] \in I /\ Cardinality({y \in I : y <= order[k]}) = k
      BY <2>1, <2>2
    <2> QED
      BY <2>3, NumbersRanked
  <1>3. DOMAIN order = 1..Cardinality(I) /\ order \in [1..Cardinality(I) -> I]
    BY <1>2
  <1>4. TotalOrder(UpTo(I), I) /\ Cardinality(I) \in Nat
    BY NumbersRanked
  <1> HIDE DEF order
  <1>5. \A k \in 1..Cardinality(I) :
           order[k] \in I /\ Cardinality(Below(UpTo(I), I, order[k])) = k
    BY <1>2
  <1>6. /\ \A k, l \in 1..Cardinality(I) :
              k < l => <<order[k], order[l]>> \in UpTo(I) /\ order[k] # order[l]
        /\ \A x \in I : \E k \in 1..Cardinality(I) : order[k] = x
    <2>1. ByRank(order, UpTo(I), I)
      BY <1>3, <1>5 DEF ByRank
    <2>2. TotalOrder(UpTo(I), I)
      BY <1>4
    <2> QED
      BY ONLY IsFiniteSet(I), <2>1, <2>2, RankedSequence
  <1>7. ASSUME NEW k \in 1..Cardinality(I), NEW l \in 1..Cardinality(I), k < l
        PROVE  order[k] < order[l]
    <2>1. order[k] \in Int /\ order[l] \in Int /\ order[k] # order[l]
      BY <1>5, <1>6, <1>7
    <2>2. <<order[k], order[l]>> \in UpTo(I)
      BY <1>6, <1>7
    <2>3. order[k] <= order[l]
      BY <2>2 DEF UpTo
    <2> QED
      BY <2>1, <2>3
  <1>8. Increasing(order, Cardinality(I))
    BY <1>7 DEF Increasing
  <1> QED
    BY <1>1, <1>3, <1>4, <1>6, <1>8

(* The selected elements come in their order, each once.                    *)
LEMMA PickedElements ==
    ASSUME NEW T, NEW s \in Seq(T), NEW I \in SUBSET DOMAIN s
    PROVE  /\ Picked(s, I) \in Seq(T)
           /\ Len(Picked(s, I)) = Cardinality(I)
           /\ Cardinality(I) \in Nat
           /\ \E order \in [1..Cardinality(I) -> I] :
                /\ Increasing(order, Cardinality(I))
                /\ \A x \in I : \E k \in 1..Cardinality(I) : order[k] = x
                /\ \A k \in 1..Cardinality(I) : Picked(s, I)[k] = s[order[k]]
  <1> DEFINE n == Cardinality(I)
             order == Ranked(I, <=)
             u == [k \in 1..n |-> s[order[k]]]
  <1>1. DOMAIN s = 1..Len(s) /\ Len(s) \in Nat
    BY LenProperties
  <1>2. IsFiniteSet(I) /\ I \in SUBSET Int
    <2>1. IsFiniteSet(DOMAIN s)
      BY <1>1, FS_Interval
    <2>2. IsFiniteSet(I)
      BY <2>1, FS_Subset
    <2> QED
      BY <1>1, <2>2
  <1>3. /\ n \in Nat /\ order \in [1..n -> I] /\ Increasing(order, n)
        /\ \A x \in I : \E k \in 1..n : order[k] = x
    BY <1>2, RankedNumbers
  <1>4. DOMAIN order = 1..n
    BY <1>3
  <1>5. Picked(s, I) = [k \in DOMAIN order |-> s[order[k]]]
    BY DEF Picked
  <1>6. Picked(s, I) = u
    BY <1>4, <1>5
  <1> HIDE DEF n, order
  <1>7. \A k \in 1..n : s[order[k]] \in T
    BY <1>1, <1>3, ElementOfSeq
  <1>8. u \in [1..n -> T]
    BY <1>7
  <1>9. u \in Seq(T) /\ Len(u) = n
    <2>1. u \in Seq(T)
      BY <1>3, <1>7, IsASeq
    <2>2. DOMAIN u = 1..n
      OBVIOUS
    <2> HIDE DEF u
    <2> QED
      BY <1>3, <2>1, <2>2, LenProperties
  <1>10. \A k \in 1..n : u[k] = s[order[k]]
    OBVIOUS
  <1> HIDE DEF u
  <1> QED
    BY <1>3, <1>6, <1>9, <1>10 DEF n

(* The first of the numbers 1..n with a property, given as a set.           *)
LEMMA FirstIndex ==
    ASSUME NEW n \in Nat, NEW Bad, NEW k \in 1..n, k \in Bad
    PROVE  \E i \in 1..n : i \in Bad /\ \A j \in 1..(i - 1) : j \notin Bad
  <1> DEFINE T == {i \in 1..n : i \in Bad}
  <1>1. T \in SUBSET Nat /\ T # {}
    OBVIOUS
  <1>2. PICK i \in T : \A j \in T : i <= j
    <2> HIDE DEF T
    <2> QED
      BY <1>1, LeastNatural
  <1>3. \A j \in 1..(i - 1) : j \notin Bad
    BY <1>2
  <1> QED
    BY <1>2, <1>3

(* Points of a series.                                                      *)
LEMMA PointAt ==
    ASSUME NEW s \in Seq(Point), NEW i \in DOMAIN s
    PROVE  /\ s[i] \in Point /\ s[i].t \in Int /\ s[i].v \in Int \cup {Stale}
           /\ DOMAIN s = 1..Len(s) /\ Len(s) \in Nat /\ i \in Int
  <1>1. s[i] \in Point /\ DOMAIN s = 1..Len(s) /\ Len(s) \in Nat
    BY LenProperties, ElementOfSeq
  <1> QED
    BY <1>1 DEF Point

(* Of two sequences with the same points in strict order, the first is not  *)
(* the longer one.                                                          *)
LEMMA StrictNotLonger ==
    ASSUME NEW s \in Seq(Point), NEW u \in Seq(Point), Strict(s), Range(s) \subseteq Range(u),
           \A k \in 1..Len(u) : k \in DOMAIN s => s[k] = u[k]
    PROVE  Len(s) <= Len(u)
  <1> SUFFICES ASSUME Len(s) > Len(u) PROVE FALSE
    BY LenProperties
  <1> DEFINE k == Len(u) + 1
  <1>1. k \in DOMAIN s /\ DOMAIN s = 1..Len(s) /\ DOMAIN u = 1..Len(u) /\ Len(u) \in Nat /\ Len(s) \in Nat
    BY LenProperties
  <1>2. PICK j \in DOMAIN u : s[k] = u[j]
    BY <1>1 DEF Range
  <1>3. j \in DOMAIN s /\ s[j] = s[k] /\ j < k
    BY <1>1, <1>2
  <1>4. s[j].t \in Int /\ s[j].t < s[k].t
    BY <1>1, <1>3, PointAt DEF Strict
  <1> QED
    BY <1>3, <1>4

(* A sequence in strict time order is determined by its points.             *)
LEMMA StrictUnique ==
    ASSUME NEW s \in Seq(Point), NEW u \in Seq(Point), Strict(s), Strict(u), Range(s) = Range(u)
    PROVE  s = u
  <1>1. /\ DOMAIN s = 1..Len(s) /\ DOMAIN u = 1..Len(u) /\ Len(u) \in Nat /\ Len(s) \in Nat
    BY LenProperties
  <1>2. \A k \in 1..Len(s) : k \in DOMAIN u => s[k] = u[k]
    <2> DEFINE Bad == {k \in Nat : k \in DOMAIN s /\ k \in DOMAIN u /\ s[k] # u[k]}
    <2> SUFFICES ASSUME NEW m \in 1..Len(s), m \in Bad PROVE FALSE
      BY <1>1
    <2>1. PICK k \in 1..Len(s) : k \in Bad /\ \A j \in 1..(k - 1) : j \notin Bad
      <3> HIDE DEF Bad
      <3> QED
        BY <1>1, FirstIndex
    <2>2. k \in DOMAIN s /\ k \in DOMAIN u /\ s[k] # u[k]
      BY <2>1
    <2>3. \A j \in 1..(k - 1) : j \in DOMAIN s /\ j \in DOMAIN u /\ s[j] = u[j]
      BY <1>1, <2>1, <2>2
    <2>4. PICK j \in DOMAIN u : s[k] = u[j]
      BY <2>2 DEF Range
    <2>5. PICK l \in DOMAIN s : u[k] = s[l]
      BY <2>2 DEF Range
    <2>6. j \in Int /\ l \in Int /\ k \in Int
      BY <1>1
    <2>7. /\ s[k].t \in Int /\ u[k].t \in Int /\ s[l].t \in Int /\ u[j].t \in Int
      BY <2>2, <2>4, <2>5, PointAt
    <2>8. j > k
      <3>1. CASE j < k
        <4>1. s[j] = u[j] /\ j \in DOMAIN s
          BY <1>1, <2>3, <3>1
        <4>2. s[j].t < s[k].t
          BY <2>2, <3>1, <4>1 DEF Strict
        <4> QED
          BY <2>4, <2>7, <4>1, <4>2
      <3> QED
        BY <2>2, <2>4, <2>6, <3>1
    <2>9. l > k
      <3>1. CASE l < k
        <4>1. s[l] = u[l] /\ l \in DOMAIN u
          BY <1>1, <2>3, <3>1
        <4>2. u[l].t < u[k].t
          BY <2>2, <3>1, <4>1 DEF Strict
        <4> QED
          BY <2>5, <2>7, <4>1, <4>2
      <3> QED
        BY <2>2, <2>5, <2>6, <3>1
    <2>10. u[k].t < u[j].t /\ s[k].t < s[l].t
      BY <2>2, <2>8, <2>9 DEF Strict
    <2> QED
      BY <2>4, <2>5, <2>7, <2>10
  <1>3. Len(s) <= Len(u)
    <2>1. \A k \in 1..Len(u) : k \in DOMAIN s => s[k] = u[k]
      BY <1>1, <1>2
    <2> QED
      BY <2>1, StrictNotLonger
  <1>4. Len(u) <= Len(s)
    <2>1. \A k \in 1..Len(s) : k \in DOMAIN u => u[k] = s[k]
      BY <1>1, <1>2
    <2> QED
      BY <2>1, StrictNotLonger
  <1>5. Len(s) = Len(u)
    <2>1. Len(s) \in Int /\ Len(u) \in Int
      BY <1>1
    <2> QED
      BY ONLY <1>3, <1>4, <2>1
  <1>6. \A k \in 1..Len(s) : s[k] = u[k]
    BY <1>1, <1>2, <1>5
  <1> QED
    BY <1>5, <1>6, SeqEqual

(* A selection of a series.                                                 *)
LEMMA PickedPoints ==
    ASSUME NEW s \in Seq(Point), NEW I \in SUBSET DOMAIN s
    PROVE  /\ Picked(s, I) \in Seq(Point)
           /\ Range(Picked(s, I)) = {s[i] : i \in I}
           /\ Timed(s) => Timed(Picked(s, I))
           /\ Strict(s) => Strict(Picked(s, I))
  <1> DEFINE u == Picked(s, I)
             n == Cardinality(I)
  <1>1. u \in Seq(Point) /\ Len(u) = n /\ n \in Nat
    BY PickedElements
  <1>2. PICK order \in [1..n -> I] :
                /\ Increasing(order, n)
                /\ \A x \in I : \E k \in 1..n : order[k] = x
                /\ \A k \in 1..n : u[k] = s[order[k]]
    BY PickedElements
  <1> HIDE DEF u, n
  <1>3. DOMAIN u = 1..n
    BY <1>1, LenProperties
  <1>4. \A k \in 1..n : order[k] \in I /\ order[k] \in DOMAIN s
    BY <1>2
  <1>5. Range(u) = {s[i] : i \in I}
    <2>1. \A p \in Range(u) : p \in {s[i] : i \in I}
      BY <1>2, <1>3, <1>4 DEF Range
    <2>2. ASSUME NEW i \in I PROVE s[i] \in Range(u)
      BY <1>2, <1>3 DEF Range
    <2> QED
      BY <2>1, <2>2
  <1>6. ASSUME NEW k \in DOMAIN u, NEW l \in DOMAIN u, k < l
        PROVE  order[k] < order[l] /\ order[k] \in DOMAIN s /\ order[l] \in DOMAIN s
               /\ u[k] = s[order[k]] /\ u[l] = s[order[l]]
    BY <1>2, <1>3, <1>4, <1>6 DEF Increasing
  <1>7. Timed(s) => Timed(u)
    BY <1>6 DEF Timed
  <1>8. Strict(s) => Strict(u)
    BY <1>6 DEF Strict
  <1> QED
    BY <1>1, <1>5, <1>7, <1>8 DEF u

(* The order of sortSamples: by time, then by place.                        *)
Earlier(s, i, j) == s[i].t < s[j].t \/ (s[i].t = s[j].t /\ i <= j)
TimeOrder(s) == {p \in (DOMAIN s) \X (DOMAIN s) : Earlier(s, p[1], p[2])}

LEMMA TimeOrderPair ==
    ASSUME NEW s, NEW i \in DOMAIN s, NEW j \in DOMAIN s
    PROVE  <<i, j>> \in TimeOrder(s) <=> (s[i].t < s[j].t \/ (s[i].t = s[j].t /\ i <= j))
  <1>1. <<i, j>> \in TimeOrder(s) <=> Earlier(s, i, j)
    BY DEF TimeOrder
  <1> QED
    BY <1>1, Zenon DEF Earlier

LEMMA TimeOrderTotal ==
    ASSUME NEW s \in Seq(Point)
    PROVE  /\ IsFiniteSet(DOMAIN s) /\ Cardinality(DOMAIN s) = Len(s) /\ Len(s) \in Nat
           /\ DOMAIN s = 1..Len(s)
           /\ TotalOrder(TimeOrder(s), DOMAIN s)
           /\ \A i \in DOMAIN s :
                {j \in DOMAIN s : s[j].t < s[i].t \/ (s[j].t = s[i].t /\ j <= i)}
                  = Below(TimeOrder(s), DOMAIN s, i)
  <1> DEFINE R == TimeOrder(s)
             D == DOMAIN s
  <1>1. D = 1..Len(s) /\ Len(s) \in Nat
    BY LenProperties
  <1>2. IsFiniteSet(D) /\ Cardinality(D) = Len(s)
    <2>1. IsFiniteSet(1..Len(s)) /\ Cardinality(1..Len(s)) = IF 1 > Len(s) THEN 0 ELSE Len(s) - 1 + 1
      BY <1>1, FS_Interval
    <2> QED
      BY <1>1, <2>1
  <1>3. \A i, j \in D : <<i, j>> \in R <=> (s[i].t < s[j].t \/ (s[i].t = s[j].t /\ i <= j))
    BY TimeOrderPair
  <1>4. \A i \in D : s[i].t \in Int /\ i \in Int
    BY PointAt
  <1> HIDE DEF R, D
  <1>5. TotalOrder(R, D)
    <2>1. \A x \in D : <<x, x>> \in R
      BY <1>3, <1>4
    <2>2. ASSUME NEW x \in D, NEW y \in D PROVE <<x, y>> \in R \/ <<y, x>> \in R
      <3>1. s[x].t \in Int /\ s[y].t \in Int /\ x \in Int /\ y \in Int
        BY <1>4
      <3>2. CASE s[x].t < s[y].t \/ (s[x].t = s[y].t /\ x <= y)
        BY <1>3, <3>2
      <3>3. CASE s[y].t < s[x].t \/ (s[y].t = s[x].t /\ y <= x)
        BY <1>3, <3>3
      <3> QED
        BY <3>1, <3>2, <3>3
    <2>3. \A x, y \in D : <<x, y>> \in R /\ <<y, x>> \in R => x = y
      BY <1>3, <1>4
    <2>4. \A x, y, z \in D : <<x, y>> \in R /\ <<y, z>> \in R => <<x, z>> \in R
      BY <1>3, <1>4, SMTT(20)
    <2> QED
      BY <2>1, <2>2, <2>3, <2>4 DEF TotalOrder
  <1>6. \A i \in D : {j \in D : s[j].t < s[i].t \/ (s[j].t = s[i].t /\ j <= i)} = Below(R, D, i)
    BY <1>3 DEF Below
  <1> QED
    BY <1>1, <1>2, <1>5, <1>6 DEF R, D

(* u has every element of s once, the k-th from the place order[k].         *)
Permutes(order, s, u) ==
    /\ order \in [1..Len(s) -> DOMAIN s]
    /\ \A k, l \in 1..Len(s) : k < l => order[k] # order[l]
    /\ \A i \in DOMAIN s : \E k \in 1..Len(s) : order[k] = i
    /\ \A k \in 1..Len(s) : u[k] = s[order[k]]

(* sortSamples orders the points by time and permutes them.                 *)
LEMMA SortedOrder ==
    ASSUME NEW s \in Seq(Point)
    PROVE  /\ SortBy(s, LAMBDA p : p.t) \in Seq(Point)
           /\ Len(SortBy(s, LAMBDA p : p.t)) = Len(s)
           /\ Timed(SortBy(s, LAMBDA p : p.t))
           /\ \E order : Permutes(order, s, SortBy(s, LAMBDA p : p.t))
  <1> DEFINE D == DOMAIN s
             R == TimeOrder(s)
             order == [k \in 1..Cardinality(DOMAIN s) |->
                         CHOOSE i \in DOMAIN s :
                           Cardinality({j \in DOMAIN s :
                               s[j].t < s[i].t \/ (s[j].t = s[i].t /\ j <= i)}) = k]
             u == [k \in 1..Len(s) |-> s[order[k]]]
  <1>1. /\ IsFiniteSet(D) /\ Cardinality(D) = Len(s) /\ Len(s) \in Nat /\ D = 1..Len(s)
        /\ TotalOrder(R, D)
        /\ \A i \in DOMAIN s :
              {j \in DOMAIN s : s[j].t < s[i].t \/ (s[j].t = s[i].t /\ j <= i)} = Below(R, D, i)
    BY TimeOrderTotal
  <1>2. SortBy(s, LAMBDA p : p.t) = [k \in DOMAIN order |-> s[order[k]]]
    BY DEF SortBy, Ranked
  <1>3. DOMAIN order = 1..Len(s)
    BY <1>1
  <1>4. SortBy(s, LAMBDA p : p.t) = u
    <2> HIDE DEF order
    <2> QED
      BY <1>2, <1>3
  <1>5. ASSUME NEW k \in 1..Len(s)
        PROVE  order[k] \in D /\ Cardinality(Below(R, D, order[k])) = k
    <2>1. \E i \in D : Cardinality(Below(R, D, i)) = k
      <3> HIDE DEF R, D
      <3>1. \A l \in 1..Cardinality(D) : \E i \in D : Cardinality(Below(R, D, i)) = l
        BY <1>1, RankTaken
      <3> QED
        BY <1>1, <3>1
    <2>2. \E i \in D : Cardinality({j \in DOMAIN s :
                               s[j].t < s[i].t \/ (s[j].t = s[i].t /\ j <= i)}) = k
      BY <1>1, <2>1
    <2>3. order[k] = CHOOSE i \in DOMAIN s :
                           Cardinality({j \in DOMAIN s :
                               s[j].t < s[i].t \/ (s[j].t = s[i].t /\ j <= i)}) = k
      BY <1>1
    <2> HIDE DEF order
    <2>4. order[k] \in DOMAIN s /\ Cardinality({j \in DOMAIN s :
              s[j].t < s[order[k]].t \/ (s[j].t = s[order[k]].t /\ j <= order[k])}) = k
      BY <2>2, <2>3
    <2> QED
      BY <1>1, <2>4
  <1> HIDE DEF order, R, D
  <1>6. \A k \in 1..Len(s) : order[k] \in D /\ Cardinality(Below(R, D, order[k])) = k
    BY <1>5
  <1>7. /\ \A k, l \in 1..Len(s) : k < l => <<order[k], order[l]>> \in R /\ order[k] # order[l]
        /\ \A x \in D : \E k \in 1..Len(s) : order[k] = x
    <2>1. ByRank(order, R, D)
      BY <1>1, <1>3, <1>6 DEF ByRank
    <2>2. IsFiniteSet(D) /\ TotalOrder(R, D)
      BY <1>1
    <2>3. /\ \A k, l \in 1..Cardinality(D) :
                k < l => <<order[k], order[l]>> \in R /\ order[k] # order[l]
          /\ \A x \in D : \E k \in 1..Cardinality(D) : order[k] = x
      BY ONLY <2>1, <2>2, RankedSequence
    <2> QED
      BY <1>1, <2>3
  <1>8. \A k \in 1..Len(s) : u[k] = s[order[k]] /\ order[k] \in DOMAIN s
    BY <1>6 DEF D
  <1>9. u \in Seq(Point) /\ DOMAIN u = 1..Len(s) /\ Len(u) = Len(s)
    <2>1. \A k \in 1..Len(s) : s[order[k]] \in Point
      BY <1>8, ElementOfSeq, LenProperties
    <2>2. u \in Seq(Point)
      BY <1>1, <2>1, IsASeq
    <2>3. DOMAIN u = 1..Len(s)
      OBVIOUS
    <2> HIDE DEF u
    <2> QED
      BY <1>1, <2>2, <2>3, LenProperties
  <1> HIDE DEF u
  <1>10. Timed(u)
    <2> SUFFICES ASSUME NEW k \in DOMAIN u, NEW l \in DOMAIN u, k < l PROVE u[k].t <= u[l].t
      BY DEF Timed
    <2>1. <<order[k], order[l]>> \in R
      BY <1>7, <1>9
    <2>2. order[k] \in DOMAIN s /\ order[l] \in DOMAIN s /\ u[k] = s[order[k]] /\ u[l] = s[order[l]]
      BY <1>8, <1>9
    <2>3. s[order[k]].t < s[order[l]].t \/ s[order[k]].t = s[order[l]].t
      BY <2>1, <2>2, TimeOrderPair DEF R
    <2>4. s[order[k]].t \in Int /\ s[order[l]].t \in Int
      BY <2>2, PointAt
    <2> QED
      BY <2>2, <2>3, <2>4
  <1>11. \E p : Permutes(p, s, u)
    <2> DEFINE p == [k \in 1..Len(s) |-> order[k]]
    <2>1. p \in [1..Len(s) -> DOMAIN s] /\ \A k \in 1..Len(s) : p[k] = order[k]
      BY <1>8
    <2> HIDE DEF p
    <2>2. \A k, l \in 1..Len(s) : k < l => p[k] # p[l]
      BY <1>7, <2>1
    <2>3. \A i \in DOMAIN s : \E k \in 1..Len(s) : p[k] = i
      BY <1>7, <2>1 DEF D
    <2>4. \A k \in 1..Len(s) : u[k] = s[p[k]]
      BY <1>8, <2>1
    <2>5. Permutes(p, s, u)
      BY <2>1, <2>2, <2>3, <2>4 DEF Permutes
    <2> QED
      BY <2>5
  <1> QED
    BY <1>4, <1>9, <1>10, <1>11

LEMMA SortedByTime ==
    ASSUME NEW s \in Seq(Point)
    PROVE  /\ SortBy(s, LAMBDA p : p.t) \in Seq(Point)
           /\ Len(SortBy(s, LAMBDA p : p.t)) = Len(s)
           /\ Timed(SortBy(s, LAMBDA p : p.t))
           /\ Range(SortBy(s, LAMBDA p : p.t)) = Range(s)
  <1> DEFINE u == SortBy(s, LAMBDA p : p.t)
  <1>1. u \in Seq(Point) /\ Len(u) = Len(s) /\ Timed(u) /\ \E order : Permutes(order, s, u)
    BY SortedOrder
  <1> HIDE DEF u
  <1>2. PICK order : Permutes(order, s, u)
    BY <1>1
  <1>3. DOMAIN u = 1..Len(s) /\ DOMAIN s = 1..Len(s)
    BY <1>1, LenProperties
  <1>4. Range(u) = Range(s)
    <2>1. ASSUME NEW p \in Range(u) PROVE p \in Range(s)
      BY <1>2, <1>3, <2>1 DEF Range, Permutes
    <2>2. ASSUME NEW i \in DOMAIN s PROVE s[i] \in Range(u)
      BY <1>2, <1>3, <2>2 DEF Range, Permutes
    <2> QED
      BY <2>1, <2>2 DEF Range
  <1> QED
    BY <1>1, <1>4 DEF u

-----------------------------------------------------------------------------
(* Sums.                                                                    *)

(* The sum over a set is what its recursion over the subsets gives.         *)
AnyOf(s) == CHOOSE x \in s : TRUE
StepOf(g, f, s) == IF s = {} THEN 0 ELSE f[AnyOf(s)] + g[s \ {AnyOf(s)}]
Solves(g, f, S) == g = [s \in SUBSET S |-> StepOf(g, f, s)]

(* The terms of a sum.                                                      *)
Terms(f, S) == IsFiniteSet(S) /\ \A x \in S : f[x] \in Int

LEMMA AnyElement == ASSUME NEW s, s # {} PROVE AnyOf(s) \in s
  BY DEF AnyOf

LEMMA SumSolved ==
    ASSUME NEW S, IsFiniteSet(S), NEW f
    PROVE  \E g : Solves(g, f, S)
  <1> DEFINE Fits(g, n) == \A s \in SUBSET S : Cardinality(s) <= n => g[s] = StepOf(g, f, s)
             N == {n \in Nat : \E g : g = [s \in SUBSET S |-> g[s]] /\ Fits(g, n)}
  <1>0. \A s \in SUBSET S : IsFiniteSet(s) /\ Cardinality(s) \in Nat /\ Cardinality(s) <= Cardinality(S)
    BY FS_Subset, FS_CardinalityType
  <1>1. 0 \in N
    <2> DEFINE g == [s \in SUBSET S |-> 0]
    <2>1. g = [s \in SUBSET S |-> g[s]]
      OBVIOUS
    <2>2. ASSUME NEW s \in SUBSET S, Cardinality(s) <= 0 PROVE g[s] = StepOf(g, f, s)
      <3>1. s = {}
        BY <1>0, <2>2, FS_EmptySet
      <3> QED
        BY <3>1 DEF StepOf
    <2>3. Fits(g, 0)
      BY <2>2
    <2> HIDE DEF g, Fits
    <2> QED
      BY <2>1, <2>3
  <1>2. ASSUME NEW n \in Nat, n \in N PROVE n + 1 \in N
    <2>1. PICK g : g = [s \in SUBSET S |-> g[s]] /\ Fits(g, n)
      BY <1>2
    <2> DEFINE h == [s \in SUBSET S |-> IF Cardinality(s) <= n THEN g[s] ELSE StepOf(g, f, s)]
    <2>2. h = [s \in SUBSET S |-> h[s]]
      OBVIOUS
    <2>3. \A s \in SUBSET S : h[s] = StepOf(g, f, s)
      BY <2>1
    <2>4. \A s \in SUBSET S : Cardinality(s) <= n => h[s] = g[s]
      OBVIOUS
    <2> HIDE DEF h
    <2>5. ASSUME NEW s \in SUBSET S, Cardinality(s) <= n + 1, s # {}
          PROVE  h[s \ {AnyOf(s)}] = g[s \ {AnyOf(s)}]
      <3>1. AnyOf(s) \in s
        BY <2>5, AnyElement
      <3>2. Cardinality(s \ {AnyOf(s)}) = Cardinality(s) - 1
        BY <1>0, <3>1, FS_RemoveElement
      <3>3. Cardinality(s \ {AnyOf(s)}) <= n
        BY <1>0, <2>5, <3>2
      <3> QED
        BY <2>4, <3>3
    <2>6. ASSUME NEW s \in SUBSET S, Cardinality(s) <= n + 1 PROVE h[s] = StepOf(h, f, s)
      <3>1. CASE s = {}
        BY <2>3, <3>1 DEF StepOf
      <3>2. CASE s # {}
        BY <2>3, <2>5, <2>6, <3>2 DEF StepOf
      <3> QED
        BY <3>1, <3>2
    <2>7. Fits(h, n + 1)
      BY <2>6
    <2> HIDE DEF Fits
    <2> QED
      BY <2>2, <2>7
  <1>3. Cardinality(S) \in Nat
    BY FS_CardinalityType
  <1>4. Cardinality(S) \in N
    <2> HIDE DEF N
    <2> QED
      BY <1>1, <1>2, <1>3, InductionBySet
  <1>5. PICK g : g = [s \in SUBSET S |-> g[s]] /\ Fits(g, Cardinality(S))
    BY <1>4
  <1>6. \A s \in SUBSET S : g[s] = StepOf(g, f, s)
    BY <1>0, <1>5
  <1>7. Solves(g, f, S)
    BY <1>5, <1>6 DEF Solves
  <1> QED
    BY <1>7

(* The sum is the last value of a solution.                                 *)
LEMMA SumIsSolution ==
    ASSUME NEW S, IsFiniteSet(S), NEW f
    PROVE  \E g : Solves(g, f, S) /\ SumFunctionOnSet(f, S) = g[S]
  <1> DEFINE G == CHOOSE g : Solves(g, f, S)
  <1>1. Solves(G, f, S)
    BY SumSolved
  <1>2. SumFunctionOnSet(f, S) = G[S]
    BY Zenon DEF SumFunctionOnSet, FoldFunctionOnSet, MapThenFoldSet, Solves, StepOf, AnyOf
  <1> QED
    BY <1>1, <1>2

(* Two solutions agree where both are defined.                              *)
LEMMA SolutionsAgree ==
    ASSUME NEW S, IsFiniteSet(S), NEW T \in SUBSET S, NEW f, NEW g, NEW h,
           Solves(g, f, S), Solves(h, f, T)
    PROVE  \A s \in SUBSET T : g[s] = h[s]
  <1> DEFINE N == {n \in Nat : \A s \in SUBSET T : Cardinality(s) = n => g[s] = h[s]}
  <1>0. \A s \in SUBSET T : IsFiniteSet(s) /\ Cardinality(s) \in Nat /\ s \in SUBSET S
    BY FS_Subset, FS_CardinalityType
  <1>1. \A s \in SUBSET T : g[s] = StepOf(g, f, s) /\ h[s] = StepOf(h, f, s)
    BY <1>0 DEF Solves
  <1>2. 0 \in N
    <2>1. \A s \in SUBSET T : Cardinality(s) = 0 => s = {}
      BY <1>0, FS_EmptySet
    <2> QED
      BY <1>1, <2>1 DEF StepOf
  <1>3. ASSUME NEW n \in Nat, n \in N PROVE n + 1 \in N
    <2> SUFFICES ASSUME NEW s \in SUBSET T, Cardinality(s) = n + 1 PROVE g[s] = h[s]
      OBVIOUS
    <2>1. s # {}
      BY FS_EmptySet
    <2>2. AnyOf(s) \in s
      BY <2>1, AnyElement
    <2>3. Cardinality(s \ {AnyOf(s)}) = n
      <3>1. Cardinality(s \ {AnyOf(s)}) = Cardinality(s) - 1
        BY <1>0, <2>2, FS_RemoveElement
      <3> QED
        BY <3>1
    <2>4. g[s \ {AnyOf(s)}] = h[s \ {AnyOf(s)}]
      BY <1>3, <2>3
    <2> QED
      BY <1>1, <2>1, <2>4 DEF StepOf
  <1>4. \A n \in Nat : n \in N
    <2> HIDE DEF N
    <2> QED
      BY <1>2, <1>3, InductionBySet
  <1> QED
    BY <1>0, <1>4

LEMMA SumUnfold ==
    ASSUME NEW S, IsFiniteSet(S), NEW f
    PROVE  /\ S = {} => SumFunctionOnSet(f, S) = 0
           /\ S # {} => SumFunctionOnSet(f, S) = f[AnyOf(S)] + SumFunctionOnSet(f, S \ {AnyOf(S)})
  <1>1. PICK g : Solves(g, f, S) /\ SumFunctionOnSet(f, S) = g[S]
    BY SumIsSolution
  <1>2. g[S] = StepOf(g, f, S)
    BY <1>1 DEF Solves
  <1>3. CASE S = {}
    BY <1>1, <1>2, <1>3 DEF StepOf
  <1>4. CASE S # {}
    <2> DEFINE T == S \ {AnyOf(S)}
    <2>1. IsFiniteSet(T) /\ T \in SUBSET S
      BY FS_Subset
    <2> HIDE DEF T
    <2>2. PICK h : Solves(h, f, T) /\ SumFunctionOnSet(f, T) = h[T]
      BY <2>1, SumIsSolution
    <2>3. \A s \in SUBSET T : g[s] = h[s]
      BY <1>1, <2>1, <2>2, SolutionsAgree
    <2>4. g[T] = h[T]
      BY <2>3
    <2> QED
      BY <1>1, <1>2, <1>4, <2>2, <2>4 DEF StepOf, T
  <1> QED
    BY <1>3, <1>4

(* A sum of integers is an integer.                                         *)
LEMMA SumInteger ==
    ASSUME NEW S, NEW f, Terms(f, S)
    PROVE  SumFunctionOnSet(f, S) \in Int
  <1> DEFINE N == {n \in Nat : \A T \in SUBSET S :
                      Cardinality(T) = n => SumFunctionOnSet(f, T) \in Int}
  <1>0. IsFiniteSet(S) /\ \A x \in S : f[x] \in Int
    BY DEF Terms
  <1>1. \A T \in SUBSET S : IsFiniteSet(T) /\ Cardinality(T) \in Nat
    BY <1>0, FS_Subset, FS_CardinalityType
  <1>2. 0 \in N
    <2> SUFFICES ASSUME NEW T \in SUBSET S, Cardinality(T) = 0 PROVE SumFunctionOnSet(f, T) \in Int
      OBVIOUS
    <2>1. T = {}
      BY <1>1, FS_EmptySet
    <2>2. SumFunctionOnSet(f, T) = 0
      BY <1>1, <2>1, SumUnfold
    <2> QED
      BY <2>2
  <1>3. ASSUME NEW n \in Nat, n \in N PROVE n + 1 \in N
    <2> SUFFICES ASSUME NEW T \in SUBSET S, Cardinality(T) = n + 1
                 PROVE  SumFunctionOnSet(f, T) \in Int
      OBVIOUS
    <2> DEFINE a == AnyOf(T)
    <2>1. T # {} /\ IsFiniteSet(T)
      BY <1>1, FS_EmptySet
    <2>2. a \in T
      BY <2>1, AnyElement
    <2>3. SumFunctionOnSet(f, T) = f[a] + SumFunctionOnSet(f, T \ {a})
      BY <2>1, SumUnfold
    <2> HIDE DEF a
    <2>4. Cardinality(T \ {a}) = Cardinality(T) - 1
      BY <2>1, <2>2, FS_RemoveElement
    <2>5. Cardinality(T \ {a}) = n /\ T \ {a} \in SUBSET S
      BY <2>4
    <2>6. SumFunctionOnSet(f, T \ {a}) \in Int
      BY <1>3, <2>5
    <2> QED
      BY <1>0, <2>2, <2>3, <2>6
  <1>4. \A n \in Nat : n \in N
    <2> HIDE DEF N
    <2> QED
      BY <1>2, <1>3, InductionBySet
  <1> QED
    BY <1>1, <1>4

LEMMA FewerTerms ==
    ASSUME NEW S, NEW f, Terms(f, S), NEW T \in SUBSET S
    PROVE  Terms(f, T)
  <1>1. IsFiniteSet(T)
    BY FS_Subset DEF Terms
  <1> QED
    BY <1>1 DEF Terms

(* Any term may be taken first.                                             *)
LEMMA SumRemove ==
    ASSUME NEW S, NEW f, Terms(f, S), NEW y \in S
    PROVE  SumFunctionOnSet(f, S) = f[y] + SumFunctionOnSet(f, S \ {y})
  <1> DEFINE Good(T) == \A x \in T : SumFunctionOnSet(f, T) = f[x] + SumFunctionOnSet(f, T \ {x})
             N == {n \in Nat : \A T \in SUBSET S : Cardinality(T) = n => Good(T)}
  <1>0. IsFiniteSet(S) /\ \A x \in S : f[x] \in Int
    BY DEF Terms
  <1>1. \A T \in SUBSET S : IsFiniteSet(T) /\ Cardinality(T) \in Nat
    BY <1>0, FS_Subset, FS_CardinalityType
  <1>2. 0 \in N
    <2>1. \A T \in SUBSET S : Cardinality(T) = 0 => T = {}
      BY <1>1, FS_EmptySet
    <2> QED
      BY <2>1
  <1>3. ASSUME NEW n \in Nat, n \in N PROVE n + 1 \in N
    <2> SUFFICES ASSUME NEW T \in SUBSET S, Cardinality(T) = n + 1, NEW x \in T
                 PROVE SumFunctionOnSet(f, T) = f[x] + SumFunctionOnSet(f, T \ {x})
      OBVIOUS
    <2> DEFINE a == AnyOf(T)
    <2>1. IsFiniteSet(T)
      BY <1>1
    <2>2. a \in T
      BY AnyElement
    <2>3. SumFunctionOnSet(f, T) = f[a] + SumFunctionOnSet(f, T \ {a})
      BY <2>1, SumUnfold
    <2> HIDE DEF a
    <2>4. ASSUME NEW z \in T, NEW w \in T, z # w
          PROVE  SumFunctionOnSet(f, T \ {z}) = f[w] + SumFunctionOnSet(f, (T \ {z}) \ {w})
      <3>1. Cardinality(T \ {z}) = Cardinality(T) - 1
        BY <2>1, FS_RemoveElement
      <3>2. Cardinality(T \ {z}) = n /\ T \ {z} \in SUBSET S /\ w \in T \ {z}
        BY <2>4, <3>1
      <3> QED
        BY <1>3, <3>2
    <2>5. CASE x = a
      BY <2>3, <2>5
    <2>6. CASE x # a
      <3> DEFINE U == (T \ {a}) \ {x}
      <3>1. U = (T \ {x}) \ {a}
        OBVIOUS
      <3>2. SumFunctionOnSet(f, T \ {a}) = f[x] + SumFunctionOnSet(f, U)
        BY <2>2, <2>4, <2>6
      <3>3. SumFunctionOnSet(f, T \ {x}) = f[a] + SumFunctionOnSet(f, U)
        BY <2>2, <2>4, <2>6, <3>1
      <3>4. SumFunctionOnSet(f, U) \in Int
        <4>1. Terms(f, U)
          BY FewerTerms
        <4> QED
          BY <4>1, SumInteger
      <3>5. f[x] \in Int /\ f[a] \in Int
        BY <1>0, <2>2
      <3> HIDE DEF U
      <3> QED
        BY <2>3, <3>2, <3>3, <3>4, <3>5
    <2> QED
      BY <2>5, <2>6
  <1>4. \A n \in Nat : n \in N
    <2> HIDE DEF N
    <2> QED
      BY <1>2, <1>3, InductionBySet
  <1> QED
    BY <1>1, <1>4

LEMMA EmptySum == ASSUME NEW f PROVE SumFunctionOnSet(f, {}) = 0
  BY SumUnfold, FS_EmptySet

(* Equal terms have equal sums.                                             *)
LEMMA SameSum ==
    ASSUME NEW S, NEW f, NEW g, Terms(f, S), Terms(g, S), \A x \in S : f[x] = g[x]
    PROVE  SumFunctionOnSet(f, S) = SumFunctionOnSet(g, S)
  <1> DEFINE N == {n \in Nat : \A T \in SUBSET S :
                      Cardinality(T) = n => SumFunctionOnSet(f, T) = SumFunctionOnSet(g, T)}
  <1>1. \A T \in SUBSET S : IsFiniteSet(T) /\ Cardinality(T) \in Nat
    BY FS_Subset, FS_CardinalityType DEF Terms
  <1>2. 0 \in N
    <2>1. \A T \in SUBSET S : Cardinality(T) = 0 => T = {}
      BY <1>1, FS_EmptySet
    <2> QED
      BY <2>1, EmptySum
  <1>3. ASSUME NEW n \in Nat, n \in N PROVE n + 1 \in N
    <2> SUFFICES ASSUME NEW T \in SUBSET S, Cardinality(T) = n + 1
                 PROVE  SumFunctionOnSet(f, T) = SumFunctionOnSet(g, T)
      OBVIOUS
    <2>1. IsFiniteSet(T) /\ T # {}
      BY <1>1, FS_EmptySet
    <2>2. PICK x \in T : TRUE
      BY <2>1
    <2>3. Terms(f, T) /\ Terms(g, T)
      BY FewerTerms
    <2>4. /\ SumFunctionOnSet(f, T) = f[x] + SumFunctionOnSet(f, T \ {x})
          /\ SumFunctionOnSet(g, T) = g[x] + SumFunctionOnSet(g, T \ {x})
      BY <2>3, SumRemove
    <2>5. Cardinality(T \ {x}) = Cardinality(T) - 1
      BY <2>1, FS_RemoveElement
    <2>6. Cardinality(T \ {x}) = n /\ T \ {x} \in SUBSET S
      BY <2>5
    <2> QED
      BY <1>3, <2>4, <2>6
  <1>4. \A n \in Nat : n \in N
    <2> HIDE DEF N
    <2> QED
      BY <1>2, <1>3, InductionBySet
  <1> QED
    BY <1>1, <1>4

-----------------------------------------------------------------------------
(* What the builder makes.                                                  *)

Keys == Range(LabelsOf) \X Int
KeyedPoint == [key : Keys, t : Int, v : Int \cup {Stale}]
SeriesOk(series) ==
    DOMAIN series \subseteq Keys /\ \A k \in DOMAIN series : series[k] \in Seq(Point)

LEMMA SequenceOf ==
    ASSUME NEW n \in Nat, NEW T, NEW s, s = [i \in 1..n |-> s[i]], \A i \in 1..n : s[i] \in T
    PROVE  s \in Seq(T) /\ Len(s) = n /\ DOMAIN s = 1..n
  <1>1. s \in Seq(T)
    BY IsASeq
  <1>2. DOMAIN s = 1..n
    OBVIOUS
  <1> QED
    BY <1>1, <1>2, LenProperties

LEMMA AppendedSeries ==
    ASSUME NEW series, SeriesOk(series), NEW points \in Seq(KeyedPoint)
    PROVE  SeriesOk(AppendTo(series, points))
  <1> DEFINE D == DOMAIN series \cup {p.key : p \in Range(points)}
             I(k) == {i \in DOMAIN points : points[i].key = k}
             added(k) == Picked(points, I(k))
             tail(k) == [i \in DOMAIN added(k) |-> [t |-> added(k)[i].t, v |-> added(k)[i].v]]
             old(k) == IF k \in DOMAIN series THEN series[k] ELSE <<>>
  <1>1. AppendTo(series, points) = [k \in D |-> old(k) \o tail(k)]
    BY DEF AppendTo
  <1>2. D \subseteq Keys
    <2>1. ASSUME NEW p \in Range(points) PROVE p.key \in Keys
      <3>1. PICK i \in DOMAIN points : p = points[i]
        BY DEF Range
      <3>2. points[i] \in KeyedPoint
        BY LenProperties, ElementOfSeq
      <3> QED
        BY <3>1, <3>2 DEF KeyedPoint
    <2> QED
      BY <2>1 DEF SeriesOk
  <1>3. ASSUME NEW k PROVE tail(k) \in Seq(Point)
    <2> DEFINE u == added(k)
               n == Len(u)
               w == [i \in DOMAIN u |-> [t |-> u[i].t, v |-> u[i].v]]
    <2>1. u \in Seq(KeyedPoint)
      BY PickedElements
    <2> HIDE DEF u
    <2>2. DOMAIN u = 1..n /\ n \in Nat
      BY <2>1, LenProperties
    <2>3. ASSUME NEW i \in 1..n PROVE w[i] \in Point
      <3>1. u[i] \in KeyedPoint
        BY <2>1, <2>2, ElementOfSeq
      <3> QED
        BY <2>2, <3>1 DEF KeyedPoint, Point
    <2>4. w = [i \in 1..n |-> w[i]]
      BY <2>2
    <2> HIDE DEF w, n
    <2>5. w \in Seq(Point)
      BY <2>2, <2>3, <2>4, SequenceOf
    <2> QED
      BY <2>5 DEF w, u
  <1>4. ASSUME NEW k \in D PROVE old(k) \in Seq(Point)
    BY EmptySeq DEF SeriesOk
  <1> HIDE DEF old, tail, D
  <1>5. \A k \in D : old(k) \o tail(k) \in Seq(Point)
    BY <1>3, <1>4, ConcatProperties
  <1> QED
    BY <1>1, <1>2, <1>5 DEF SeriesOk

(* The counts of a row, cumulated.                                          *)
LEMMA CumulativeCounts ==
    ASSUME NEW r \in Row
    PROVE  /\ DOMAIN Cumulative(r) = 1..Len(r.counts) /\ Len(r.counts) \in Nat
           /\ \A i \in 1..Len(r.counts) : Cumulative(r)[i] \in Int
  <1>1. r.counts \in Seq(Nat)
    BY DEF Row
  <1>2. DOMAIN r.counts = 1..Len(r.counts) /\ Len(r.counts) \in Nat
    BY <1>1, LenProperties
  <1>3. ASSUME NEW i \in 1..Len(r.counts) PROVE SumFunctionOnSet(r.counts, 1..i) \in Int
    <2>1. IsFiniteSet(1..i)
      BY FS_Interval
    <2>2. \A j \in 1..i : r.counts[j] \in Int
      BY <1>1, <1>2, ElementOfSeq
    <2>3. Terms(r.counts, 1..i)
      BY <2>1, <2>2 DEF Terms
    <2> QED
      BY <2>3, SumInteger
  <1> QED
    BY <1>2, <1>3 DEF Cumulative

(* The bounds of a row, the last one included.                              *)
LEMMA RowBounds ==
    ASSUME NEW r \in Row
    PROVE  /\ BoundsOf(r) \in Seq(Int) /\ Len(BoundsOf(r)) = Len(r.bounds) + 1
           /\ Len(r.bounds) \in Nat /\ DOMAIN BoundsOf(r) = 1..(Len(r.bounds) + 1)
           /\ Range(BoundsOf(r)) \subseteq Int /\ IsFiniteSet(Range(BoundsOf(r)))
  <1>1. r.bounds \in Seq(Int) /\ Inf \in Int
    BY HistogramAssumption DEF Row
  <1>2. BoundsOf(r) \in Seq(Int) /\ Len(BoundsOf(r)) = Len(r.bounds) + 1 /\ Len(r.bounds) \in Nat
    BY <1>1, AppendProperties, LenProperties DEF BoundsOf
  <1>3. DOMAIN BoundsOf(r) = 1..(Len(r.bounds) + 1)
    BY <1>2, LenProperties
  <1>4. Range(BoundsOf(r)) \subseteq Int
    BY <1>2, <1>3, ElementOfSeq DEF Range
  <1>5. IsFiniteSet(Range(BoundsOf(r)))
    <2> DEFINE b == BoundsOf(r)
               D == DOMAIN b
    <2>1. b \in Surjection(D, Range(b))
      BY <1>2, LenProperties DEF Surjection, Range
    <2>2. IsFiniteSet(D)
      BY <1>2, <1>3, FS_Interval
    <2> HIDE DEF b, D
    <2>3. IsFiniteSet(Range(b))
      BY <2>1, <2>2, FS_Surjection
    <2> QED
      BY <2>3 DEF b
  <1> QED
    BY <1>2, <1>3, <1>4, <1>5

(* The points and the markers of a row that is not refused.                 *)
LEMMA RowPoints ==
    ASSUME NEW r \in Row, ~BadLengths(r),
           r.id \in DOMAIN built.previous =>
              built.previous[r.id] \subseteq Int /\ IsFiniteSet(built.previous[r.id])
    PROVE  PointsOf(r) \o MarkersOf(r) \in Seq(KeyedPoint)
  <1>0. r.id \in DOMAIN LabelsOf /\ r.t \in Int /\ LabelsOf[r.id] \in Range(LabelsOf)
    BY DEF Row, Range
  <1>1. ASSUME NEW b \in Int, NEW v \in Int \cup {Stale} PROVE Keyed(r, b, v) \in KeyedPoint
    BY <1>0 DEF Keyed, KeyedPoint, Keys
  <1>2. PointsOf(r) \in Seq(KeyedPoint)
    <2> DEFINE n == Len(r.bounds) + 1
               s == PointsOf(r)
    <2>1. DOMAIN BoundsOf(r) = 1..n /\ n \in Nat
      BY RowBounds
    <2>2. n = Len(r.counts)
      BY RowBounds, CumulativeCounts DEF BadLengths
    <2>3. ASSUME NEW i \in 1..n PROVE s[i] \in KeyedPoint
      <3>1. BoundsOf(r)[i] \in Int
        BY <2>1, RowBounds, ElementOfSeq
      <3>2. Cumulative(r)[i] \in Int
        BY <2>2, CumulativeCounts
      <3>3. s[i] = Keyed(r, BoundsOf(r)[i], Cumulative(r)[i])
        BY <2>1 DEF PointsOf
      <3> QED
        BY <1>1, <3>1, <3>2, <3>3
    <2>4. s = [i \in 1..n |-> s[i]]
      BY <2>1 DEF PointsOf
    <2> HIDE DEF s, n
    <2>5. s \in Seq(KeyedPoint)
      BY <2>1, <2>3, <2>4, SequenceOf
    <2> QED
      BY <2>5 DEF s
  <1>3. MarkersOf(r) \in Seq(KeyedPoint)
    <2> DEFINE gone == Ranked(Gone(r), <=)
               n == Cardinality(Gone(r))
               s == [i \in DOMAIN gone |-> Keyed(r, gone[i], Stale)]
    <2>1. Gone(r) \subseteq Int /\ IsFiniteSet(Gone(r))
      <3>1. CASE r.id \in DOMAIN built.previous
        <4>1. Gone(r) \in SUBSET built.previous[r.id]
          BY <3>1 DEF Gone
        <4>2. IsFiniteSet(Gone(r))
          BY <3>1, <4>1, FS_Subset
        <4> QED
          BY <3>1, <4>1, <4>2
      <3>2. CASE r.id \notin DOMAIN built.previous
        BY <3>2, FS_EmptySet DEF Gone
      <3> QED
        BY <3>1, <3>2
    <2>2. n \in Nat /\ gone \in [1..n -> Gone(r)]
      BY <2>1, RankedNumbers
    <2>3. MarkersOf(r) = s
      BY DEF MarkersOf
    <2> HIDE DEF gone, n
    <2>4. ASSUME NEW i \in 1..n PROVE s[i] \in KeyedPoint
      <3>1. gone[i] \in Int
        BY <2>1, <2>2
      <3> QED
        BY <1>1, <2>2, <3>1
    <2>5. s = [i \in 1..n |-> s[i]]
      BY <2>2
    <2> HIDE DEF s
    <2>6. s \in Seq(KeyedPoint)
      BY <2>2, <2>4, <2>5, SequenceOf
    <2> QED
      BY <2>3, <2>6
  <1> QED
    BY <1>2, <1>3, ConcatProperties

(* The times of a series.                                                   *)
TimesOf(s) == {s[i].t : i \in DOMAIN s}

LEMMA FiniteTimes ==
    ASSUME NEW s \in Seq(Point)
    PROVE  TimesOf(s) \subseteq Int /\ IsFiniteSet(TimesOf(s))
  <1> DEFINE D == DOMAIN s
             f == [i \in D |-> s[i].t]
  <1>1. IsFiniteSet(D)
    BY TimeOrderTotal
  <1>2. f \in Surjection(D, TimesOf(s))
    BY DEF Surjection, TimesOf
  <1>3. TimesOf(s) \subseteq Int
    BY PointAt DEF TimesOf
  <1> HIDE DEF D, f
  <1> QED
    BY <1>1, <1>2, <1>3, FS_Surjection

(* A running total has one point per time, in order.                        *)
LEMMA AccumulatedPoints ==
    ASSUME NEW s \in Seq(Point)
    PROVE  Accumulate(s) \in Seq(Point) /\ Strict(Accumulate(s))
  <1> DEFINE times == Ranked(TimesOf(s), <=)
             n == Cardinality(TimesOf(s))
             Finite(I) == {i \in I : s[i].v # Stale}
             At(t) == Finite({i \in DOMAIN s : s[i].t = t})
             Until(t) == Finite({i \in DOMAIN s : s[i].t <= t})
             val(t) == IF At(t) = {} THEN Stale ELSE SumFunctionOnSet(Values(s), Until(t))
             u == [k \in DOMAIN times |-> [t |-> times[k], v |-> val(times[k])]]
  <1>1. Accumulate(s) = u
    BY DEF Accumulate, TimesOf
  <1>2. n \in Nat /\ times \in [1..n -> TimesOf(s)] /\ Increasing(times, n)
    BY FiniteTimes, RankedNumbers
  <1>3. ASSUME NEW t PROVE val(t) \in Int \cup {Stale}
    <2> DEFINE U == Until(t)
    <2>1. U \in SUBSET DOMAIN s
      OBVIOUS
    <2>2. IsFiniteSet(U)
      <3> HIDE DEF U
      <3> QED
        BY <2>1, TimeOrderTotal, FS_Subset
    <2>3. \A i \in U : s[i].v \in Int
      BY PointAt
    <2>4. \A i \in U : Values(s)[i] = s[i].v
      BY DEF Values
    <2>5. Terms(Values(s), U)
      BY <2>2, <2>3, <2>4 DEF Terms
    <2>6. SumFunctionOnSet(Values(s), U) \in Int
      BY <2>5, SumInteger
    <2> HIDE DEF At
    <2> QED
      BY <2>6
  <1> HIDE DEF times, val, n
  <1>4. ASSUME NEW k \in 1..n PROVE u[k] \in Point /\ u[k].t = times[k] /\ times[k] \in Int
    <2>1. times[k] \in Int
      BY <1>2, FiniteTimes
    <2>2. u[k] = [t |-> times[k], v |-> val(times[k])]
      BY <1>2
    <2> QED
      BY <1>3, <2>1, <2>2 DEF Point
  <1>5. u = [k \in 1..n |-> u[k]]
    BY <1>2
  <1> HIDE DEF u
  <1>6. u \in Seq(Point) /\ DOMAIN u = 1..n
    BY <1>2, <1>4, <1>5, SequenceOf
  <1>7. Strict(u)
    BY <1>2, <1>4, <1>6 DEF Strict, Increasing
  <1> QED
    BY <1>1, <1>6, <1>7

LEMMA StrictTimed == ASSUME NEW s \in Seq(Point), Strict(s) PROVE Timed(s)
  <1> SUFFICES ASSUME NEW i \in DOMAIN s, NEW j \in DOMAIN s, i < j PROVE s[i].t <= s[j].t
    BY DEF Timed
  <1>1. s[i].t < s[j].t /\ s[i].t \in Int /\ s[j].t \in Int
    BY PointAt DEF Strict
  <1> QED
    BY <1>1

(* With one point per time, order is strict.                                *)
LEMMA OneTimeStrict ==
    ASSUME NEW s \in Seq(Point), Timed(s), OnePerTime(s)
    PROVE  Strict(s)
  <1> SUFFICES ASSUME NEW i \in DOMAIN s, NEW j \in DOMAIN s, i < j PROVE s[i].t < s[j].t
    BY DEF Strict
  <1>1. s[i].t <= s[j].t /\ s[i].t \in Int /\ s[j].t \in Int /\ i \in Int /\ j \in Int
    BY PointAt DEF Timed
  <1>2. s[i].t # s[j].t
    BY <1>1 DEF OnePerTime
  <1> QED
    BY <1>1, <1>2

-----------------------------------------------------------------------------
(* What holds in every reachable state of a request.                        *)

Positions == [key : Keys, idx : Nat, passed : Seq(Point), grid : Nat, fill : BOOLEAN]

(* The engine's series are in time order.                                   *)
TimedSeries == \A k \in DOMAIN built.series : Timed(built.series[k])

BuiltOk ==
    /\ built = [series |-> built.series, previous |-> built.previous,
                temporality |-> built.temporality, samples |-> built.samples]
    /\ SeriesOk(built.series)
    /\ \A id \in DOMAIN built.previous :
          built.previous[id] \subseteq Int /\ IsFiniteSet(built.previous[id])
    /\ phase = "engine" => TimedSeries

(* What lies before the iterator is before the current step.                *)
BehindStep == \A i \in 1..(it.idx - 1) : Points[i].t < GridTime(it.grid)

(* The engine remembers what it passed, from some point on; what it has     *)
(* forgotten is before the range of the current step.                       *)
RemembersFrom(from) ==
    /\ it.passed = SubSeq(Points, from, it.idx - 1)
    /\ \A i \in 1..(from - 1) : Points[i].t <= GridTime(it.grid) - SelectorRange(plan)

ReaderOk ==
    /\ phase = "engine" /\ it \in Positions /\ it.key \in DOMAIN built.series
    /\ it.idx \in 1..(Len(Points) + 1)
    /\ it.grid = 0 /\ ~it.fill => it.idx = 1
    /\ BehindStep
    /\ \E from \in 1..it.idx : RemembersFrom(from)

Inv ==
    /\ store \in Stores /\ plan \in Plans /\ row \in Nat
    /\ BuiltOk
    /\ it = NoIterator \/ ReaderOk

(* The numbers of a request.                                                *)
LEMMA PlanNumbers ==
    ASSUME plan \in Plans
    PROVE  /\ plan.start \in Int /\ plan.step \in Nat \ {0} /\ plan.steps \in Nat \ {0}
           /\ SelectorRange(plan) \in Nat /\ SelectorRange(plan) > 0
           /\ \A g \in Nat : GridTime(g) \in Int /\ GridTime(g + 1) = GridTime(g) + plan.step
  <1>1. plan \in RangePlan
    BY HistogramAssumption
  <1>2. /\ plan.start \in Int /\ plan.step \in Nat \ {0} /\ plan.steps \in Nat \ {0}
        /\ plan.window \in Nat /\ plan.lookback \in Nat \ {0} /\ plan.instant = FALSE
    BY <1>1 DEF RangePlan
  <1>3. SelectorRange(plan) \in Nat /\ SelectorRange(plan) > 0
    BY <1>2 DEF SelectorRange
  <1>4. ASSUME NEW g \in Nat PROVE GridTime(g) \in Int /\ GridTime(g + 1) = GridTime(g) + plan.step
    <2>1. (g + 1) * plan.step = g * plan.step + plan.step /\ g * plan.step \in Int
      BY <1>2
    <2> QED
      BY <1>2, <2>1 DEF GridTime
  <1> QED
    BY <1>2, <1>3, <1>4

LEMMA GeneralRowsTyped ==
    ASSUME store \in Stores
    PROVE  GeneralRows \in Seq(Row)
  <1>1. store \in Seq(Row)
    BY HistogramAssumption
  <1>2. ASSUME NEW m PROVE RowsFrom(m) \in Seq(Row)
    BY <1>1, PickedElements DEF RowsFrom
  <1> QED
    BY <1>2 DEF GeneralRows

(* A seek passes points before t only, and does not pass the end.           *)
LEMMA SeekPosition ==
    ASSUME NEW s \in Seq(Point), Timed(s), NEW idx \in 1..Len(s), NEW t \in Int
    PROVE  /\ SeekIdx(s, idx, t) \in idx..(Len(s) + 1)
           /\ \A i \in idx..(SeekIdx(s, idx, t) - 1) : s[i].t < t
  <1>1. Len(s) \in Nat /\ DOMAIN s = 1..Len(s) /\ idx \in DOMAIN s /\ s[idx].t \in Int
    BY LenProperties, PointAt
  <1>2. CASE s[idx].t >= t
    BY <1>1, <1>2 DEF SeekIdx
  <1>3. CASE s[idx].t < t
    <2> DEFINE I == (idx + 1)..Len(s)
               C == {i \in I : s[i].t < t}
               n == Cardinality(C)
    <2>1. SeekIdx(s, idx, t) = idx + 1 + n
      BY <1>1, <1>3 DEF SeekIdx
    <2>2. IsFiniteSet(I) /\ Cardinality(I) = Len(s) - idx
      <3>1. IsFiniteSet(I) /\ Cardinality(I) = IF idx + 1 > Len(s) THEN 0 ELSE Len(s) - (idx + 1) + 1
        <4>1. idx + 1 \in Int /\ Len(s) \in Int
          BY <1>1
        <4> QED
          BY <4>1, FS_Interval
      <3> QED
        BY <1>1, <3>1
    <2>3. C \subseteq I
      OBVIOUS
    <2>4. \A i \in I : s[i].t \in Int /\ (i \in C <=> s[i].t < t)
      BY <1>1, PointAt
    <2> HIDE DEF C
    <2>5. IsFiniteSet(C) /\ n <= Len(s) - idx /\ n \in Nat
      BY <2>2, <2>3, FS_Subset, FS_CardinalityType
    <2>6. ASSUME NEW i \in (idx + 1)..(idx + n) PROVE s[i].t < t
      <3> SUFFICES ASSUME ~(s[i].t < t) PROVE FALSE
        OBVIOUS
      <3>1. i \in I /\ s[i].t >= t
        BY <1>1, <2>4, <2>5
      <3>2. C \subseteq (idx + 1)..(i - 1)
        <4> SUFFICES ASSUME NEW j \in C, j >= i PROVE FALSE
          BY <2>3
        <4>1. j \in I /\ s[j].t < t /\ s[j].t \in Int
          BY <2>3, <2>4
        <4>2. s[i].t <= s[j].t
          BY <1>1, <3>1, <4>1 DEF Timed
        <4> QED
          BY <2>4, <3>1, <4>1, <4>2
      <3>3. IsFiniteSet((idx + 1)..(i - 1)) /\ Cardinality((idx + 1)..(i - 1)) = i - 1 - idx
        <4> DEFINE J == (idx + 1)..(i - 1)
        <4>1. IsFiniteSet(J) /\ Cardinality(J) = IF idx + 1 > i - 1 THEN 0 ELSE i - 1 - (idx + 1) + 1
          BY FS_Interval
        <4> QED
          BY <2>5, <4>1
      <3>4. n <= i - 1 - idx
        BY <3>2, <3>3, FS_Subset, ZenonT(20)
      <3> QED
        BY <2>5, <3>4
    <2> HIDE DEF n
    <2>7. SeekIdx(s, idx, t) \in idx..(Len(s) + 1)
      BY <1>1, <2>1, <2>5
    <2>8. ASSUME NEW i \in idx..(SeekIdx(s, idx, t) - 1) PROVE s[i].t < t
      <3>1. i = idx \/ i \in (idx + 1)..(idx + n)
        BY <1>1, <2>1, <2>5
      <3> QED
        BY <1>3, <2>6, <3>1
    <2> QED
      BY <2>7, <2>8
  <1> QED
    BY <1>1, <1>2, <1>3

(* The engine's iterator with the points it reads, step by step.            *)
Reads(i, points) ==
    /\ i \in Positions
    /\ i.idx \in 1..(Len(points) + 1)
    /\ i.grid = 0 /\ ~i.fill => i.idx = 1
    /\ \A k \in 1..(i.idx - 1) : points[k].t < GridTime(i.grid)
    /\ \E from \in 1..i.idx :
         /\ i.passed = SubSeq(points, from, i.idx - 1)
         /\ \A k \in 1..(from - 1) : points[k].t <= GridTime(i.grid) - SelectorRange(plan)

LEMMA ReaderReads ==
    ReaderOk <=> phase = "engine" /\ it.key \in DOMAIN built.series /\ Reads(it, built.series[it.key])
  BY DEF ReaderOk, Reads, BehindStep, RemembersFrom, Points

(* A step of the engine changes the iterator only.                          *)
EngineStep == phase = "engine" /\ UNCHANGED <<store, plan, phase, row, built>>

LEMMA ReaderAfter ==
    ASSUME Inv, EngineStep, it'.key \in DOMAIN built.series, Reads(it', built.series[it'.key])
    PROVE  Inv'
  <1>1. /\ store' = store /\ plan' = plan /\ row' = row /\ built' = built /\ phase' = phase
        /\ phase = "engine"
    BY DEF EngineStep
  <1>2. BuiltOk'
    BY <1>1 DEF Inv, BuiltOk, TimedSeries
  <1>3. \A g : GridTime(g)' = GridTime(g)
    BY <1>1 DEF GridTime
  <1>4. ReaderOk'
    <2>1. /\ it' \in Positions /\ it'.idx \in 1..(Len(Points') + 1)
          /\ it'.grid = 0 /\ ~it'.fill => it'.idx = 1
      BY <1>1 DEF Reads, Points
    <2>2. BehindStep'
      BY <1>1 DEF Reads, BehindStep, Points, GridTime
    <2>3. \E from \in 1..it'.idx : RemembersFrom(from)'
      BY <1>1 DEF Reads, RemembersFrom, Points, GridTime
    <2> QED
      BY <1>1, <2>1, <2>2, <2>3 DEF ReaderOk
  <1> QED
    BY <1>1, <1>2, <1>4 DEF Inv

(* What the engine knows of the series it reads.                            *)
LEMMA SeriesRead ==
    ASSUME Inv, phase = "engine", NEW k \in DOMAIN built.series
    PROVE  built.series[k] \in Seq(Point) /\ Timed(built.series[k]) /\ k \in Keys
  BY DEF Inv, BuiltOk, SeriesOk, TimedSeries

LEMMA OpenKeeps == ASSUME Inv, OpenIterator PROVE Inv'
  <1>0. EngineStep
    BY DEF EngineStep, OpenIterator
  <1>1. PICK k \in DOMAIN built.series :
           it' = [NoIterator EXCEPT !.key = k, !.idx = NextIdx(built.series[k], 0)]
    BY DEF OpenIterator
  <1>2. built.series[k] \in Seq(Point) /\ k \in Keys /\ Len(built.series[k]) \in Nat
    BY <1>0, SeriesRead, LenProperties DEF EngineStep
  <1>3. NextIdx(built.series[k], 0) = 1
    BY <1>2 DEF NextIdx
  <1>4. it' = [key |-> k, idx |-> 1, passed |-> <<>>, grid |-> 0, fill |-> FALSE]
    BY <1>1, <1>3 DEF NoIterator
  <1>5. <<>> \in Seq(Point)
    BY EmptySeq
  <1>6. it' \in Positions
    BY <1>2, <1>4, <1>5 DEF Positions
  <1>7. SubSeq(built.series[k], 1, 0) = <<>>
    BY <1>2, SubSeqProperties
  <1>8. Reads(it', built.series[k])
    BY <1>2, <1>4, <1>6, <1>7 DEF Reads
  <1> QED
    BY <1>0, <1>4, <1>8, ReaderAfter

LEMMA SeekKeeps == ASSUME Inv, EngineSeek PROVE Inv'
  <1> DEFINE s == built.series[it.key]
             low == GridTime(it.grid) - SelectorRange(plan)
             ahead == Valid /\ (it.grid = 0 \/ low > s[it.idx].t)
  <1>0. EngineStep /\ plan \in Plans
    BY DEF EngineStep, EngineSeek, Inv
  <1>1. it.key # <<>> /\ ~it.fill
    BY DEF EngineSeek
  <1>2. ReaderOk
    BY <1>1 DEF Inv, NoIterator
  <1>3. it \in Positions /\ it.key \in DOMAIN built.series /\ Reads(it, s)
    <2>1. it \in Positions /\ it.key \in DOMAIN built.series
      BY <1>2 DEF ReaderOk
    <2> QED
      BY <1>2, <2>1, ReaderReads
  <1>4. s \in Seq(Point) /\ Timed(s) /\ Len(s) \in Nat /\ DOMAIN s = 1..Len(s)
    BY <1>0, <1>3, SeriesRead, LenProperties DEF EngineStep
  <1>5. it.grid \in Nat /\ GridTime(it.grid) \in Int /\ low \in Int /\ low < GridTime(it.grid)
    <2>1. it.grid \in Nat
      BY <1>3 DEF Positions
    <2> QED
      BY <1>0, <2>1, PlanNumbers
  <1>6. it' = [it EXCEPT !.fill = TRUE,
                         !.idx = IF ahead THEN SeekIdx(s, @, low) ELSE @,
                         !.passed = IF ahead THEN <<>> ELSE @]
    BY DEF EngineSeek, Points
  <1>7. it.idx \in 1..(Len(s) + 1) /\ (it.grid = 0 => it.idx = 1)
    BY <1>1, <1>3 DEF Reads
  <1>8. CASE ahead
    <2>1. it.idx \in 1..Len(s)
      BY <1>4, <1>8 DEF Valid, Points
    <2> DEFINE j == SeekIdx(s, it.idx, low)
    <2>2. j \in it.idx..(Len(s) + 1) /\ \A k \in it.idx..(j - 1) : s[k].t < low
      <3> HIDE DEF s, low
      <3> QED
        BY <1>4, <1>5, <2>1, SeekPosition
    <2>3. it' = [it EXCEPT !.fill = TRUE, !.idx = j, !.passed = <<>>]
      BY <1>6, <1>8
    <2>4. it' = [key |-> it.key, idx |-> j, passed |-> <<>>, grid |-> it.grid, fill |-> TRUE]
      BY <1>3, <2>3 DEF Positions
    <2> HIDE DEF j
    <2>5. it' \in Positions
      BY <1>3, <1>7, <2>2, <2>4, EmptySeq DEF Positions
    <2>6. ASSUME NEW k \in 1..(j - 1) PROVE s[k].t < low
      <3>1. k \in DOMAIN s /\ s[k].t \in Int /\ s[it.idx].t \in Int
        <4>1. k \in DOMAIN s /\ it.idx \in DOMAIN s
          BY <1>4, <2>1, <2>2
        <4> HIDE DEF s
        <4> QED
          BY <1>4, <4>1, PointAt
      <3>2. CASE k < it.idx
        <4>1. low > s[it.idx].t
          BY <1>7, <1>8, <3>2
        <4>2. s[k].t <= s[it.idx].t
          BY <1>4, <2>1, <3>1, <3>2 DEF Timed
        <4> HIDE DEF s, low
        <4> QED
          BY <1>5, <3>1, <4>1, <4>2
      <3>3. CASE k >= it.idx
        BY <2>2, <3>3
      <3> QED
        BY <1>7, <3>2, <3>3
    <2>7. SubSeq(s, j, j - 1) = <<>>
      BY <1>4, <1>7, <2>2, SubSeqProperties
    <2>8. \A k \in 1..(j - 1) : s[k].t < GridTime(it.grid) /\ s[k].t <= low
      <3> SUFFICES ASSUME NEW k \in 1..(j - 1) PROVE s[k].t < GridTime(it.grid) /\ s[k].t <= low
        OBVIOUS
      <3>1. k \in DOMAIN s /\ s[k].t \in Int
        BY <1>4, <1>7, <2>2, PointAt
      <3>2. s[k].t < low
        BY <2>6
      <3> HIDE DEF s, low
      <3> QED
        BY <1>5, <3>1, <3>2
    <2>9. j \in 1..(Len(s) + 1) /\ j \in 1..j
      BY <1>7, <2>2
    <2> HIDE DEF s
    <2>10. Reads(it', s)
      BY <2>4, <2>5, <2>7, <2>8, <2>9 DEF Reads
    <2>11. it'.key = it.key
      BY <2>4
    <2> QED
      BY <1>0, <1>3, <2>10, <2>11, ReaderAfter DEF s
  <1>9. CASE ~ahead
    <2>1. it' = [it EXCEPT !.fill = TRUE]
      <3>1. it' = [it EXCEPT !.fill = TRUE, !.idx = it.idx, !.passed = it.passed]
        BY <1>6, <1>9
      <3> QED
        BY <1>3, <3>1 DEF Positions
    <2>2. it' = [key |-> it.key, idx |-> it.idx, passed |-> it.passed, grid |-> it.grid, fill |-> TRUE]
      BY <1>3, <2>1 DEF Positions
    <2>3. it' \in Positions
      BY <1>3, <2>2 DEF Positions
    <2> HIDE DEF s, ahead
    <2>4. Reads(it', s)
      BY <1>3, <2>2, <2>3 DEF Reads
    <2> QED
      BY <1>0, <1>3, <2>2, <2>4, ReaderAfter DEF s
  <1> QED
    BY <1>8, <1>9

LEMMA NextKeeps == ASSUME Inv, EngineNext PROVE Inv'
  <1> DEFINE s == built.series[it.key]
             ts == GridTime(it.grid)
             low == ts - SelectorRange(plan)
  <1>0. EngineStep /\ plan \in Plans
    BY DEF EngineStep, EngineNext, Inv
  <1>1. it.fill /\ it.idx \in DOMAIN s /\ s[it.idx].t < ts
    BY DEF EngineNext, Valid, Points
  <1>2. ReaderOk
    BY <1>1 DEF Inv, NoIterator
  <1>3. it \in Positions /\ it.key \in DOMAIN built.series /\ Reads(it, s)
    <2>1. it \in Positions /\ it.key \in DOMAIN built.series
      BY <1>2 DEF ReaderOk
    <2> QED
      BY <1>2, <2>1, ReaderReads
  <1>4. s \in Seq(Point) /\ Len(s) \in Nat /\ DOMAIN s = 1..Len(s)
    BY <1>0, <1>3, SeriesRead, LenProperties DEF EngineStep
  <1>5. it.idx \in 1..Len(s) /\ NextIdx(s, it.idx) = it.idx + 1
    BY <1>1, <1>4 DEF NextIdx
  <1>6. it' = [it EXCEPT !.idx = it.idx + 1, !.passed = Append(it.passed, s[it.idx])]
    BY <1>5 DEF EngineNext, Points
  <1>7. it' = [key |-> it.key, idx |-> it.idx + 1, passed |-> Append(it.passed, s[it.idx]),
               grid |-> it.grid, fill |-> it.fill]
    BY <1>3, <1>6 DEF Positions
  <1>8. PICK from \in 1..it.idx :
          /\ it.passed = SubSeq(s, from, it.idx - 1)
          /\ \A k \in 1..(from - 1) : s[k].t <= low
    BY <1>3 DEF Reads
  <1>9. it.passed \in Seq(Point) /\ s[it.idx] \in Point
    BY <1>1, <1>3, <1>4, ElementOfSeq, PointAt DEF Positions
  <1>10. it' \in Positions
    <2>1. Append(it.passed, s[it.idx]) \in Seq(Point)
      BY <1>9, AppendProperties
    <2> QED
      BY <1>3, <1>5, <1>7, <2>1 DEF Positions
  <1>11. Append(it.passed, s[it.idx]) = SubSeq(s, from, it.idx)
    <2> DEFINE u == SubSeq(s, from, it.idx - 1)
               w == SubSeq(s, from, it.idx)
    <2>1. /\ u \in Seq(Point) /\ Len(u) = it.idx - from
          /\ \A i \in 1..(it.idx - from) : u[i] = s[from + i - 1]
      BY <1>4, <1>5, <1>8, SubSeqProperties, SMTT(20)
    <2>2. /\ w \in Seq(Point) /\ Len(w) = it.idx - from + 1
          /\ \A i \in 1..(it.idx - from + 1) : w[i] = s[from + i - 1]
      BY <1>4, <1>5, <1>8, SubSeqProperties
    <2> HIDE DEF u, w
    <2>3. /\ Append(u, s[it.idx]) \in Seq(Point) /\ Len(Append(u, s[it.idx])) = it.idx - from + 1
          /\ \A i \in 1..(it.idx - from) : Append(u, s[it.idx])[i] = u[i]
          /\ Append(u, s[it.idx])[it.idx - from + 1] = s[it.idx]
      BY <1>5, <1>8, <1>9, <2>1, AppendProperties
    <2>4. \A i \in 1..(it.idx - from + 1) : Append(u, s[it.idx])[i] = w[i]
      <3> SUFFICES ASSUME NEW i \in 1..(it.idx - from + 1) PROVE Append(u, s[it.idx])[i] = w[i]
        OBVIOUS
      <3>1. CASE i = it.idx - from + 1
        <4>1. from + i - 1 = it.idx
          BY <1>5, <1>8, <3>1
        <4>2. w[i] = s[from + i - 1]
          BY <2>2
        <4> QED
          BY <2>3, <3>1, <4>1, <4>2
      <3>2. CASE i # it.idx - from + 1
        BY <1>5, <1>8, <2>1, <2>2, <2>3, <3>2
      <3> QED
        BY <3>1, <3>2
    <2>5. Append(u, s[it.idx]) = w
      BY <2>2, <2>3, <2>4, SeqEqual
    <2> QED
      BY <1>8, <2>5 DEF u, w
  <1> HIDE DEF s
  <1>12. \A k \in 1..it.idx : s[k].t < ts
    BY <1>1, <1>3, <1>5 DEF Reads
  <1>13. Reads(it', s)
    <2>1. from \in 1..(it.idx + 1) /\ it.idx + 1 \in 1..(Len(s) + 1) /\ it.idx + 1 - 1 = it.idx
      BY <1>4, <1>5
    <2>2. /\ it'.idx = it.idx + 1 /\ it'.grid = it.grid /\ it'.fill
          /\ it'.passed = SubSeq(s, from, it.idx)
      BY <1>1, <1>7, <1>11
    <2>6. GridTime(it'.grid) = ts /\ it'.idx - 1 = it.idx
      <3>1. GridTime(it'.grid) = ts
        BY <2>2
      <3>2. it'.idx - 1 = it.idx
        BY <1>5, <2>2
      <3> QED
        BY <3>1, <3>2
    <2> HIDE DEF ts
    <2>3. \A k \in 1..(it'.idx - 1) : s[k].t < GridTime(it'.grid)
      BY <1>12, <2>6
    <2>4. /\ it'.passed = SubSeq(s, from, it'.idx - 1)
          /\ \A k \in 1..(from - 1) : s[k].t <= GridTime(it'.grid) - SelectorRange(plan)
      BY <1>8, <2>2, <2>6
    <2>5. it'.idx \in 1..(Len(s) + 1) /\ from \in 1..it'.idx
      BY <2>1, <2>2
    <2> QED
      BY <1>10, <2>2, <2>3, <2>4, <2>5 DEF Reads
  <1>14. it'.key = it.key
    BY <1>7
  <1> QED
    BY <1>0, <1>3, <1>13, <1>14, ReaderAfter DEF s

LEMMA EvaluateKeeps == ASSUME Inv, EngineEvaluate PROVE Inv'
  <1> DEFINE s == built.series[it.key]
             ts == GridTime(it.grid)
             low == ts - SelectorRange(plan)
  <1>0. EngineStep /\ plan \in Plans
    BY DEF EngineStep, EngineEvaluate, Inv
  <1>1. CASE it' = NoIterator
    <2>1. BuiltOk'
      BY <1>0 DEF Inv, EngineStep, BuiltOk, TimedSeries
    <2> QED
      BY <1>0, <1>1, <2>1 DEF Inv, EngineStep, NoIterator
  <1>2. CASE it' # NoIterator
    <2>1. it' = [it EXCEPT !.grid = @ + 1, !.fill = FALSE] /\ it.fill
      BY <1>2 DEF EngineEvaluate, Ready
    <2>2. ReaderOk
      BY <2>1 DEF Inv, NoIterator
    <2>3. it \in Positions /\ it.key \in DOMAIN built.series /\ Reads(it, s)
      <3>1. it \in Positions /\ it.key \in DOMAIN built.series
        BY <2>2 DEF ReaderOk
      <3> QED
        BY <2>2, <3>1, ReaderReads
    <2>4. it.grid \in Nat /\ plan.step \in Nat \ {0} /\ SelectorRange(plan) \in Nat /\ ts \in Int
          /\ GridTime(it.grid + 1) = ts + plan.step
      BY <1>0, <2>3, PlanNumbers DEF Positions
    <2>5. it' = [key |-> it.key, idx |-> it.idx, passed |-> it.passed, grid |-> it.grid + 1, fill |-> FALSE]
      BY <2>1, <2>3 DEF Positions
    <2>6. it' \in Positions
      BY <2>3, <2>4, <2>5 DEF Positions
    <2>7. s \in Seq(Point) /\ Len(s) \in Nat /\ DOMAIN s = 1..Len(s)
      BY <1>0, <2>3, SeriesRead, LenProperties DEF EngineStep
    <2> HIDE DEF s
    <2>8. \A k \in 1..Len(s) : s[k].t \in Int
      BY <2>7, PointAt
    <2>9. it.idx \in 1..(Len(s) + 1) /\ \A k \in 1..(it.idx - 1) : s[k].t < ts
      BY <2>3 DEF Reads
    <2>10. PICK from \in 1..it.idx :
            /\ it.passed = SubSeq(s, from, it.idx - 1)
            /\ \A k \in 1..(from - 1) : s[k].t <= low
      BY <2>3 DEF Reads
    <2>11. \A k \in 1..(it.idx - 1) : s[k].t < ts + plan.step
      BY <2>4, <2>7, <2>8, <2>9
    <2>12. \A k \in 1..(from - 1) : s[k].t <= (ts + plan.step) - SelectorRange(plan)
      BY <2>4, <2>7, <2>8, <2>9, <2>10, SMTT(20)
    <2>13. it.grid + 1 # 0
      BY <2>4
    <2> HIDE DEF ts
    <2>14. Reads(it', s)
      <3>1. it'.idx = it.idx /\ it'.grid = it.grid + 1 /\ it'.passed = it.passed
        BY <2>5
      <3>2. GridTime(it'.grid) = ts + plan.step
        BY <2>4, <3>1
      <3>3. \A k \in 1..(it'.idx - 1) : s[k].t < GridTime(it'.grid)
        BY <2>11, <3>1, <3>2
      <3>4. it'.passed = SubSeq(s, from, it'.idx - 1)
        BY <2>10, <3>1
      <3>6. \A k \in 1..(from - 1) : s[k].t <= GridTime(it'.grid) - SelectorRange(plan)
        BY <2>12, <3>2
      <3>5. it'.idx \in 1..(Len(s) + 1) /\ from \in 1..it'.idx
        BY <2>9, <3>1
      <3> QED
        BY <2>6, <2>13, <3>1, <3>3, <3>4, <3>5, <3>6 DEF Reads
    <2>15. it'.key = it.key
      BY <2>5
    <2> QED
      BY <1>0, <2>3, <2>14, <2>15, ReaderAfter DEF s
  <1> QED
    BY <1>1, <1>2

(* Steps before the engine starts, and its end.                             *)
LEMMA OutsideEngine ==
    ASSUME Inv, UNCHANGED <<store, plan, built, it>>, row' \in Nat, it = NoIterator,
           phase' = "engine" => phase = "engine"
    PROVE  Inv'
  <1>1. BuiltOk'
    BY DEF Inv, BuiltOk, TimedSeries
  <1> QED
    BY <1>1 DEF Inv, NoIterator

LEMMA AddPhase ==
    ASSUME NEW r, NEW e, NEW s, AddRow(r, e, s)
    PROVE  \/ phase' \in {"build", "failed"} /\ row' = 0
           \/ phase' = phase /\ path' = path /\ row' = row + 1
  <1>1. ASSUME NEW next, LeaveCompact(next) PROVE phase' = next /\ row' = 0
    BY <1>1 DEF LeaveCompact
  <1>2. CASE Verdict(e, r) = "fallback"
    <2>1. LeaveCompact("build")
      BY <1>2 DEF AddRow
    <2> QED
      BY <1>1, <2>1
  <1>3. CASE Verdict(e, r) = "error"
    <2>1. LeaveCompact("failed")
      BY <1>3 DEF AddRow
    <2> QED
      BY <1>1, <2>1
  <1>4. CASE Verdict(e, r) # "fallback" /\ Verdict(e, r) # "error"
    <2> DEFINE counted == [e EXCEPT !.samples = @ + Len(r.counts)]
               opened == IF e.have THEN counted ELSE OpenSource(counted, r)
               moved == Advance(opened, OpenColumns(s, r), r.t, FALSE)
    <2>1. AddOpened(r, opened, OpenColumns(s, r))
      BY <1>4 DEF AddRow
    <2>2. AddPoint(r, moved.ev, moved.sums)
      BY <2>1 DEF AddOpened, AddAdvanced
    <2> HIDE DEF moved
    <2>3. LeaveCompact("build") \/ (phase' = phase /\ path' = path /\ row' = row + 1)
      BY <2>2, Zenon DEF AddPoint
    <2> QED
      BY <1>1, <2>3
  <1> QED
    BY <1>2, <1>3, <1>4

LEMMA CompactKeeps == ASSUME Inv, CompactAdd \/ CompactFinish \/ ReadFails PROVE Inv'
  <1>1. phase # "engine" /\ row \in Nat
    BY DEF Inv, CompactAdd, CompactFinish, ReadFails
  <1>2. it = NoIterator
    BY <1>1 DEF Inv, ReaderOk
  <1>3. UNCHANGED <<store, plan, built, it>>
    BY DEF CompactAdd, CompactFinish, ReadFails
  <1>4. CASE CompactAdd
    <2> DEFINE r == CompactRows[row + 1]
               before == EndSource(r)
    <2>1. AddRow(r, before.ev, before.sums) /\ phase = "compact"
      BY <1>4 DEF CompactAdd, AddAfter
    <2> HIDE DEF r, before
    <2>2. phase' # "engine" /\ row' \in {0, row + 1}
      BY <2>1, AddPhase
    <2> QED
      BY <1>1, <1>2, <1>3, <2>1, <2>2, OutsideEngine
  <1>5. CASE CompactFinish \/ ReadFails
    <2>1. phase' # "engine" /\ row' = row
      BY <1>5 DEF CompactFinish, ReadFails
    <2> QED
      BY <1>1, <1>2, <1>3, <2>1, OutsideEngine
  <1> QED
    BY <1>4, <1>5

LEMMA EngineDoneKeeps == ASSUME Inv, EngineDone PROVE Inv'
  <1>1. it = NoIterator
    <2>1. it.key = <<>>
      BY DEF EngineDone
    <2>2. ReaderOk => it.key \in Keys
      BY DEF ReaderOk, Positions
    <2>3. <<>> \notin Keys
      BY DEF Keys
    <2> QED
      BY <2>1, <2>2, <2>3 DEF Inv
  <1> QED
    BY <1>1, OutsideEngine DEF EngineDone, Inv

LEMMA BuildKeeps == ASSUME Inv, BuildAdd PROVE Inv'
  <1> DEFINE r == GeneralRows[row + 1]
             labels == LabelsOf[r.id]
             added == PointsOf(r) \o MarkersOf(r)
             series == AppendTo(built.series, added)
  <1>1. /\ phase = "build" /\ row \in Nat /\ store \in Stores /\ BuiltOk
        /\ row < Len(GeneralRows) /\ BuildRow(r, labels, added)
    BY DEF BuildAdd, Inv
  <1>2. it = NoIterator
    BY <1>1 DEF Inv, ReaderOk
  <1>3. r \in Row
    <2>1. GeneralRows \in Seq(Row)
      BY <1>1, GeneralRowsTyped
    <2> HIDE DEF r
    <2>2. row + 1 \in DOMAIN GeneralRows
      BY <1>1, <2>1, LenProperties
    <2> QED
      BY <2>1, <2>2, ElementOfSeq DEF r
  <1> HIDE DEF r
  <1>4. ASSUME phase' = "failed", UNCHANGED <<row, built>> PROVE Inv'
    BY <1>1, <1>2, <1>4, OutsideEngine DEF BuildAdd
  <1>5. ASSUME ~BadLengths(r),
               built' = [series |-> series,
                         previous |-> [k \in DOMAIN built.previous \cup {r.id} |->
                             IF k = r.id THEN Range(BoundsOf(r)) ELSE built.previous[k]],
                         temporality |-> [k \in DOMAIN built.temporality \cup {labels} |->
                             IF k = labels THEN r.temporality ELSE built.temporality[k]],
                         samples |-> built.samples + Len(added)],
               row' = row + 1, phase' = phase
        PROVE  Inv'
    <2> DEFINE previous == [k \in DOMAIN built.previous \cup {r.id} |->
                             IF k = r.id THEN Range(BoundsOf(r)) ELSE built.previous[k]]
    <2>1. SeriesOk(series)
      <3>0. SeriesOk(built.series)
        BY <1>1 DEF BuiltOk
      <3>1. added \in Seq(KeyedPoint)
        BY <1>1, <1>3, <1>5, RowPoints DEF BuiltOk
      <3> HIDE DEF added
      <3> QED
        BY <3>0, <3>1, AppendedSeries
    <2>2. \A id \in DOMAIN previous : previous[id] \subseteq Int /\ IsFiniteSet(previous[id])
      BY <1>1, <1>3, RowBounds DEF BuiltOk
    <2> HIDE DEF series, previous, added
    <2>3. /\ built'.series = series /\ built'.previous = previous
          /\ built' = [series |-> built'.series, previous |-> built'.previous,
                       temporality |-> built'.temporality, samples |-> built'.samples]
      BY <1>5 DEF previous
    <2>4. phase' # "engine"
      BY <1>1, <1>5
    <2>5. BuiltOk'
      BY <2>1, <2>2, <2>3, <2>4 DEF BuiltOk
    <2>6. store' = store /\ plan' = plan /\ it' = it /\ row' \in Nat
      BY <1>1, <1>5 DEF BuildAdd
    <2> QED
      BY <1>2, <2>5, <2>6 DEF Inv, NoIterator
  <1> QED
    BY <1>1, <1>4, <1>5, Zenon DEF BuildRow

LEMMA FinishKeeps == ASSUME Inv, BuildFinish PROVE Inv'
  <1> DEFINE old == built.series
             new(k) == IF built.temporality[k[1]] = "delta"
                         THEN Accumulate(SortSamples(old[k])) ELSE SortSamples(old[k])
             series == [k \in DOMAIN old |-> new(k)]
  <1>1. BuiltOk /\ phase = "build"
    BY DEF Inv, BuildFinish
  <1>2. it = NoIterator
    BY <1>1 DEF Inv, ReaderOk
  <1>3. built' = [built EXCEPT !.series = series]
    BY DEF BuildFinish
  <1>4. ASSUME NEW k \in DOMAIN old PROVE new(k) \in Seq(Point) /\ Timed(new(k))
    <2> DEFINE sorted == SortSamples(old[k])
    <2>1. sorted \in Seq(Point) /\ Timed(sorted)
      BY <1>1, SortedByTime DEF BuiltOk, SeriesOk, SortSamples
    <2> HIDE DEF sorted
    <2>2. Accumulate(sorted) \in Seq(Point) /\ Timed(Accumulate(sorted))
      BY <2>1, AccumulatedPoints, StrictTimed
    <2>3. new(k) = Accumulate(sorted) \/ new(k) = sorted
      BY DEF sorted
    <2> QED
      BY <2>1, <2>2, <2>3
  <1> HIDE DEF new
  <1>5. SeriesOk(series) /\ \A k \in DOMAIN series : Timed(series[k])
    BY <1>1, <1>4 DEF BuiltOk, SeriesOk
  <1> HIDE DEF series
  <1>6. built' = [series |-> series, previous |-> built.previous,
                  temporality |-> built.temporality, samples |-> built.samples]
    BY <1>1, <1>3 DEF BuiltOk
  <1>7. BuiltOk'
    BY <1>1, <1>5, <1>6 DEF BuiltOk, TimedSeries
  <1> QED
    BY <1>2, <1>7 DEF Inv, BuildFinish, NoIterator

LEMMA InitOk == ASSUME Init PROVE Inv
  <1>1. built.series = <<>> /\ built.previous = <<>> /\ DOMAIN <<>> = {}
    BY DEF Init, NewBuilder
  <1>2. phase # "engine"
    BY Zenon DEF Init
  <1>3. BuiltOk
    BY <1>1, <1>2 DEF Init, NewBuilder, BuiltOk, SeriesOk
  <1> QED
    BY <1>3 DEF Init, Inv

(* In every state of a request the builder's series are typed, the engine's *)
(* are in time order, and the iterator has passed the points before the     *)
(* current step's time and remembers those that its range may still hold    *)
(* (posthog_histogram.go:440-560, storage.go:1303-1327).                    *)
THEOREM HistogramInv == Spec => []Inv
  <1>1. Init => Inv
    BY InitOk
  <1>2. Inv /\ [Next]_vars => Inv'
    <2> SUFFICES ASSUME Inv, [Next]_vars PROVE Inv'
      OBVIOUS
    <2>1. CASE UNCHANGED vars
      <3>1. /\ store' = store /\ plan' = plan /\ row' = row /\ built' = built /\ phase' = phase
            /\ it' = it
        BY <2>1 DEF vars
      <3>2. BuiltOk'
        BY <3>1 DEF Inv, BuiltOk, TimedSeries
      <3>3. ReaderOk => ReaderOk'
        BY <3>1 DEF ReaderOk, BehindStep, RemembersFrom, Points, GridTime
      <3> QED
        BY <3>1, <3>2, <3>3 DEF Inv, NoIterator
    <2>2. CASE CompactAdd \/ CompactFinish \/ ReadFails
      BY <2>2, CompactKeeps
    <2>3. CASE BuildAdd
      BY <2>3, BuildKeeps
    <2>4. CASE BuildFinish
      BY <2>4, FinishKeeps
    <2>5. CASE OpenIterator
      BY <2>5, OpenKeeps
    <2>6. CASE EngineSeek
      BY <2>6, SeekKeeps
    <2>7. CASE EngineNext
      BY <2>7, NextKeeps
    <2>8. CASE EngineEvaluate
      BY <2>8, EvaluateKeeps
    <2>9. CASE EngineDone
      BY <2>9, EngineDoneKeeps
    <2> QED
      BY <2>1, <2>2, <2>3, <2>4, <2>5, <2>6, <2>7, <2>8, <2>9 DEF Next
  <1> QED
    BY <1>1, <1>2, PTL DEF Spec

-----------------------------------------------------------------------------
(* What the engine hands to the function.                                   *)

LEMMA StrictConcat ==
    ASSUME NEW s \in Seq(Point), NEW u \in Seq(Point), Strict(s), Strict(u),
           \A i \in DOMAIN s, j \in DOMAIN u : s[i].t < u[j].t
    PROVE  /\ s \o u \in Seq(Point) /\ Strict(s \o u)
           /\ Range(s \o u) = Range(s) \cup Range(u)
  <1> DEFINE w == s \o u
             m == Len(s)
             n == Len(u)
  <1>1. /\ m \in Nat /\ n \in Nat /\ DOMAIN s = 1..m /\ DOMAIN u = 1..n
        /\ w \in Seq(Point) /\ Len(w) = m + n /\ DOMAIN w = 1..(m + n)
        /\ \A i \in 1..m : w[i] = s[i]
        /\ \A i \in (m + 1)..(m + n) : w[i] = u[i - m]
    <2>1. m \in Nat /\ n \in Nat /\ DOMAIN s = 1..m /\ DOMAIN u = 1..n
      BY LenProperties
    <2>2. /\ w \in Seq(Point) /\ Len(w) = m + n
          /\ \A i \in 1..(m + n) : w[i] = IF i <= m THEN s[i] ELSE u[i - m]
      BY ConcatProperties
    <2> HIDE DEF w, m, n
    <2>3. DOMAIN w = 1..(m + n)
      BY <2>2, LenProperties
    <2> QED
      BY <2>1, <2>2, <2>3
  <1> HIDE DEF w, m, n
  <1>2. ASSUME NEW i \in 1..(m + n), NEW j \in 1..(m + n), i < j PROVE w[i].t < w[j].t
    <2>1. CASE j <= m
      <3>1. i \in DOMAIN s /\ j \in DOMAIN s /\ w[i] = s[i] /\ w[j] = s[j]
        BY <1>1, <1>2, <2>1
      <3> QED
        BY <1>2, <3>1 DEF Strict
    <2>2. CASE i <= m /\ j > m
      <3>1. i \in DOMAIN s /\ j - m \in DOMAIN u /\ w[i] = s[i] /\ w[j] = u[j - m]
        BY <1>1, <2>2
      <3> QED
        BY <3>1
    <2>3. CASE i > m
      <3>1. /\ i - m \in DOMAIN u /\ j - m \in DOMAIN u /\ i - m < j - m
            /\ w[i] = u[i - m] /\ w[j] = u[j - m]
        BY <1>1, <1>2, <2>3
      <3> QED
        BY <3>1 DEF Strict
    <2> QED
      <3>1. j <= m \/ (i <= m /\ j > m) \/ i > m
        BY <1>1
      <3> QED
        BY <2>1, <2>2, <2>3, <3>1
  <1>3. Strict(w)
    BY <1>1, <1>2 DEF Strict
  <1>4. Range(w) = Range(s) \cup Range(u)
    <2>1. ASSUME NEW i \in DOMAIN w PROVE w[i] \in Range(s) \cup Range(u)
      <3>1. CASE i <= m
        BY <1>1, <2>1, <3>1 DEF Range
      <3>2. CASE i > m
        <4>1. i - m \in DOMAIN u /\ w[i] = u[i - m]
          BY <1>1, <2>1, <3>2
        <4> QED
          BY <4>1 DEF Range
      <3> QED
        BY <1>1, <2>1, <3>1, <3>2
    <2>2. ASSUME NEW i \in DOMAIN s PROVE s[i] \in Range(w)
      BY <1>1, <2>2 DEF Range
    <2>3. ASSUME NEW j \in DOMAIN u PROVE u[j] \in Range(w)
      <3>1. j + m \in DOMAIN w /\ w[j + m] = u[j]
        BY <1>1, <2>3
      <3> QED
        BY <3>1 DEF Range
    <2> QED
      BY <2>1, <2>2, <2>3 DEF Range
  <1> QED
    BY <1>1, <1>3, <1>4 DEF w

(* Where an iterator of s stands that has passed the points before ts and   *)
(* remembers those after low.                                               *)
StandsAt(s, low, ts, idx, passed) ==
    /\ s \in Seq(Point) /\ Strict(s) /\ low \in Int /\ ts \in Int /\ low < ts
    /\ idx \in 1..(Len(s) + 1)
    /\ \A i \in 1..(idx - 1) : s[i].t < ts
    /\ idx \in DOMAIN s => s[idx].t >= ts
    /\ \E from \in 1..idx :
         passed = SubSeq(s, from, idx - 1) /\ \A i \in 1..(from - 1) : s[i].t <= low

Handed(s, low, ts, idx, passed) ==
    Picked(passed, {i \in DOMAIN passed : passed[i].t > low})
      \o (IF idx \in DOMAIN s /\ s[idx].t = ts THEN <<s[idx]>> ELSE <<>>)

(* The points the engine remembers, or the point it stands on, are those of *)
(* the range.                                                               *)
LEMMA WindowIs ==
    ASSUME NEW s, NEW low, NEW ts, NEW idx, NEW passed, StandsAt(s, low, ts, idx, passed)
    PROVE  Handed(s, low, ts, idx, passed) = Between(s, low, ts)
  <1> DEFINE n == Len(s)
             P == {i \in DOMAIN passed : passed[i].t > low}
             a == Picked(passed, P)
             at == idx \in DOMAIN s /\ s[idx].t = ts
             b == IF at THEN <<s[idx]>> ELSE <<>>
             I == {i \in DOMAIN s : low < s[i].t /\ s[i].t <= ts}
             w == Picked(s, I)
  <1>0. /\ s \in Seq(Point) /\ Strict(s) /\ low \in Int /\ ts \in Int /\ low < ts
        /\ idx \in 1..(Len(s) + 1)
        /\ \A i \in 1..(idx - 1) : s[i].t < ts
        /\ idx \in DOMAIN s => s[idx].t >= ts
    BY DEF StandsAt
  <1>15. PICK from \in 1..idx :
           passed = SubSeq(s, from, idx - 1) /\ \A i \in 1..(from - 1) : s[i].t <= low
    BY DEF StandsAt
  <1> USE <1>0, <1>15
  <1>1. n \in Nat /\ DOMAIN s = 1..n /\ \A i \in 1..n : s[i] \in Point /\ s[i].t \in Int
    BY LenProperties, PointAt
  <1>2. /\ passed \in Seq(Point) /\ DOMAIN passed = 1..(idx - from)
        /\ \A i \in 1..(idx - from) : passed[i] = s[from + i - 1]
    <2>1. /\ passed \in Seq(Point) /\ Len(passed) = idx - from
          /\ \A i \in 1..(idx - from) : passed[i] = s[from + i - 1]
      BY <1>1, SubSeqProperties
    <2> QED
      BY <2>1, LenProperties
  <1>3. \A i \in 1..(idx - from) : from + i - 1 \in 1..(idx - 1) /\ from + i - 1 \in 1..n
    BY <1>1
  <1>4. Strict(passed)
    <2> SUFFICES ASSUME NEW i \in 1..(idx - from), NEW j \in 1..(idx - from), i < j
                 PROVE  passed[i].t < passed[j].t
      BY <1>2 DEF Strict
    <2>1. from + i - 1 \in DOMAIN s /\ from + j - 1 \in DOMAIN s /\ from + i - 1 < from + j - 1
      BY <1>1, <1>3
    <2> QED
      BY <1>2, <2>1 DEF Strict
  <1>5. a \in Seq(Point) /\ Strict(a) /\ Range(a) = {passed[i] : i \in P}
    BY <1>2, <1>4, PickedPoints
  <1>6. b \in Seq(Point) /\ Strict(b) /\ Range(b) = {s[i] : i \in {idx} \cap I}
    <2>1. CASE at
      <3>1. idx \in I
        BY <1>1, <2>1
      <3>2. s[idx] \in Point /\ b = <<s[idx]>>
        BY <1>1, <2>1
      <3> HIDE DEF I, at, b
      <3>3. {s[i] : i \in {idx} \cap I} = {s[idx]}
        BY <3>1
      <3>4. <<s[idx]>> \in Seq(Point) /\ DOMAIN <<s[idx]>> = {1} /\ <<s[idx]>>[1] = s[idx]
        BY <3>2
      <3>5. Strict(b)
        BY <3>2, <3>4 DEF Strict
      <3>6. Range(b) = {s[idx]}
        BY <3>2, <3>4 DEF Range
      <3> QED
        BY <3>2, <3>3, <3>4, <3>5, <3>6
    <2>2. CASE ~at
      <3>1. idx \notin I
        BY <1>1, <2>2
      <3>2. b = <<>>
        BY <2>2
      <3> HIDE DEF I, at, b
      <3>3. {s[i] : i \in {idx} \cap I} = {}
        BY <3>1
      <3>4. <<>> \in Seq(Point) /\ DOMAIN <<>> = {}
        BY EmptySeq
      <3> QED
        BY <3>2, <3>3, <3>4 DEF Strict, Range
    <2> QED
      BY <2>1, <2>2
  <1>7. Range(a) = {s[i] : i \in I \cap 1..(idx - 1)}
    <2>1. ASSUME NEW i \in P PROVE passed[i] \in {s[j] : j \in I \cap 1..(idx - 1)}
      <3>1. passed[i] = s[from + i - 1] /\ from + i - 1 \in 1..(idx - 1) /\ from + i - 1 \in 1..n
            /\ s[from + i - 1].t > low
        BY <1>2, <1>3
      <3> DEFINE j == from + i - 1
      <3>2. j \in I
        BY <1>1, <3>1
      <3> QED
        BY <3>1, <3>2
    <2>2. ASSUME NEW j \in I, j \in 1..(idx - 1) PROVE s[j] \in {passed[i] : i \in P}
      <3>1. j >= from
        BY <1>1, <2>2
      <3> DEFINE i == j - from + 1
      <3>2. i \in 1..(idx - from) /\ from + i - 1 = j
        BY <2>2, <3>1
      <3> HIDE DEF i
      <3>3. passed[i] = s[j] /\ i \in P
        BY <1>1, <1>2, <3>2
      <3> QED
        BY <3>3
    <2> QED
      BY <1>5, <2>1, <2>2, ZenonT(20)
  <1>8. \A i \in I : i \in {idx} \/ i \in 1..(idx - 1)
    <2> SUFFICES ASSUME NEW i \in I, i > idx PROVE FALSE
      BY <1>1
    <2>1. i \in DOMAIN s /\ idx \in DOMAIN s /\ s[i].t \in Int /\ s[idx].t \in Int /\ s[i].t <= ts
      BY <1>1
    <2>2. s[idx].t < s[i].t
      BY <2>1 DEF Strict
    <2> QED
      BY <2>1, <2>2
  <1>9. \A i \in DOMAIN a, j \in DOMAIN b : a[i].t < b[j].t
    <2> SUFFICES ASSUME NEW i \in DOMAIN a, NEW j \in DOMAIN b PROVE a[i].t < b[j].t
      OBVIOUS
    <2>1. b[j].t = ts
      <3>1. CASE at
        <4>1. b = <<s[idx]>> /\ s[idx].t = ts
          BY <3>1
        <4> HIDE DEF b
        <4>2. j = 1
          BY <4>1
        <4> QED
          BY <4>1, <4>2
      <3>2. CASE ~at
        BY <3>2
      <3> QED
        BY <3>1, <3>2
    <2>2. a[i] \in Range(a)
      BY DEF Range
    <2> HIDE DEF a, b, I
    <2>3. PICK k \in I \cap 1..(idx - 1) : a[i] = s[k]
      BY <1>7, <2>2
    <2> QED
      BY <2>1, <2>3
  <1>10. w \in Seq(Point) /\ Strict(w) /\ Range(w) = {s[i] : i \in I}
    BY PickedPoints
  <1>11. Between(s, low, ts) = w
    BY DEF Between
  <1> HIDE DEF a, b, I, w, P
  <1>12. a \o b \in Seq(Point) /\ Strict(a \o b) /\ Range(a \o b) = Range(a) \cup Range(b)
    BY <1>5, <1>6, <1>9, StrictConcat
  <1>13. Range(a \o b) = Range(w)
    BY <1>6, <1>7, <1>8, <1>10, <1>12
  <1>14. a \o b = w
    BY <1>10, <1>12, <1>13, StrictUnique
  <1> QED
    BY <1>11, <1>14 DEF a, b, P, Handed

(* The iterator's position gives the engine the points of the step's range. *)
LEMMA InvReads == ASSUME Inv PROVE WindowRead
  <1> SUFFICES ASSUME Inv, phase = "engine", Ready, OnePerTime(Points)
               PROVE  EngineWindow = Between(Points, GridTime(it.grid) - SelectorRange(plan),
                                             GridTime(it.grid))
    BY DEF WindowRead
  <1> DEFINE s == built.series[it.key]
             ts == GridTime(it.grid)
             low == ts - SelectorRange(plan)
  <1>1. ReaderOk
    BY DEF Inv, Ready, NoIterator
  <1>2. it \in Positions /\ it.key \in DOMAIN built.series /\ plan \in Plans
    BY <1>1 DEF ReaderOk, Inv
  <1>3. Reads(it, s)
    BY <1>1, <1>2, ReaderReads
  <1>4. s \in Seq(Point) /\ Timed(s) /\ DOMAIN s = 1..Len(s) /\ Len(s) \in Nat
    BY <1>2, SeriesRead, LenProperties
  <1>5. ts \in Int /\ low \in Int /\ low < ts
    <2>1. it.grid \in Nat
      BY <1>2 DEF Positions
    <2> QED
      BY <1>2, <2>1, PlanNumbers
  <1>6. Strict(s)
    BY <1>4, OneTimeStrict DEF Points
  <1>7. it.idx \in DOMAIN s => s[it.idx].t >= ts
    <2>1. ASSUME it.idx \in DOMAIN s PROVE s[it.idx].t \in Int /\ ~(s[it.idx].t < ts)
      BY <1>4, <2>1, PointAt DEF Ready, Valid, Points
    <2> HIDE DEF s, ts
    <2> QED
      BY <1>5, <2>1
  <1>8. EngineWindow = Handed(s, low, ts, it.idx, it.passed)
    BY DEF EngineWindow, Handed, Valid, Points
  <1> HIDE DEF s
  <1>9. /\ it.idx \in 1..(Len(s) + 1)
        /\ \A i \in 1..(it.idx - 1) : s[i].t < ts
    BY <1>3 DEF Reads
  <1>10. PICK from \in 1..it.idx :
          /\ it.passed = SubSeq(s, from, it.idx - 1)
          /\ \A k \in 1..(from - 1) : s[k].t <= low
    BY <1>3 DEF Reads
  <1> HIDE DEF ts, low
  <1>11. StandsAt(s, low, ts, it.idx, it.passed)
    BY <1>4, <1>5, <1>6, <1>7, <1>9, <1>10 DEF StandsAt
  <1>12. EngineWindow = Between(s, low, ts)
    BY <1>8, <1>11, WindowIs
  <1> QED
    BY <1>12 DEF s, low, ts, Points

(* At every step the engine hands to the function the points of the step's  *)
(* range, each once and in order, whatever the series, the window and the   *)
(* step: Next and Seek skip none and repeat none (storage.go:1303-1327).    *)
THEOREM EngineReadsWindow == Spec => []WindowRead
  BY InvReads, HistogramInv, PTL

-----------------------------------------------------------------------------
(* The estimate of the sample interval.                                     *)

(* Sorted numbers are the numbers in another order.                         *)
LEMMA SortedNumbers ==
    ASSUME NEW g \in Seq(Int)
    PROVE  /\ DOMAIN SortBy(g, LAMBDA x : x) = 1..Len(g)
           /\ \A i \in 1..Len(g) : \E j \in 1..Len(g) : SortBy(g, LAMBDA x : x)[i] = g[j]
  <1> DEFINE s == [i \in 1..Len(g) |-> [t |-> g[i], v |-> 0]]
             R == TimeOrder(s)
             w == SortBy(g, LAMBDA x : x)
             before(i) == {j \in DOMAIN g : g[j] < g[i] \/ (g[j] = g[i] /\ j <= i)}
             order == [k \in 1..Cardinality(DOMAIN g) |->
                         CHOOSE i \in DOMAIN g : Cardinality(before(i)) = k]
  <1>1. Len(g) \in Nat /\ DOMAIN g = 1..Len(g) /\ \A i \in 1..Len(g) : g[i] \in Int
    BY LenProperties, ElementOfSeq
  <1>2. /\ \A i \in 1..Len(g) : s[i] \in Point /\ s[i].t = g[i]
        /\ s = [i \in 1..Len(g) |-> s[i]]
    BY <1>1 DEF Point
  <1>3. DOMAIN s = DOMAIN g
    BY <1>1
  <1>4. w = [k \in DOMAIN order |-> g[order[k]]]
    BY DEF SortBy, Ranked
  <1> HIDE DEF s, w
  <1>5. s \in Seq(Point) /\ Len(s) = Len(g)
    BY <1>1, <1>2, SequenceOf
  <1>6. /\ IsFiniteSet(DOMAIN g) /\ Cardinality(DOMAIN g) = Len(g)
        /\ TotalOrder(R, DOMAIN g)
        /\ \A i \in DOMAIN g :
              {j \in DOMAIN g : s[j].t < s[i].t \/ (s[j].t = s[i].t /\ j <= i)} = Below(R, DOMAIN g, i)
    BY <1>3, <1>5, TimeOrderTotal
  <1>7. \A i \in DOMAIN g : before(i) = Below(R, DOMAIN g, i)
    BY <1>1, <1>2, <1>6
  <1>8. \A k \in 1..Len(g) : \E i \in DOMAIN g : Cardinality(Below(R, DOMAIN g, i)) = k
    <2> DEFINE D == DOMAIN g
    <2>1. IsFiniteSet(D) /\ TotalOrder(R, D) /\ Cardinality(D) = Len(g)
      BY <1>6
    <2> HIDE DEF D, R
    <2>2. \A k \in 1..Cardinality(D) : \E i \in D : Cardinality(Below(R, D, i)) = k
      BY <2>1, RankTaken
    <2> QED
      BY <2>1, <2>2 DEF D
  <1> HIDE DEF R
  <1>9. ASSUME NEW k \in 1..Len(g) PROVE order[k] \in DOMAIN g
    <2>1. \E i \in DOMAIN g : Cardinality(before(i)) = k
      BY <1>7, <1>8
    <2>2. order[k] = CHOOSE i \in DOMAIN g : Cardinality(before(i)) = k
      BY <1>6
    <2> HIDE DEF before, order
    <2> QED
      BY <2>1, <2>2
  <1>10. DOMAIN order = 1..Len(g)
    BY <1>6
  <1> HIDE DEF order
  <1>11. DOMAIN w = 1..Len(g) /\ \A i \in 1..Len(g) : w[i] = g[order[i]]
    BY <1>4, <1>10
  <1> QED
    BY <1>1, <1>9, <1>11 DEF w

(* The gaps the estimate reads: the last ones, each between neighbours.     *)
GapAt(points, i) == points[i].t - points[i - 1].t

LEMMA SortedGaps ==
    ASSUME NEW s \in Seq(Point), Len(s) >= 2, NEW count \in Nat \ {0},
           NEW m, m = Smaller(Len(s) - 1, count)
    PROVE  /\ m \in Nat \ {0}
           /\ DOMAIN LastGaps(s, count) = 1..m
           /\ Len(LastGaps(s, count)) = m
           /\ \A i \in 1..m : \E j \in 2..Len(s) : LastGaps(s, count)[i] = GapAt(s, j)
  <1> DEFINE n == Len(s)
             g == [i \in 1..m |-> s[n - m + i].t - s[n - m + i - 1].t]
             w == SortBy(g, LAMBDA x : x)
  <1>1. n \in Nat /\ DOMAIN s = 1..n /\ \A i \in 1..n : s[i].t \in Int
    BY LenProperties, PointAt
  <1>2. m \in Nat \ {0} /\ m <= n - 1
    <2>1. m = n - 1 \/ m = count
      BY DEF Smaller
    <2>2. m <= n - 1
      <3>1. m = IF n - 1 < count THEN n - 1 ELSE count
        BY DEF Smaller
      <3> HIDE DEF n
      <3> QED
        BY ONLY <1>1, <3>1
    <2> QED
      BY <1>1, <2>1, <2>2
  <1>3. ASSUME NEW i \in 1..m
        PROVE  n - m + i \in 2..n /\ g[i] = GapAt(s, n - m + i) /\ g[i] \in Int
    <2>1. n - m + i \in 2..n /\ n - m + i - 1 \in 1..n
      BY <1>1, <1>2
    <2>2. g[i] = s[n - m + i].t - s[n - m + i - 1].t
      OBVIOUS
    <2>3. n - m + i - 1 = (n - m + i) - 1
      BY <1>1, <1>2
    <2>4. g[i] = GapAt(s, n - m + i)
      BY <2>2, <2>3 DEF GapAt
    <2>5. s[n - m + i].t \in Int /\ s[n - m + i - 1].t \in Int
      BY <1>1, <2>1
    <2> HIDE DEF g
    <2> QED
      BY <2>1, <2>2, <2>4, <2>5
  <1>4. g = [i \in 1..m |-> g[i]]
    OBVIOUS
  <1>5. LastGaps(s, count) = w
    BY DEF LastGaps
  <1> HIDE DEF g
  <1>6. g \in Seq(Int) /\ Len(g) = m
    BY <1>2, <1>3, <1>4, SequenceOf
  <1>7. DOMAIN w = 1..m /\ \A i \in 1..m : \E j \in 1..m : w[i] = g[j]
    BY <1>6, SortedNumbers
  <1> HIDE DEF w
  <1>8. \A i \in 1..m : \E j \in 2..n : w[i] = GapAt(s, j)
    BY <1>3, <1>7, SMTT(20)
  <1>9. w \in Seq(Int)
    <2>1. \A i \in 1..m : w[i] \in Int
      BY <1>3, <1>7
    <2>2. w = [i \in 1..m |-> w[i]]
      <3>1. w = [k \in DOMAIN w |-> w[k]]
        BY DEF w, SortBy
      <3> QED
        BY <1>7, <3>1
    <2> QED
      BY <1>2, <2>1, <2>2, SequenceOf
  <1>10. Len(w) = m
    BY <1>2, <1>7, <1>9, LenProperties
  <1> QED
    BY <1>2, <1>5, <1>7, <1>8, <1>10

(* Where the quantile reads the sorted gaps.                                *)
LEMMA QuantileReads ==
    ASSUME NEW w, NEW m \in Nat \ {0}, Len(w) = m
    PROVE  \E i, j \in 1..m, r \in Nat : Quantile(w) = Interpolated(w[i], w[j], r)
  <1> DEFINE position == 6 * (m - 1)
             i == position \div 10 + 1
             j == Smaller(i + 1, m)
             r == position % 10
  <1>1. i \in 1..m /\ r \in Nat
    OBVIOUS
  <1>2. j \in 1..m
    BY <1>1 DEF Smaller
  <1>3. Quantile(w) = Interpolated(w[i], w[j], r)
    BY DEF Quantile
  <1> QED
    BY <1>1, <1>2, <1>3

LEMMA MarginTyped ==
    ASSUME NEW fallback \in Int, NEW x \in Int
    PROVE  MarginOr(fallback, x) \in Int
  BY DEF MarginOr, Margin

LEMMA IntervalTyped ==
    ASSUME NEW s \in Seq(Point), NEW fallback \in Int
    PROVE  metricsQLSampleInterval(s, fallback) \in Int
  <1>1. CASE Len(s) < 2
    BY <1>1 DEF metricsQLSampleInterval
  <1>2. CASE ~(Len(s) < 2)
    <2> DEFINE m == Smaller(Len(s) - 1, IntervalPoints)
               w == LastGaps(s, IntervalPoints)
    <2>0. Len(s) >= 2
      BY <1>2, LenProperties
    <2>1. /\ m \in Nat \ {0} /\ Len(w) = m
          /\ \A i \in 1..m : \E j \in 2..Len(s) : w[i] = GapAt(s, j)
      BY <2>0, RollupAssumption, SortedGaps
    <2>2. \A j \in 2..Len(s) : GapAt(s, j) \in Int
      <3>1. ASSUME NEW j \in 2..Len(s) PROVE s[j].t \in Int /\ s[j - 1].t \in Int
        <4>1. j \in DOMAIN s /\ j - 1 \in DOMAIN s
          BY LenProperties
        <4> QED
          BY <4>1, PointAt
      <3> QED
        BY <3>1 DEF GapAt
    <2> HIDE DEF m, w
    <2>3. PICK i \in 1..m, j \in 1..m, r \in Nat : Quantile(w) = Interpolated(w[i], w[j], r)
      BY <2>1, QuantileReads
    <2>4. w[i] \in Int /\ w[j] \in Int
      BY <2>1, <2>2
    <2>5. Quantile(w) \in Int
      BY <2>3, <2>4 DEF Interpolated
    <2>6. metricsQLSampleInterval(s, fallback) = MarginOr(fallback, Quantile(w))
      BY <1>2 DEF metricsQLSampleInterval, w
    <2>7. MarginOr(fallback, Quantile(w)) \in Int
      BY <2>5, MarginTyped
    <2> QED
      BY <2>6, <2>7
  <1> QED
    BY <1>1, <1>2

-----------------------------------------------------------------------------
(* The window statement of the native tables, with one matrix per step.     *)

CallOk(q) ==
    /\ "name" \in DOMAIN q /\ q.name \in Functions
    /\ q.window \in Nat /\ q.step \in Nat \ {0} /\ q.lookback \in Nat \ {0}
    /\ q.offset \in Int /\ q.instant = FALSE
    /\ q.window = 0 => q.name \in {"rate", "default_rollup"}

LEMMA CallRange == ASSUME NEW q, CallOk(q) PROVE SelectorRange(q) \in Nat /\ SelectorRange(q) > 0
  BY DEF CallOk, SelectorRange

(* A series is the matrix of nothing but its points between two times.      *)
LEMMA BetweenPoints ==
    ASSUME NEW s \in Seq(Point), NEW lo \in Int, NEW hi \in Int
    PROVE  /\ Between(s, lo, hi) \in Seq(Point)
           /\ Range(Between(s, lo, hi)) = {p \in Range(s) : lo < p.t /\ p.t <= hi}
           /\ Strict(s) => Strict(Between(s, lo, hi))
  <1> DEFINE I == {i \in DOMAIN s : lo < s[i].t /\ s[i].t <= hi}
  <1>1. Between(s, lo, hi) = Picked(s, I)
    BY DEF Between
  <1>2. {s[i] : i \in I} = {p \in Range(s) : lo < p.t /\ p.t <= hi}
    BY DEF Range
  <1>3. I \in SUBSET DOMAIN s
    OBVIOUS
  <1> HIDE DEF I
  <1> QED
    BY <1>1, <1>2, <1>3, PickedPoints

LEMMA NonStalePoints ==
    ASSUME NEW s \in Seq(Point)
    PROVE  /\ NonStale(s) \in Seq(Point)
           /\ Range(NonStale(s)) = {p \in Range(s) : p.v # Stale}
           /\ Strict(s) => Strict(NonStale(s))
  <1> DEFINE I == {i \in DOMAIN s : s[i].v # Stale}
  <1>1. NonStale(s) = Picked(s, I)
    BY DEF NonStale
  <1>2. {s[i] : i \in I} = {p \in Range(s) : p.v # Stale}
    BY DEF Range
  <1>3. I \in SUBSET DOMAIN s
    OBVIOUS
  <1> HIDE DEF I
  <1> QED
    BY <1>1, <1>2, <1>3, PickedPoints

(* A sample is used at the steps whose window has it.                       *)
LEMMA StepUses ==
    ASSUME NEW q, CallOk(q), NEW start \in Int, NEW count \in Nat, NEW k \in 0..(count - 1),
           NEW width \in Int, NEW t \in Int
    PROVE  k \in StepsOf(t, q, width, start, count)
             <=> (start + k * q.step - q.offset) - width < t /\ t <= start + k * q.step - q.offset
  <1> DEFINE a == t + q.offset - start
             b == t + q.offset + width - start
             A == CeilDiv(a, q.step)
             B == CeilDiv(b, q.step)
  <1>1. q.offset \in Int /\ q.step \in Nat \ {0}
    BY DEF CallOk
  <1>2. A \in Int /\ (k >= A <=> k * q.step >= a) /\ B \in Int /\ (k >= B <=> k * q.step >= b)
    BY <1>1 DEF CeilDiv
  <1>3. StepsOf(t, q, width, start, count) = Larger(0, A)..(Smaller(count, B) - 1)
    BY DEF StepsOf
  <1>4. k * q.step \in Int
    BY <1>1
  <1>5. k * q.step >= a <=> t <= start + k * q.step - q.offset
    BY <1>1, <1>4
  <1>6. k * q.step >= b <=> ~((start + k * q.step - q.offset) - width < t)
    BY <1>1, <1>4
  <1> HIDE DEF A, B, a, b
  <1>7. k \in Larger(0, A)..(Smaller(count, B) - 1) <=> k >= A /\ ~(k >= B)
    BY <1>2 DEF Larger, Smaller
  <1> QED
    BY <1>2, <1>3, <1>5, <1>6, <1>7

(* What a function sees of a matrix.                                        *)
Seen(q, m) == IF q.name = "default_rollup" THEN m ELSE NonStale(m)

(* The samples the statement reads are enough for the matrix of every step, *)
(* and the steps it finds for them give each step that matrix.              *)
LEMMA StepMatrix ==
    ASSUME NEW q, CallOk(q), NEW s \in Seq(Point), Strict(s), NEW start \in Int,
           NEW count \in Nat, NEW k \in 0..(count - 1)
    PROVE  LET S == ReadSamples(q, s, start, count)
           IN  /\ S \in Seq(Point) /\ Strict(S)
               /\ q.name # "default_rollup" => \A i \in DOMAIN S : S[i].v \in Int
               /\ Picked(S, {i \in DOMAIN S :
                       k \in StepsOf(S[i].t, q, SelectorRange(q), start, count)})
                    = Seen(q, MatrixAt(q, s, start + k * q.step))
  <1> DEFINE S == ReadSamples(q, s, start, count)
             I == {i \in DOMAIN S : k \in StepsOf(S[i].t, q, SelectorRange(q), start, count)}
             first == start - q.offset - SelectorRange(q) - 1
             last == start + (count - 1) * q.step - q.offset
             e == start + k * q.step - q.offset
             low == e - SelectorRange(q)
             M == MatrixAt(q, s, start + k * q.step)
  <1>1. q.offset \in Int /\ q.step \in Nat \ {0} /\ SelectorRange(q) \in Nat
    BY CallRange DEF CallOk
  <1>2. first \in Int /\ last \in Int /\ e \in Int /\ low \in Int /\ first < low /\ e <= last
    <2>1. k * q.step \in Int /\ (count - 1) * q.step \in Int /\ k * q.step <= (count - 1) * q.step
          /\ 0 <= k * q.step
      BY <1>1
    <2> DEFINE x == k * q.step
               y == (count - 1) * q.step
    <2>2. x \in Int /\ y \in Int /\ x <= y /\ 0 <= x
      BY <2>1
    <2>3. e = start + x - q.offset /\ last = start + y - q.offset
      OBVIOUS
    <2> HIDE DEF x, y, e, last
    <2>4. e \in Int /\ last \in Int /\ e <= last /\ start - q.offset <= e
      BY <1>1, <2>2, <2>3, SMTT(20)
    <2>5. first \in Int /\ first < start - q.offset - SelectorRange(q)
      BY <1>1
    <2> QED
      BY <1>1, <2>4, <2>5
  <1>3. M = Between(s, low, e)
    BY <1>1 DEF MatrixAt
  <1>4. S = Seen(q, Between(s, first, last))
    BY DEF ReadSamples, Seen
  <1> HIDE DEF S, M, first, last, e, low
  <1>5. ASSUME NEW lo \in Int, NEW hi \in Int
        PROVE  /\ Seen(q, Between(s, lo, hi)) \in Seq(Point)
               /\ Strict(Seen(q, Between(s, lo, hi)))
               /\ Range(Seen(q, Between(s, lo, hi)))
                    = {p \in Range(s) : lo < p.t /\ p.t <= hi
                                          /\ (q.name = "default_rollup" \/ p.v # Stale)}
    <2> DEFINE B == Between(s, lo, hi)
    <2>1. /\ B \in Seq(Point) /\ Strict(B)
          /\ Range(B) = {p \in Range(s) : lo < p.t /\ p.t <= hi}
      BY BetweenPoints
    <2> HIDE DEF B
    <2>2. /\ NonStale(B) \in Seq(Point) /\ Strict(NonStale(B))
          /\ Range(NonStale(B)) = {p \in Range(B) : p.v # Stale}
      BY <2>1, NonStalePoints
    <2> DEFINE P == {p \in Range(s) : lo < p.t /\ p.t <= hi
                                          /\ (q.name = "default_rollup" \/ p.v # Stale)}
    <2>3. CASE q.name = "default_rollup"
      <3>1. Seen(q, B) = B
        BY <2>3 DEF Seen
      <3>2. P = {p \in Range(s) : lo < p.t /\ p.t <= hi}
        BY <2>3
      <3> HIDE DEF P
      <3> QED
        BY <2>1, <3>1, <3>2 DEF B, P
    <2>4. CASE q.name # "default_rollup"
      <3>1. Seen(q, B) = NonStale(B)
        BY <2>4 DEF Seen
      <3>2. P = {p \in Range(B) : p.v # Stale}
        BY <2>1, <2>4
      <3> HIDE DEF P
      <3> QED
        BY <2>2, <3>1, <3>2 DEF B, P
    <2> QED
      BY <2>3, <2>4 DEF B
  <1>6. /\ S \in Seq(Point) /\ Strict(S)
        /\ Range(S) = {p \in Range(s) : first < p.t /\ p.t <= last
                                          /\ (q.name = "default_rollup" \/ p.v # Stale)}
    BY <1>2, <1>4, <1>5
  <1>7. /\ Seen(q, M) \in Seq(Point) /\ Strict(Seen(q, M))
        /\ Range(Seen(q, M)) = {p \in Range(s) : low < p.t /\ p.t <= e
                                          /\ (q.name = "default_rollup" \/ p.v # Stale)}
    BY <1>2, <1>3, <1>5
  <1>8. /\ Picked(S, I) \in Seq(Point) /\ Strict(Picked(S, I))
        /\ Range(Picked(S, I)) = {S[i] : i \in I}
    <2>1. I \in SUBSET DOMAIN S
      OBVIOUS
    <2> HIDE DEF I
    <2> QED
      BY <1>6, <2>1, PickedPoints
  <1>9. \A i \in DOMAIN S : i \in I <=> low < S[i].t /\ S[i].t <= e
    <2> SUFFICES ASSUME NEW i \in DOMAIN S PROVE i \in I <=> low < S[i].t /\ S[i].t <= e
      OBVIOUS
    <2>1. S[i].t \in Int
      BY <1>6, PointAt
    <2>2. k \in StepsOf(S[i].t, q, SelectorRange(q), start, count) <=> low < S[i].t /\ S[i].t <= e
      <3> DEFINE t == S[i].t
                 width == SelectorRange(q)
      <3>1. t \in Int /\ width \in Int
        BY <1>1, <2>1
      <3> HIDE DEF t, width
      <3>2. k \in StepsOf(t, q, width, start, count)
              <=> (start + k * q.step - q.offset) - width < t /\ t <= start + k * q.step - q.offset
        BY <3>1, StepUses
      <3> QED
        BY <3>2 DEF t, width, low, e
    <2> QED
      BY <2>2
  <1>10. I \in SUBSET DOMAIN S
    OBVIOUS
  <1> HIDE DEF I
  <1>11. {S[i] : i \in I} = {p \in Range(S) : low < p.t /\ p.t <= e}
    BY <1>9, <1>10 DEF Range
  <1>12. \A p \in Range(S) : p.t \in Int
    BY <1>6, PointAt DEF Range
  <1>13. Range(Picked(S, I)) = Range(Seen(q, M))
    <2>1. \A p \in Range(s) : p.t \in Int
      BY PointAt DEF Range
    <2>2. \A p \in Range(s) : low < p.t /\ p.t <= e => first < p.t /\ p.t <= last
      BY <1>2, <2>1
    <2> QED
      BY <1>6, <1>7, <1>8, <1>11, <2>2
  <1>14. Picked(S, I) = Seen(q, M)
    BY <1>7, <1>8, <1>13, StrictUnique
  <1>15. q.name # "default_rollup" => \A i \in DOMAIN S : S[i].v \in Int
    <2> SUFFICES ASSUME q.name # "default_rollup", NEW i \in DOMAIN S PROVE S[i].v \in Int
      OBVIOUS
    <2>1. S[i] \in Range(S) /\ S[i].v \in Int \cup {Stale}
      BY <1>6, PointAt DEF Range
    <2> QED
      BY <1>6, <2>1
  <1> QED
    BY <1>6, <1>14, <1>15 DEF S, I, M

(* Where the points up to a time end.                                       *)
LEMMA CountUntilIs ==
    ASSUME NEW s \in Seq(Point), Strict(s), NEW x \in Int
    PROVE  /\ CountUntil(s, x) \in 0..Len(s) /\ Len(s) \in Nat /\ DOMAIN s = 1..Len(s)
           /\ \A i \in 1..Len(s) : i <= CountUntil(s, x) <=> s[i].t <= x
  <1> DEFINE n == Len(s)
             I == {i \in DOMAIN s : s[i].t <= x}
             c == Cardinality(I)
  <1>1. n \in Nat /\ DOMAIN s = 1..n /\ \A i \in 1..n : s[i].t \in Int
    BY LenProperties, PointAt
  <1>2. IsFiniteSet(1..n) /\ Cardinality(1..n) = n
    <2>1. IsFiniteSet(1..n) /\ Cardinality(1..n) = IF 1 > n THEN 0 ELSE n - 1 + 1
      BY <1>1, FS_Interval, SMTT(20)
    <2> QED
      BY <1>1, <2>1
  <1>3. I \subseteq 1..n
    BY <1>1
  <1>4. \A i \in 1..n : i \in I <=> s[i].t <= x
    BY <1>1
  <1>5. CountUntil(s, x) = c
    BY DEF CountUntil
  <1> HIDE DEF I, n
  <1>6. IsFiniteSet(I) /\ c \in Nat /\ c <= n
    BY <1>2, <1>3, FS_Subset, FS_CardinalityType
  <1>7. ASSUME NEW i \in I, NEW j \in 1..i PROVE j \in I
    <2>1. j \in 1..n /\ i \in 1..n
      BY <1>1, <1>3
    <2>2. j = i \/ s[j].t < s[i].t
      BY <1>1, <2>1 DEF Strict
    <2> QED
      BY <1>1, <1>4, <2>1, <2>2
  <1>8. ASSUME NEW i \in 1..n, i \in I PROVE i <= c
    <2>1. 1..i \subseteq I
      BY <1>7, <1>8
    <2>2. Cardinality(1..i) = i
      <3>1. Cardinality(1..i) = IF 1 > i THEN 0 ELSE i - 1 + 1
        BY FS_Interval
      <3> QED
        BY <3>1
    <2> QED
      BY <1>6, <2>1, <2>2, FS_Subset
  <1>9. ASSUME NEW i \in 1..n, i \notin I PROVE ~(i <= c)
    <2>1. I \subseteq 1..(i - 1)
      <3> SUFFICES ASSUME NEW j \in I, j >= i PROVE FALSE
        BY <1>1, <1>3
      <3>1. i \in 1..j
        BY <1>1, <1>3
      <3> QED
        BY <1>7, <1>9, <3>1
    <2>2. IsFiniteSet(1..(i - 1)) /\ Cardinality(1..(i - 1)) = i - 1
      <3>1. i - 1 \in Int
        OBVIOUS
      <3>2. IsFiniteSet(1..(i - 1)) /\ Cardinality(1..(i - 1)) = IF 1 > i - 1 THEN 0 ELSE (i - 1) - 1 + 1
        BY <3>1, FS_Interval
      <3> QED
        BY <3>2
    <2>3. c <= i - 1
      BY <2>1, <2>2, FS_Subset
    <2> QED
      BY <1>6, <2>3
  <1> HIDE DEF c
  <1>10. \A i \in 1..n : i <= c <=> s[i].t <= x
    BY <1>4, <1>8, <1>9
  <1> QED
    BY <1>1, <1>5, <1>6, <1>10 DEF n

(* The points of a stretch.                                                 *)
LEMMA Stretch ==
    ASSUME NEW s \in Seq(Point), Strict(s), NEW a \in 0..Len(s), NEW b \in a..Len(s)
    PROVE  /\ SubSeq(s, a + 1, b) \in Seq(Point) /\ Strict(SubSeq(s, a + 1, b))
           /\ Len(SubSeq(s, a + 1, b)) = b - a /\ DOMAIN SubSeq(s, a + 1, b) = 1..(b - a)
           /\ \A i \in 1..(b - a) : SubSeq(s, a + 1, b)[i] = s[a + i]
           /\ Range(SubSeq(s, a + 1, b)) = {s[i] : i \in (a + 1)..b}
  <1> DEFINE w == SubSeq(s, a + 1, b)
  <1>1. Len(s) \in Nat /\ DOMAIN s = 1..Len(s)
    BY LenProperties
  <1>2. w \in Seq(Point) /\ Len(w) = b - a
    <2>1. w \in Seq(Point) /\ Len(w) = IF a + 1 <= b THEN b - (a + 1) + 1 ELSE 0
      BY <1>1, SubSeqProperties
    <2> QED
      BY <1>1, <2>1
  <1>3. \A i \in 1..(b - a) : w[i] = s[a + i]
    <2>1. \A i \in 1..(b - (a + 1) + 1) : w[i] = s[(a + 1) + i - 1]
      BY <1>1, SubSeqProperties
    <2> SUFFICES ASSUME NEW i \in 1..(b - a) PROVE w[i] = s[a + i]
      OBVIOUS
    <2>2. i \in 1..(b - (a + 1) + 1) /\ (a + 1) + i - 1 = a + i
      BY <1>1
    <2> HIDE DEF w
    <2> QED
      BY <2>1, <2>2
  <1> HIDE DEF w
  <1>4. DOMAIN w = 1..(b - a)
    BY <1>1, <1>2, LenProperties
  <1>5. Strict(w)
    <2> SUFFICES ASSUME NEW i \in 1..(b - a), NEW j \in 1..(b - a), i < j PROVE w[i].t < w[j].t
      BY <1>4 DEF Strict
    <2>1. a + i \in DOMAIN s /\ a + j \in DOMAIN s /\ a + i < a + j
      BY <1>1
    <2> QED
      BY <1>3, <2>1 DEF Strict
  <1>6. Range(w) = {s[i] : i \in (a + 1)..b}
    <2>1. \A i \in 1..(b - a) : a + i \in (a + 1)..b
      BY <1>1
    <2>2. ASSUME NEW i \in (a + 1)..b PROVE s[i] \in Range(w)
      <3>1. i - a \in 1..(b - a) /\ a + (i - a) = i
        BY <1>1
      <3> QED
        BY <1>3, <1>4, <3>1 DEF Range
    <2> QED
      BY <1>3, <1>4, <2>1, <2>2 DEF Range
  <1> QED
    BY <1>2, <1>3, <1>4, <1>5, <1>6 DEF w

(* A selection by time is a stretch.                                        *)
LEMMA PickedStretch ==
    ASSUME NEW s \in Seq(Point), Strict(s), NEW I \in SUBSET DOMAIN s,
           NEW a \in 0..Len(s), NEW b \in a..Len(s),
           \A i \in DOMAIN s : i \in I <=> i \in (a + 1)..b
    PROVE  Picked(s, I) = SubSeq(s, a + 1, b)
  <1>1. Picked(s, I) \in Seq(Point) /\ Strict(Picked(s, I)) /\ Range(Picked(s, I)) = {s[i] : i \in I}
    BY PickedPoints
  <1>2. /\ SubSeq(s, a + 1, b) \in Seq(Point) /\ Strict(SubSeq(s, a + 1, b))
        /\ Range(SubSeq(s, a + 1, b)) = {s[i] : i \in (a + 1)..b}
    BY Stretch
  <1>3. Len(s) \in Nat /\ DOMAIN s = 1..Len(s)
    BY LenProperties
  <1>4. I = (a + 1)..b
    <2>1. (a + 1)..b \subseteq DOMAIN s
      BY <1>3
    <2> QED
      BY <2>1
  <1> QED
    BY <1>1, <1>2, <1>4, StrictUnique

(* The points after a time.                                                 *)
LEMMA WindowTail ==
    ASSUME NEW s \in Seq(Point), Strict(s), NEW x \in Int
    PROVE  Picked(s, {i \in DOMAIN s : s[i].t > x}) = SubSeq(s, CountUntil(s, x) + 1, Len(s))
  <1> DEFINE I == {i \in DOMAIN s : s[i].t > x}
             c == CountUntil(s, x)
             n == Len(s)
  <1>1. /\ c \in 0..n /\ n \in Nat /\ DOMAIN s = 1..n
        /\ \A i \in 1..n : i <= c <=> s[i].t <= x
    BY CountUntilIs
  <1>2. \A i \in DOMAIN s : s[i].t \in Int
    BY PointAt
  <1>3. I \in SUBSET DOMAIN s /\ \A i \in DOMAIN s : i \in I <=> s[i].t > x
    OBVIOUS
  <1> HIDE DEF I, c, n
  <1>4. \A i \in DOMAIN s : i \in I <=> i \in (c + 1)..n
    BY <1>1, <1>2, <1>3
  <1>5. n \in c..n
    BY <1>1
  <1>6. Picked(s, I) = SubSeq(s, c + 1, n)
    BY <1>1, <1>3, <1>4, <1>5, PickedStretch DEF n
  <1> QED
    BY <1>6 DEF I, c, n

(* The statement's value from a place on is the counter's.                  *)
LEMMA NativeValueIs ==
    ASSUME NEW q, NEW s \in Seq(Point), NEW begin \in 1..Len(s), NEW baseline
    PROVE  NativeValue(q, s, begin, baseline) = CounterDifference(q.name, s, begin, baseline)
  <1> DEFINE n == Len(s)
             u == SubSeq(s, begin, n)
             tail == Values(u)
             resets == IF q.name = "increase" \/ q.name \in Rates
                         THEN ResetsOf(<<baseline>> \o tail) ELSE 0
             value == s[n].v - baseline + resets
             millis == s[n].t - s[begin].t
  <1>1. n \in Nat /\ DOMAIN s = 1..n
    BY LenProperties
  <1>2. Len(tail) < 2 <=> begin = n
    <2>1. u \in Seq(Point) /\ Len(u) = IF begin <= n THEN n - begin + 1 ELSE 0
      BY <1>1, SubSeqProperties
    <2> HIDE DEF n, u
    <2>2. DOMAIN u = 1..(n - begin + 1)
      BY <1>1, <2>1, LenProperties
    <2>3. tail = [i \in 1..(n - begin + 1) |-> u[i].v]
      BY <2>2 DEF Values
    <2>4. n - begin + 1 \in Nat
      BY <1>1 DEF n
    <2>5. Len(tail) = n - begin + 1
      BY <2>3, <2>4
    <2>6. begin \in 1..n
      BY DEF n
    <2> QED
      BY <1>1, <2>5, <2>6
  <1>3. NativeValue(q, s, begin, baseline)
          = IF q.name \notin Rates THEN Whole(value)
            ELSE IF Len(tail) < 2 \/ millis <= 0 THEN NaN
            ELSE Fraction(value * 1000, millis)
    BY DEF NativeValue
  <1>4. CounterDifference(q.name, s, begin, baseline)
          = IF q.name \notin Rates THEN Whole(value)
            ELSE IF begin = n \/ millis <= 0 THEN NaN
            ELSE Fraction(value * 1000, millis)
    BY DEF CounterDifference
  <1> HIDE DEF tail, value, millis, n
  <1> QED
    BY <1>2, <1>3, <1>4

(* With or without the sample before the window.                            *)
LEMMA NativeFromIs ==
    ASSUME NEW q, q.name \in CounterFunctions, NEW s \in Seq(Point), NEW c \in 0..(Len(s) - 1),
           NEW prev \in BOOLEAN, prev => c > 0
    PROVE  NativeFrom(q, s, SubSeq(s, c + 1, Len(s)), c, prev) = CounterFrom(q.name, s, c + 1, prev)
  <1> DEFINE n == Len(s)
             u == SubSeq(s, c + 1, n)
             initial == IF prev THEN c ELSE c + 1
  <1>1. n \in Nat /\ DOMAIN s = 1..n /\ initial \in 1..n /\ c + 1 - 1 = c
    BY LenProperties
  <1>2. /\ Len(u) = n - c /\ u[1] = s[c + 1] /\ (n - c > 1 => u[2] = s[c + 1 + 1])
    <2>1. /\ Len(u) = IF c + 1 <= n THEN n - (c + 1) + 1 ELSE 0
          /\ \A i \in 1..(n - (c + 1) + 1) : u[i] = s[(c + 1) + i - 1]
      BY <1>1, SubSeqProperties
    <2> HIDE DEF u
    <2>2. Len(u) = n - c /\ \A i \in 1..(n - c) : u[i] = s[(c + 1) + i - 1]
      BY <1>1, <2>1
    <2>3. u[1] = s[(c + 1) + 1 - 1] /\ (c + 1) + 1 - 1 = c + 1
      BY <1>1, <2>2
    <2>4. n - c > 1 => u[2] = s[(c + 1) + 2 - 1] /\ (c + 1) + 2 - 1 = c + 1 + 1
      BY <1>1, <2>2
    <2> QED
      BY <2>2, <2>3, <2>4
  <1> HIDE DEF n, u
  <1>3. CASE q.name \in LastTwo
    <2> DEFINE begin == Larger(initial, n - 1)
               baseline == IF q.name = "idelta" /\ begin = n THEN 0 ELSE s[begin].v
    <2>1. begin \in 1..n
      BY <1>1 DEF Larger
    <2>2. q.name \notin Totals
      BY <1>3 DEF LastTwo, Totals
    <2>3. CounterFrom(q.name, s, c + 1, prev) = CounterDifference(q.name, s, begin, baseline)
      BY <1>1, <1>3 DEF CounterFrom, LastTwoValue, n
    <2>4. NativeFrom(q, s, u, c, prev) = NativeBegin(q, s, u, prev, begin)
      BY <1>3 DEF NativeFrom, n
    <2> HIDE DEF begin
    <2>5. NativeBaseline(q, s, u, prev, begin) = baseline
      BY <2>2 DEF NativeBaseline, n
    <2>6. NativeBegin(q, s, u, prev, begin) = CounterDifference(q.name, s, begin, baseline)
      BY <2>1, <2>5, NativeValueIs DEF NativeBegin, n
    <2> QED
      BY <2>3, <2>4, <2>6 DEF u, n
  <1>4. CASE q.name \notin LastTwo /\ prev
    <2>1. CounterFrom(q.name, s, c + 1, prev) = CounterDifference(q.name, s, c, s[c].v)
      BY <1>1, <1>4 DEF CounterFrom
    <2>2. NativeFrom(q, s, u, c, prev) = NativeBegin(q, s, u, prev, c)
      BY <1>4 DEF NativeFrom
    <2>3. NativeBaseline(q, s, u, prev, c) = s[c].v
      BY <1>4 DEF NativeBaseline, LastTwo
    <2>4. NativeBegin(q, s, u, prev, c) = CounterDifference(q.name, s, c, s[c].v)
      BY <1>1, <1>4, <2>3, NativeValueIs DEF NativeBegin, n
    <2> QED
      BY <2>1, <2>2, <2>4 DEF u, n
  <1>5. CASE q.name \notin LastTwo /\ ~prev
    <2> DEFINE next == IF n - c > 1 THEN s[c + 1 + 1].v - s[c + 1].v ELSE 0
               baseline == IF q.name \in Rates THEN s[c + 1].v ELSE FirstBaseline(s[c + 1].v, next)
    <2>1. CounterFrom(q.name, s, c + 1, prev) = CounterDifference(q.name, s, c + 1, baseline)
      <3>1. c + 1 < n <=> n - c > 1
        BY <1>1
      <3>2. CounterFrom(q.name, s, c + 1, prev)
              = CounterDifference(q.name, s, c + 1,
                  IF q.name \in Rates THEN s[c + 1].v
                  ELSE FirstBaseline(s[c + 1].v,
                         IF c + 1 < n THEN s[c + 1 + 1].v - s[c + 1].v ELSE 0))
        BY <1>5 DEF CounterFrom, n
      <3> QED
        BY <3>1, <3>2
    <2>2. NativeFrom(q, s, u, c, prev) = NativeBegin(q, s, u, prev, c + 1)
      BY <1>5 DEF NativeFrom
    <2>3. NativeBaseline(q, s, u, prev, c + 1) = baseline
      <3>1. q.name \in Totals <=> q.name \notin Rates
        BY <1>5 DEF CounterFunctions, Totals, Rates, LastTwo
      <3>2. CASE q.name \in Totals
        <4>1. NativeBaseline(q, s, u, prev, c + 1)
                = FirstBaseline(u[1].v, IF Len(u) > 1 THEN u[2].v - u[1].v ELSE 0)
          BY <1>5, <3>2 DEF NativeBaseline, Totals
        <4> QED
          BY <1>2, <3>1, <3>2, <4>1
      <3>3. CASE q.name \notin Totals
        <4>1. q.name # "idelta"
          BY <1>5 DEF LastTwo
        <4> QED
          BY <3>1, <3>3, <4>1 DEF NativeBaseline
      <3> QED
        BY <3>2, <3>3
    <2> HIDE DEF baseline
    <2>4. NativeBegin(q, s, u, prev, c + 1) = CounterDifference(q.name, s, c + 1, baseline)
      <3>1. c + 1 \in 1..n
        BY <1>1, <1>5
      <3> QED
        BY <2>3, <3>1, NativeValueIs DEF NativeBegin, n
    <2> QED
      BY <2>1, <2>2, <2>4 DEF u, n
  <1> QED
    BY <1>3, <1>4, <1>5

(* The last stages of the statement give what the function gives.           *)
LEMMA NativeStages ==
    ASSUME NEW q, CallOk(q), NEW s \in Seq(Point), Strict(s), NEW x \in Int, NEW maxPrev,
           NEW c, c = CountUntil(s, x)
    PROVE  NativeCurrent(q, s, SubSeq(s, c + 1, Len(s)), c, x - maxPrev)
             = RollupFrom(q, s, c + 1, x, maxPrev)
  <1> DEFINE n == Len(s)
             u == SubSeq(s, c + 1, n)
  <1>1. n \in Nat /\ DOMAIN s = 1..n /\ c \in 0..n /\ n \in c..n /\ c + 1 - 1 = c
    BY CountUntilIs
  <1>2. u \in Seq(Point) /\ Len(u) = n - c /\ \A i \in 1..(n - c) : u[i] = s[c + i]
    BY <1>1, Stretch
  <1>3. CASE c = n
    <2>1. u = <<>>
      BY <1>1, <1>2, <1>3, EmptySeq
    <2>2. NativeCurrent(q, s, u, c, x - maxPrev) = NaN
      BY <2>1 DEF NativeCurrent
    <2>3. c + 1 > Len(s)
      BY <1>1, <1>3
    <2>4. RollupFrom(q, s, c + 1, x, maxPrev) = NaN
      BY <2>3 DEF RollupFrom, metricsQLCounterValue
    <2> QED
      BY <2>2, <2>4
  <1>4. CASE c < n
    <2>1. u # <<>> /\ u[1] = s[c + 1] /\ u[Len(u)] = s[n] /\ ~(c + 1 > Len(s))
      <3>1. Len(u) # 0 /\ 1 \in 1..(n - c) /\ n - c \in 1..(n - c) /\ c + (n - c) = n
        <4>1. Len(u) = n - c /\ c \in Nat /\ n \in Nat /\ c < n
          BY <1>1, <1>2, <1>4
        <4> HIDE DEF u, n
        <4> QED
          BY ONLY <4>1
      <3>2. ~(c + 1 > n)
        BY <1>1, <1>4
      <3> HIDE DEF u, n
      <3> QED
        BY <1>2, <3>1, <3>2, EmptySeq DEF n
    <2>2. CASE q.name = "default_rollup"
      BY <2>1, <2>2 DEF NativeCurrent, RollupFrom
    <2>3. CASE q.name # "default_rollup"
      <3> DEFINE prev == /\ c > 0
                         /\ \/ s[c].t > x - maxPrev
                            \/ q.name \in Totals /\ s[c + 1].t - s[c].t < q.lookback
      <3>1. NativeCurrent(q, s, u, c, x - maxPrev) = NativeFrom(q, s, u, c, prev)
        BY <2>1, <2>3 DEF NativeCurrent
      <3>2. RollupFrom(q, s, c + 1, x, maxPrev) = CounterFrom(q.name, s, c + 1, prev)
        <4> DEFINE f == c + 1
                   have == /\ f > 1
                           /\ \/ s[f - 1].t > x - maxPrev
                              \/ q.name \in Totals /\ s[f].t - s[f - 1].t < q.lookback
        <4>1. ~(f > Len(s)) /\ (f > 1 <=> c > 0) /\ f - 1 = c
          BY <1>1, <2>1, SMTT(20)
        <4>2. f = c + 1
          OBVIOUS
        <4> HIDE DEF f
        <4>3. RollupFrom(q, s, f, x, maxPrev) = metricsQLCounterValue(q.name, s, f, x, maxPrev, q.lookback)
          BY <2>3, Zenon DEF RollupFrom
        <4>4. metricsQLCounterValue(q.name, s, f, x, maxPrev, q.lookback) = CounterFrom(q.name, s, f, have)
          BY <4>1, Zenon DEF metricsQLCounterValue
        <4>5. have = prev
          BY <4>1, <4>2, Zenon
        <4> QED
          BY <4>2, <4>3, <4>4, <4>5, Zenon
      <3>3. prev \in BOOLEAN /\ (prev => c > 0)
        OBVIOUS
      <3>4. c \in 0..(Len(s) - 1) /\ q.name \in CounterFunctions
        BY <1>1, <1>4, <2>3 DEF CallOk, Functions
      <3> HIDE DEF prev
      <3> QED
        BY <3>1, <3>2, <3>3, <3>4, NativeFromIs
    <2> QED
      BY <2>2, <2>3
  <1> QED
    BY <1>1, <1>3, <1>4

(* The statement's value of one matrix is the engine's.                     *)
LEMMA OneMatrix ==
    ASSUME NEW q, CallOk(q), NEW s \in Seq(Point), Strict(s), NEW ts \in Int
    PROVE  RollupValues(q, s, ts - q.offset) = RollupPoints(q, s, ts)
  <1> DEFINE e == ts - q.offset
             m == NativeMaxPrev(q, s)
             w == WindowMs(q, m)
             x == e - w
             c == CountUntil(s, x)
             n == Len(s)
             u == SubSeq(s, c + 1, n)
  <1>1. /\ q.offset \in Int /\ q.step \in Int /\ q.lookback \in Int /\ q.window \in Int
        /\ q.instant = FALSE
    BY DEF CallOk
  <1>2. m = MaxPrev(q, s) /\ m \in Int
    <2>1. metricsQLSampleInterval(s, q.step) \in Int
      BY <1>1, IntervalTyped
    <2>2. m = Smaller(metricsQLSampleInterval(s, q.step), q.lookback)
      BY DEF NativeMaxPrev, metricsQLSampleInterval
    <2>3. MaxPrev(q, s) = Smaller(metricsQLSampleInterval(s, q.step), q.lookback)
      BY <1>1 DEF MaxPrev
    <2> HIDE DEF m
    <2> QED
      BY <1>1, <2>1, <2>2, <2>3 DEF Smaller
  <1> HIDE DEF m
  <1>3. w = WindowOf(q, m) /\ w \in Int
    <2>1. CASE q.window # 0
      BY <1>1, <2>1 DEF WindowMs, WindowOf
    <2>2. CASE q.window = 0 /\ q.name # "default_rollup"
      <3>1. w = Larger(q.step, m) /\ WindowOf(q, m) = Larger(q.step, m)
        BY <2>2 DEF WindowMs, WindowOf
      <3> QED
        BY <1>1, <1>2, <3>1 DEF Larger
    <2>3. CASE q.window = 0 /\ q.name = "default_rollup"
      <3>1. w = Smaller(Larger(q.step, m), q.lookback)
        BY <2>3 DEF WindowMs
      <3>2. WindowOf(q, m) = Smaller(Larger(q.step, m), q.lookback)
        BY <1>1, <2>3 DEF WindowOf
      <3>3. Larger(q.step, m) \in Int
        BY <1>1, <1>2 DEF Larger
      <3> QED
        BY <1>1, <3>1, <3>2, <3>3 DEF Smaller
    <2> QED
      BY <2>1, <2>2, <2>3
  <1> HIDE DEF w
  <1>4. x \in Int
    BY <1>1, <1>3
  <1>5. RollupPoints(q, s, ts) = RollupFrom(q, s, c + 1, x, m)
    <2>1. RollupPoints(q, s, ts) = RollupWith(q, s, ts, m)
      BY <1>2 DEF RollupPoints
    <2>2. RollupWith(q, s, ts, m) = WindowRollupOf(q, s, x, m)
      BY <1>3 DEF RollupWith
    <2> QED
      BY <2>1, <2>2 DEF WindowRollupOf
  <1>6. RollupValues(q, s, e) = NativeWith(q, s, e, w, m)
    BY DEF RollupValues, NativePrepared, m, w
  <1>7. NativeWith(q, s, e, w, m) = NativeCurrent(q, s, u, n - Len(u), x - m)
    <2>1. Picked(s, {i \in DOMAIN s : s[i].t > x}) = u
      BY <1>4, WindowTail
    <2> HIDE DEF u
    <2> QED
      BY <2>1 DEF NativeWith
  <1> HIDE DEF e, x
  <1>8. /\ c \in 0..n /\ n \in Nat /\ n \in c..n
    BY <1>4, CountUntilIs
  <1>9. n - Len(u) = c
    <2>1. Len(u) = n - c
      BY <1>8, Stretch
    <2> HIDE DEF u, n, c
    <2> QED
      BY <1>8, <2>1
  <1>10. NativeCurrent(q, s, u, c, x - m) = RollupFrom(q, s, c + 1, x, m)
    BY <1>4, NativeStages
  <1> QED
    BY <1>5, <1>6, <1>7, <1>9, <1>10 DEF e

(* With the matrix of each step, the statement gives the engine's values.   *)
LEMMA WindowSteps ==
    ASSUME NEW q, CallOk(q), NEW s \in Seq(Point), Strict(s), NEW start \in Int,
           NEW count \in Nat, NEW k \in 0..(count - 1)
    PROVE  WindowRollup(q, ReadSamples(q, s, start, count), start, count, k)
             = RollupAt(q, s, start + k * q.step)
  <1> DEFINE S == ReadSamples(q, s, start, count)
             I == {i \in DOMAIN S : k \in StepsOf(S[i].t, q, SelectorRange(q), start, count)}
             ts == start + k * q.step
             P == Picked(S, I)
  <1>1. S \in Seq(Point) /\ Strict(S) /\ P = Seen(q, MatrixAt(q, s, ts))
    BY StepMatrix
  <1>2. WindowRollup(q, S, start, count, k) = RollupValues(q, P, ts - q.offset)
    <2> DEFINE e == start + k * q.step - q.offset
    <2>1. e = ts - q.offset
      <3>1. k * q.step \in Int /\ q.offset \in Int
        BY DEF CallOk
      <3> QED
        BY <3>1
    <2>2. WindowRollup(q, S, start, count, k) = RollupValues(q, P, e)
      BY DEF WindowRollup
    <2> HIDE DEF e, P, S, ts
    <2> QED
      BY <2>1, <2>2
  <1>3. I \in SUBSET DOMAIN S
    OBVIOUS
  <1>4. ts \in Int
    BY DEF CallOk
  <1> HIDE DEF S, I, ts
  <1>5. P \in Seq(Point) /\ Strict(P)
    BY <1>1, <1>3, PickedPoints
  <1>6. RollupAt(q, s, ts) = RollupPoints(q, Seen(q, MatrixAt(q, s, ts)), ts)
    BY DEF RollupAt, metricsQLRollup, Seen
  <1> HIDE DEF P
  <1>7. RollupValues(q, P, ts - q.offset) = RollupPoints(q, P, ts)
    BY <1>4, <1>5, OneMatrix
  <1> QED
    BY <1>1, <1>2, <1>6, <1>7 DEF S, ts

-----------------------------------------------------------------------------
(* The totals: a sum of what each sample adds.                              *)

LEMMA LastTerm ==
    ASSUME NEW f, NEW a \in Int, NEW b \in Int, a < b, Terms(f, (a + 1)..b)
    PROVE  /\ SumFunctionOnSet(f, (a + 1)..b) = f[b] + SumFunctionOnSet(f, (a + 1)..(b - 1))
           /\ f[b] \in Int /\ SumFunctionOnSet(f, (a + 1)..(b - 1)) \in Int
           /\ Terms(f, (a + 1)..(b - 1))
  <1>1. b \in (a + 1)..b /\ ((a + 1)..b) \ {b} = (a + 1)..(b - 1)
    OBVIOUS
  <1>2. f[b] \in Int
    BY <1>1 DEF Terms
  <1>3. SumFunctionOnSet(f, (a + 1)..b) = f[b] + SumFunctionOnSet(f, ((a + 1)..b) \ {b})
    BY <1>1, SumRemove
  <1>4. (a + 1)..(b - 1) \in SUBSET ((a + 1)..b)
    OBVIOUS
  <1>5. Terms(f, (a + 1)..(b - 1))
    BY <1>4, FewerTerms
  <1> QED
    BY <1>1, <1>2, <1>3, <1>5, SumInteger

(* Differences of neighbours with something added to each: their sum is the *)
(* difference of the ends and the sum of what was added.                    *)
Neighbours(d, a, r, k, u, n) ==
    /\ n \in Nat /\ a \in Int /\ k \in Int
    /\ \A i \in 0..n : u[i] \in Int
    /\ \A i \in 1..n : d[a + i] = u[i] - u[i - 1] + r[k + i]

AddsUp(d, a, r, k, u, n) ==
    Terms(d, (a + 1)..(a + n)) /\ Terms(r, (k + 1)..(k + n)) =>
        SumFunctionOnSet(d, (a + 1)..(a + n)) = u[n] - u[0] + SumFunctionOnSet(r, (k + 1)..(k + n))

LEMMA Telescope ==
    ASSUME NEW N, NEW a, NEW k, NEW d, NEW r, NEW u, Neighbours(d, a, r, k, u, N)
    PROVE  AddsUp(d, a, r, k, u, N)
  <1>0. /\ N \in Nat /\ a \in Int /\ k \in Int
        /\ \A i \in 0..N : u[i] \in Int
        /\ \A i \in 1..N : d[a + i] = u[i] - u[i - 1] + r[k + i]
    BY DEF Neighbours
  <1> DEFINE G == {n \in Nat : n <= N => AddsUp(d, a, r, k, u, n)}
  <1>1. 0 \in G
    <2>1. (a + 1)..(a + 0) = {} /\ (k + 1)..(k + 0) = {} /\ u[0] \in Int
      BY <1>0
    <2>2. SumFunctionOnSet(d, {}) = 0 /\ SumFunctionOnSet(r, {}) = 0
      BY EmptySum
    <2> QED
      BY <1>0, <2>1, <2>2 DEF AddsUp
  <1>2. ASSUME NEW n \in Nat, n \in G PROVE n + 1 \in G
    <2> SUFFICES ASSUME n + 1 <= N, Terms(d, (a + 1)..(a + (n + 1))), Terms(r, (k + 1)..(k + (n + 1)))
                 PROVE  SumFunctionOnSet(d, (a + 1)..(a + (n + 1)))
                          = u[n + 1] - u[0] + SumFunctionOnSet(r, (k + 1)..(k + (n + 1)))
      BY DEF AddsUp
    <2> DEFINE b == a + (n + 1)
               c == k + (n + 1)
    <2>1. b \in Int /\ a < b /\ b - 1 = a + n /\ c \in Int /\ k < c /\ c - 1 = k + n
      BY <1>0
    <2>2. Terms(d, (a + 1)..b) /\ Terms(r, (k + 1)..c)
      OBVIOUS
    <2>3. n + 1 \in 1..N /\ (n + 1) - 1 = n /\ n \in 0..N /\ n + 1 \in 0..N /\ 0 \in 0..N
      BY <1>0
    <2>4. d[b] = u[n + 1] - u[n] + r[c]
      BY <1>0, <2>3
    <2> HIDE DEF b, c
    <2>5. /\ SumFunctionOnSet(d, (a + 1)..b) = d[b] + SumFunctionOnSet(d, (a + 1)..(b - 1))
          /\ d[b] \in Int /\ SumFunctionOnSet(d, (a + 1)..(b - 1)) \in Int
          /\ Terms(d, (a + 1)..(b - 1))
      BY <1>0, <2>1, <2>2, LastTerm
    <2>6. /\ SumFunctionOnSet(r, (k + 1)..c) = r[c] + SumFunctionOnSet(r, (k + 1)..(c - 1))
          /\ r[c] \in Int /\ SumFunctionOnSet(r, (k + 1)..(c - 1)) \in Int
          /\ Terms(r, (k + 1)..(c - 1))
      BY <1>0, <2>1, <2>2, LastTerm
    <2>7. SumFunctionOnSet(d, (a + 1)..(a + n)) = u[n] - u[0] + SumFunctionOnSet(r, (k + 1)..(k + n))
      <3>1. n <= N
        BY <1>0
      <3>2. AddsUp(d, a, r, k, u, n)
        BY <1>2, <3>1
      <3>3. Terms(d, (a + 1)..(a + n)) /\ Terms(r, (k + 1)..(k + n))
        BY <2>1, <2>5, <2>6
      <3> QED
        BY <3>2, <3>3 DEF AddsUp
    <2> DEFINE D == SumFunctionOnSet(d, (a + 1)..(a + n))
               R == SumFunctionOnSet(r, (k + 1)..(k + n))
    <2>8. /\ SumFunctionOnSet(d, (a + 1)..b) = d[b] + D /\ D \in Int
          /\ SumFunctionOnSet(r, (k + 1)..c) = r[c] + R /\ R \in Int
          /\ D = u[n] - u[0] + R
      BY <2>1, <2>5, <2>6, <2>7
    <2>9. u[n] \in Int /\ u[n + 1] \in Int /\ u[0] \in Int
      BY <1>0, <2>3
    <2> DEFINE E == SumFunctionOnSet(d, (a + 1)..b)
               Q == SumFunctionOnSet(r, (k + 1)..c)
               x == u[n + 1]
               y == u[n]
               z == u[0]
               p == r[c]
               o == d[b]
    <2>10. /\ E = o + D /\ Q = p + R /\ D = y - z + R /\ o = x - y + p
           /\ D \in Int /\ R \in Int /\ x \in Int /\ y \in Int /\ z \in Int /\ p \in Int
      BY <2>4, <2>6, <2>8, <2>9
    <2> HIDE DEF D, R, E, Q, x, y, z, p, o
    <2>11. E = x - z + Q
      BY <2>10
    <2> QED
      BY <2>11 DEF b, c, E, Q, x, z
  <1>3. \A n \in Nat : n \in G
    <2> HIDE DEF G
    <2> QED
      BY <1>1, <1>2, InductionBySet
  <1> QED
    BY <1>0, <1>3

(* Nothing added to nothing.                                                *)
LEMMA ZeroSum ==
    ASSUME NEW n \in Nat, NEW r, \A i \in 1..n : r[i] = 0
    PROVE  SumFunctionOnSet(r, 1..n) = 0
  <1> DEFINE G == {m \in Nat : m <= n => SumFunctionOnSet(r, 1..m) = 0}
  <1>1. 0 \in G
    <2>1. 1..0 = {}
      OBVIOUS
    <2> QED
      BY <2>1, EmptySum
  <1>2. ASSUME NEW m \in Nat, m \in G PROVE m + 1 \in G
    <2> SUFFICES ASSUME m + 1 <= n PROVE SumFunctionOnSet(r, 1..(m + 1)) = 0
      OBVIOUS
    <2>1. /\ \A i \in 1..(m + 1) : r[i] = 0
          /\ m + 1 \in 1..(m + 1) /\ (1..(m + 1)) \ {m + 1} = 1..m
      OBVIOUS
    <2>2. IsFiniteSet(1..(m + 1))
      BY FS_Interval
    <2>3. Terms(r, 1..(m + 1))
      BY <2>1, <2>2 DEF Terms
    <2>4. SumFunctionOnSet(r, 1..(m + 1)) = r[m + 1] + SumFunctionOnSet(r, (1..(m + 1)) \ {m + 1})
      BY <2>1, <2>3, SumRemove
    <2>5. r[m + 1] = 0 /\ SumFunctionOnSet(r, 1..m) = 0
      BY <1>2, <2>1
    <2>6. SumFunctionOnSet(r, 1..(m + 1)) = 0 + 0
      BY <2>1, <2>4, <2>5, Zenon
    <2> QED
      BY <2>6
  <1>3. \A m \in Nat : m \in G
    <2> HIDE DEF G
    <2> QED
      BY <1>1, <1>2, InductionBySet
  <1> QED
    BY <1>3

(* What a sample adds is its difference and what a reset adds.              *)
LEMMA DifferenceIs ==
    ASSUME NEW q, NEW p \in Int, NEW v \in Int
    PROVE  Difference(q, p, v)
             = v - p + (IF q.name = "increase" THEN ResetOf(p, v) ELSE 0)
  BY DEF Difference, ResetOf

(* A value from point begin on, as the sum of what the points after it add; *)
(* a rate counts like an increase.                                          *)
Counting(q) == [q EXCEPT !.name = IF q.name \in Rates THEN "increase" ELSE @]

LEMMA CountingName ==
    ASSUME NEW q, CallOk(q)
    PROVE  Counting(q).name = IF q.name \in Rates THEN "increase" ELSE q.name
  BY DEF Counting, CallOk

CountsFrom(q, s, begin, baseline, d, a, n) ==
    /\ Counting(q).name = IF q.name \in Rates THEN "increase" ELSE q.name
    /\ s \in Seq(Point) /\ \A i \in DOMAIN s : s[i].v \in Int
    /\ begin \in 1..Len(s) /\ baseline \in Int /\ ResetOf(baseline, s[begin].v) = 0
    /\ a \in Int /\ n = Len(s) - begin /\ Terms(d, (a + 1)..(a + n))
    /\ \A i \in 1..n : d[a + i] = Difference(Counting(q), s[begin + i - 1].v, s[begin + i].v)

(* What a value is in the end: a total or the difference of two points, or  *)
(* a change over the time between the points.                               *)
ValueFrom(q, s, begin, value) ==
    LET millis == s[Len(s)].t - s[begin].t
    IN  IF q.name \notin Rates THEN Whole(value)
        ELSE IF begin = Len(s) \/ millis <= 0 THEN NaN
        ELSE Fraction(value * 1000, millis)

LEMMA CounterSum ==
    ASSUME NEW q, NEW s, NEW begin, NEW baseline, NEW d, NEW a, NEW n,
           CountsFrom(q, s, begin, baseline, d, a, n)
    PROVE  CounterDifference(q.name, s, begin, baseline)
             = ValueFrom(q, s, begin, s[begin].v - baseline + SumFunctionOnSet(d, (a + 1)..(a + n)))
  <1> DEFINE N == Len(s)
             V == Values(SubSeq(s, begin, N))
             w == <<baseline>> \o V
             rise(i) == IF Counting(q).name = "increase" THEN ResetOf(w[i], w[i + 1]) ELSE 0
             r == [i \in 1..(n + 1) |-> rise(i)]
             u == [i \in 0..n |-> s[begin + i].v]
             first == s[begin].v
             last == s[N].v
  <1>0. /\ Counting(q).name = IF q.name \in Rates THEN "increase" ELSE q.name
        /\ s \in Seq(Point) /\ \A i \in DOMAIN s : s[i].v \in Int
        /\ begin \in 1..Len(s) /\ baseline \in Int /\ ResetOf(baseline, s[begin].v) = 0
        /\ a \in Int /\ n = Len(s) - begin /\ Terms(d, (a + 1)..(a + n))
        /\ \A i \in 1..n : d[a + i] = Difference(Counting(q), s[begin + i - 1].v, s[begin + i].v)
    BY DEF CountsFrom
  <1>1. N \in Nat /\ DOMAIN s = 1..N /\ n \in Nat /\ begin + n = N /\ begin \in Nat
    BY <1>0, LenProperties
  <1>2. \A i \in 0..n : begin + i \in DOMAIN s /\ s[begin + i].v \in Int
    BY <1>0, <1>1
  <1>3. first \in Int /\ last \in Int /\ u[0] = first /\ u[n] = last /\ \A i \in 0..n : u[i] \in Int
    <2>1. begin \in DOMAIN s /\ N \in DOMAIN s /\ begin + 0 = begin
      BY <1>0, <1>1
    <2>2. \A i \in 0..n : u[i] = s[begin + i].v
      OBVIOUS
    <2>3. u[0] = s[begin + 0].v /\ u[n] = s[begin + n].v
      BY <1>1, <2>2
    <2>4. first \in Int /\ last \in Int
      BY <1>0, <2>1
    <2>5. s[begin + 0].v = first /\ s[begin + n].v = last
      BY <1>1, <2>1
    <2> HIDE DEF u, first, last
    <2>6. u[0] = first /\ u[n] = last
      BY <2>3, <2>5
    <2>7. \A i \in 0..n : u[i] \in Int
      BY <1>2, <2>2
    <2> QED
      BY <2>4, <2>6, <2>7
  <1>4. /\ Len(w) = n + 2 /\ w[1] = baseline
        /\ \A i \in 2..(n + 2) : w[i] = s[begin + (i - 2)].v
    <2> DEFINE U == SubSeq(s, begin, N)
    <2>1. U \in Seq(Point) /\ Len(U) = n + 1
      <3>1. U \in Seq(Point) /\ Len(U) = IF begin <= N THEN N - begin + 1 ELSE 0
        BY <1>0, <1>1, SubSeqProperties
      <3> QED
        BY <1>1, <3>1
    <2>2. \A i \in 1..(n + 1) : U[i] = s[begin + (i - 1)]
      <3>1. \A i \in 1..(N - begin + 1) : U[i] = s[begin + i - 1]
        BY <1>0, <1>1, SubSeqProperties
      <3> SUFFICES ASSUME NEW i \in 1..(n + 1) PROVE U[i] = s[begin + (i - 1)]
        BY <1>0
      <3>2. i \in 1..(N - begin + 1) /\ begin + i - 1 = begin + (i - 1)
        BY <1>1
      <3> HIDE DEF U
      <3> QED
        BY <3>1, <3>2
    <2> HIDE DEF U
    <2>3. DOMAIN U = 1..(n + 1)
      BY <1>1, <2>1, LenProperties
    <2>4. V = [i \in 1..(n + 1) |-> U[i].v]
      BY <2>3 DEF Values, U
    <2>5. \A i \in 1..(n + 1) : U[i].v \in Int
      <3> SUFFICES ASSUME NEW i \in 1..(n + 1) PROVE U[i].v \in Int
        BY <1>0
      <3>1. i - 1 \in 0..n
        BY <1>1
      <3> QED
        BY <1>2, <2>2, <3>1
    <2> HIDE DEF V
    <2>6. V = [i \in 1..(n + 1) |-> V[i]] /\ \A i \in 1..(n + 1) : V[i] \in Int /\ V[i] = U[i].v
      BY <2>4, <2>5
    <2>7. V \in Seq(Int) /\ Len(V) = n + 1
      <3> DEFINE l == n + 1
      <3>1. l \in Nat /\ V = [i \in 1..l |-> V[i]] /\ \A i \in 1..l : V[i] \in Int
        BY <1>1, <2>5, <2>6
      <3> HIDE DEF l
      <3>2. V \in Seq(Int) /\ Len(V) = l
        BY <3>1, SequenceOf
      <3> QED
        BY <3>2 DEF l
    <2> DEFINE B == <<baseline>>
    <2>8. B \in Seq(Int) /\ Len(B) = 1 /\ B[1] = baseline
      BY <1>0
    <2>9. /\ Len(w) = 1 + (n + 1)
          /\ \A i \in 1..(1 + (n + 1)) : w[i] = IF i <= 1 THEN B[i] ELSE V[i - 1]
      <3>1. w = B \o V
        BY DEF w
      <3> HIDE DEF B
      <3>2. /\ Len(B \o V) = Len(B) + Len(V)
            /\ \A i \in 1..(Len(B) + Len(V)) : (B \o V)[i] = IF i <= Len(B) THEN B[i] ELSE V[i - Len(B)]
        BY <2>7, <2>8, ConcatProperties
      <3> QED
        BY <2>7, <2>8, <3>1, <3>2
    <2> HIDE DEF w, B
    <2>10. Len(w) = n + 2 /\ w[1] = baseline
      BY <1>1, <2>8, <2>9
    <2>11. ASSUME NEW i \in 2..(n + 2) PROVE w[i] = s[begin + (i - 2)].v
      <3>1. i \in 1..(1 + (n + 1)) /\ ~(i <= 1) /\ i - 1 \in 1..(n + 1) /\ (i - 1) - 1 = i - 2
        BY <1>1
      <3>2. w[i] = V[i - 1]
        BY <2>9, <3>1
      <3>3. V[i - 1] = U[i - 1].v /\ U[i - 1] = s[begin + ((i - 1) - 1)]
        BY <2>2, <2>6, <3>1
      <3> QED
        BY <3>1, <3>2, <3>3
    <2> QED
      BY <2>10, <2>11
  <1> HIDE DEF w, u, V
  <1>5. \A i \in 1..(n + 2) : w[i] \in Int
    <2> SUFFICES ASSUME NEW i \in 2..(n + 2) PROVE w[i] \in Int
      BY <1>0, <1>1, <1>4
    <2>1. i - 2 \in 0..n
      BY <1>1
    <2> QED
      BY <1>2, <1>4, <2>1
  <1>6. \A i \in 1..(n + 1) : r[i] = rise(i) /\ rise(i) \in Int
    <2> SUFFICES ASSUME NEW i \in 1..(n + 1) PROVE rise(i) \in Int
      BY <1>0
    <2>1. w[i] \in Int /\ w[i + 1] \in Int
      <3>1. i \in 1..(n + 2) /\ i + 1 \in 1..(n + 2)
        BY <1>1
      <3> QED
        BY <1>5, <3>1
    <2> QED
      BY <2>1 DEF ResetOf
  <1>7. Terms(r, 1..(n + 1)) /\ SumFunction(r) = SumFunctionOnSet(r, 1..(n + 1))
    <2>1. IsFiniteSet(1..(n + 1))
      BY <1>1, FS_Interval
    <2> QED
      BY <1>6, <2>1 DEF Terms, SumFunction
  <1>8. r[1] = 0
    <2>1. w[2] = s[begin].v
      <3>1. 2 \in 2..(n + 2) /\ begin + (2 - 2) = begin
        BY <1>1
      <3> QED
        BY <1>4, <3>1
    <2>2. 1 \in 1..(n + 1) /\ 1 + 1 = 2
      BY <1>1
    <2> QED
      BY <1>0, <1>4, <2>1, <2>2
  <1>9. SumFunctionOnSet(r, 1..(n + 1)) = SumFunctionOnSet(r, 2..(n + 1))
    <2>1. 1 \in 1..(n + 1) /\ (1..(n + 1)) \ {1} = 2..(n + 1)
      BY <1>1
    <2> DEFINE all == 1..(n + 1)
    <2>0. Terms(r, all) /\ 1 \in all
      BY <1>7, <2>1
    <2> HIDE DEF r, all
    <2>2. SumFunctionOnSet(r, all) = r[1] + SumFunctionOnSet(r, all \ {1})
      <3>1. \A y \in all : SumFunctionOnSet(r, all) = r[y] + SumFunctionOnSet(r, all \ {y})
        BY <2>0, SumRemove
      <3> QED
        BY <2>0, <3>1, Zenon
    <2>3. Terms(r, 2..(n + 1))
      <3>1. 2..(n + 1) \in SUBSET (1..(n + 1))
        BY <1>1
      <3> QED
        BY <1>7, <3>1, FewerTerms
    <2>4. SumFunctionOnSet(r, 2..(n + 1)) \in Int
      BY <2>3, SumInteger
    <2>5. SumFunctionOnSet(r, all) = 0 + SumFunctionOnSet(r, 2..(n + 1))
      BY <1>8, <2>1, <2>2, Zenon DEF all
    <2> QED
      BY <2>4, <2>5 DEF all
  <1>10. ASSUME NEW i \in 1..n PROVE d[a + i] = u[i] - u[i - 1] + r[1 + i]
    <2>1. i \in 0..n /\ i - 1 \in 0..n /\ begin + i - 1 = begin + (i - 1)
      BY <1>1
    <2>2. u[i] = s[begin + i].v /\ u[i - 1] = s[begin + i - 1].v
      BY <2>1 DEF u
    <2>3. u[i] \in Int /\ u[i - 1] \in Int
      BY <1>3, <2>1
    <2>4. d[a + i] = Difference(Counting(q), u[i - 1], u[i])
      BY <1>0, <2>2
    <2>5. w[1 + i] = u[i - 1] /\ w[(1 + i) + 1] = u[i]
      <3>1. 1 + i \in 2..(n + 2) /\ (1 + i) - 2 = i - 1 /\ (1 + i) + 1 \in 2..(n + 2) /\ ((1 + i) + 1) - 2 = i
        BY <1>1
      <3>2. w[1 + i] = s[begin + (i - 1)].v /\ w[(1 + i) + 1] = s[begin + i].v
        BY <1>4, <3>1
      <3> QED
        BY <2>1, <2>2, <3>2
    <2>6. r[1 + i] = IF Counting(q).name = "increase" THEN ResetOf(u[i - 1], u[i]) ELSE 0
      <3>1. 1 + i \in 1..(n + 1)
        BY <1>1
      <3> QED
        BY <1>6, <2>5, <3>1
    <2> DEFINE p == u[i - 1]
               v == u[i]
               z == r[1 + i]
               o == d[a + i]
    <2>7. /\ p \in Int /\ v \in Int /\ o = Difference(Counting(q), p, v)
          /\ z = IF Counting(q).name = "increase" THEN ResetOf(p, v) ELSE 0
      BY <2>3, <2>4, <2>6
    <2> HIDE DEF p, v, z, o
    <2>8. o = v - p + z
      BY <2>7, DifferenceIs
    <2> QED
      BY <2>8 DEF p, v, z, o
  <1>11. SumFunctionOnSet(d, (a + 1)..(a + n)) = last - first + SumFunctionOnSet(r, 2..(n + 1))
    <2> HIDE DEF r
    <2>1. AddsUp(d, a, r, 1, u, n)
      <3>0. /\ n \in Nat /\ a \in Int /\ 1 \in Int
            /\ \A i \in 0..n : u[i] \in Int
            /\ \A i \in 1..n : d[a + i] = u[i] - u[i - 1] + r[1 + i]
        BY <1>0, <1>1, <1>3, <1>10
      <3>1. Neighbours(d, a, r, 1, u, n)
        BY ONLY <3>0, Zenon DEF Neighbours
      <3> QED
        BY <3>1, Telescope
    <2>2. (1 + 1)..(1 + n) = 2..(n + 1) /\ 2..(n + 1) \in SUBSET (1..(n + 1))
      BY <1>1
    <2>3. Terms(r, (1 + 1)..(1 + n))
      BY <1>7, <2>2, FewerTerms
    <2> QED
      BY <1>0, <1>3, <2>1, <2>2, <2>3 DEF AddsUp
  <1>12. CounterDifference(q.name, s, begin, baseline)
           = ValueFrom(q, s, begin, last - baseline + SumFunctionOnSet(r, 1..(n + 1)))
    <2> DEFINE counts == q.name = "increase" \/ q.name \in Rates
               resets == IF counts THEN ResetsOf(w) ELSE 0
    <2>1. counts <=> Counting(q).name = "increase"
      BY <1>0
    <2>2. CounterDifference(q.name, s, begin, baseline) = ValueFrom(q, s, begin, last - baseline + resets)
      BY DEF CounterDifference, ValueFrom, w, V
    <2>3. CASE counts
      <3>1. resets = ResetsOf(w)
        BY <2>3
      <3>2. Len(w) - 1 = n + 1
        BY <1>1, <1>4
      <3>3. r = [i \in 1..(n + 1) |-> ResetOf(w[i], w[i + 1])]
        BY <2>1, <2>3
      <3>4. ResetsOf(w) = SumFunction(r)
        BY <3>2, <3>3 DEF ResetsOf
      <3> QED
        BY <1>7, <2>2, <3>1, <3>4
    <2>4. CASE ~counts
      <3>1. resets = 0
        BY <2>4
      <3>2. \A i \in 1..(n + 1) : r[i] = 0
        BY <2>1, <2>4
      <3>3. SumFunctionOnSet(r, 1..(n + 1)) = 0
        BY <1>1, <3>2, ZeroSum
      <3> QED
        BY <2>2, <3>1, <3>3
    <2> QED
      BY <2>3, <2>4
  <1> DEFINE R == SumFunctionOnSet(r, 2..(n + 1))
  <1>13. R \in Int
    <2>1. 2..(n + 1) \in SUBSET (1..(n + 1))
      BY <1>1
    <2> HIDE DEF r
    <2> QED
      BY <1>7, <2>1, FewerTerms, SumInteger
  <1>14. last - baseline + R = first - baseline + (last - first + R)
    <2> HIDE DEF R, first, last
    <2> QED
      BY <1>0, <1>3, <1>13
  <1> QED
    BY <1>9, <1>11, <1>12, <1>14

(* What a sample of a matrix adds: the first one counts from its baseline,  *)
(* any other from the sample before it.                                     *)
LEMMA SampleAdds ==
    ASSUME NEW q, CallOk(q), NEW s \in Seq(Point), Strict(s), \A i \in DOMAIN s : s[i].v \in Int,
           NEW e \in Int, NEW a, a = CountUntil(s, e - SelectorRange(q)), NEW b, b = CountUntil(s, e),
           NEW i \in (a + 1)..b
    PROVE  /\ i > a + 1 => Contribution(q, s, e, i) = Difference(q, s[i - 1].v, s[i].v)
           /\ i = a + 1 =>
                Contribution(q, s, e, i)
                  = s[i].v - FirstBaseline(s[i].v, IF i < b THEN s[i + 1].v - s[i].v ELSE 0)
           /\ Contribution(q, s, e, i) \in Int
  <1> DEFINE N == Len(s)
             low == e - SelectorRange(q)
             next == IF i < N /\ s[i + 1].t <= e THEN s[i + 1].v - s[i].v ELSE 0
  <1>1. low \in Int
    BY CallRange
  <1>2. /\ a \in 0..N /\ b \in 0..N /\ N \in Nat /\ DOMAIN s = 1..N
        /\ \A j \in 1..N : j <= a <=> s[j].t <= low
        /\ \A j \in 1..N : j <= b <=> s[j].t <= e
    BY <1>1, CountUntilIs
  <1>3. i \in 1..N /\ s[i].v \in Int
    BY <1>2
  <1>4. i < N /\ s[i + 1].t <= e <=> i < b
    <2>1. ASSUME i < N PROVE s[i + 1].t <= e <=> i < b
      <3>1. i + 1 \in 1..N
        BY <1>2, <1>3, <2>1
      <3> QED
        BY <1>2, <1>3, <3>1
    <2>2. i < b => i < N
      BY <1>2, <1>3
    <2> QED
      BY <2>1, <2>2
  <1>5. i > 1 => i - 1 \in 1..N /\ (s[i - 1].t > low <=> i > a + 1) /\ s[i - 1].v \in Int
    <2> SUFFICES ASSUME i > 1
                 PROVE  i - 1 \in 1..N /\ (s[i - 1].t > low <=> i > a + 1) /\ s[i - 1].v \in Int
      OBVIOUS
    <2>1. i - 1 \in 1..N
      BY <1>3
    <2>2. s[i - 1].t \in Int
      BY <1>2, <2>1, PointAt
    <2>3. i - 1 <= a <=> s[i - 1].t <= low
      BY <1>2, <2>1
    <2>4. ~(i - 1 <= a) <=> i > a + 1
      BY <1>2, <1>3
    <2>5. ~(s[i - 1].t <= low) <=> s[i - 1].t > low
      BY <1>1, <2>2
    <2> QED
      BY <1>2, <2>1, <2>3, <2>4, <2>5
  <1>6. Contribution(q, s, e, i)
          = IF i > 1 /\ s[i - 1].t > low THEN Difference(q, s[i - 1].v, s[i].v)
            ELSE s[i].v - FirstBaseline(s[i].v, next)
    BY DEF Contribution
  <1>7. next = IF i < b THEN s[i + 1].v - s[i].v ELSE 0
    BY <1>4
  <1>8. next \in Int
    <2>1. i < b => s[i + 1].v \in Int
      <3>1. i < b => i + 1 \in 1..N
        BY <1>2, <1>3
      <3> QED
        BY <1>2, <3>1
    <2> QED
      BY <1>3, <1>7, <2>1
  <1> HIDE DEF next, low
  <1>9. s[i].v - FirstBaseline(s[i].v, next) \in Int
    BY <1>3, <1>8 DEF FirstBaseline
  <1>10. i > 1 => Difference(q, s[i - 1].v, s[i].v) \in Int
    BY <1>3, <1>5 DEF Difference
  <1>11. i > a + 1 => i > 1
    BY <1>2, <1>3
  <1>12. CASE i > a + 1
    <2>1. Contribution(q, s, e, i) = Difference(q, s[i - 1].v, s[i].v)
      BY <1>5, <1>6, <1>11, <1>12
    <2>2. i # a + 1
      BY <1>2, <1>3, <1>12
    <2> QED
      BY <1>10, <1>11, <1>12, <2>1, <2>2
  <1>13. CASE ~(i > a + 1)
    <2>1. Contribution(q, s, e, i) = s[i].v - FirstBaseline(s[i].v, next)
      BY <1>5, <1>6, <1>13
    <2> QED
      BY <1>7, <1>9, <1>13, <2>1
  <1> QED
    BY <1>12, <1>13

(* The step at e: a and c samples lie before its matrix and before its      *)
(* window, b up to e, and d is what each sample of the window adds.         *)
StepOfTotal(q, s, e, a, b, c, d) ==
    /\ CallOk(q) /\ q.name \in Totals
    /\ s \in Seq(Point) /\ Strict(s) /\ ~LongGap(q, s)
    /\ \A i \in DOMAIN s : s[i].v \in Int
    /\ e \in Int
    /\ a = CountUntil(s, e - SelectorRange(q)) /\ b = CountUntil(s, e)
    /\ a \in Nat /\ b \in Nat /\ c \in Nat /\ Len(s) \in Nat /\ DOMAIN s = 1..Len(s)
    /\ a <= c /\ c < b /\ b <= Len(s)
    /\ \A i \in (c + 1)..b : d[i] = Contribution(q, s, e, i)

(* The engine's total over the matrix of a step is the sum of what the      *)
(* samples of its window add, when no gap is as long as the lookback.       *)
LEMMA TotalIsSum ==
    ASSUME NEW q, NEW s, NEW e, NEW a, NEW b, NEW c, NEW d, StepOfTotal(q, s, e, a, b, c, d),
           NEW x, NEW maxPrev
    PROVE  metricsQLCounterValue(q.name, SubSeq(s, a + 1, b), (c - a) + 1, x, maxPrev, q.lookback)
             = Whole(SumFunctionOnSet(d, (c + 1)..b))
  <1> DEFINE N == Len(s)
             M == SubSeq(s, a + 1, b)
             f == (c - a) + 1
             prev == /\ f > 1
                     /\ \/ M[f - 1].t > x - maxPrev
                        \/ q.name \in Totals /\ M[f].t - M[f - 1].t < q.lookback
  <1>1. /\ a \in Nat /\ b \in Nat /\ c \in Nat /\ N \in Nat /\ DOMAIN s = 1..N
        /\ a <= c /\ c < b /\ b <= N
    BY DEF StepOfTotal
  <1>0. /\ CallOk(q) /\ q.name \in Totals
        /\ s \in Seq(Point) /\ Strict(s) /\ ~LongGap(q, s)
        /\ \A i \in DOMAIN s : s[i].v \in Int
        /\ e \in Int
        /\ a = CountUntil(s, e - SelectorRange(q)) /\ b = CountUntil(s, e)
        /\ \A i \in (c + 1)..b : d[i] = Contribution(q, s, e, i)
    BY DEF StepOfTotal
  <1>2. /\ M \in Seq(Point) /\ Len(M) = b - a /\ DOMAIN M = 1..(b - a)
        /\ \A i \in 1..(b - a) : M[i] = s[a + i]
    <2>1. a \in 0..N /\ b \in a..N
      BY <1>1
    <2> QED
      BY <1>0, <2>1, Stretch
  <1> HIDE DEF M, N
  <1>3. \A i \in DOMAIN M : M[i].v \in Int
    <2> SUFFICES ASSUME NEW i \in 1..(b - a) PROVE M[i].v \in Int
      BY <1>2
    <2>1. a + i \in DOMAIN s
      BY <1>1
    <2> QED
      BY <1>0, <1>2, <2>1
  <1>4. /\ f \in 1..(b - a) /\ ~(f > Len(M)) /\ (f > 1 <=> c > a) /\ f - 1 = c - a
        /\ a + f = c + 1 /\ M[f] = s[c + 1]
    <2>1. /\ f \in 1..(b - a) /\ (f > 1 <=> c > a) /\ f - 1 = c - a /\ a + f = c + 1
          /\ ~(f > b - a)
      BY <1>1
    <2> HIDE DEF f
    <2>2. M[f] = s[a + f]
      BY <1>2, <2>1
    <2> QED
      BY <1>2, <2>1, <2>2
  <1>5. metricsQLCounterValue(q.name, M, f, x, maxPrev, q.lookback) = CounterFrom(q.name, M, f, prev)
    <2> HIDE DEF f
    <2> QED
      BY <1>4, Zenon DEF metricsQLCounterValue
  <1>6. \A i \in (c + 1)..b : d[i] \in Int /\ (i > a + 1 => d[i] = Difference(q, s[i - 1].v, s[i].v))
    <2> SUFFICES ASSUME NEW i \in (c + 1)..b
                 PROVE  d[i] \in Int /\ (i > a + 1 => d[i] = Difference(q, s[i - 1].v, s[i].v))
      OBVIOUS
    <2>1. i \in (a + 1)..b
      BY <1>1
    <2> QED
      BY <1>0, <2>1, SampleAdds
  <1>7. Terms(d, (c + 1)..b)
    <2>1. IsFiniteSet((c + 1)..b)
      <3>1. c + 1 \in Int /\ b \in Int
        BY <1>1
      <3> QED
        BY <3>1, FS_Interval
    <2> QED
      BY <1>6, <2>1 DEF Terms
  <1>8. q.name \notin LastTwo /\ q.name \notin Rates
    BY <1>0 DEF Totals, LastTwo, Rates
  <1>12. /\ Counting(q).name = IF q.name \in Rates THEN "increase" ELSE q.name
         /\ \A p, v : Difference(Counting(q), p, v) = Difference(q, p, v)
    <2>1. Counting(q).name = IF q.name \in Rates THEN "increase" ELSE q.name
      BY <1>0, CountingName
    <2>2. Counting(q).name = q.name
      BY <1>8, <2>1
    <2> QED
      BY <2>1, <2>2 DEF Difference
  <1> DEFINE total == SumFunctionOnSet(d, (c + 1)..b)
  <1>9. total \in Int
    BY <1>7, SumInteger
  <1>10. CASE c > a
    <2> DEFINE begin == c - a
               n == b - c
               v == M[begin].v
    <2>1. /\ begin \in 1..(b - a) /\ begin = f - 1 /\ n \in Nat /\ n = Len(M) - begin /\ c + n = b
      BY <1>1, <1>2, <1>10
    <2>2. M[begin] = s[c] /\ v \in Int
      <3>1. a + begin = c
        BY <1>1
      <3> HIDE DEF begin
      <3> QED
        BY <1>2, <1>3, <2>1, <3>1
    <2>3. prev = TRUE
      <3>1. c + 1 \in 2..N /\ (c + 1) - 1 = c
        BY <1>1, <1>10
      <3>2. ~(s[c + 1].t - s[c].t >= q.lookback)
        <4> DEFINE j == c + 1
        <4>1. j \in 2..Len(s) /\ j - 1 = c
          BY <3>1 DEF N
        <4> HIDE DEF j
        <4>2. ~(s[j].t - s[j - 1].t >= q.lookback)
          BY <1>0, <4>1 DEF LongGap
        <4> QED
          BY <4>1, <4>2 DEF j
      <3>3. s[c + 1].t \in Int /\ s[c].t \in Int /\ q.lookback \in Int
        <4>1. c + 1 \in DOMAIN s /\ c \in DOMAIN s
          BY <1>1, <1>10
        <4> QED
          BY <1>0, <4>1, PointAt DEF CallOk
      <3>4. M[f].t - M[f - 1].t < q.lookback
        <4>1. M[f] = s[c + 1] /\ M[f - 1] = s[c]
          BY <1>4, <2>1, <2>2
        <4> HIDE DEF f
        <4> QED
          BY <3>2, <3>3, <4>1
      <3>5. f > 1
        BY <1>4, <1>10
      <3> HIDE DEF f
      <3> QED
        BY <1>0, <3>4, <3>5
    <2>4. CounterFrom(q.name, M, f, prev) = CounterDifference(q.name, M, begin, v)
      <3> HIDE DEF f, begin, prev
      <3> QED
        BY <1>8, <2>1, <2>3, Zenon DEF CounterFrom
    <2>5. \A i \in 1..n : d[c + i] = Difference(q, M[begin + i - 1].v, M[begin + i].v)
      <3> SUFFICES ASSUME NEW i \in 1..n
                   PROVE  d[c + i] = Difference(q, M[begin + i - 1].v, M[begin + i].v)
        OBVIOUS
      <3>1. /\ c + i \in (c + 1)..b /\ c + i > a + 1
            /\ begin + i - 1 \in 1..(b - a) /\ begin + i \in 1..(b - a)
            /\ a + (begin + i - 1) = (c + i) - 1 /\ a + (begin + i) = c + i
        BY <1>1, <1>10
      <3>2. M[begin + i - 1] = s[(c + i) - 1] /\ M[begin + i] = s[c + i]
        <4> HIDE DEF begin
        <4> QED
          BY <1>2, <3>1
      <3>3. d[c + i] = Difference(q, s[(c + i) - 1].v, s[c + i].v)
        <4> DEFINE j == c + i
        <4>1. j \in (c + 1)..b /\ j > a + 1
          BY <3>1
        <4> HIDE DEF j
        <4>2. d[j] = Difference(q, s[j - 1].v, s[j].v)
          BY <1>6, <4>1
        <4> QED
          BY <4>2 DEF j
      <3> QED
        BY <3>2, <3>3
    <2>6. ResetOf(v, v) = 0
      BY <2>2 DEF ResetOf
    <2>7. Terms(d, (c + 1)..(c + n)) /\ c \in Int
      BY <1>1, <1>7, <2>1
    <2>8. begin \in 1..Len(M)
      BY <1>2, <2>1
    <2> HIDE DEF begin, n, v
    <2>9. v = M[begin].v
      BY DEF v
    <2>10. CounterDifference(q.name, M, begin, v)
             = Whole(M[begin].v - v + SumFunctionOnSet(d, (c + 1)..(c + n)))
      <3>1. CountsFrom(q, M, begin, v, d, c, n)
        BY <1>2, <1>3, <1>12, <2>1, <2>2, <2>5, <2>6, <2>7, <2>8, <2>9 DEF CountsFrom
      <3>2. CounterDifference(q.name, M, begin, v)
              = ValueFrom(q, M, begin, M[begin].v - v + SumFunctionOnSet(d, (c + 1)..(c + n)))
        BY <3>1, CounterSum
      <3> QED
        BY <1>8, <3>2 DEF ValueFrom
    <2>11. M[begin].v - v + SumFunctionOnSet(d, (c + 1)..(c + n)) = total
      BY <1>9, <2>1, <2>2, <2>9
    <2> QED
      BY <1>5, <2>4, <2>10, <2>11 DEF M
  <1>11. CASE ~(c > a)
    <2> DEFINE n == (b - c) - 1
               v == s[c + 1].v
               next == IF c + 1 < b THEN s[c + 2].v - s[c + 1].v ELSE 0
               baseline == FirstBaseline(v, next)
               g == c + 1
    <2>1. /\ c = a /\ f = 1 /\ n \in Nat /\ n = Len(M) - 1 /\ g + n = b /\ g \in Int /\ g \in 1..N
          /\ M[1] = s[c + 1]
      <3>1. c = a
        BY <1>1, <1>11
      <3> QED
        BY <1>1, <1>2, <1>4, <3>1
    <2>2. v \in Int /\ next \in Int
      <3>1. c + 1 \in DOMAIN s /\ (c + 1 < b => c + 2 \in DOMAIN s)
        BY <1>1
      <3> QED
        BY <1>0, <3>1
    <2>3. baseline \in Int /\ ResetOf(baseline, v) = 0
      <3>1. baseline = 0 \/ baseline = v
        BY DEF FirstBaseline
      <3> HIDE DEF baseline, v
      <3> QED
        BY <2>2, <3>1 DEF ResetOf
    <2>4. prev = FALSE
      BY <2>1
    <2>5. CounterFrom(q.name, M, f, prev) = CounterDifference(q.name, M, 1, baseline)
      <3>1. 1 < Len(M) <=> c + 1 < b
        <4>1. c = a /\ Len(M) = b - a
          BY <1>2, <2>1
        <4> QED
          BY ONLY <1>1, <4>1
      <3>2. c + 1 < b => M[1 + 1] = s[c + 2]
        <4>1. c + 1 < b => 2 \in 1..(b - a) /\ a + 2 = c + 2 /\ 1 + 1 = 2
          BY <1>1, <2>1
        <4> QED
          BY <1>2, <4>1
      <3>3. CounterFrom(q.name, M, 1, FALSE)
              = CounterDifference(q.name, M, 1,
                  FirstBaseline(M[1].v, IF 1 < Len(M) THEN M[1 + 1].v - M[1].v ELSE 0))
        BY <1>8, Zenon DEF CounterFrom
      <3> HIDE DEF f, prev
      <3> QED
        BY <2>1, <2>4, <3>1, <3>2, <3>3
    <2>6. \A i \in 1..n : d[g + i] = Difference(q, M[1 + i - 1].v, M[1 + i].v)
      <3> SUFFICES ASSUME NEW i \in 1..n
                   PROVE  d[g + i] = Difference(q, M[1 + i - 1].v, M[1 + i].v)
        OBVIOUS
      <3>1. /\ g + i \in (c + 1)..b /\ g + i > a + 1
            /\ 1 + i - 1 \in 1..(b - a) /\ 1 + i \in 1..(b - a)
            /\ a + (1 + i - 1) = (g + i) - 1 /\ a + (1 + i) = g + i
        BY <1>1, <2>1
      <3>2. M[1 + i - 1] = s[(g + i) - 1] /\ M[1 + i] = s[g + i]
        <4> HIDE DEF g
        <4> QED
          BY <1>2, <3>1
      <3>3. d[g + i] = Difference(q, s[(g + i) - 1].v, s[g + i].v)
        <4> DEFINE j == g + i
        <4>1. j \in (c + 1)..b /\ j > a + 1
          BY <3>1
        <4> HIDE DEF j
        <4>2. d[j] = Difference(q, s[j - 1].v, s[j].v)
          BY <1>6, <4>1
        <4> QED
          BY <4>2 DEF j
      <3> QED
        BY <3>2, <3>3
    <2>7. /\ total = d[g] + SumFunctionOnSet(d, (g + 1)..(g + n))
          /\ Terms(d, (g + 1)..(g + n)) /\ SumFunctionOnSet(d, (g + 1)..(g + n)) \in Int
      <3>1. g \in (c + 1)..b /\ ((c + 1)..b) \ {g} = (g + 1)..(g + n)
        BY <1>1, <2>1
      <3>2. total = d[g] + SumFunctionOnSet(d, ((c + 1)..b) \ {g})
        BY <1>7, <3>1, SumRemove
      <3>3. (g + 1)..(g + n) \in SUBSET ((c + 1)..b)
        BY <3>1
      <3> HIDE DEF total, g, n
      <3>4. Terms(d, (g + 1)..(g + n))
        BY <1>7, <3>3, FewerTerms
      <3>5. total = d[g] + SumFunctionOnSet(d, (g + 1)..(g + n))
        BY <3>1, <3>2, Zenon
      <3> QED
        BY <3>4, <3>5, SumInteger
    <2>8. d[g] = v - baseline
      <3>1. g \in (a + 1)..b /\ g = a + 1 /\ g \in (c + 1)..b /\ g + 1 = c + 2
        BY <1>1, <2>1
      <3>2. Contribution(q, s, e, g)
              = s[g].v - FirstBaseline(s[g].v, IF g < b THEN s[g + 1].v - s[g].v ELSE 0)
        <4> HIDE DEF g
        <4> QED
          BY <1>0, <3>1, SampleAdds
      <3>3. d[g] = Contribution(q, s, e, g)
        BY <1>0, <3>1
      <3> QED
        BY <3>1, <3>2, <3>3
    <2>9. 1 \in 1..Len(M)
      BY <1>2, <1>4
    <2>10. M[1].v = v
      BY <2>1
    <2> HIDE DEF n, v, baseline, g, next
    <2>11. CounterDifference(q.name, M, 1, baseline)
             = Whole(M[1].v - baseline + SumFunctionOnSet(d, (g + 1)..(g + n)))
      <3> DEFINE one == 1
      <3>1. /\ one \in 1..Len(M) /\ n = Len(M) - one /\ ResetOf(baseline, M[one].v) = 0
            /\ \A i \in 1..n : d[g + i] = Difference(q, M[one + i - 1].v, M[one + i].v)
        BY <2>1, <2>3, <2>6, <2>9, <2>10
      <3> HIDE DEF one
      <3>2. CounterDifference(q.name, M, one, baseline)
             = Whole(M[one].v - baseline + SumFunctionOnSet(d, (g + 1)..(g + n)))
        <4>1. CountsFrom(q, M, one, baseline, d, g, n)
          BY <1>2, <1>3, <1>12, <2>1, <2>3, <2>7, <3>1 DEF CountsFrom
        <4>2. CounterDifference(q.name, M, one, baseline)
                = ValueFrom(q, M, one, M[one].v - baseline + SumFunctionOnSet(d, (g + 1)..(g + n)))
          BY <4>1, CounterSum
        <4> QED
          BY <1>8, <4>2 DEF ValueFrom
      <3> QED
        BY <3>2 DEF one
    <2>12. M[1].v - baseline + SumFunctionOnSet(d, (g + 1)..(g + n)) = total
      BY <2>7, <2>8, <2>10
    <2> QED
      BY <1>5, <2>5, <2>11, <2>12 DEF M
  <1> QED
    BY <1>10, <1>11

(* The points of a stretch up to a time inside it.                          *)
LEMMA CountInStretch ==
    ASSUME NEW s \in Seq(Point), Strict(s), NEW x \in Int, NEW a \in 0..Len(s), NEW b \in a..Len(s),
           a <= CountUntil(s, x), CountUntil(s, x) <= b
    PROVE  CountUntil(SubSeq(s, a + 1, b), x) = CountUntil(s, x) - a
  <1> DEFINE M == SubSeq(s, a + 1, b)
             c == CountUntil(s, x)
             C == CountUntil(M, x)
             N == Len(s)
  <1>1. c \in 0..N /\ N \in Nat /\ \A i \in 1..N : i <= c <=> s[i].t <= x
    BY CountUntilIs
  <1>2. /\ M \in Seq(Point) /\ Strict(M) /\ Len(M) = b - a
        /\ \A i \in 1..(b - a) : M[i] = s[a + i]
    BY Stretch
  <1> HIDE DEF M
  <1>3. C \in 0..(b - a) /\ \A i \in 1..(b - a) : i <= C <=> M[i].t <= x
    BY <1>2, CountUntilIs
  <1>4. a \in Nat /\ b \in Nat /\ a <= b /\ b <= N /\ a <= c /\ c <= b
    BY <1>1
  <1> HIDE DEF c, C, N
  <1>5. \A i \in 1..(b - a) : i <= C <=> a + i <= c
    <2> SUFFICES ASSUME NEW i \in 1..(b - a) PROVE i <= C <=> a + i <= c
      OBVIOUS
    <2>1. a + i \in 1..N
      BY ONLY <1>1, <1>4, i \in 1..(b - a)
    <2> QED
      BY <1>1, <1>2, <1>3, <2>1
  <1>6. C = c - a
    <2>1. ASSUME C < c - a PROVE FALSE
      <3>1. C + 1 \in 1..(b - a) /\ a + (C + 1) <= c
        BY ONLY <1>1, <1>3, <1>4, <2>1
      <3> QED
        BY ONLY <1>3, <1>5, <3>1
    <2>2. ASSUME C > c - a PROVE FALSE
      <3>1. C \in 1..(b - a) /\ ~(a + C <= c)
        BY ONLY <1>1, <1>3, <1>4, <2>2
      <3> QED
        BY ONLY <1>3, <1>5, <3>1
    <2> QED
      BY ONLY <1>1, <1>3, <1>4, <2>1, <2>2
  <1> QED
    BY <1>6 DEF C, c, M

(* Without a long gap the totals are sums; with one they come from the      *)
(* matrices. Either way they are the engine's.                              *)
LEMMA TotalSteps ==
    ASSUME NEW q, CallOk(q), q.name \in Totals, NEW s \in Seq(Point), Strict(s), NEW start \in Int,
           NEW count \in Nat, NEW k \in 0..(count - 1)
    PROVE  TotalRollup(q, ReadSamples(q, s, start, count), start, count, k)
             = RollupAt(q, s, start + k * q.step)
  <1> DEFINE S == ReadSamples(q, s, start, count)
             ts == start + k * q.step
             e == start + k * q.step - q.offset
             used == {i \in DOMAIN S : k \in StepsOf(S[i].t, q, q.window, start, count)}
             I == {i \in DOMAIN S : k \in StepsOf(S[i].t, q, SelectorRange(q), start, count)}
             d == [i \in used |-> Contribution(q, S, e, i)]
             N == Len(S)
             a == CountUntil(S, e - SelectorRange(q))
             b == CountUntil(S, e)
             x == e - q.window
             c == CountUntil(S, x)
             M == SubSeq(S, a + 1, b)
             m == MaxPrev(q, M)
  <1>1. /\ S \in Seq(Point) /\ Strict(S) /\ \A i \in DOMAIN S : S[i].v \in Int
        /\ Picked(S, I) = Seen(q, MatrixAt(q, s, ts))
    <2>1. q.name # "default_rollup"
      BY DEF Totals
    <2> QED
      BY <2>1, StepMatrix
  <1>2. WindowRollup(q, S, start, count, k) = RollupAt(q, s, ts)
    BY WindowSteps
  <1>3. /\ q.offset \in Int /\ q.step \in Nat /\ q.window \in Nat /\ q.window # 0
        /\ SelectorRange(q) \in Int /\ SelectorRange(q) >= q.window
    BY CallRange DEF CallOk, Totals, SelectorRange
  <1>4. ts \in Int /\ e \in Int /\ e = ts - q.offset
    <2> DEFINE n == q.step
               p == k * n
    <2>1. n \in Int /\ k \in Int
      BY <1>3
    <2> HIDE DEF n
    <2>2. p \in Int
      BY ONLY <2>1
    <2>3. ts = start + p /\ e = start + p - q.offset
      BY DEF n
    <2> HIDE DEF p, ts, e
    <2> QED
      BY <1>3, <2>2, <2>3
  <1> HIDE DEF S
  <1>5. TotalRollup(q, S, start, count, k)
          = IF LongGap(q, S) THEN WindowRollup(q, S, start, count, k)
            ELSE IF used = {} THEN NaN ELSE Whole(SumFunction(d))
    BY DEF TotalRollup
  <1>6. /\ \A i \in DOMAIN S : i \in used <=> x < S[i].t /\ S[i].t <= e
        /\ \A i \in DOMAIN S : i \in I <=> e - SelectorRange(q) < S[i].t /\ S[i].t <= e
    <2> SUFFICES ASSUME NEW i \in DOMAIN S
                 PROVE  /\ k \in StepsOf(S[i].t, q, q.window, start, count) <=> x < S[i].t /\ S[i].t <= e
                        /\ k \in StepsOf(S[i].t, q, SelectorRange(q), start, count)
                             <=> e - SelectorRange(q) < S[i].t /\ S[i].t <= e
      OBVIOUS
    <2> DEFINE t == S[i].t
               width == SelectorRange(q)
    <2>1. t \in Int /\ q.window \in Int /\ width \in Int
      BY <1>1, <1>3, PointAt
    <2> HIDE DEF t, width
    <2> QED
      BY <2>1, StepUses DEF t, width
  <1> HIDE DEF e, ts, d
  <1>7. /\ a \in 0..N /\ b \in 0..N /\ c \in 0..N /\ N \in Nat /\ DOMAIN S = 1..N
        /\ \A i \in 1..N : i <= a <=> S[i].t <= e - SelectorRange(q)
        /\ \A i \in 1..N : i <= b <=> S[i].t <= e
        /\ \A i \in 1..N : i <= c <=> S[i].t <= x
    <2>1. e - SelectorRange(q) \in Int /\ x \in Int
      BY <1>3, <1>4
    <2> HIDE DEF x
    <2> QED
      BY <1>1, <1>4, <2>1, CountUntilIs
  <1>8. x \in Int /\ e - SelectorRange(q) <= x /\ x <= e /\ e - SelectorRange(q) \in Int
    BY <1>3, <1>4, SMTT(20)
  <1>9. \A i \in 1..N : S[i].t \in Int
    BY <1>1, <1>7, PointAt
  <1> HIDE DEF x, a, b, c, N, M, used, I
  <1>10. a <= c /\ c <= b
    <2>1. a <= c
      <3>1. CASE a = 0
        BY <1>7, <3>1
      <3>2. CASE a # 0
        <4>1. a \in 1..N
          BY <1>7, <3>2
        <4>2. S[a].t <= x
          BY <1>7, <1>8, <1>9, <4>1
        <4> QED
          BY <1>7, <4>1, <4>2
      <3> QED
        BY <3>1, <3>2
    <2>2. c <= b
      <3>1. CASE c = 0
        BY <1>7, <3>1
      <3>2. CASE c # 0
        <4>1. c \in 1..N
          BY <1>7, <3>2
        <4>2. S[c].t <= e
          BY <1>4, <1>7, <1>8, <1>9, <4>1
        <4> QED
          BY <1>7, <4>1, <4>2
      <3> QED
        BY <3>1, <3>2
    <2> QED
      BY <2>1, <2>2
  <1>11. used \subseteq 1..N /\ I \in SUBSET DOMAIN S
    BY <1>7 DEF used, I
  <1>12. \A i \in 1..N : /\ i \in used <=> i \in (c + 1)..b
                         /\ i \in I <=> i \in (a + 1)..b
    <2> SUFFICES ASSUME NEW i \in 1..N
                 PROVE (i \in used <=> i \in (c + 1)..b) /\ (i \in I <=> i \in (a + 1)..b)
      OBVIOUS
    <2>1. i \in used <=> ~(i <= c) /\ i <= b
      BY <1>6, <1>7, <1>8, <1>9
    <2>2. i \in I <=> ~(i <= a) /\ i <= b
      BY <1>6, <1>7, <1>8, <1>9
    <2> QED
      BY <1>7, <2>1, <2>2
  <1>13. used = (c + 1)..b
    <2>1. (c + 1)..b \subseteq 1..N
      BY <1>7
    <2> QED
      BY <1>11, <1>12, <2>1
  <1>14. Picked(S, I) = M
    <2>1. a \in 0..Len(S) /\ b \in a..Len(S)
      BY <1>7, <1>10 DEF N
    <2>2. \A i \in DOMAIN S : i \in I <=> i \in (a + 1)..b
      BY <1>7, <1>12
    <2> QED
      BY <1>1, <1>11, <2>1, <2>2, PickedStretch DEF M
  <1>15. CountUntil(M, x) = c - a
    <2>1. a \in 0..Len(S) /\ b \in a..Len(S)
      BY <1>7, <1>10 DEF N
    <2> QED
      BY <1>1, <1>8, <1>10, <2>1, CountInStretch DEF M, c
  <1>16. RollupAt(q, s, ts) = metricsQLCounterValue(q.name, M, (c - a) + 1, x, m, q.lookback)
    <2>1. RollupAt(q, s, ts) = RollupPoints(q, M, ts)
      <3>1. q.name # "default_rollup"
        BY DEF Totals
      <3>2. RollupAt(q, s, ts) = RollupPoints(q, Seen(q, MatrixAt(q, s, ts)), ts)
        BY <3>1 DEF RollupAt, metricsQLRollup, Seen
      <3> QED
        BY <1>1, <1>14, <3>2
    <2>2. WindowOf(q, m) = q.window
      BY <1>3 DEF WindowOf
    <2>3. ts - q.offset - WindowOf(q, m) = x
      BY <1>4, <2>2 DEF x
    <2> HIDE DEF m
    <2>4. RollupWith(q, M, ts, m) = RollupFrom(q, M, CountUntil(M, x) + 1, x, m)
      BY <2>3, Zenon DEF RollupWith, WindowRollupOf
    <2>5. q.name # "default_rollup"
      BY DEF Totals
    <2>6. RollupFrom(q, M, (c - a) + 1, x, m) = metricsQLCounterValue(q.name, M, (c - a) + 1, x, m, q.lookback)
      BY <2>5, Zenon DEF RollupFrom
    <2>7. RollupPoints(q, M, ts) = RollupWith(q, M, ts, m)
      BY DEF RollupPoints, m
    <2> QED
      BY <1>15, <2>1, <2>4, <2>6, <2>7, Zenon
  <1> HIDE DEF m
  <1>17. CASE LongGap(q, S)
    BY <1>2, <1>5, <1>17 DEF S, ts
  <1>18. CASE ~LongGap(q, S) /\ c = b
    <2>1. used = {}
      BY <1>7, <1>13, <1>18
    <2>2. (c - a) + 1 > Len(M)
      <3>1. Len(M) = b - a
        <4>1. a \in 0..Len(S) /\ b \in a..Len(S)
          BY <1>7, <1>10 DEF N
        <4> QED
          BY <1>1, <4>1, Stretch DEF M
      <3> QED
        BY <1>7, <1>18, <3>1
    <2>3. metricsQLCounterValue(q.name, M, (c - a) + 1, x, m, q.lookback) = NaN
      BY <2>2, Zenon DEF metricsQLCounterValue
    <2>4. TotalRollup(q, S, start, count, k) = NaN
      BY <1>5, <1>18, <2>1
    <2> QED
      BY <1>16, <2>3, <2>4 DEF S, ts
  <1>19. CASE ~LongGap(q, S) /\ c # b
    <2>1. used # {} /\ c < b
      <3>1. c < b /\ b \in (c + 1)..b
        BY <1>7, <1>10, <1>19
      <3> QED
        BY <1>13, <3>1
    <2>2. DOMAIN d = (c + 1)..b /\ \A i \in (c + 1)..b : d[i] = Contribution(q, S, e, i)
      BY <1>13 DEF d
    <2>3. SumFunction(d) = SumFunctionOnSet(d, (c + 1)..b)
      BY <2>2 DEF SumFunction
    <2>4. StepOfTotal(q, S, e, a, b, c, d)
      <3>1. /\ a \in Nat /\ b \in Nat /\ c \in Nat /\ Len(S) \in Nat /\ DOMAIN S = 1..Len(S)
            /\ a <= c /\ c < b /\ b <= Len(S)
        BY <1>7, <1>10, <2>1 DEF N
      <3>2. a = CountUntil(S, e - SelectorRange(q)) /\ b = CountUntil(S, e)
        BY DEF a, b
      <3> QED
        BY <1>1, <1>4, <1>19, <2>2, <3>1, <3>2 DEF StepOfTotal
    <2>5. metricsQLCounterValue(q.name, M, (c - a) + 1, x, m, q.lookback)
            = Whole(SumFunctionOnSet(d, (c + 1)..b))
      BY <2>4, TotalIsSum DEF M
    <2>6. TotalRollup(q, S, start, count, k) = Whole(SumFunction(d))
      BY <1>5, <1>19, <2>1
    <2> QED
      BY <1>16, <2>3, <2>5, <2>6 DEF S, ts
  <1> QED
    BY <1>17, <1>18, <1>19

(* Every call: the statement is the engine, on one series.                  *)
LEMMA NativeIsEngine ==
    ASSUME NEW q, CallOk(q), NEW s \in Seq(Point), Strict(s), NEW start \in Int,
           NEW count \in Nat, NEW k \in 0..(count - 1)
    PROVE  NativeRollup(q, s, start, count, k) = RollupAt(q, s, start + k * q.step)
  <1>1. CASE q.name \in Totals
    BY <1>1, TotalSteps DEF NativeRollup, NativePoints
  <1>2. CASE q.name \notin Totals
    BY <1>2, WindowSteps DEF NativeRollup, NativePoints
  <1> QED
    BY <1>1, <1>2

-----------------------------------------------------------------------------
(* The series the statements are compared on.                               *)

(* What one row stores up to a bound.                                       *)
LEMMA CountTyped == ASSUME NEW r \in Row, NEW b PROVE CountUpTo(r, b) \in Int
  <1> DEFINE I == {i \in DOMAIN r.counts : BoundsOf(r)[i] <= b}
  <1>1. r.counts \in Seq(Nat)
    BY DEF Row
  <1>2. DOMAIN r.counts = 1..Len(r.counts) /\ Len(r.counts) \in Nat
    BY <1>1, LenProperties
  <1>3. I \in SUBSET (1..Len(r.counts))
    BY <1>2
  <1> HIDE DEF I
  <1>4. IsFiniteSet(I)
    <2>1. IsFiniteSet(1..Len(r.counts))
      BY <1>2, FS_Interval
    <2> QED
      BY <1>3, <2>1, FS_Subset
  <1>5. \A i \in I : r.counts[i] \in Int
    BY <1>1, <1>2, <1>3, ElementOfSeq
  <1>6. Terms(r.counts, I)
    BY <1>4, <1>5 DEF Terms
  <1> QED
    BY <1>6, SumInteger DEF CountUpTo, I

(* The bucket series that was stored is a series in time order.             *)
LEMMA StoredSeries ==
    ASSUME store \in Stores, NEW labels, NEW b
    PROVE  BucketSeries(labels, b) \in Seq(Point) /\ Timed(BucketSeries(labels, b))
  <1> DEFINE rows == RowsWith(labels, b)
             n == Len(rows)
             points == [i \in DOMAIN rows |-> [t |-> rows[i].t, v |-> CountUpTo(rows[i], b)]]
             T == {rows[i].t : i \in DOMAIN rows}
             times == Ranked(T, <=)
             m == Cardinality(T)
             before(t) == {i \in DOMAIN rows : rows[i].t <= t}
             total(t) == SumFunctionOnSet(Values(points), before(t))
             u == [k \in DOMAIN times |-> [t |-> times[k], v |-> total(times[k])]]
  <1>1. rows \in Seq(Row)
    <2>1. store \in Seq(Row)
      BY HistogramAssumption
    <2>2. StoredRows \in Seq(Row)
      BY <2>1, PickedElements DEF StoredRows
    <2> QED
      BY <2>2, PickedElements DEF RowsWith
  <1>2. BucketSeries(labels, b)
          = IF rows # <<>> /\ rows[1].temporality = "delta" THEN u ELSE SortBy(points, LAMBDA p : p.t)
    BY DEF BucketSeries
  <1> HIDE DEF rows
  <1>3. DOMAIN rows = 1..n /\ n \in Nat /\ \A i \in 1..n : rows[i] \in Row
    BY <1>1, LenProperties, ElementOfSeq
  <1>4. \A i \in 1..n : points[i] \in Point /\ points[i].t = rows[i].t /\ points[i].v \in Int
    <2> SUFFICES ASSUME NEW i \in 1..n
                 PROVE points[i] \in Point /\ points[i].t = rows[i].t /\ points[i].v \in Int
      OBVIOUS
    <2>1. rows[i].t \in Int
      BY <1>3 DEF Row
    <2>2. CountUpTo(rows[i], b) \in Int
      BY <1>3, CountTyped
    <2>3. points[i] = [t |-> rows[i].t, v |-> CountUpTo(rows[i], b)]
      BY <1>3
    <2> HIDE DEF points
    <2> QED
      BY <2>1, <2>2, <2>3 DEF Point
  <1>5. points = [i \in 1..n |-> points[i]]
    BY <1>3
  <1>6. \A i \in DOMAIN points : Values(points)[i] = points[i].v
    BY DEF Values
  <1> HIDE DEF points, n
  <1>7. points \in Seq(Point) /\ DOMAIN points = 1..n
    BY <1>3, <1>4, <1>5, SequenceOf
  <1>8. T = TimesOf(points)
    BY <1>3, <1>4, <1>7 DEF TimesOf
  <1>9. T \subseteq Int /\ IsFiniteSet(T)
    BY <1>7, <1>8, FiniteTimes
  <1> HIDE DEF T
  <1>10. m \in Nat /\ times \in [1..m -> T] /\ Increasing(times, m)
    BY <1>9, RankedNumbers
  <1>11. ASSUME NEW t PROVE total(t) \in Int
    <2> DEFINE B == before(t)
    <2>1. B \in SUBSET DOMAIN points
      BY <1>3, <1>7
    <2> HIDE DEF B
    <2>2. IsFiniteSet(B)
      BY <1>7, <2>1, TimeOrderTotal, FS_Subset
    <2>3. \A i \in B : Values(points)[i] \in Int
      BY <1>4, <1>6, <1>7, <2>1
    <2>4. Terms(Values(points), B)
      BY <2>2, <2>3 DEF Terms
    <2> QED
      BY <2>4, SumInteger DEF B
  <1> HIDE DEF times, total, m
  <1>12. ASSUME NEW k \in 1..m PROVE u[k] \in Point /\ u[k].t = times[k] /\ times[k] \in Int
    <2>1. times[k] \in Int
      BY <1>9, <1>10
    <2>2. u[k] = [t |-> times[k], v |-> total(times[k])]
      BY <1>10
    <2> QED
      BY <1>11, <2>1, <2>2 DEF Point
  <1>13. u = [k \in 1..m |-> u[k]]
    BY <1>10
  <1> HIDE DEF u
  <1>14. u \in Seq(Point) /\ DOMAIN u = 1..m
    BY <1>10, <1>12, <1>13, SequenceOf
  <1>15. Timed(u)
    <2>1. Strict(u)
      BY <1>10, <1>12, <1>14 DEF Strict, Increasing
    <2> QED
      BY <1>14, <2>1, StrictTimed
  <1>16. SortBy(points, LAMBDA p : p.t) \in Seq(Point) /\ Timed(SortBy(points, LAMBDA p : p.t))
    BY <1>7, SortedByTime
  <1> QED
    BY <1>2, <1>14, <1>15, <1>16

LEMMA CallsOk ==
    ASSUME plan \in Plans, NEW call, call \in Calls
    PROVE  CallOk(call) /\ call.step = plan.step
  <1>1. plan \in RangePlan
    BY HistogramAssumption
  <1>2. /\ plan.step \in Nat \ {0} /\ plan.window \in Nat /\ plan.lookback \in Nat \ {0}
        /\ plan.instant = FALSE
        /\ plan = [name |-> plan.name, window |-> plan.window, step |-> plan.step,
                   lookback |-> plan.lookback, offset |-> plan.offset, instant |-> plan.instant,
                   start |-> plan.start, steps |-> plan.steps, compact |-> plan.compact]
    BY <1>1 DEF RangePlan
  <1>3. call \in RequestCalls /\ (call.window = 0 => call.name \in {"rate", "default_rollup"})
    BY DEF Calls
  <1>4. PICK name \in Functions, window \in Windows \cup {plan.step, plan.window}, offset \in Offsets :
          call = CallOf(name, window, offset)
    BY <1>3 DEF RequestCalls
  <1>5. /\ call.name = name /\ call.window = window /\ call.offset = offset
        /\ call.step = plan.step /\ call.lookback = plan.lookback /\ call.instant = plan.instant
    BY <1>2, <1>4 DEF CallOf
  <1>6. window \in Nat /\ offset \in Int /\ "name" \in DOMAIN call
    BY <1>2, <1>4, HistogramAssumption DEF CallOf
  <1> QED
    BY <1>2, <1>3, <1>5, <1>6 DEF CallOk

(* Before its first row the builder has no series.                          *)
NothingBuilt == phase = "compact" \/ (phase = "build" /\ row = 0) => built.series = <<>>

(* No path leaves series in the builder for a request that begins to build. *)
LEMMA NothingBuiltInv == Spec => []NothingBuilt
  <1>1. Init => NothingBuilt
    BY DEF Init, NothingBuilt, NewBuilder
  <1>2. Inv /\ NothingBuilt /\ [Next]_vars => NothingBuilt'
    <2> SUFFICES ASSUME Inv, NothingBuilt, [Next]_vars PROVE NothingBuilt'
      OBVIOUS
    <2>1. CASE UNCHANGED vars
      BY <2>1 DEF vars, NothingBuilt
    <2>2. CASE CompactAdd
      BY <2>2 DEF CompactAdd, NothingBuilt
    <2>3. CASE CompactFinish
      BY <2>3 DEF CompactFinish, NothingBuilt
    <2>4. CASE BuildAdd
      <3> DEFINE r == GeneralRows[row + 1]
      <3>1. BuildRow(r, LabelsOf[r.id], PointsOf(r) \o MarkersOf(r)) /\ phase = "build"
        BY <2>4 DEF BuildAdd
      <3> HIDE DEF r
      <3>2. phase' = "failed" \/ (row' = row + 1 /\ phase' = phase)
        BY <3>1, Zenon DEF BuildRow
      <3>3. row + 1 # 0
        BY DEF Inv
      <3> QED
        BY <3>1, <3>2, <3>3 DEF NothingBuilt
    <2>5. CASE BuildFinish
      BY <2>5 DEF BuildFinish, NothingBuilt
    <2>6. CASE OpenIterator
      BY <2>6 DEF OpenIterator, NothingBuilt
    <2>7. CASE EngineSeek
      BY <2>7 DEF EngineSeek, NothingBuilt
    <2>8. CASE EngineNext
      BY <2>8 DEF EngineNext, NothingBuilt
    <2>9. CASE EngineEvaluate
      BY <2>9 DEF EngineEvaluate, NothingBuilt
    <2>10. CASE EngineDone
      BY <2>10 DEF EngineDone, NothingBuilt
    <2>11. CASE ReadFails
      BY <2>11 DEF ReadFails, NothingBuilt
    <2> QED
      BY <2>1, <2>2, <2>3, <2>4, <2>5, <2>6, <2>7, <2>8, <2>9, <2>10, <2>11 DEF Next
  <1> QED
    BY <1>1, <1>2, HistogramInv, PTL DEF Spec

(* A series of points that a request can find is a time-ordered sequence.   *)
LEMMA SeriesCompared ==
    ASSUME Inv, NothingBuilt, FirstRead, NEW points \in PointSeries
    PROVE  points \in Seq(Point) /\ Timed(points)
  <1>1. store \in Stores
    BY DEF Inv
  <1>2. CASE \E labels \in Labels, b \in AllBounds : points = BucketSeries(labels, b)
    BY <1>1, <1>2, StoredSeries
  <1>3. CASE points \in Range(built.series)
    <2>1. PICK s \in DOMAIN built.series : points = built.series[s]
      BY <1>3 DEF Range
    <2>2. built.series # <<>>
      BY <2>1
    <2>3. phase = "engine"
      BY <2>2 DEF FirstRead, NothingBuilt
    <2> QED
      BY <2>1, <2>3, SeriesRead
  <1> QED
    BY <1>2, <1>3 DEF PointSeries

(* The native SQL, in which each sample is expanded to the steps it serves, *)
(* the neighbours of a sample are window functions and a total without long *)
(* gaps is a plain sum (fastpath_range_native.go:218-357), gives at every   *)
(* step what metricsqlRollup gives on the points of the step's range, for   *)
(* every stored or built series, function, window, step, lookback and       *)
(* offset: NativeExact holds of any store and any request.                  *)
THEOREM NativeSQLExact == Spec => []NativeExact
  <1>1. Inv /\ NothingBuilt => NativeExact
    <2> SUFFICES ASSUME Inv, NothingBuilt, FirstRead, NEW points \in PointSeries, NEW q \in Calls,
                        NEW k \in Grid, OnePerTime(points)
                 PROVE  NativeRollup(q, points, plan.start, plan.steps, k)
                          = RollupAt(q, points, GridTime(k))
      BY DEF NativeExact
    <2>1. plan \in Plans
      BY DEF Inv
    <2>2. points \in Seq(Point) /\ Timed(points)
      BY SeriesCompared
    <2>3. Strict(points)
      BY <2>2, OneTimeStrict
    <2>4. CallOk(q) /\ q.step = plan.step
      BY <2>1, CallsOk
    <2>5. plan.start \in Int /\ plan.steps \in Nat /\ k \in 0..(plan.steps - 1)
      BY <2>1, PlanNumbers DEF Grid
    <2>6. NativeRollup(q, points, plan.start, plan.steps, k)
            = RollupAt(q, points, plan.start + k * q.step)
      BY <2>2, <2>3, <2>4, <2>5, NativeIsEngine
    <2> QED
      BY <2>4, <2>6 DEF GridTime
  <1> QED
    BY <1>1, HistogramInv, NothingBuiltInv, PTL

-----------------------------------------------------------------------------
(* One estimate per series: the statement of the PostHog tables.            *)

(* The gaps of s are all g.                                                 *)
Evenly(s, g) == \A i \in 2..Len(s) : GapAt(s, i) = g

(* The estimate of a regular series is its gap.                             *)
LEMMA EvenQuantile ==
    ASSUME NEW s \in Seq(Point), Len(s) >= 2, NEW g \in Int, Evenly(s, g), NEW count \in Nat \ {0}
    PROVE  Quantile(LastGaps(s, count)) = g
  <1> DEFINE m == Smaller(Len(s) - 1, count)
             w == LastGaps(s, count)
  <1>1. /\ m \in Nat \ {0} /\ Len(w) = m
        /\ \A i \in 1..m : \E j \in 2..Len(s) : w[i] = GapAt(s, j)
    BY SortedGaps
  <1> HIDE DEF m, w
  <1>2. \A i \in 1..m : w[i] = g
    BY <1>1 DEF Evenly
  <1>3. PICK i \in 1..m, j \in 1..m, r \in Nat : Quantile(w) = Interpolated(w[i], w[j], r)
    BY <1>1, QuantileReads
  <1>4. Quantile(w) = g + ((g - g) * r) \div 10
    BY <1>2, <1>3 DEF Interpolated
  <1>5. (g - g) * r = 0
    BY <1>3
  <1>6. Quantile(w) = g
    BY <1>4, <1>5
  <1> QED
    BY <1>6 DEF w

(* The margin never falls short of the interval it is for.                  *)
LEMMA MarginEnough ==
    ASSUME NEW fallback, NEW g \in Int, g > 0
    PROVE  MarginOr(fallback, g) \in Int /\ MarginOr(fallback, g) >= g
  BY DEF MarginOr, Margin

(* A stretch of a regular series is regular.                                *)
LEMMA EvenStretch ==
    ASSUME NEW s \in Seq(Point), Strict(s), NEW a \in 0..Len(s), NEW b \in a..Len(s), NEW g, Evenly(s, g)
    PROVE  Evenly(SubSeq(s, a + 1, b), g)
  <1> DEFINE M == SubSeq(s, a + 1, b)
  <1>1. Len(M) = b - a /\ \A i \in 1..(b - a) : M[i] = s[a + i]
    BY Stretch
  <1> HIDE DEF M
  <1>2. Len(s) \in Nat
    BY LenProperties
  <1> SUFFICES ASSUME NEW i \in 2..(b - a) PROVE GapAt(M, i) = g
    BY <1>1 DEF Evenly, M
  <1>3. i \in 1..(b - a) /\ i - 1 \in 1..(b - a) /\ a + i \in 2..Len(s) /\ a + (i - 1) = (a + i) - 1
    BY <1>2
  <1>4. M[i] = s[a + i] /\ M[i - 1] = s[(a + i) - 1]
    BY <1>1, <1>3
  <1>5. GapAt(M, i) = GapAt(s, a + i)
    BY <1>4 DEF GapAt
  <1> QED
    BY <1>3, <1>5 DEF Evenly

(* A sum over the rows of a step is the sum over its samples a + 1 to a + n. *)
OneRowEach(a, n, h, f, d) ==
    /\ a \in Int /\ n \in Nat
    /\ \A i, j \in 1..n : h[a + i] = h[a + j] => i = j
    /\ \A i \in 1..n : d[a + i] = f[h[a + i]] /\ d[a + i] \in Int

LEMMA SumOfRows ==
    ASSUME NEW a, NEW N, NEW h, NEW f, NEW d, OneRowEach(a, N, h, f, d)
    PROVE  /\ IsFiniteSet({h[a + i] : i \in 1..N})
           /\ SumFunctionOnSet(f, {h[a + i] : i \in 1..N}) = SumFunctionOnSet(d, (a + 1)..(a + N))
  <1> DEFINE rows(n) == {h[a + i] : i \in 1..n}
             Same(n) == /\ IsFiniteSet(rows(n))
                        /\ SumFunctionOnSet(f, rows(n)) = SumFunctionOnSet(d, (a + 1)..(a + n))
             G == {n \in Nat : n <= N => Same(n)}
  <1>0. /\ a \in Int /\ N \in Nat
        /\ \A i, j \in 1..N : h[a + i] = h[a + j] => i = j
        /\ \A i \in 1..N : d[a + i] = f[h[a + i]] /\ d[a + i] \in Int
    BY DEF OneRowEach
  <1>1. 0 \in G
    <2>1. rows(0) = {} /\ (a + 1)..(a + 0) = {}
      BY <1>0
    <2>2. IsFiniteSet({}) /\ SumFunctionOnSet(f, {}) = 0 /\ SumFunctionOnSet(d, {}) = 0
      BY EmptySum, FS_EmptySet
    <2> HIDE DEF rows
    <2> QED
      BY <2>1, <2>2
  <1>2. ASSUME NEW n \in Nat, n \in G PROVE n + 1 \in G
    <2> SUFFICES ASSUME n + 1 <= N PROVE Same(n + 1)
      OBVIOUS
    <2> DEFINE x == h[a + (n + 1)]
               b == a + (n + 1)
    <2>1. Same(n)
      <3>1. n <= N
        BY <1>0
      <3> QED
        BY <1>2, <3>1
    <2>2. rows(n + 1) = rows(n) \cup {x}
      <3>1. 1..(n + 1) = (1..n) \cup {n + 1}
        OBVIOUS
      <3> QED
        BY <3>1
    <2>3. x \notin rows(n)
      <3> SUFFICES ASSUME NEW i \in 1..n, h[a + i] = x PROVE FALSE
        OBVIOUS
      <3>1. i \in 1..N /\ n + 1 \in 1..N /\ i # n + 1
        BY <1>0
      <3>2. h[a + i] = h[a + (n + 1)]
        OBVIOUS
      <3> QED
        BY ONLY <1>0, <3>1, <3>2
    <2>4. f[x] = d[b] /\ d[b] \in Int
      <3>1. n + 1 \in 1..N
        BY <1>0
      <3> QED
        BY <1>0, <3>1
    <2>5. \A y \in rows(n + 1) : f[y] \in Int
      <3> SUFFICES ASSUME NEW i \in 1..(n + 1) PROVE f[h[a + i]] \in Int
        OBVIOUS
      <3>1. i \in 1..N
        BY <1>0
      <3> QED
        BY <1>0, <3>1
    <2> HIDE DEF rows, x
    <2>6. IsFiniteSet(rows(n + 1))
      BY <2>1, <2>2, FS_AddElement
    <2>7. Terms(f, rows(n + 1)) /\ x \in rows(n + 1) /\ rows(n + 1) \ {x} = rows(n)
      BY <2>2, <2>3, <2>5, <2>6 DEF Terms
    <2>8. SumFunctionOnSet(f, rows(n + 1)) = f[x] + SumFunctionOnSet(f, rows(n))
      <3> DEFINE R == rows(n + 1)
      <3>1. Terms(f, R) /\ x \in R
        BY <2>7
      <3> HIDE DEF R
      <3>2. SumFunctionOnSet(f, R) = f[x] + SumFunctionOnSet(f, R \ {x})
        BY <3>1, SumRemove
      <3> QED
        BY <2>7, <3>2, Zenon DEF R
    <2>9. /\ Terms(d, (a + 1)..b) /\ b \in Int /\ a < b /\ b - 1 = a + n
      <3>0. a + 1 \in Int /\ b \in Int
        BY <1>0
      <3>1. IsFiniteSet((a + 1)..b)
        BY <3>0, FS_Interval
      <3>2. \A i \in (a + 1)..b : d[i] \in Int
        <4> SUFFICES ASSUME NEW i \in (a + 1)..b PROVE d[i] \in Int
          OBVIOUS
        <4>1. i - a \in 1..N /\ a + (i - a) = i
          BY <1>0
        <4> QED
          BY <1>0, <4>1
      <3> QED
        BY <1>0, <3>1, <3>2 DEF Terms
    <2> HIDE DEF b
    <2>10. SumFunctionOnSet(d, (a + 1)..b) = d[b] + SumFunctionOnSet(d, (a + 1)..(b - 1))
      BY <1>0, <2>9, LastTerm
    <2>11. SumFunctionOnSet(f, rows(n + 1)) = SumFunctionOnSet(d, (a + 1)..b)
      BY <2>1, <2>4, <2>8, <2>9, <2>10, Zenon
    <2> QED
      BY <2>6, <2>11 DEF b
  <1>3. \A n \in Nat : n \in G
    <2> HIDE DEF G
    <2> QED
      BY <1>1, <1>2, InductionBySet
  <1>4. N \in G
    BY <1>0, <1>3
  <1> HIDE DEF Same
  <1>5. Same(N)
    BY <1>4
  <1> QED
    BY <1>5 DEF Same

(* The samples s of a request at the step whose time is e: a and c samples  *)
(* lie before its matrix and before its window, b up to e.                  *)
StepAt(q, s, e, a, b, c) ==
    /\ CallOk(q) /\ q.name \in CounterFunctions /\ q.window # 0
    /\ s \in Seq(Point) /\ Strict(s) /\ \A i \in DOMAIN s : s[i].v \in Int
    /\ e \in Int
    /\ a = CountUntil(s, e - SelectorRange(q)) /\ b = CountUntil(s, e) /\ c = CountUntil(s, e - q.window)
    /\ a \in Nat /\ b \in Nat /\ c \in Nat /\ Len(s) \in Nat /\ DOMAIN s = 1..Len(s)
    /\ a <= c /\ c <= b /\ b <= Len(s)

(* The value over a matrix M of a call with a window.                       *)
MatrixValue(q, M, first, x) ==
    metricsQLCounterValue(q.name, M, first, x, MaxPrev(q, M), q.lookback)

(* A step: its samples, and the engine on the stretch that is its matrix.   *)
LEMMA StepParts ==
    ASSUME NEW q, CallOk(q), q.name \in CounterFunctions, q.window # 0,
           NEW s \in Seq(Point), Strict(s), NEW start \in Int,
           NEW count \in Nat, NEW k \in 0..(count - 1)
    PROVE  LET S == ReadSamples(q, s, start, count)
               e == start + k * q.step - q.offset
               a == CountUntil(S, e - SelectorRange(q))
               b == CountUntil(S, e)
               c == CountUntil(S, e - q.window)
           IN  /\ StepAt(q, S, e, a, b, c)
               /\ {i \in DOMAIN S : k \in StepsOf(S[i].t, q, q.window, start, count)} = (c + 1)..b
               /\ RollupAt(q, s, start + k * q.step)
                    = MatrixValue(q, SubSeq(S, a + 1, b), (c - a) + 1, e - q.window)
  <1> DEFINE S == ReadSamples(q, s, start, count)
             ts == start + k * q.step
             e == start + k * q.step - q.offset
             used == {i \in DOMAIN S : k \in StepsOf(S[i].t, q, q.window, start, count)}
             I == {i \in DOMAIN S : k \in StepsOf(S[i].t, q, SelectorRange(q), start, count)}
             N == Len(S)
             a == CountUntil(S, e - SelectorRange(q))
             b == CountUntil(S, e)
             x == e - q.window
             c == CountUntil(S, x)
             M == SubSeq(S, a + 1, b)
             m == MaxPrev(q, M)
  <1>0. q.name # "default_rollup"
    BY DEF CounterFunctions, Totals, Rates, LastTwo
  <1>1. /\ S \in Seq(Point) /\ Strict(S) /\ \A i \in DOMAIN S : S[i].v \in Int
        /\ Picked(S, I) = Seen(q, MatrixAt(q, s, ts))
    BY <1>0, StepMatrix
  <1>3. /\ q.offset \in Int /\ q.step \in Nat /\ q.window \in Nat /\ q.window # 0
        /\ SelectorRange(q) \in Int /\ SelectorRange(q) >= q.window
    BY CallRange DEF CallOk, SelectorRange
  <1>4. ts \in Int /\ e \in Int /\ e = ts - q.offset
    <2> DEFINE n == q.step
               p == k * n
    <2>1. n \in Int /\ k \in Int
      BY <1>3
    <2> HIDE DEF n
    <2>2. p \in Int
      BY ONLY <2>1
    <2>3. ts = start + p /\ e = start + p - q.offset
      BY DEF n
    <2> HIDE DEF p, ts, e
    <2> QED
      BY <1>3, <2>2, <2>3
  <1> HIDE DEF S
  <1>6. /\ \A i \in DOMAIN S : i \in used <=> x < S[i].t /\ S[i].t <= e
        /\ \A i \in DOMAIN S : i \in I <=> e - SelectorRange(q) < S[i].t /\ S[i].t <= e
    <2> SUFFICES ASSUME NEW i \in DOMAIN S
                 PROVE  /\ k \in StepsOf(S[i].t, q, q.window, start, count) <=> x < S[i].t /\ S[i].t <= e
                        /\ k \in StepsOf(S[i].t, q, SelectorRange(q), start, count)
                             <=> e - SelectorRange(q) < S[i].t /\ S[i].t <= e
      OBVIOUS
    <2> DEFINE t == S[i].t
               width == SelectorRange(q)
    <2>1. t \in Int /\ q.window \in Int /\ width \in Int
      BY <1>1, <1>3, PointAt
    <2> HIDE DEF t, width
    <2> QED
      BY <2>1, StepUses DEF t, width
  <1> HIDE DEF e, ts
  <1>7. /\ a \in 0..N /\ b \in 0..N /\ c \in 0..N /\ N \in Nat /\ DOMAIN S = 1..N
        /\ \A i \in 1..N : i <= a <=> S[i].t <= e - SelectorRange(q)
        /\ \A i \in 1..N : i <= b <=> S[i].t <= e
        /\ \A i \in 1..N : i <= c <=> S[i].t <= x
    <2>1. e - SelectorRange(q) \in Int /\ x \in Int
      BY <1>3, <1>4
    <2> HIDE DEF x
    <2> QED
      BY <1>1, <1>4, <2>1, CountUntilIs
  <1>8. x \in Int /\ e - SelectorRange(q) <= x /\ x <= e /\ e - SelectorRange(q) \in Int
    BY <1>3, <1>4, SMTT(20)
  <1>9. \A i \in 1..N : S[i].t \in Int
    BY <1>1, <1>7, PointAt
  <1> HIDE DEF x, a, b, c, N, M, used, I
  <1>10. a <= c /\ c <= b
    <2>1. a <= c
      <3>1. CASE a = 0
        BY <1>7, <3>1
      <3>2. CASE a # 0
        <4>1. a \in 1..N
          BY <1>7, <3>2
        <4>2. S[a].t <= x
          BY <1>7, <1>8, <1>9, <4>1
        <4> QED
          BY <1>7, <4>1, <4>2
      <3> QED
        BY <3>1, <3>2
    <2>2. c <= b
      <3>1. CASE c = 0
        BY <1>7, <3>1
      <3>2. CASE c # 0
        <4>1. c \in 1..N
          BY <1>7, <3>2
        <4>2. S[c].t <= e
          BY <1>4, <1>7, <1>8, <1>9, <4>1
        <4> QED
          BY <1>7, <4>1, <4>2
      <3> QED
        BY <3>1, <3>2
    <2> QED
      BY <2>1, <2>2
  <1>11. used \subseteq 1..N /\ I \in SUBSET DOMAIN S
    BY <1>7 DEF used, I
  <1>12. \A i \in 1..N : /\ i \in used <=> i \in (c + 1)..b
                         /\ i \in I <=> i \in (a + 1)..b
    <2> SUFFICES ASSUME NEW i \in 1..N
                 PROVE (i \in used <=> i \in (c + 1)..b) /\ (i \in I <=> i \in (a + 1)..b)
      OBVIOUS
    <2>1. i \in used <=> ~(i <= c) /\ i <= b
      BY <1>6, <1>7, <1>8, <1>9
    <2>2. i \in I <=> ~(i <= a) /\ i <= b
      BY <1>6, <1>7, <1>8, <1>9
    <2> QED
      BY <1>7, <2>1, <2>2
  <1>13. used = (c + 1)..b
    <2>1. (c + 1)..b \subseteq 1..N
      BY <1>7
    <2> QED
      BY <1>11, <1>12, <2>1
  <1>14. Picked(S, I) = M
    <2>1. a \in 0..Len(S) /\ b \in a..Len(S)
      BY <1>7, <1>10 DEF N
    <2>2. \A i \in DOMAIN S : i \in I <=> i \in (a + 1)..b
      BY <1>7, <1>12
    <2> QED
      BY <1>1, <1>11, <2>1, <2>2, PickedStretch DEF M
  <1>15. CountUntil(M, x) = c - a
    <2>1. a \in 0..Len(S) /\ b \in a..Len(S)
      BY <1>7, <1>10 DEF N
    <2> QED
      BY <1>1, <1>8, <1>10, <2>1, CountInStretch DEF M, c
  <1>16. RollupAt(q, s, ts) = metricsQLCounterValue(q.name, M, (c - a) + 1, x, m, q.lookback)
    <2>1. RollupAt(q, s, ts) = RollupPoints(q, M, ts)
      <3>2. RollupAt(q, s, ts) = RollupPoints(q, Seen(q, MatrixAt(q, s, ts)), ts)
        BY <1>0 DEF RollupAt, metricsQLRollup, Seen
      <3> QED
        BY <1>1, <1>14, <3>2
    <2>2. WindowOf(q, m) = q.window
      BY <1>3 DEF WindowOf
    <2>3. ts - q.offset - WindowOf(q, m) = x
      BY <1>4, <2>2 DEF x
    <2> HIDE DEF m
    <2>4. RollupWith(q, M, ts, m) = RollupFrom(q, M, CountUntil(M, x) + 1, x, m)
      BY <2>3, Zenon DEF RollupWith, WindowRollupOf
    <2>6. RollupFrom(q, M, (c - a) + 1, x, m) = metricsQLCounterValue(q.name, M, (c - a) + 1, x, m, q.lookback)
      BY <1>0, Zenon DEF RollupFrom
    <2>7. RollupPoints(q, M, ts) = RollupWith(q, M, ts, m)
      BY DEF RollupPoints, m
    <2> QED
      BY <1>15, <2>1, <2>4, <2>6, <2>7, Zenon
  <1>17. StepAt(q, S, e, a, b, c)
    <2>1. /\ a \in Nat /\ b \in Nat /\ c \in Nat /\ Len(S) \in Nat /\ DOMAIN S = 1..Len(S)
          /\ a <= c /\ c <= b /\ b <= Len(S)
      BY <1>7, <1>10 DEF N
    <2>2. a = CountUntil(S, e - SelectorRange(q)) /\ b = CountUntil(S, e) /\ c = CountUntil(S, e - q.window)
      BY DEF a, b, c, x
    <2> QED
      BY <1>1, <1>3, <1>4, <2>1, <2>2 DEF StepAt
  <1>18. RollupAt(q, s, ts) = MatrixValue(q, M, (c - a) + 1, x)
    BY <1>16 DEF MatrixValue, m
  <1> QED
    BY <1>13, <1>17, <1>18 DEF S, e, ts, x, M, a, b, c, used

(* The estimate of a series.                                                *)
Estimate(q, s, count) ==
    Smaller(IF Len(s) < 2 THEN q.step ELSE MarginOr(q.step, Quantile(LastGaps(s, count))), q.lookback)

(* Whether the previous sample counts at a step: for the engine, which sees *)
(* the matrix, and for the statement, which sees the samples.               *)
EnginePrev(q, M, first, x) ==
    /\ first > 1
    /\ \/ M[first - 1].t > x - MaxPrev(q, M)
       \/ q.name \in Totals /\ M[first].t - M[first - 1].t < q.lookback

StatementPrev(q, s, c, e) ==
    c >= 1 /\ RangeHasPrev(q, s[c].t, e, q.window, Estimate(q, s, Len(s)))

(* On a regular series both agree, although one estimates its interval from *)
(* the whole series and takes any sample of the matrix for a total.         *)
LEMMA SamePrev ==
    ASSUME NEW q, NEW s, NEW e, NEW a, NEW b, NEW c, StepAt(q, s, e, a, b, c), c < b,
           NEW g \in Int, Evenly(s, g),
           NEW M, M = SubSeq(s, a + 1, b), NEW x, x = e - q.window
    PROVE  /\ EnginePrev(q, M, (c - a) + 1, x) <=> StatementPrev(q, s, c, e)
           /\ StatementPrev(q, s, c, e) => c > a
  <1> DEFINE f == (c - a) + 1
  <1>0. /\ CallOk(q) /\ s \in Seq(Point) /\ Strict(s) /\ e \in Int
        /\ a = CountUntil(s, e - SelectorRange(q))
        /\ a \in Nat /\ b \in Nat /\ c \in Nat /\ Len(s) \in Nat /\ DOMAIN s = 1..Len(s)
        /\ a <= c /\ c <= b /\ b <= Len(s) /\ q.window # 0
    BY DEF StepAt
  <1>1. /\ q.window \in Nat /\ q.lookback \in Nat /\ q.instant = FALSE
        /\ SelectorRange(q) = q.window + q.lookback /\ q.name # "default_rollup"
        /\ a \in Nat /\ b \in Nat /\ c \in Nat /\ Len(s) \in Nat /\ a <= c /\ c < b /\ b <= Len(s)
    <2>1. q.name # "default_rollup"
      BY DEF StepAt, CounterFunctions, Totals, Rates, LastTwo
    <2> QED
      BY <1>0, <2>1 DEF CallOk, SelectorRange
  <1>2. x \in Int /\ e - SelectorRange(q) = x - q.lookback /\ e - SelectorRange(q) \in Int
    <2> DEFINE w == q.window
               l == q.lookback
               r == SelectorRange(q)
    <2>1. w \in Int /\ l \in Int /\ r = w + l /\ e \in Int /\ x = e - w
      BY <1>0, <1>1
    <2> HIDE DEF w, l, r
    <2>2. x \in Int /\ e - r = x - l /\ e - r \in Int
      BY ONLY <2>1
    <2> QED
      BY <2>2 DEF l, r
  <1>3. \A i \in 1..Len(s) : s[i].t \in Int /\ (i <= a <=> s[i].t <= x - q.lookback)
    BY <1>0, <1>2, CountUntilIs, PointAt
  <1>4. CASE c = a
    <2>1. ~(f > 1)
      BY <1>0, <1>4
    <2>2. ~StatementPrev(q, s, c, e)
      <3> SUFFICES ASSUME c >= 1 PROVE ~(s[c].t > e - SelectorRange(q))
        BY DEF StatementPrev, RangeHasPrev
      <3>1. c \in 1..Len(s)
        BY <1>0
      <3>2. s[c].t \in Int /\ s[c].t <= x - q.lookback
        BY <1>0, <1>3, <1>4, <3>1
      <3> QED
        BY <1>1, <1>2, <3>2
    <2> QED
      BY <2>1, <2>2, Zenon DEF EnginePrev
  <1>5. CASE c > a
    <2>1. /\ M \in Seq(Point) /\ Strict(M) /\ Len(M) = b - a /\ Evenly(M, g)
          /\ \A i \in 1..(b - a) : M[i] = s[a + i]
      <3>1. a \in 0..Len(s) /\ b \in a..Len(s)
        BY <1>0
      <3> QED
        BY <1>0, <3>1, Stretch, EvenStretch
    <2>2. M[f - 1] = s[c] /\ M[f] = s[c + 1] /\ f > 1
      <3>1. f - 1 \in 1..(b - a) /\ f \in 1..(b - a) /\ a + (f - 1) = c /\ a + f = c + 1 /\ f > 1
        BY ONLY <1>1, <1>5
      <3> HIDE DEF f
      <3> QED
        BY <2>1, <3>1
    <2>3. c \in 1..Len(s) /\ c + 1 \in 1..Len(s) /\ c + 1 \in 2..Len(s) /\ (c + 1) - 1 = c
      BY <1>0, <1>5
    <2>4. /\ s[c].t \in Int /\ s[c + 1].t \in Int /\ s[c].t > x - q.lookback
          /\ s[c + 1].t - s[c].t = g /\ g > 0
      <3>1. GapAt(s, c + 1) = g
        BY <2>3 DEF Evenly
      <3>2. s[c + 1].t - s[c].t = g
        BY <2>3, <3>1 DEF GapAt
      <3>3. s[c].t < s[c + 1].t
        BY <1>0, <2>3 DEF Strict
      <3>4. s[c].t \in Int /\ s[c + 1].t \in Int
        BY <1>3, <2>3
      <3>5. ~(s[c].t <= x - q.lookback)
        BY <1>0, <1>3, <1>5, <2>3
      <3> QED
        BY <1>1, <1>2, <3>2, <3>3, <3>4, <3>5
    <2> DEFINE r == MarginOr(q.step, g)
               m == Smaller(r, q.lookback)
    <2>5. r \in Int /\ r >= g
      BY <2>4, MarginEnough
    <2>6. MaxPrev(q, M) = m
      <3>1. Len(M) >= 2 /\ ~(Len(M) < 2)
        BY <1>0, <1>5, <2>1
      <3>2. Quantile(LastGaps(M, IntervalPoints)) = g
        BY <2>1, <3>1, EvenQuantile, RollupAssumption
      <3> QED
        BY <1>1, <3>1, <3>2 DEF MaxPrev, metricsQLSampleInterval
    <2>7. Estimate(q, s, Len(s)) = m
      <3>1. Len(s) >= 2 /\ ~(Len(s) < 2) /\ Len(s) \in Nat \ {0}
        BY <1>0, <1>5
      <3>2. Quantile(LastGaps(s, Len(s))) = g
        BY <1>0, <3>1, EvenQuantile
      <3> QED
        BY <3>1, <3>2 DEF Estimate
    <2> HIDE DEF r
    <2>8. m \in Int /\ (g >= q.lookback => m = q.lookback)
      BY <1>1, <2>4, <2>5 DEF Smaller
    <2> HIDE DEF m, f
    <2>9. StatementPrev(q, s, c, e) <=> q.name \in Totals \/ s[c].t > x - m
      <3>1. s[c].t > e - SelectorRange(q)
        BY <1>2, <2>4
      <3>2. c >= 1
        BY <2>3
      <3> QED
        BY <2>7, <3>1, <3>2 DEF StatementPrev, RangeHasPrev
    <2>10. EnginePrev(q, M, f, x) <=> s[c].t > x - m \/ (q.name \in Totals /\ g < q.lookback)
      BY <2>2, <2>4, <2>6 DEF EnginePrev
    <2>11. ~(g < q.lookback) => s[c].t > x - m
      BY <1>1, <2>4, <2>8
    <2>12. EnginePrev(q, M, f, x) <=> StatementPrev(q, s, c, e)
      BY <2>9, <2>10, <2>11, Zenon
    <2> QED
      BY <1>5, <2>12 DEF f
  <1> QED
    BY <1>0, <1>4, <1>5

(* What each sample changes a value by, and the time since the one before.  *)
Changes(q, s) == [i \in 2..Len(s) |-> Difference(Counting(q), s[i - 1].v, s[i].v)]
Gaps(s) == [i \in 2..Len(s) |-> GapAt(s, i)]

LEMMA ChangesTyped ==
    ASSUME NEW q, NEW s \in Seq(Point), \A i \in DOMAIN s : s[i].v \in Int, NEW i \in 2..Len(s)
    PROVE  Changes(q, s)[i] \in Int /\ Gaps(s)[i] \in Int
  <1>1. i \in DOMAIN s /\ i - 1 \in DOMAIN s
    BY LenProperties
  <1>2. s[i].v \in Int /\ s[i - 1].v \in Int /\ s[i].t \in Int /\ s[i - 1].t \in Int
    BY <1>1, PointAt
  <1>3. Changes(q, s)[i] \in Int
    BY <1>2 DEF Changes, Difference
  <1>4. Gaps(s)[i] \in Int
    BY <1>2 DEF Gaps, GapAt
  <1> QED
    BY <1>3, <1>4

(* The gaps from one point to another add up to the time between them.      *)
LEMMA GapsAddUp ==
    ASSUME NEW s \in Seq(Point), NEW j \in 1..Len(s), NEW b \in j..Len(s)
    PROVE  SumFunctionOnSet(Gaps(s), (j + 1)..b) = s[b].t - s[j].t
  <1> DEFINE n == b - j
             d == Gaps(s)
             r == [i \in 1..n |-> 0]
             u == [i \in 0..n |-> s[j + i].t]
             N == Len(s)
  <1>1. N \in Nat /\ DOMAIN s = 1..N /\ \A i \in 1..N : s[i].t \in Int
    BY LenProperties, PointAt
  <1>2. n \in Nat /\ j \in Int /\ j + n = b /\ (j + 1)..(j + n) = (j + 1)..b /\ b <= N /\ 1 <= j
    BY <1>1
  <1>3. \A i \in 0..n : u[i] = s[j + i].t /\ u[i] \in Int
    <2> SUFFICES ASSUME NEW i \in 0..n PROVE s[j + i].t \in Int
      OBVIOUS
    <2>1. j + i \in 1..N
      BY ONLY <1>2, i \in 0..n
    <2> QED
      BY <1>1, <2>1
  <1>4. \A i \in 1..n : d[j + i] = u[i] - u[i - 1] + r[0 + i] /\ d[j + i] \in Int
    <2> SUFFICES ASSUME NEW i \in 1..n PROVE d[j + i] = u[i] - u[i - 1] + r[0 + i] /\ d[j + i] \in Int
      OBVIOUS
    <2>1. j + i \in 2..N /\ (j + i) - 1 = j + (i - 1) /\ i \in 0..n /\ i - 1 \in 0..n /\ 0 + i = i /\ i \in 1..n
      BY ONLY <1>2, i \in 1..n
    <2>2. d[j + i] = s[j + i].t - s[j + (i - 1)].t
      BY <2>1 DEF Gaps, GapAt
    <2>3. u[i] = s[j + i].t /\ u[i - 1] = s[j + (i - 1)].t /\ u[i] \in Int /\ u[i - 1] \in Int
      BY <1>3, <2>1
    <2>4. r[0 + i] = 0
      BY <2>1
    <2> HIDE DEF d, u, r
    <2> QED
      BY <2>2, <2>3, <2>4
  <1>5. Terms(d, (j + 1)..(j + n))
    <2>1. IsFiniteSet((j + 1)..(j + n))
      <3>1. j + 1 \in Int /\ j + n \in Int
        BY <1>2
      <3> QED
        BY <3>1, FS_Interval
    <2>2. \A i \in (j + 1)..(j + n) : d[i] \in Int
      <3> SUFFICES ASSUME NEW i \in (j + 1)..(j + n) PROVE d[i] \in Int
        OBVIOUS
      <3>1. i - j \in 1..n /\ j + (i - j) = i
        BY ONLY <1>2, i \in (j + 1)..(j + n)
      <3> HIDE DEF d, n
      <3> QED
        BY <1>4, <3>1
    <2> QED
      BY <2>1, <2>2 DEF Terms
  <1>6. Terms(r, (0 + 1)..(0 + n)) /\ SumFunctionOnSet(r, (0 + 1)..(0 + n)) = 0
    <2>1. (0 + 1)..(0 + n) = 1..n /\ IsFiniteSet(1..n) /\ \A i \in 1..n : r[i] = 0
      BY <1>2, FS_Interval
    <2> HIDE DEF r
    <2>2. Terms(r, 1..n)
      BY <2>1 DEF Terms
    <2>3. SumFunctionOnSet(r, 1..n) = 0
      BY <1>2, <2>1, ZeroSum
    <2> QED
      BY <2>1, <2>2, <2>3
  <1> HIDE DEF d, r, u
  <1>7. Neighbours(d, j, r, 0, u, n)
    <2>1. /\ n \in Nat /\ j \in Int /\ 0 \in Int
          /\ \A i \in 0..n : u[i] \in Int
          /\ \A i \in 1..n : d[j + i] = u[i] - u[i - 1] + r[0 + i]
      BY <1>2, <1>3, <1>4
    <2> QED
      BY ONLY <2>1, Zenon DEF Neighbours
  <1>8. AddsUp(d, j, r, 0, u, n)
    BY <1>7, Telescope
  <1>9. SumFunctionOnSet(d, (j + 1)..(j + n)) = u[n] - u[0] + 0
    BY <1>5, <1>6, <1>8, Zenon DEF AddsUp
  <1>10. u[n] = s[b].t /\ u[0] = s[j].t /\ u[n] \in Int /\ u[0] \in Int
    <2>1. n \in 0..n /\ 0 \in 0..n /\ j + n = b /\ j + 0 = j
      BY <1>2
    <2> QED
      BY <1>3, <2>1
  <1>11. SumFunctionOnSet(d, (j + 1)..(j + n)) = u[n] - u[0]
    BY <1>9, <1>10
  <1> QED
    BY <1>2, <1>10, <1>11, Zenon DEF d

(* A sum whose first term may be another one.                               *)
FirstIs(c, b, D, d, kept, z, begin) ==
    /\ c \in Int /\ b \in Int /\ c < b /\ kept \in BOOLEAN /\ z \in Int
    /\ \A i \in (c + 1)..b : D[i] = IF i = c + 1 /\ ~kept THEN z ELSE d[i]
    /\ begin = IF kept THEN c ELSE c + 1
    /\ \A i \in (begin + 1)..b : d[i] \in Int

LEMMA FirstTerm ==
    ASSUME NEW c, NEW b, NEW D, NEW d, NEW kept, NEW z, NEW begin, FirstIs(c, b, D, d, kept, z, begin)
    PROVE  /\ Terms(d, (begin + 1)..b) /\ SumFunctionOnSet(d, (begin + 1)..b) \in Int
           /\ Terms(D, (c + 1)..b)
           /\ SumFunctionOnSet(D, (c + 1)..b)
                = (IF kept THEN 0 ELSE z) + SumFunctionOnSet(d, (begin + 1)..b)
  <1>0. /\ c \in Int /\ b \in Int /\ c < b /\ kept \in BOOLEAN /\ z \in Int
        /\ \A i \in (c + 1)..b : D[i] = IF i = c + 1 /\ ~kept THEN z ELSE d[i]
        /\ begin = IF kept THEN c ELSE c + 1
        /\ \A i \in (begin + 1)..b : d[i] \in Int
    BY DEF FirstIs
  <1>1. begin \in Int /\ begin <= b /\ c + 1 \in Int /\ begin + 1 \in Int
    BY <1>0
  <1>2. IsFiniteSet((begin + 1)..b) /\ IsFiniteSet((c + 1)..b)
    BY <1>0, <1>1, FS_Interval
  <1>3. Terms(d, (begin + 1)..b)
    BY <1>0, <1>2 DEF Terms
  <1>4. SumFunctionOnSet(d, (begin + 1)..b) \in Int
    BY <1>3, SumInteger
  <1>5. Terms(D, (c + 1)..b)
    <2> SUFFICES ASSUME NEW i \in (c + 1)..b PROVE D[i] \in Int
      BY <1>2 DEF Terms
    <2>1. i \in (begin + 1)..b \/ (i = c + 1 /\ ~kept)
      BY <1>0
    <2> QED
      BY <1>0, <2>1
  <1>6. CASE kept
    <2>1. begin = c /\ \A i \in (c + 1)..b : D[i] = d[i]
      BY <1>0, <1>6
    <2>2. SumFunctionOnSet(D, (c + 1)..b) = SumFunctionOnSet(d, (c + 1)..b)
      <3>1. Terms(d, (c + 1)..b)
        BY <1>3, <2>1
      <3> QED
        BY <1>5, <2>1, <3>1, SameSum
    <2> QED
      BY <1>3, <1>4, <1>5, <1>6, <2>1, <2>2
  <1>7. CASE ~kept
    <2>1. begin = c + 1 /\ D[c + 1] = z /\ c + 1 \in (c + 1)..b
      BY <1>0, <1>7
    <2>2. ((c + 1)..b) \ {c + 1} = (begin + 1)..b /\ (begin + 1)..b \in SUBSET ((c + 1)..b)
      BY <1>0, <1>1, <2>1
    <2> DEFINE all == (c + 1)..b
               rest == (begin + 1)..b
               y == c + 1
    <2>3. Terms(D, all) /\ y \in all /\ all \ {y} = rest /\ Terms(d, rest) /\ rest \in SUBSET all
      BY <1>3, <1>5, <2>1, <2>2
    <2>4. \A i \in rest : D[i] = d[i]
      <3> SUFFICES ASSUME NEW i \in rest PROVE D[i] = d[i]
        OBVIOUS
      <3>1. i \in (c + 1)..b /\ i # c + 1
        BY <1>0, <2>1
      <3> QED
        BY <1>0, <3>1
    <2> HIDE DEF all, rest, y
    <2>5. SumFunctionOnSet(D, all) = D[y] + SumFunctionOnSet(D, all \ {y})
      BY <2>3, SumRemove
    <2>6. Terms(D, rest)
      BY <2>3, FewerTerms
    <2>7. SumFunctionOnSet(D, rest) = SumFunctionOnSet(d, rest)
      BY <2>3, <2>4, <2>6, SameSum
    <2>8. SumFunctionOnSet(D, all) = z + SumFunctionOnSet(d, rest)
      BY <2>1, <2>3, <2>5, <2>7, Zenon DEF y
    <2> QED
      BY <1>0, <1>3, <1>4, <1>5, <1>7, <2>8 DEF all, rest
  <1> QED
    BY <1>6, <1>7

(* What a total counts from at the first sample of a step's matrix.         *)
Baseline(s, i, b) ==
    FirstBaseline(s[i].v, IF i < b THEN s[i + 1].v - s[i].v ELSE 0)

(* The row of sample i at a step.                                           *)
LEMMA RowIs ==
    ASSUME NEW q, NEW s, NEW e, NEW a, NEW b, NEW c, StepAt(q, s, e, a, b, c),
           NEW i \in (c + 1)..b, NEW r, r = RangeRow(q, s, e, q.window, Estimate(q, s, Len(s)), i)
    PROVE  /\ r.ts = s[i].t /\ r.v = s[i].v
           /\ r.isFirst <=> i = c + 1
           /\ i = c + 1 => (r.hasPrev <=> StatementPrev(q, s, c, e))
           /\ i > 1 => r.diff = Changes(q, s)[i] /\ r.gap = Gaps(s)[i]
           /\ i = c + 1 => r.initial = IF q.name \in Totals THEN s[i].v - Baseline(s, i, b) ELSE 0
  <1> DEFINE x == e - q.window
             m == Estimate(q, s, Len(s))
             counter == [q EXCEPT !.name = IF q.name \in Rates THEN "increase" ELSE @]
             first == i = 1 \/ s[i - 1].t <= x
             prev == i > 1 /\ RangeHasPrev(q, s[i - 1].t, e, q.window, m)
             diff == Difference(counter, IF i = 1 THEN 0 ELSE s[i - 1].v, s[i].v)
             gap == IF i = 1 THEN 0 ELSE s[i].t - s[i - 1].t
             initial == IF q.name \notin Totals THEN 0
                        ELSE s[i].v - FirstBaseline(s[i].v,
                               IF i < Len(s) /\ s[i + 1].t <= e THEN s[i + 1].v - s[i].v ELSE 0)
  <1>0. /\ CallOk(q) /\ s \in Seq(Point) /\ Strict(s) /\ e \in Int
        /\ b = CountUntil(s, e) /\ c = CountUntil(s, e - q.window)
        /\ b \in Nat /\ c \in Nat /\ Len(s) \in Nat /\ DOMAIN s = 1..Len(s)
        /\ c <= b /\ b <= Len(s) /\ q.window \in Nat
    BY DEF StepAt, CallOk
  <1>1. r = [ts |-> s[i].t, v |-> s[i].v, isFirst |-> first, hasPrev |-> prev, diff |-> diff,
             gap |-> gap, initial |-> initial]
    BY DEF RangeRow
  <1> HIDE DEF first, prev, diff, gap, initial
  <1>2. /\ r.ts = s[i].t /\ r.v = s[i].v /\ r.isFirst = first /\ r.hasPrev = prev
        /\ r.diff = diff /\ r.gap = gap /\ r.initial = initial
    BY ONLY <1>1
  <1>3. x \in Int
    BY <1>0
  <1>4. \A j \in 1..Len(s) : s[j].t \in Int /\ (j <= c <=> s[j].t <= x) /\ (j <= b <=> s[j].t <= e)
    BY <1>0, <1>3, CountUntilIs, PointAt
  <1> HIDE DEF x
  <1>5. /\ i \in 1..Len(s) /\ i \in Int /\ c + 1 <= i /\ i <= b
        /\ i > 1 => i - 1 \in 1..Len(s) /\ i \in 2..Len(s)
        /\ i < Len(s) => i + 1 \in 1..Len(s)
        /\ i = c + 1 => i - 1 = c
    BY <1>0
  <1>6. first <=> i = c + 1
    <2>1. CASE i = 1
      BY <1>0, <1>5, <2>1 DEF first
    <2>2. CASE i # 1
      <3>1. i > 1
        BY <1>5, <2>2
      <3>2. i - 1 <= c <=> s[i - 1].t <= x
        BY <1>4, <1>5, <3>1
      <3>3. i - 1 <= c <=> i = c + 1
        BY <1>0, <1>5
      <3> QED
        BY <2>2, <3>2, <3>3 DEF first
    <2> QED
      BY <2>1, <2>2
  <1>7. i = c + 1 => (prev <=> StatementPrev(q, s, c, e))
    <2>1. i = c + 1 => (i > 1 <=> c >= 1)
      BY <1>0, <1>5
    <2> QED
      BY <1>5, <2>1 DEF prev, StatementPrev
  <1>8. i > 1 => diff = Changes(q, s)[i] /\ gap = Gaps(s)[i]
    <2> SUFFICES ASSUME i > 1 PROVE diff = Changes(q, s)[i] /\ gap = Gaps(s)[i]
      OBVIOUS
    <2>1. i # 1 /\ i \in 2..Len(s)
      BY <1>5
    <2> QED
      BY <2>1 DEF diff, gap, Changes, Gaps, GapAt, Counting
  <1>9. initial = IF q.name \in Totals THEN s[i].v - Baseline(s, i, b) ELSE 0
    <2>1. i < Len(s) /\ s[i + 1].t <= e <=> i < b
      <3>1. i < Len(s) => (s[i + 1].t <= e <=> i + 1 <= b)
        BY <1>4, <1>5
      <3> QED
        BY <1>0, <1>5, <3>1
    <2> QED
      BY <2>1 DEF initial, Baseline
  <1> QED
    BY <1>2, <1>6, <1>7, <1>8, <1>9

(* The rows of a step: what they add up to, and whether they are two.       *)
RowsOf(q, s, e, c, b) ==
    {RangeRow(q, s, e, q.window, Estimate(q, s, Len(s)), i) : i \in (c + 1)..b}
Started(r) == r.isFirst /\ ~r.hasPrev
SumOf(rows) == SumFunction([r \in rows |-> IF Started(r) THEN r.initial ELSE r.diff])
GapsOf(rows) == SumFunction([r \in rows |-> IF Started(r) THEN 0 ELSE r.gap])
TwoOf(rows) == Cardinality(rows) >= 2 \/ \E r \in rows : r.isFirst /\ r.hasPrev
BeginOf(q, s, c, e) == IF StatementPrev(q, s, c, e) THEN c ELSE c + 1

LEMMA StepRows ==
    ASSUME NEW q, NEW s, NEW e, NEW a, NEW b, NEW c, StepAt(q, s, e, a, b, c), c < b,
           NEW begin, begin = BeginOf(q, s, c, e),
           NEW rows, rows = RowsOf(q, s, e, c, b)
    PROVE  /\ begin \in 1..b /\ begin \in c..(c + 1)
           /\ Terms(Changes(q, s), (begin + 1)..b)
           /\ SumFunctionOnSet(Changes(q, s), (begin + 1)..b) \in Int
           /\ SumOf(rows)
                = (IF begin = c + 1 /\ q.name \in Totals THEN s[c + 1].v - Baseline(s, c + 1, b) ELSE 0)
                    + SumFunctionOnSet(Changes(q, s), (begin + 1)..b)
           /\ GapsOf(rows) = s[b].t - s[begin].t
           /\ TwoOf(rows) <=> begin < b
  <1> DEFINE N == b - c
             R(i) == RangeRow(q, s, e, q.window, Estimate(q, s, Len(s)), i)
             h == [i \in (c + 1)..b |-> R(i)]
             hp == StatementPrev(q, s, c, e)
             z == IF q.name \in Totals THEN s[c + 1].v - Baseline(s, c + 1, b) ELSE 0
             C == Changes(q, s)
             G == Gaps(s)
             f == [r \in rows |-> IF Started(r) THEN r.initial ELSE r.diff]
             g == [r \in rows |-> IF Started(r) THEN 0 ELSE r.gap]
             D == [i \in (c + 1)..b |-> f[h[i]]]
             H == [i \in (c + 1)..b |-> g[h[i]]]
  <1>0. /\ CallOk(q) /\ s \in Seq(Point) /\ Strict(s) /\ \A i \in DOMAIN s : s[i].v \in Int
        /\ b \in Nat /\ c \in Nat /\ Len(s) \in Nat /\ DOMAIN s = 1..Len(s)
        /\ c < b /\ b <= Len(s)
    BY DEF StepAt
  <1>1. N \in Nat /\ c \in Int /\ b \in Int /\ N >= 1 /\ c + N = b
    BY <1>0
  <1>2. begin = (IF hp THEN c ELSE c + 1) /\ begin \in 1..b /\ begin \in c..(c + 1) /\ (hp => c >= 1)
    BY <1>0 DEF BeginOf, StatementPrev
  <1>3. \A i \in (c + 1)..b : /\ h[i].ts = s[i].t
                              /\ h[i].isFirst <=> i = c + 1
                              /\ i = c + 1 => (h[i].hasPrev <=> hp) /\ h[i].initial = z
                              /\ i > 1 => h[i].diff = C[i] /\ h[i].gap = G[i]
    <2> SUFFICES ASSUME NEW i \in (c + 1)..b
                 PROVE  /\ R(i).ts = s[i].t
                        /\ R(i).isFirst <=> i = c + 1
                        /\ i = c + 1 => (R(i).hasPrev <=> hp) /\ R(i).initial = z
                        /\ i > 1 => R(i).diff = C[i] /\ R(i).gap = G[i]
      BY Zenon
    <2> QED
      BY RowIs
  <1>4. rows = {h[c + i] : i \in 1..N} /\ \A i \in (c + 1)..b : h[i] \in rows
    <2>1. rows = {R(i) : i \in (c + 1)..b}
      BY DEF RowsOf
    <2>2. \A i \in (c + 1)..b : h[i] = R(i) /\ i - c \in 1..N /\ c + (i - c) = i
      BY <1>1
    <2>3. \A i \in 1..N : c + i \in (c + 1)..b
      BY <1>1
    <2> HIDE DEF h, R, N
    <2> QED
      BY <2>1, <2>2, <2>3
  <1> HIDE DEF h, R
  <1>5. \A i, j \in 1..N : h[c + i] = h[c + j] => i = j
    <2> SUFFICES ASSUME NEW i \in 1..N, NEW j \in 1..N, h[c + i] = h[c + j], i # j PROVE FALSE
      OBVIOUS
    <2>1. /\ c + i \in (c + 1)..b /\ c + j \in (c + 1)..b
          /\ c + i \in 1..Len(s) /\ c + j \in 1..Len(s)
      BY <1>0, <1>1
    <2>2. s[c + i].t = s[c + j].t /\ s[c + i].t \in Int
      BY <1>0, <1>3, <2>1, PointAt
    <2>3. c + i < c + j \/ c + j < c + i
      BY <1>1
    <2>4. s[c + i].t < s[c + j].t \/ s[c + j].t < s[c + i].t
      BY <1>0, <2>1, <2>3 DEF Strict
    <2> QED
      BY <2>2, <2>4
  <1>6. \A i \in (c + 1)..b :
          /\ D[i] = IF i = c + 1 /\ ~hp THEN z ELSE C[i]
          /\ H[i] = IF i = c + 1 /\ ~hp THEN 0 ELSE G[i]
    <2> SUFFICES ASSUME NEW i \in (c + 1)..b
                 PROVE  /\ f[h[i]] = IF i = c + 1 /\ ~hp THEN z ELSE C[i]
                        /\ g[h[i]] = IF i = c + 1 /\ ~hp THEN 0 ELSE G[i]
      OBVIOUS
    <2> DEFINE r == h[i]
    <2>1. /\ r \in rows
          /\ r.isFirst <=> i = c + 1
          /\ i = c + 1 => (r.hasPrev <=> hp) /\ r.initial = z
          /\ i > 1 => r.diff = C[i] /\ r.gap = G[i]
      BY <1>3, <1>4
    <2>2. ~(i = c + 1 /\ ~hp) => i > 1
      BY <1>0, <1>2
    <2> HIDE DEF r, z, C, G, hp
    <2>3. f[r] = (IF Started(r) THEN r.initial ELSE r.diff) /\ g[r] = IF Started(r) THEN 0 ELSE r.gap
      BY <2>1
    <2>4. Started(r) <=> i = c + 1 /\ ~hp
      BY <2>1, Zenon DEF Started
    <2> HIDE DEF f, g
    <2>5. f[r] = IF i = c + 1 /\ ~hp THEN z ELSE C[i]
      BY <2>1, <2>2, <2>3, <2>4, Zenon
    <2>6. g[r] = IF i = c + 1 /\ ~hp THEN 0 ELSE G[i]
      BY <2>1, <2>2, <2>3, <2>4, Zenon
    <2> QED
      BY <2>5, <2>6 DEF r
  <1>7. z \in Int /\ \A i \in (begin + 1)..b : C[i] \in Int /\ G[i] \in Int
    <2>1. \A i \in (begin + 1)..b : C[i] \in Int /\ G[i] \in Int
      <3> SUFFICES ASSUME NEW i \in (begin + 1)..b PROVE i \in 2..Len(s)
        BY <1>0, ChangesTyped
      <3> QED
        BY <1>0, <1>2
    <2>2. z \in Int
      <3> DEFINE v == s[c + 1].v
                 n == IF c + 1 < b THEN s[(c + 1) + 1].v - s[c + 1].v ELSE 0
      <3>1. c + 1 \in DOMAIN s /\ (c + 1 < b => (c + 1) + 1 \in DOMAIN s)
        BY <1>0
      <3>2. v \in Int /\ n \in Int
        BY <1>0, <3>1
      <3>3. Baseline(s, c + 1, b) = FirstBaseline(v, n)
        BY DEF Baseline
      <3> HIDE DEF v, n
      <3>4. v - FirstBaseline(v, n) \in Int
        BY <3>2 DEF FirstBaseline
      <3> QED
        BY <3>3, <3>4 DEF v
    <2> QED
      BY <2>1, <2>2
  <1>8. \A i \in (c + 1)..b : D[i] \in Int /\ H[i] \in Int
    <2> SUFFICES ASSUME NEW i \in (c + 1)..b PROVE D[i] \in Int /\ H[i] \in Int
      OBVIOUS
    <2>1. (i = c + 1 /\ ~hp) \/ i \in (begin + 1)..b
      BY <1>0, <1>2
    <2> HIDE DEF D, H, z, C, G, hp
    <2> QED
      BY <1>6, <1>7, <2>1
  <1>9. /\ IsFiniteSet(rows)
        /\ SumOf(rows) = SumFunctionOnSet(D, (c + 1)..b)
        /\ GapsOf(rows) = SumFunctionOnSet(H, (c + 1)..b)
    <2>1. \A i \in 1..N : /\ D[c + i] = f[h[c + i]] /\ D[c + i] \in Int
                          /\ H[c + i] = g[h[c + i]] /\ H[c + i] \in Int
      <3> SUFFICES ASSUME NEW i \in 1..N PROVE c + i \in (c + 1)..b
        BY <1>8
      <3> QED
        BY <1>1
    <2> HIDE DEF D, H
    <2>2. SumOf(rows) = SumFunctionOnSet(f, rows) /\ GapsOf(rows) = SumFunctionOnSet(g, rows)
      BY DEF SumOf, GapsOf, SumFunction
    <2> HIDE DEF f, g, N
    <2>0. OneRowEach(c, N, h, f, D) /\ OneRowEach(c, N, h, g, H)
      BY <1>1, <1>5, <2>1 DEF OneRowEach
    <2>3. IsFiniteSet({h[c + i] : i \in 1..N})
          /\ SumFunctionOnSet(f, {h[c + i] : i \in 1..N}) = SumFunctionOnSet(D, (c + 1)..(c + N))
      BY <2>0, SumOfRows
    <2>4. SumFunctionOnSet(g, {h[c + i] : i \in 1..N}) = SumFunctionOnSet(H, (c + 1)..(c + N))
      BY <2>0, SumOfRows
    <2> QED
      BY <1>1, <1>4, <2>2, <2>3, <2>4
  <1> HIDE DEF D, H, z, C, G, N
  <1> DEFINE kept == IF hp THEN TRUE ELSE FALSE
  <1>10. kept \in BOOLEAN /\ (kept <=> hp) /\ begin = IF kept THEN c ELSE c + 1
    BY <1>2
  <1> HIDE DEF kept, hp
  <1>11. /\ Terms(C, (begin + 1)..b) /\ SumFunctionOnSet(C, (begin + 1)..b) \in Int
         /\ SumFunctionOnSet(D, (c + 1)..b)
              = (IF kept THEN 0 ELSE z) + SumFunctionOnSet(C, (begin + 1)..b)
    <2>1. FirstIs(c, b, D, C, kept, z, begin)
      BY <1>0, <1>1, <1>6, <1>7, <1>10 DEF FirstIs
    <2> QED
      BY <2>1, FirstTerm
  <1>12. /\ SumFunctionOnSet(G, (begin + 1)..b) \in Int
         /\ SumFunctionOnSet(H, (c + 1)..b) = (IF kept THEN 0 ELSE 0) + SumFunctionOnSet(G, (begin + 1)..b)
    <2> DEFINE o == 0
    <2>1. o \in Int /\ \A i \in (c + 1)..b : H[i] = IF i = c + 1 /\ ~kept THEN o ELSE G[i]
      BY <1>6, <1>10
    <2> HIDE DEF o
    <2>2. /\ SumFunctionOnSet(G, (begin + 1)..b) \in Int
          /\ SumFunctionOnSet(H, (c + 1)..b) = (IF kept THEN 0 ELSE o) + SumFunctionOnSet(G, (begin + 1)..b)
      <3>1. FirstIs(c, b, H, G, kept, o, begin)
        BY <1>0, <1>1, <1>7, <1>10, <2>1 DEF FirstIs
      <3> QED
        BY <3>1, FirstTerm
    <2> QED
      BY <2>2 DEF o
  <1>13. SumFunctionOnSet(G, (begin + 1)..b) = s[b].t - s[begin].t
    <2>1. begin \in 1..Len(s) /\ b \in begin..Len(s)
      BY <1>0, <1>2
    <2> QED
      BY <1>0, <2>1, GapsAddUp DEF G
  <1>14. GapsOf(rows) = s[b].t - s[begin].t
    BY <1>9, <1>12, <1>13
  <1>15. TwoOf(rows) <=> begin < b
    <2>1. CASE c + 1 < b
      <3>1. c + 1 \in (c + 1)..b /\ b \in (c + 1)..b /\ 1 \in 1..N /\ N \in 1..N /\ 1 # N /\ c + N = b
        BY <1>0, <1>1, <2>1
      <3>2. h[c + 1] # h[b]
        BY <1>1, <1>5, <3>1
      <3>3. {h[c + 1], h[b]} \subseteq rows
        BY <1>4, <3>1
      <3> DEFINE one == {h[c + 1]}
      <3>4. IsFiniteSet(one) /\ Cardinality(one) = 1
        BY FS_Singleton
      <3>5. h[b] \notin one /\ one \cup {h[b]} \subseteq rows
        BY <3>2, <3>3
      <3> HIDE DEF one
      <3>6. IsFiniteSet(one \cup {h[b]}) /\ Cardinality(one \cup {h[b]}) = Cardinality(one) + 1
        BY <3>4, <3>5, FS_AddElement
      <3>7. Cardinality(one \cup {h[b]}) <= Cardinality(rows) /\ Cardinality(rows) \in Nat
        BY <1>9, <3>5, FS_Subset, FS_CardinalityType
      <3>8. Cardinality(rows) >= 2
        BY <3>4, <3>6, <3>7
      <3> QED
        BY <1>0, <1>2, <2>1, <3>8 DEF TwoOf
    <2>2. CASE ~(c + 1 < b)
      <3>1. b = c + 1 /\ (c + 1)..b = {b}
        BY <1>0, <2>2
      <3>2. rows = {h[b]}
        <4>1. N = 1
          BY <1>1, <3>1
        <4> QED
          BY <1>1, <1>4, <4>1
      <3>3. Cardinality(rows) = 1
        BY <3>2, FS_Singleton
      <3>4. h[b].isFirst /\ (h[b].hasPrev <=> hp)
        BY <1>3, <3>1
      <3>5. TwoOf(rows) <=> hp
        <4>1. ~(Cardinality(rows) >= 2)
          BY <3>3
        <4>2. (\E r \in rows : r.isFirst /\ r.hasPrev) <=> hp
          BY <3>2, <3>4, Zenon
        <4> QED
          BY <4>1, <4>2, Zenon DEF TwoOf
      <3>6. hp <=> begin < b
        BY <1>0, <1>2, <3>1
      <3> QED
        BY <3>5, <3>6
    <2> QED
      BY <2>1, <2>2
  <1>16. kept <=> begin # c + 1
    BY <1>0, <1>10
  <1>17. SumOf(rows)
           = (IF begin = c + 1 /\ q.name \in Totals THEN s[c + 1].v - Baseline(s, c + 1, b) ELSE 0)
               + SumFunctionOnSet(C, (begin + 1)..b)
    <2>1. SumOf(rows) = (IF kept THEN 0 ELSE z) + SumFunctionOnSet(C, (begin + 1)..b)
      BY <1>9, <1>11
    <2> QED
      BY <1>16, <2>1 DEF z
  <1> QED
    BY <1>2, <1>11, <1>14, <1>15, <1>17 DEF C

(* The value from sample j of a step on.                                    *)
StepValue(q, s, j, b, value) ==
    IF q.name \notin Rates THEN Whole(value)
    ELSE IF j = b THEN NaN
    ELSE Fraction(value * 1000, s[b].t - s[j].t)

StretchFrom(q, s, e, a, b, c, M, j, base) ==
    /\ StepAt(q, s, e, a, b, c) /\ M = SubSeq(s, a + 1, b) /\ j \in (a + 1)..b
    /\ base \in Int /\ ResetOf(base, s[j].v) = 0

LEMMA StretchSum ==
    ASSUME NEW q, NEW s, NEW e, NEW a, NEW b, NEW c, NEW M, NEW j, NEW base,
           StretchFrom(q, s, e, a, b, c, M, j, base)
    PROVE  CounterDifference(q.name, M, j - a, base)
             = StepValue(q, s, j, b, s[j].v - base + SumFunctionOnSet(Changes(q, s), (j + 1)..b))
  <1> DEFINE n == b - j
             f == j - a
             C == Changes(q, s)
             v == s[j].v - base + SumFunctionOnSet(C, (j + 1)..b)
  <1>0. /\ CallOk(q) /\ s \in Seq(Point) /\ Strict(s) /\ \A i \in DOMAIN s : s[i].v \in Int
        /\ a \in Nat /\ b \in Nat /\ Len(s) \in Nat /\ DOMAIN s = 1..Len(s) /\ a <= b /\ b <= Len(s)
    BY DEF StretchFrom, StepAt
  <1>01. M = SubSeq(s, a + 1, b) /\ j \in (a + 1)..b /\ base \in Int /\ ResetOf(base, s[j].v) = 0
    BY DEF StretchFrom
  <1>02. a \in Nat /\ b \in Nat /\ Len(s) \in Nat /\ a <= b /\ b <= Len(s) /\ j \in Int /\ a + 1 <= j /\ j <= b
    BY <1>0, <1>01
  <1>1. /\ n \in Nat /\ j \in Int /\ j + n = b /\ f \in 1..(b - a) /\ n = (b - a) - f /\ a + f = j
        /\ j \in 1..Len(s) /\ b \in 1..Len(s) /\ (f = b - a <=> j = b)
    BY ONLY <1>02
  <1>2. /\ M \in Seq(Point) /\ Len(M) = b - a /\ DOMAIN M = 1..(b - a)
        /\ \A i \in 1..(b - a) : M[i] = s[a + i]
    <2>1. a \in 0..Len(s) /\ b \in a..Len(s)
      BY <1>0
    <2> QED
      BY <1>0, <1>01, <2>1, Stretch
  <1>3. \A i \in DOMAIN M : M[i].v \in Int
    <2> SUFFICES ASSUME NEW i \in 1..(b - a) PROVE M[i].v \in Int
      BY <1>2
    <2>1. a + i \in DOMAIN s
      BY <1>0
    <2> QED
      BY <1>0, <1>2, <2>1
  <1>4. M[f] = s[j] /\ M[Len(M)] = s[b]
    <2>1. b - a \in 1..(b - a) /\ a + (b - a) = b
      BY <1>0, <1>1
    <2> HIDE DEF f
    <2> QED
      BY <1>1, <1>2, <2>1
  <1>5. \A i \in 1..n : C[j + i] = Difference(Counting(q), M[f + i - 1].v, M[f + i].v)
    <2> SUFFICES ASSUME NEW i \in 1..n
                 PROVE  C[j + i] = Difference(Counting(q), M[f + i - 1].v, M[f + i].v)
      OBVIOUS
    <2>1. /\ j + i \in 2..Len(s) /\ f + i - 1 \in 1..(b - a) /\ f + i \in 1..(b - a)
          /\ a + (f + i - 1) = (j + i) - 1 /\ a + (f + i) = j + i
      BY ONLY <1>02, i \in 1..n
    <2>2. M[f + i - 1] = s[(j + i) - 1] /\ M[f + i] = s[j + i]
      <3> HIDE DEF f
      <3> QED
        BY <1>2, <2>1
    <2> QED
      BY <2>1, <2>2 DEF Changes
  <1>6. Terms(C, (j + 1)..(j + n))
    <2>1. IsFiniteSet((j + 1)..(j + n))
      <3>1. j + 1 \in Int /\ j + n \in Int
        BY <1>1
      <3> QED
        BY <3>1, FS_Interval
    <2>2. \A i \in (j + 1)..(j + n) : C[i] \in Int
      <3> SUFFICES ASSUME NEW i \in (j + 1)..(j + n) PROVE i \in 2..Len(s)
        BY <1>0, ChangesTyped
      <3> QED
        BY ONLY <1>02, i \in (j + 1)..(j + n)
    <2> QED
      BY <2>1, <2>2 DEF Terms
  <1>7. CountsFrom(q, M, f, base, C, j, n)
    <2>1. Counting(q).name = IF q.name \in Rates THEN "increase" ELSE q.name
      BY <1>0, CountingName
    <2> HIDE DEF f, n, C
    <2> QED
      BY <1>01, <1>1, <1>2, <1>3, <1>4, <1>5, <1>6, <2>1 DEF CountsFrom
  <1>8. CounterDifference(q.name, M, f, base) = ValueFrom(q, M, f, v)
    <2> HIDE DEF f, n, C
    <2>1. CounterDifference(q.name, M, f, base)
            = ValueFrom(q, M, f, M[f].v - base + SumFunctionOnSet(C, (j + 1)..(j + n)))
      BY ONLY <1>7, CounterSum
    <2> QED
      BY <1>1, <1>4, <2>1
  <1> HIDE DEF v, f
  <1>9. ValueFrom(q, M, f, v) = StepValue(q, s, j, b, v)
    <2>1. CASE j = b
      BY <1>1, <1>2, <2>1 DEF ValueFrom, StepValue
    <2>2. CASE j # b
      <3>1. s[j].t \in Int /\ s[b].t \in Int
        BY <1>0, <1>1, PointAt
      <3>2. j < b
        BY <1>0, <1>1, <2>2
      <3>3. s[j].t < s[b].t
        BY <1>0, <1>1, <3>2 DEF Strict
      <3>4. ~(s[b].t - s[j].t <= 0)
        BY <3>1, <3>3
      <3>5. ~(f = Len(M))
        BY <1>1, <1>2, <2>2
      <3>6. M[Len(M)].t = s[b].t /\ M[f].t = s[j].t
        BY <1>4
      <3>7. ValueFrom(q, M, f, v)
              = IF q.name \notin Rates THEN Whole(v) ELSE Fraction(v * 1000, M[Len(M)].t - M[f].t)
        BY <3>4, <3>5, <3>6 DEF ValueFrom
      <3> QED
        BY <2>2, <3>6, <3>7 DEF StepValue
    <2> QED
      BY <2>1, <2>2
  <1> QED
    BY <1>8, <1>9 DEF v, f

(* The value of a step whose samples end at b, when the first of them is    *)
(* c + 1 and the difference begins at begin.                                *)
ValueIs(q, s, begin, b, c, value) ==
    /\ q.name \in Totals =>
         value = Whole((IF begin = c + 1 THEN s[c + 1].v - Baseline(s, c + 1, b) ELSE 0)
                         + SumFunctionOnSet(Changes(q, s), (begin + 1)..b))
    /\ q.name = "rate" =>
         value = StepValue(q, s, begin, b, SumFunctionOnSet(Changes(q, s), (begin + 1)..b))
    /\ q.name \in LastTwo /\ begin < b => value = StepValue(q, s, b - 1, b, Changes(q, s)[b])
    /\ q.name \in LastTwo /\ begin = b => value = StepValue(q, s, b, b, s[b].v)

(* The engine at a step of a regular series.                                *)
LEMMA EngineValue ==
    ASSUME NEW q, NEW s, NEW e, NEW a, NEW b, NEW c, StepAt(q, s, e, a, b, c), c < b,
           NEW g \in Int, Evenly(s, g), NEW M, M = SubSeq(s, a + 1, b),
           NEW begin, begin = BeginOf(q, s, c, e),
           NEW value, value = MatrixValue(q, M, (c - a) + 1, e - q.window)
    PROVE  ValueIs(q, s, begin, b, c, value)
  <1> DEFINE x == e - q.window
             f == (c - a) + 1
             hp == EnginePrev(q, M, f, x)
             C == Changes(q, s)
             T == SumFunctionOnSet(C, (begin + 1)..b)
  <1>0. /\ CallOk(q) /\ s \in Seq(Point) /\ Strict(s) /\ \A i \in DOMAIN s : s[i].v \in Int
        /\ a \in Nat /\ b \in Nat /\ c \in Nat /\ Len(s) \in Nat /\ DOMAIN s = 1..Len(s)
        /\ a <= c /\ c < b /\ b <= Len(s)
    BY DEF StepAt
  <1>1. /\ M \in Seq(Point) /\ Len(M) = b - a
        /\ \A i \in 1..(b - a) : M[i] = s[a + i]
    <2>1. a \in 0..Len(s) /\ b \in a..Len(s)
      BY <1>0
    <2> QED
      BY <1>0, <2>1, Stretch
  <1>2. /\ hp <=> StatementPrev(q, s, c, e)
        /\ hp => c > a
    BY SamePrev
  <1>3. begin = IF hp THEN c ELSE c + 1
    BY <1>2 DEF BeginOf
  <1>4. value = CounterFrom(q.name, M, f, hp)
    <2>1. ~(f > Len(M))
      BY <1>0, <1>1
    <2> HIDE DEF f, x
    <2>2. MatrixValue(q, M, f, x) = CounterFrom(q.name, M, f, hp)
      BY <2>1, Zenon DEF MatrixValue, metricsQLCounterValue, EnginePrev
    <2> QED
      BY <2>2 DEF f, x
  <1> HIDE DEF hp
  <1>5. /\ begin \in (a + 1)..b /\ begin - a = (IF hp THEN f - 1 ELSE f) /\ begin \in c..(c + 1)
        /\ (hp <=> begin # c + 1) /\ f = (c + 1) - a
    BY <1>0, <1>2, <1>3
  <1> HIDE DEF f
  <1>6. T \in Int
    BY StepRows DEF C
  <1>7. \A j \in (a + 1)..b : /\ s[j].v \in Int /\ M[j - a] = s[j] /\ j - a \in 1..(b - a)
                              /\ (j - a = Len(M) <=> j = b)
    <2> SUFFICES ASSUME NEW j \in (a + 1)..b
                 PROVE  /\ s[j].v \in Int /\ M[j - a] = s[j] /\ j - a \in 1..(b - a)
                        /\ (j - a = Len(M) <=> j = b)
      OBVIOUS
    <2>1. j \in DOMAIN s /\ j - a \in 1..(b - a) /\ a + (j - a) = j /\ (j - a = b - a <=> j = b)
      BY <1>0
    <2> QED
      BY <1>0, <1>1, <2>1
  <1>8. ASSUME NEW j \in (a + 1)..b
        PROVE  CounterDifference(q.name, M, j - a, M[j - a].v)
                 = StepValue(q, s, j, b, SumFunctionOnSet(C, (j + 1)..b))
    <2>0. s[j].v \in Int /\ M[j - a] = s[j]
      BY <1>7
    <2>1. s[j].v \in Int /\ ResetOf(s[j].v, s[j].v) = 0 /\ M[j - a].v = s[j].v
      <3> DEFINE v == s[j].v
      <3>1. v \in Int /\ M[j - a].v = v
        BY <2>0
      <3> HIDE DEF v
      <3>2. ResetOf(v, v) = 0
        BY <3>1 DEF ResetOf
      <3> QED
        BY <3>1, <3>2 DEF v
    <2>2. CounterDifference(q.name, M, j - a, s[j].v)
            = StepValue(q, s, j, b, s[j].v - s[j].v + SumFunctionOnSet(C, (j + 1)..b))
      <3>1. StretchFrom(q, s, e, a, b, c, M, j, s[j].v)
        BY <2>1 DEF StretchFrom
      <3> QED
        BY <3>1, StretchSum
    <2>3. SumFunctionOnSet(C, (j + 1)..b) \in Int
      <3>1. Terms(C, (j + 1)..b)
        <4>1. IsFiniteSet((j + 1)..b)
          <5>1. j + 1 \in Int /\ b \in Int
            BY <1>0
          <5> QED
            BY <5>1, FS_Interval
        <4>2. \A i \in (j + 1)..b : C[i] \in Int
          <5> SUFFICES ASSUME NEW i \in (j + 1)..b PROVE i \in 2..Len(s)
            BY <1>0, ChangesTyped
          <5> QED
            BY <1>0
        <4> QED
          BY <4>1, <4>2 DEF Terms
      <3> QED
        BY <3>1, SumInteger
    <2>4. s[j].v - s[j].v + SumFunctionOnSet(C, (j + 1)..b) = SumFunctionOnSet(C, (j + 1)..b)
      <3> DEFINE S == SumFunctionOnSet(C, (j + 1)..b)
                 v == s[j].v
      <3>1. S \in Int /\ v \in Int
        BY <2>1, <2>3
      <3> HIDE DEF S, v
      <3>2. v - v + S = S
        BY <3>1
      <3> QED
        BY <3>2 DEF S, v
    <2> QED
      BY <2>1, <2>2, <2>4
  <1>9. ASSUME q.name \in Totals
        PROVE value = Whole((IF begin = c + 1 THEN s[c + 1].v - Baseline(s, c + 1, b) ELSE 0) + T)
    <2>1. q.name \notin LastTwo /\ q.name \notin Rates
      BY <1>9 DEF Totals, LastTwo, Rates
    <2>2. CASE hp
      <3>1. value = CounterDifference(q.name, M, f - 1, M[f - 1].v)
        BY <1>4, <2>1, <2>2, Zenon DEF CounterFrom
      <3>2. f - 1 = begin - a
        BY <1>5, <2>2
      <3>3. value = StepValue(q, s, begin, b, T)
        BY <1>5, <1>8, <3>1, <3>2
      <3>4. value = Whole(T)
        BY <2>1, <3>3 DEF StepValue
      <3>5. begin # c + 1
        BY <1>5, <2>2
      <3> HIDE DEF T
      <3>6. 0 + T = T
        BY <1>6
      <3> QED
        BY <3>4, <3>5, <3>6
    <2>3. CASE ~hp
      <3> DEFINE base == FirstBaseline(M[f].v, IF f < Len(M) THEN M[f + 1].v - M[f].v ELSE 0)
      <3>1. value = CounterDifference(q.name, M, f, base)
        BY <1>4, <2>1, <2>3, Zenon DEF CounterFrom
      <3>2. begin = c + 1 /\ f = begin - a /\ begin \in (a + 1)..b
        BY <1>5, <2>3
      <3>3. base = Baseline(s, c + 1, b)
        <4>1. M[f] = s[c + 1] /\ (f < Len(M) <=> c + 1 < b)
          <5>1. M[f] = s[c + 1]
            BY <1>7, <3>2
          <5>2. f < b - a <=> c + 1 < b
            BY <1>0, <3>2
          <5> QED
            BY <1>1, <5>1, <5>2
        <4>2. c + 1 < b => M[f + 1] = s[(c + 1) + 1]
          <5> SUFFICES ASSUME c + 1 < b PROVE M[f + 1] = s[(c + 1) + 1]
            OBVIOUS
          <5>1. (c + 1) + 1 \in (a + 1)..b /\ ((c + 1) + 1) - a = f + 1
            BY <1>0, <3>2
          <5> DEFINE j == (c + 1) + 1
          <5>2. j \in (a + 1)..b /\ j - a = f + 1
            BY <5>1
          <5> HIDE DEF j
          <5>3. M[f + 1] = s[j]
            BY <1>7, <5>2
          <5> QED
            BY <5>3 DEF j
        <4> QED
          BY <4>1, <4>2 DEF Baseline
      <3> DEFINE n == IF f < Len(M) THEN M[f + 1].v - M[f].v ELSE 0
                 v == s[c + 1].v
      <3>4. v \in Int /\ M[f].v = v
        BY <1>7, <3>2
      <3>5. base \in Int /\ ResetOf(base, v) = 0
        <4>1. base = 0 \/ base = v
          BY <3>4 DEF FirstBaseline
        <4> HIDE DEF base, v
        <4> QED
          BY <3>4, <4>1 DEF ResetOf
      <3> HIDE DEF base
      <3>6. CounterDifference(q.name, M, begin - a, base) = StepValue(q, s, begin, b, s[begin].v - base + T)
        <4>1. ResetOf(base, s[begin].v) = 0 /\ begin \in (a + 1)..b /\ base \in Int
          BY <3>2, <3>5
        <4>2. StretchFrom(q, s, e, a, b, c, M, begin, base)
          BY <4>1 DEF StretchFrom
        <4> QED
          BY <4>2, StretchSum
      <3>7. value = Whole(s[begin].v - base + T)
        BY <2>1, <3>1, <3>2, <3>6 DEF StepValue
      <3> QED
        BY <3>2, <3>3, <3>7
    <2> QED
      BY <2>2, <2>3
  <1>10. ASSUME q.name = "rate" PROVE value = StepValue(q, s, begin, b, T)
    <2>1. q.name \notin LastTwo /\ q.name \in Rates
      BY <1>10 DEF LastTwo, Rates
    <2>2. value = CounterDifference(q.name, M, begin - a, M[begin - a].v)
      <3>1. CASE hp
        <4>1. value = CounterDifference(q.name, M, f - 1, M[f - 1].v)
          BY <1>4, <2>1, <3>1, Zenon DEF CounterFrom
        <4> QED
          BY <1>5, <3>1, <4>1
      <3>2. CASE ~hp
        <4>1. value = CounterDifference(q.name, M, f, M[f].v)
          BY <1>4, <2>1, <3>2, Zenon DEF CounterFrom
        <4> QED
          BY <1>5, <3>2, <4>1
      <3> QED
        BY <3>1, <3>2
    <2> QED
      BY <1>5, <1>8, <2>2
  <1>11. ASSUME q.name \in LastTwo, NEW j, j = (IF begin < b THEN b - 1 ELSE b)
         PROVE  /\ j \in (a + 1)..b /\ (j = b <=> begin = b)
                /\ value = CounterDifference(q.name, M, j - a,
                             IF q.name = "idelta" /\ j = b THEN 0 ELSE M[j - a].v)
    <2>1. j \in (a + 1)..b /\ (j = b <=> begin = b) /\ j - a = Larger(begin - a, (b - a) - 1)
      BY <1>0, <1>5, <1>11 DEF Larger
    <2>2. value = LastTwoValue(q.name, M, Larger(IF hp THEN f - 1 ELSE f, Len(M) - 1))
      BY <1>4, <1>11, Zenon DEF CounterFrom
    <2>3. value = LastTwoValue(q.name, M, j - a)
      BY <1>1, <1>5, <2>1, <2>2
    <2>4. value = CounterDifference(q.name, M, j - a,
                    IF q.name = "idelta" /\ j - a = Len(M) THEN 0 ELSE M[j - a].v)
      BY <2>3, Zenon DEF LastTwoValue
    <2> QED
      BY <1>7, <2>1, <2>4
  <1>12. ASSUME q.name \in LastTwo, begin < b PROVE value = StepValue(q, s, b - 1, b, C[b])
    <2> DEFINE j == IF begin < b THEN b - 1 ELSE b
    <2>1. /\ j \in (a + 1)..b /\ (j = b <=> begin = b)
          /\ value = CounterDifference(q.name, M, j - a,
                       IF q.name = "idelta" /\ j = b THEN 0 ELSE M[j - a].v)
      BY <1>11, <1>12
    <2>2. j = b - 1 /\ j # b /\ j + 1 = b
      BY <1>0, <1>12
    <2> HIDE DEF j
    <2>3. value = StepValue(q, s, j, b, SumFunctionOnSet(C, (j + 1)..b))
      BY <1>8, <2>1, <2>2
    <2>4. SumFunctionOnSet(C, (j + 1)..b) = C[b]
      <3>1. b \in 2..Len(s)
        BY <1>0, <2>1, <2>2
      <3>2. C[b] \in Int
        BY <1>0, <3>1, ChangesTyped
      <3>3. (j + 1)..b = {b}
        BY <1>0, <2>2
      <3> HIDE DEF C
      <3>4. Terms(C, {b}) /\ b \in {b} /\ {b} \ {b} = {}
        BY <3>2, FS_Singleton DEF Terms
      <3>5. SumFunctionOnSet(C, {b}) = C[b] + SumFunctionOnSet(C, {b} \ {b})
        <4> DEFINE B == {b}
        <4>1. Terms(C, B) /\ b \in B
          BY <3>4
        <4> HIDE DEF B
        <4>2. SumFunctionOnSet(C, B) = C[b] + SumFunctionOnSet(C, B \ {b})
          BY <4>1, SumRemove
        <4> QED
          BY <4>2 DEF B
      <3>6. SumFunctionOnSet(C, {}) = 0
        BY EmptySum
      <3>7. SumFunctionOnSet(C, {b}) = C[b] + 0
        BY <3>4, <3>5, <3>6, Zenon
      <3>8. C[b] + 0 = C[b]
        BY <3>2
      <3> QED
        BY <3>3, <3>7, <3>8, Zenon
    <2> QED
      BY <2>2, <2>3, <2>4
  <1>13. ASSUME q.name \in LastTwo, begin = b PROVE value = StepValue(q, s, b, b, s[b].v)
    <2> DEFINE j == IF begin < b THEN b - 1 ELSE b
    <2>1. /\ j \in (a + 1)..b /\ (j = b <=> begin = b)
          /\ value = CounterDifference(q.name, M, j - a,
                       IF q.name = "idelta" /\ j = b THEN 0 ELSE M[j - a].v)
      BY <1>11, <1>13
    <2>2. j = b
      BY <1>0, <1>13
    <2> HIDE DEF j
    <2>3. s[b].v \in Int /\ SumFunctionOnSet(C, (b + 1)..b) = 0
      <3>1. (b + 1)..b = {}
        BY <1>0
      <3> QED
        BY <1>7, <2>1, <2>2, <3>1, EmptySum
    <2>4. CASE q.name = "idelta"
      <3>1. value = CounterDifference(q.name, M, b - a, 0)
        BY <2>1, <2>2, <2>4
      <3>2. ResetOf(0, s[b].v) = 0
        BY <2>3 DEF ResetOf
      <3>3. CounterDifference(q.name, M, b - a, 0)
              = StepValue(q, s, b, b, s[b].v - 0 + SumFunctionOnSet(C, (b + 1)..b))
        <4> DEFINE zero == 0
        <4>1. zero \in Int /\ ResetOf(zero, s[b].v) = 0 /\ b \in (a + 1)..b
          BY <2>1, <2>2, <3>2
        <4> HIDE DEF zero
        <4>2. StretchFrom(q, s, e, a, b, c, M, b, zero)
          BY <4>1 DEF StretchFrom
        <4>3. CounterDifference(q.name, M, b - a, zero)
                = StepValue(q, s, b, b, s[b].v - zero + SumFunctionOnSet(C, (b + 1)..b))
          BY <4>2, StretchSum
        <4> QED
          BY <4>3 DEF zero
      <3>4. s[b].v - 0 + 0 = s[b].v
        BY <2>3
      <3> QED
        BY <2>3, <3>1, <3>3, <3>4
    <2>5. CASE q.name # "idelta"
      <3>1. q.name \in Rates
        BY <1>13, <2>5 DEF LastTwo, Rates
      <3>2. value = StepValue(q, s, b, b, SumFunctionOnSet(C, (b + 1)..b))
        BY <1>8, <2>1, <2>2, <2>5
      <3> QED
        BY <3>1, <3>2 DEF StepValue
    <2> QED
      BY <2>4, <2>5
  <1> QED
    BY <1>9, <1>10, <1>12, <1>13 DEF T, C, ValueIs

(* The statement at a step of a regular series.                             *)
LEMMA StatementValue ==
    ASSUME NEW q, NEW s, NEW e, NEW a, NEW b, NEW c, StepAt(q, s, e, a, b, c), c < b,
           NEW begin, begin = BeginOf(q, s, c, e),
           NEW value, value = RangeSteps(q, s, e, q.window, Estimate(q, s, Len(s)), (c + 1)..b)
    PROVE  ValueIs(q, s, begin, b, c, value)
  <1> DEFINE m == Estimate(q, s, Len(s))
             rows == RowsOf(q, s, e, c, b)
             last == RangeRow(q, s, e, q.window, m, b)
             T == SumFunctionOnSet(Changes(q, s), (begin + 1)..b)
             z == s[c + 1].v - Baseline(s, c + 1, b)
             sum == SumOf(rows)
             gaps == GapsOf(rows)
             two == TwoOf(rows)
  <1>0. /\ s \in Seq(Point) /\ Strict(s) /\ q.name # "default_rollup"
        /\ b \in Nat /\ c \in Nat /\ Len(s) \in Nat /\ DOMAIN s = 1..Len(s)
        /\ c < b /\ b <= Len(s)
    BY DEF StepAt, CounterFunctions, Totals, Rates, LastTwo
  <1>1. /\ begin \in 1..b /\ begin \in c..(c + 1) /\ T \in Int
        /\ sum = (IF begin = c + 1 /\ q.name \in Totals THEN z ELSE 0) + T
        /\ gaps = s[b].t - s[begin].t
        /\ two <=> begin < b
    BY StepRows
  <1>2. /\ last.v = s[b].v
        /\ b > 1 => last.diff = Changes(q, s)[b] /\ last.gap = Gaps(s)[b]
    <2>1. b \in (c + 1)..b
      BY <1>0
    <2> QED
      BY <2>1, RowIs
  <1>3. value = RangeValue(q, rows, last)
    <2>1. (c + 1)..b # {} /\ Max((c + 1)..b) = b
      <3>1. b \in (c + 1)..b /\ \A y \in (c + 1)..b : y \in Int /\ b >= y
        BY <1>0
      <3>2. \A y \in (c + 1)..b : (\A w \in (c + 1)..b : y >= w) => y = b
        BY <1>0
      <3>3. Max((c + 1)..b) = CHOOSE y \in (c + 1)..b : \A w \in (c + 1)..b : y >= w
        BY DEF Max
      <3> QED
        BY <3>1, <3>2, <3>3
    <2>2. RangeSteps(q, s, e, q.window, m, (c + 1)..b)
            = RangeValue(q, {RangeRow(q, s, e, q.window, m, i) : i \in (c + 1)..b},
                         RangeRow(q, s, e, q.window, m, Max((c + 1)..b)))
      <3> HIDE DEF m
      <3> QED
        BY <1>0, <2>1, Zenon DEF RangeSteps
    <2> QED
      BY <2>1, <2>2 DEF RowsOf
  <1> HIDE DEF rows, last, m
  <1>4. /\ q.name \in Totals => value = Whole(sum)
        /\ q.name = "rate" => value = IF two /\ gaps > 0 THEN Fraction(sum * 1000, gaps) ELSE NaN
        /\ q.name = "irate" =>
             value = IF two /\ last.gap > 0 THEN Fraction(last.diff * 1000, last.gap) ELSE NaN
        /\ q.name = "idelta" => value = Whole(IF two THEN last.diff ELSE last.v)
    <2>1. /\ sum = SumFunction([r \in rows |-> IF r.isFirst /\ ~r.hasPrev THEN r.initial ELSE r.diff])
          /\ gaps = SumFunction([r \in rows |-> IF r.isFirst /\ ~r.hasPrev THEN 0 ELSE r.gap])
          /\ two <=> Cardinality(rows) >= 2 \/ \E r \in rows : r.isFirst /\ r.hasPrev
      BY DEF SumOf, GapsOf, TwoOf, Started
    <2> DEFINE total == SumFunction([r \in rows |-> IF r.isFirst /\ ~r.hasPrev THEN r.initial ELSE r.diff])
               time == SumFunction([r \in rows |-> IF r.isFirst /\ ~r.hasPrev THEN 0 ELSE r.gap])
               both == Cardinality(rows) >= 2 \/ \E r \in rows : r.isFirst /\ r.hasPrev
    <2>2. value = CASE q.name \in Totals -> Whole(total)
                    [] q.name = "rate" -> (IF both /\ time > 0 THEN Fraction(total * 1000, time) ELSE NaN)
                    [] q.name = "irate" ->
                         (IF both /\ last.gap > 0 THEN Fraction(last.diff * 1000, last.gap) ELSE NaN)
                    [] q.name = "idelta" -> Whole(IF both THEN last.diff ELSE last.v)
      BY <1>3 DEF RangeValue
    <2>3. total = sum /\ time = gaps /\ (both <=> two)
      BY <2>1
    <2> HIDE DEF total, time, both, sum, gaps, two
    <2>4. /\ q.name \in Totals => q.name # "rate" /\ q.name # "irate" /\ q.name # "idelta"
          /\ "rate" # "irate" /\ "rate" # "idelta" /\ "irate" # "idelta"
      BY DEF Totals
    <2>5. q.name \in Totals => value = Whole(total)
      BY <2>2, <2>4
    <2>6. q.name = "rate" => value = IF both /\ time > 0 THEN Fraction(total * 1000, time) ELSE NaN
      BY <2>2, <2>4
    <2>7. q.name = "irate" =>
            value = IF both /\ last.gap > 0 THEN Fraction(last.diff * 1000, last.gap) ELSE NaN
      BY <2>2, <2>4
    <2>8. q.name = "idelta" => value = Whole(IF both THEN last.diff ELSE last.v)
      BY <2>2, <2>4
    <2>9. q.name \in Totals => value = Whole(sum)
      BY <2>3, <2>5
    <2>10. ASSUME q.name = "rate"
           PROVE  value = IF two /\ gaps > 0 THEN Fraction(sum * 1000, gaps) ELSE NaN
      <3>1. CASE two /\ gaps > 0
        <4>1. value = Fraction(total * 1000, time)
          BY <2>3, <2>6, <2>10, <3>1
        <4>2. value = Fraction(sum * 1000, gaps)
          BY <2>3, <4>1
        <4> QED
          BY <3>1, <4>2
      <3>2. CASE ~(two /\ gaps > 0)
        BY <2>3, <2>6, <2>10, <3>2
      <3> QED
        BY <3>1, <3>2
    <2>11. ASSUME q.name = "irate"
           PROVE  value = IF two /\ last.gap > 0 THEN Fraction(last.diff * 1000, last.gap) ELSE NaN
      <3>1. CASE two
        BY <2>3, <2>7, <2>11, <3>1
      <3>2. CASE ~two
        BY <2>3, <2>7, <2>11, <3>2
      <3> QED
        BY <3>1, <3>2
    <2>12. ASSUME q.name = "idelta" PROVE value = Whole(IF two THEN last.diff ELSE last.v)
      <3>1. CASE two
        BY <2>3, <2>8, <2>12, <3>1
      <3>2. CASE ~two
        BY <2>3, <2>8, <2>12, <3>2
      <3> QED
        BY <3>1, <3>2
    <2> QED
      BY <2>9, <2>10, <2>11, <2>12
  <1> HIDE DEF sum, gaps, two, z, T
  <1>5. \A j \in 1..Len(s) : s[j].t \in Int
    BY <1>0, PointAt
  <1>6. begin < b => s[b].t - s[begin].t > 0
    <2> SUFFICES ASSUME begin < b PROVE s[b].t - s[begin].t > 0
      OBVIOUS
    <2>1. begin \in 1..Len(s) /\ b \in 1..Len(s)
      BY <1>0, <1>1
    <2>2. s[begin].t < s[b].t
      BY <1>0, <2>1 DEF Strict
    <2> QED
      BY <1>5, <2>1, <2>2
  <1>7. begin < b => /\ b > 1 /\ last.diff = Changes(q, s)[b]
                     /\ last.gap = s[b].t - s[b - 1].t /\ last.gap > 0 /\ b - 1 # b
    <2> SUFFICES ASSUME begin < b
                 PROVE  /\ b > 1 /\ last.diff = Changes(q, s)[b]
                        /\ last.gap = s[b].t - s[b - 1].t /\ last.gap > 0 /\ b - 1 # b
      OBVIOUS
    <2>1. b > 1 /\ b \in 2..Len(s) /\ b - 1 \in 1..Len(s) /\ b \in 1..Len(s) /\ b - 1 # b /\ b - 1 < b
      BY <1>0, <1>1
    <2>2. last.gap = s[b].t - s[b - 1].t
      BY <1>2, <2>1 DEF Gaps, GapAt
    <2>3. s[b - 1].t < s[b].t
      BY <1>0, <2>1 DEF Strict
    <2> QED
      BY <1>2, <1>5, <2>1, <2>2, <2>3
  <1>8. ASSUME q.name \in Totals PROVE value = Whole((IF begin = c + 1 THEN z ELSE 0) + T)
    BY <1>1, <1>4, <1>8
  <1>9. ASSUME q.name = "rate" PROVE value = StepValue(q, s, begin, b, T)
    <2>1. q.name \notin Totals /\ q.name \in Rates
      BY <1>9 DEF Totals, Rates
    <2>2. sum = T
      BY <1>1, <2>1
    <2>3. value = IF two /\ gaps > 0 THEN Fraction(sum * 1000, gaps) ELSE NaN
      BY <1>4, <1>9
    <2>4. CASE begin < b
      <3>1. value = Fraction(T * 1000, s[b].t - s[begin].t)
        BY <1>1, <1>6, <2>2, <2>3, <2>4
      <3>2. begin # b
        BY <1>0, <1>1, <2>4
      <3> QED
        BY <2>1, <3>1, <3>2 DEF StepValue
    <2>5. CASE ~(begin < b)
      <3>1. begin = b
        BY <1>0, <1>1, <2>5
      <3> QED
        BY <1>1, <2>1, <2>3, <2>5, <3>1 DEF StepValue
    <2> QED
      BY <2>4, <2>5
  <1>10. q.name \in LastTwo => q.name = "irate" \/ q.name = "idelta"
    BY DEF LastTwo
  <1>11. "irate" \in Rates /\ "idelta" \notin Rates
    BY DEF Rates
  <1>12. ASSUME q.name \in LastTwo, begin < b PROVE value = StepValue(q, s, b - 1, b, Changes(q, s)[b])
    <2>1. CASE q.name = "irate"
      BY <1>1, <1>4, <1>7, <1>11, <1>12, <2>1 DEF StepValue
    <2>2. CASE q.name = "idelta"
      BY <1>1, <1>4, <1>7, <1>11, <1>12, <2>2 DEF StepValue
    <2> QED
      BY <1>10, <1>12, <2>1, <2>2
  <1>13. ASSUME q.name \in LastTwo, begin = b PROVE value = StepValue(q, s, b, b, s[b].v)
    <2>0. ~two
      BY <1>0, <1>1, <1>13
    <2>1. CASE q.name = "irate"
      BY <1>4, <1>11, <2>0, <2>1 DEF StepValue
    <2>2. CASE q.name = "idelta"
      BY <1>2, <1>4, <1>11, <2>0, <2>2 DEF StepValue
    <2> QED
      BY <1>10, <1>13, <2>1, <2>2
  <1> QED
    BY <1>8, <1>9, <1>12, <1>13 DEF T, z, ValueIs

(* Reading part of a regular series leaves it regular.                      *)
LEMMA ReadEvenly ==
    ASSUME NEW q, CallOk(q), q.name # "default_rollup", NEW s \in Seq(Point), Strict(s),
           Regular(NonStale(s)), NEW start \in Int, NEW count \in Nat \ {0}
    PROVE  \E g \in Int : Evenly(ReadSamples(q, s, start, count), g)
  <1> DEFINE u == NonStale(s)
             lo == start - q.offset - SelectorRange(q) - 1
             hi == start + (count - 1) * q.step - q.offset
             S == ReadSamples(q, s, start, count)
             I == {i \in DOMAIN u : lo < u[i].t /\ u[i].t <= hi}
             a == CountUntil(u, lo)
             b == CountUntil(u, hi)
             g == IF Len(u) < 2 THEN 1 ELSE u[2].t - u[1].t
  <1>1. u \in Seq(Point) /\ Strict(u) /\ Range(u) = {p \in Range(s) : p.v # Stale}
    BY NonStalePoints
  <1>2. lo \in Int /\ hi \in Int /\ lo <= hi
    <2> DEFINE o == q.offset
               w == SelectorRange(q)
               z == (count - 1) * q.step
    <2>1. o \in Int /\ w \in Nat /\ q.step \in Nat /\ count - 1 \in Nat
      <3>1. o \in Int /\ q.step \in Nat
        BY DEF CallOk
      <3>2. w \in Nat
        BY CallRange
      <3>3. count - 1 \in Nat
        OBVIOUS
      <3> QED
        BY <3>1, <3>2, <3>3
    <2> DEFINE y == count - 1
               x == q.step
    <2>2. z = y * x /\ y \in Nat /\ x \in Nat
      BY <2>1
    <2> HIDE DEF y, x, z
    <2>3. z \in Nat
      BY ONLY <2>2
    <2>4. lo = start - o - w - 1 /\ hi = start + z - o
      BY DEF z
    <2> HIDE DEF lo, hi, o, w
    <2> QED
      BY <2>1, <2>3, <2>4
  <1> HIDE DEF lo, hi
  <1>3. S = Between(u, lo, hi)
    <2> DEFINE B == Between(s, lo, hi)
    <2>1. S = NonStale(B)
      BY DEF ReadSamples, lo, hi
    <2>2. B \in Seq(Point) /\ Strict(B) /\ Range(B) = {p \in Range(s) : lo < p.t /\ p.t <= hi}
      BY <1>2, BetweenPoints
    <2> HIDE DEF B
    <2>3. NonStale(B) \in Seq(Point) /\ Strict(NonStale(B)) /\ Range(NonStale(B)) = {p \in Range(B) : p.v # Stale}
      BY <2>2, NonStalePoints
    <2> HIDE DEF u
    <2>4. /\ Between(u, lo, hi) \in Seq(Point) /\ Strict(Between(u, lo, hi))
          /\ Range(Between(u, lo, hi)) = {p \in Range(u) : lo < p.t /\ p.t <= hi}
      BY <1>1, <1>2, BetweenPoints
    <2>5. Range(NonStale(B)) = Range(Between(u, lo, hi))
      BY <1>1, <2>2, <2>3, <2>4
    <2> QED
      BY <2>1, <2>3, <2>4, <2>5, StrictUnique
  <1>4. /\ a \in 0..Len(u) /\ b \in 0..Len(u) /\ Len(u) \in Nat /\ DOMAIN u = 1..Len(u)
        /\ \A i \in 1..Len(u) : (i <= a <=> u[i].t <= lo) /\ (i <= b <=> u[i].t <= hi) /\ u[i].t \in Int
    <2> HIDE DEF u
    <2> QED
      BY <1>1, <1>2, CountUntilIs, PointAt
  <1>5. Regular(u)
    OBVIOUS
  <1> HIDE DEF u, a, b, S
  <1>6. a <= b
    <2>1. CASE a = 0
      BY <1>4, <2>1
    <2>2. CASE a # 0
      <3>1. a \in 1..Len(u)
        BY <1>4, <2>2
      <3>2. u[a].t <= lo /\ u[a].t \in Int
        BY <1>4, <3>1
      <3>3. u[a].t <= hi
        BY <1>2, <3>2
      <3> QED
        BY <1>4, <3>1, <3>3
    <2> QED
      BY <2>1, <2>2
  <1>7. S = SubSeq(u, a + 1, b)
    <2>1. Between(u, lo, hi) = Picked(u, I)
      BY DEF Between
    <2>2. I \in SUBSET DOMAIN u
      OBVIOUS
    <2>3. \A i \in DOMAIN u : i \in I <=> i \in (a + 1)..b
      <3> SUFFICES ASSUME NEW i \in 1..Len(u) PROVE (lo < u[i].t /\ u[i].t <= hi) <=> i \in (a + 1)..b
        BY <1>4
      <3>1. lo < u[i].t <=> ~(i <= a)
        BY <1>2, <1>4
      <3>2. u[i].t <= hi <=> i <= b
        BY <1>4
      <3> QED
        BY <1>4, <3>1, <3>2
    <2> HIDE DEF I
    <2>4. a \in 0..Len(u) /\ b \in a..Len(u)
      BY <1>4, <1>6
    <2> QED
      BY <1>1, <1>3, <2>1, <2>2, <2>3, <2>4, PickedStretch
  <1>8. g \in Int /\ Evenly(u, g)
    <2>1. g \in Int
      <3>1. ~(Len(u) < 2) => 1 \in 1..Len(u) /\ 2 \in 1..Len(u)
        BY <1>4
      <3> QED
        BY <1>4, <3>1
    <2>2. ASSUME NEW i \in 2..Len(u) PROVE GapAt(u, i) = g
      <3>1. ~(Len(u) < 2) /\ g = u[2].t - u[1].t
        BY <1>4
      <3>2. CASE i = 2
        BY <3>1, <3>2 DEF GapAt
      <3>3. CASE i # 2
        <4>1. i \in 3..Len(u)
          BY <1>4, <3>3
        <4> QED
          BY <1>5, <3>1, <4>1 DEF GapAt, Regular
      <3> QED
        BY <3>2, <3>3
    <2> QED
      BY <2>1, <2>2 DEF Evenly
  <1> HIDE DEF g
  <1>9. Evenly(S, g)
    <2>1. a \in 0..Len(u) /\ b \in a..Len(u)
      BY <1>4, <1>6
    <2> QED
      BY <1>1, <1>7, <1>8, <2>1, EvenStretch
  <1> QED
    BY <1>8, <1>9 DEF S

(* The statement is the engine, on one regular series.                      *)
LEMMA RangeIsEngine ==
    ASSUME NEW q, CallOk(q), q.name \in CounterFunctions, q.window # 0,
           NEW s \in Seq(Point), Strict(s), Regular(NonStale(s)),
           NEW start \in Int, NEW count \in Nat, NEW k \in 0..(count - 1)
    PROVE  RangeRollup(q, s, start, count, k) = RollupAt(q, s, start + k * q.step)
  <1> DEFINE S == ReadSamples(q, s, start, count)
             e == start + k * q.step - q.offset
             a == CountUntil(S, e - SelectorRange(q))
             b == CountUntil(S, e)
             c == CountUntil(S, e - q.window)
             M == SubSeq(S, a + 1, b)
             m == Estimate(q, S, Len(S))
             used == {i \in DOMAIN S : k \in StepsOf(S[i].t, q, q.window, start, count)}
             f == (c - a) + 1
             engine == MatrixValue(q, M, f, e - q.window)
             statement == RangeSteps(q, S, e, q.window, m, (c + 1)..b)
  <1>1. q.name # "default_rollup"
    BY DEF CounterFunctions, Totals, Rates, LastTwo
  <1>2. /\ StepAt(q, S, e, a, b, c) /\ used = (c + 1)..b
        /\ RollupAt(q, s, start + k * q.step) = engine
    BY StepParts
  <1>3. RangeRollup(q, s, start, count, k) = statement
    <2>1. RangeRollup(q, s, start, count, k) = RangePrepared(q, S, start, count, k, m)
      BY DEF RangeRollup, RangePoints, Estimate
    <2>2. WindowMs(q, m) = q.window
      BY DEF WindowMs
    <2> HIDE DEF S, m
    <2>3. RangePrepared(q, S, start, count, k, m) = RangeWith(q, S, start, count, k, q.window, m)
      BY <2>2 DEF RangePrepared
    <2>4. \A i : Span(q, S, q.window, i) = q.window
      BY <1>1 DEF Span
    <2> DEFINE spans == {i \in DOMAIN S :
                            k \in StepsOf(S[i].t, q, Span(q, S, q.window, i), start, count)}
    <2>5. RangeWith(q, S, start, count, k, q.window, m) = RangeSteps(q, S, e, q.window, m, used)
      <3>1. spans = used
        <4>1. ASSUME NEW i
              PROVE  StepsOf(S[i].t, q, Span(q, S, q.window, i), start, count)
                       = StepsOf(S[i].t, q, q.window, start, count)
          <5>1. Span(q, S, q.window, i) = q.window
            BY <2>4
          <5> QED
            BY <5>1
        <4> QED
          BY <4>1
      <3>2. RangeWith(q, S, start, count, k, q.window, m)
              = RangeSteps(q, S, start + k * q.step - q.offset, q.window, m, spans)
        BY Zenon DEF RangeWith
      <3> HIDE DEF spans, used
      <3> QED
        BY <3>1, <3>2, Zenon
    <2> QED
      BY <1>2, <2>1, <2>3, <2>5
  <1>4. PICK g \in Int : Evenly(S, g)
    <2>1. count \in Nat \ {0}
      OBVIOUS
    <2> QED
      BY <1>1, <2>1, ReadEvenly
  <1> HIDE DEF S, e, a, b, c, M, m, used
  <1>5. b \in Nat /\ c \in Nat /\ a \in Nat /\ a <= c /\ c <= b /\ b <= Len(S) /\ S \in Seq(Point) /\ Strict(S)
    BY <1>2 DEF StepAt
  <1>6. CASE c = b
    <2>1. statement = NaN
      <3>1. (c + 1)..b = {}
        BY <1>5, <1>6
      <3> QED
        BY <3>1 DEF RangeSteps
    <2>2. engine = NaN
      <3>1. Len(M) = b - a
        <4>1. a \in 0..Len(S) /\ b \in a..Len(S)
          BY <1>5, LenProperties
        <4> QED
          BY <1>5, <4>1, Stretch DEF M
      <3>2. f > Len(M)
        BY <1>5, <1>6, <3>1
      <3> HIDE DEF f
      <3> QED
        BY <3>2, Zenon DEF MatrixValue, metricsQLCounterValue
    <2> QED
      BY <1>2, <1>3, <2>1, <2>2
  <1>7. CASE c # b
    <2> DEFINE begin == BeginOf(q, S, c, e)
    <2>0. c < b
      BY <1>5, <1>7
    <2>1. begin \in 1..b
      BY <1>2, <2>0, StepRows
    <2>2. begin < b \/ begin = b
      BY <1>5, <2>1
    <2>3. q.name \in Totals \/ q.name = "rate" \/ q.name \in LastTwo
      BY DEF CounterFunctions, Totals, Rates, LastTwo
    <2> HIDE DEF begin, engine, statement
    <2>4. ValueIs(q, S, begin, b, c, engine)
      <3>1. g \in Int /\ Evenly(S, g) /\ StepAt(q, S, e, a, b, c)
        BY <1>2, <1>4
      <3>2. begin = BeginOf(q, S, c, e) /\ M = SubSeq(S, a + 1, b)
            /\ engine = MatrixValue(q, M, (c - a) + 1, e - q.window)
        BY DEF M, begin, engine, f
      <3> HIDE DEF f
      <3> QED
        BY ONLY <2>0, <3>1, <3>2, EngineValue
    <2>5. ValueIs(q, S, begin, b, c, statement)
      BY <1>2, <2>0, StatementValue DEF m, begin, statement
    <2>6. engine = statement
      <3>1. CASE q.name \in Totals
        BY <2>4, <2>5, <3>1 DEF ValueIs
      <3>2. CASE q.name = "rate"
        BY <2>4, <2>5, <3>2 DEF ValueIs
      <3>3. CASE q.name \in LastTwo /\ begin < b
        BY <2>4, <2>5, <3>3 DEF ValueIs
      <3>4. CASE q.name \in LastTwo /\ begin = b
        BY <2>4, <2>5, <3>4 DEF ValueIs
      <3> QED
        BY <2>2, <2>3, <3>1, <3>2, <3>3, <3>4
    <2> QED
      BY <1>2, <1>3, <2>6
  <1> QED
    BY <1>6, <1>7

(* The PostHog SQL estimates one interval per series from all the samples a *)
(* request reads, and not from those of each step (fastpath_range.go:290).  *)
(* On a regular series that makes no difference to a counter function with  *)
(* a window: at every step it gives what metricsqlRollup gives, whatever    *)
(* the stored or built series, its resets, its stale markers, the window,   *)
(* step, lookback and offset: RangeExact holds of any store and request.    *)
THEOREM RangeSQLExact == Spec => []RangeExact
  <1>1. Inv /\ NothingBuilt => RangeExact
    <2> SUFFICES ASSUME Inv, NothingBuilt, FirstRead, NEW points \in PointSeries, NEW q \in Calls,
                        NEW k \in Grid, q.name \in CounterFunctions, q.window # 0,
                        OnePerTime(points), Regular(NonStale(points))
                 PROVE  RangeRollup(q, points, plan.start, plan.steps, k)
                          = RollupAt(q, points, GridTime(k))
      BY DEF RangeExact
    <2>1. plan \in Plans
      BY DEF Inv
    <2>2. points \in Seq(Point) /\ Timed(points)
      BY SeriesCompared
    <2>3. Strict(points)
      BY <2>2, OneTimeStrict
    <2>4. CallOk(q) /\ q.step = plan.step
      BY <2>1, CallsOk
    <2>5. plan.start \in Int /\ plan.steps \in Nat /\ k \in 0..(plan.steps - 1)
      BY <2>1, PlanNumbers DEF Grid
    <2>6. RangeRollup(q, points, plan.start, plan.steps, k)
            = RollupAt(q, points, plan.start + k * q.step)
      BY <2>2, <2>3, <2>4, <2>5, RangeIsEngine
    <2> QED
      BY <2>4, <2>6 DEF GridTime
  <1> QED
    BY <1>1, HistogramInv, NothingBuiltInv, PTL

-----------------------------------------------------------------------------
(* Greatest common divisors.                                                *)

GcdStep(g, p) == IF p[2] = 0 THEN p[1] ELSE g[<<p[2], p[1] % p[2]>>]

(* g is Gcd for the pairs whose second number is at most n.                 *)
GcdUpTo(g, n) == \A p \in Nat \X Nat : p[2] <= n => g[p] = GcdStep(g, p)

(* The next pair of Euclid's algorithm.                                     *)
NextPair(p) == <<p[2], p[1] % p[2]>>

LEMMA Remainder ==
    ASSUME NEW p \in Nat \X Nat, p[2] # 0
    PROVE  /\ NextPair(p) \in Nat \X Nat /\ NextPair(p)[1] = p[2] /\ NextPair(p)[2] < p[2]
           /\ \A g : GcdStep(g, p) = g[NextPair(p)]
  <1> DEFINE a == p[1]
             b == p[2]
  <1>1. a \in Nat /\ b \in Nat /\ b > 0
    OBVIOUS
  <1> HIDE DEF a, b
  <1>2. a % b \in Nat /\ a % b < b
    BY <1>1
  <1>3. NextPair(p) = <<b, a % b>>
    BY DEF NextPair, a, b
  <1>4. \A g : GcdStep(g, p) = g[NextPair(p)]
    BY DEF GcdStep, NextPair
  <1> QED
    BY <1>1, <1>2, <1>3, <1>4 DEF b

LEMMA LastStep ==
    ASSUME NEW g, NEW p \in Nat \X Nat, p[2] = 0
    PROVE  GcdStep(g, p) = p[1]
  BY DEF GcdStep

LEMMA GcdSolved ==
    ASSUME NEW n \in Nat
    PROVE  \E g : GcdUpTo(g, n)
  <1> DEFINE N == {k \in Nat : \E g : GcdUpTo(g, k)}
  <1>1. 0 \in N
    <2> DEFINE g == [p \in Nat \X Nat |-> p[1]]
    <2>1. ASSUME NEW p \in Nat \X Nat, p[2] <= 0 PROVE g[p] = GcdStep(g, p)
      <3>1. p[2] = 0
        BY <2>1
      <3> QED
        BY <3>1, LastStep
    <2>2. GcdUpTo(g, 0)
      BY <2>1 DEF GcdUpTo
    <2> HIDE DEF g
    <2> QED
      BY <2>2
  <1>2. ASSUME NEW k \in Nat, k \in N PROVE k + 1 \in N
    <2>1. PICK g : GcdUpTo(g, k)
      BY <1>2
    <2> DEFINE h == [p \in Nat \X Nat |-> IF p[2] <= k THEN g[p] ELSE GcdStep(g, p)]
    <2>2. \A p \in Nat \X Nat : h[p] = GcdStep(g, p) /\ (p[2] <= k => h[p] = g[p])
      BY <2>1 DEF GcdUpTo
    <2> HIDE DEF h
    <2>3. ASSUME NEW p \in Nat \X Nat, p[2] <= k + 1 PROVE h[p] = GcdStep(h, p)
      <3>1. CASE p[2] = 0
        BY <2>2, <3>1, LastStep
      <3>2. CASE p[2] # 0
        <4>1. /\ NextPair(p) \in Nat \X Nat /\ NextPair(p)[2] < p[2]
              /\ GcdStep(g, p) = g[NextPair(p)] /\ GcdStep(h, p) = h[NextPair(p)]
          BY <3>2, Remainder
        <4>2. p[2] \in Nat /\ NextPair(p)[2] \in Nat
          BY <4>1
        <4>3. NextPair(p)[2] <= k
          BY <2>3, <4>1, <4>2
        <4> QED
          BY <2>2, <4>1, <4>3
      <3> QED
        BY <3>1, <3>2
    <2>4. GcdUpTo(h, k + 1)
      BY <2>3 DEF GcdUpTo
    <2> QED
      BY <2>4
  <1> HIDE DEF N
  <1>3. n \in N
    BY <1>1, <1>2, InductionBySet
  <1> QED
    BY <1>3 DEF N

LEMMA GcdAgree ==
    ASSUME NEW n \in Nat, NEW m \in Nat, NEW g, NEW h, GcdUpTo(g, n), GcdUpTo(h, m),
           NEW p \in Nat \X Nat, p[2] <= n, p[2] <= m
    PROVE  g[p] = h[p]
  <1> DEFINE N == {k \in Nat : \A r \in Nat \X Nat :
                      r[2] <= k /\ r[2] <= n /\ r[2] <= m => g[r] = h[r]}
  <1>1. 0 \in N
    <2> SUFFICES ASSUME NEW r \in Nat \X Nat, r[2] <= 0, r[2] <= n, r[2] <= m PROVE g[r] = h[r]
      OBVIOUS
    <2>1. r[2] = 0
      OBVIOUS
    <2>2. g[r] = GcdStep(g, r) /\ h[r] = GcdStep(h, r)
      BY DEF GcdUpTo
    <2> QED
      BY <2>1, <2>2, LastStep
  <1>2. ASSUME NEW k \in Nat, k \in N PROVE k + 1 \in N
    <2> SUFFICES ASSUME NEW r \in Nat \X Nat, r[2] <= k + 1, r[2] <= n, r[2] <= m PROVE g[r] = h[r]
      OBVIOUS
    <2>1. g[r] = GcdStep(g, r) /\ h[r] = GcdStep(h, r)
      BY DEF GcdUpTo
    <2>2. CASE r[2] = 0
      BY <2>1, <2>2, LastStep
    <2>3. CASE r[2] # 0
      <3>1. /\ NextPair(r) \in Nat \X Nat /\ NextPair(r)[2] < r[2]
            /\ GcdStep(g, r) = g[NextPair(r)] /\ GcdStep(h, r) = h[NextPair(r)]
        BY <2>3, Remainder
      <3>2. r[2] \in Nat /\ NextPair(r)[2] \in Nat
        BY <3>1
      <3>3. NextPair(r)[2] <= k /\ NextPair(r)[2] <= n /\ NextPair(r)[2] <= m
        BY <3>1, <3>2
      <3>4. g[NextPair(r)] = h[NextPair(r)]
        BY <1>2, <3>1, <3>3
      <3> QED
        BY <2>1, <3>1, <3>4
    <2> QED
      BY <2>2, <2>3
  <1>3. p[2] \in N
    <2>1. p[2] \in Nat
      OBVIOUS
    <2> HIDE DEF N
    <2> QED
      BY <1>1, <1>2, <2>1, InductionBySet
  <1> QED
    BY <1>3

(* Gcd satisfies its equation.                                              *)
LEMMA GcdUnfold == ASSUME NEW p \in Nat \X Nat PROVE Gcd[p] = GcdStep(Gcd, p)
  <1> DEFINE G(n) == CHOOSE g : GcdUpTo(g, n)
             w == [r \in Nat \X Nat |-> G(r[2])[r]]
             Solved(g) == g = [r \in Nat \X Nat |-> IF r[2] = 0 THEN r[1] ELSE g[<<r[2], r[1] % r[2]>>]]
  <1>1. \A n \in Nat : GcdUpTo(G(n), n)
    BY GcdSolved
  <1> HIDE DEF G
  <1>2. \A r \in Nat \X Nat : w[r] = G(r[2])[r]
    OBVIOUS
  <1>3. ASSUME NEW r \in Nat \X Nat PROVE w[r] = GcdStep(w, r)
    <2>0. r[2] \in Nat
      OBVIOUS
    <2> HIDE DEF w
    <2>1. w[r] = GcdStep(G(r[2]), r)
      BY <1>1, <1>2, <2>0 DEF GcdUpTo
    <2>2. CASE r[2] = 0
      BY <2>1, <2>2, LastStep
    <2>3. CASE r[2] # 0
      <3>1. /\ NextPair(r) \in Nat \X Nat /\ NextPair(r)[2] < r[2]
            /\ GcdStep(G(r[2]), r) = G(r[2])[NextPair(r)] /\ GcdStep(w, r) = w[NextPair(r)]
        BY <2>3, Remainder
      <3> DEFINE x == NextPair(r)
                 g == G(r[2])
                 h == G(x[2])
                 n == r[2]
                 m == x[2]
      <3>2. /\ n \in Nat /\ m \in Nat /\ m <= n /\ m <= m /\ GcdUpTo(g, n) /\ GcdUpTo(h, m)
            /\ x \in Nat \X Nat /\ x[2] = m
        BY <1>1, <3>1
      <3>3. g[x] = h[x]
        <4> HIDE DEF x, g, h, n, m
        <4> QED
          BY <3>2, GcdAgree
      <3> QED
        BY <1>2, <2>1, <3>1, <3>3
    <2> QED
      BY <2>2, <2>3
  <1>4. Solved(w)
    <2>1. \A r \in Nat \X Nat : w[r] = IF r[2] = 0 THEN r[1] ELSE w[<<r[2], r[1] % r[2]>>]
      BY <1>3 DEF GcdStep
    <2>2. w = [r \in Nat \X Nat |-> w[r]]
      OBVIOUS
    <2> HIDE DEF w
    <2> QED
      BY <2>1, <2>2, Zenon
  <1>5. Gcd = CHOOSE g : Solved(g)
    BY Zenon DEF Gcd
  <1>6. Solved(Gcd)
    <2> HIDE DEF Solved, w
    <2> QED
      BY <1>4, <1>5
  <1> QED
    BY <1>6, Zenon DEF GcdStep

(* A greatest common divisor is no zero, unless both numbers are.           *)
LEMMA GcdPositive ==
    ASSUME NEW p \in Nat \X Nat, p[1] # 0 \/ p[2] # 0
    PROVE  Gcd[p] \in Nat \ {0}
  <1> DEFINE N == {k \in Nat : \A r \in Nat \X Nat :
                      r[2] <= k /\ (r[1] # 0 \/ r[2] # 0) => Gcd[r] \in Nat \ {0}}
  <1>1. 0 \in N
    <2> SUFFICES ASSUME NEW r \in Nat \X Nat, r[2] <= 0, r[1] # 0 \/ r[2] # 0
                 PROVE  Gcd[r] \in Nat \ {0}
      OBVIOUS
    <2>1. r[2] = 0 /\ r[1] \in Nat \ {0}
      OBVIOUS
    <2> QED
      BY <2>1, GcdUnfold, LastStep
  <1>2. ASSUME NEW k \in Nat, k \in N PROVE k + 1 \in N
    <2> SUFFICES ASSUME NEW r \in Nat \X Nat, r[2] <= k + 1, r[1] # 0 \/ r[2] # 0
                 PROVE  Gcd[r] \in Nat \ {0}
      OBVIOUS
    <2>1. CASE r[2] = 0
      <3>1. r[1] \in Nat \ {0}
        BY <2>1
      <3> QED
        BY <2>1, <3>1, GcdUnfold, LastStep
    <2>2. CASE r[2] # 0
      <3>1. /\ NextPair(r) \in Nat \X Nat /\ NextPair(r)[1] = r[2] /\ NextPair(r)[2] < r[2]
            /\ GcdStep(Gcd, r) = Gcd[NextPair(r)]
        BY <2>2, Remainder
      <3>2. r[2] \in Nat /\ NextPair(r)[2] \in Nat
        BY <3>1
      <3>3. NextPair(r)[2] <= k /\ NextPair(r)[1] # 0
        BY <2>2, <3>1, <3>2
      <3>4. Gcd[NextPair(r)] \in Nat \ {0}
        BY <1>2, <3>1, <3>3
      <3> QED
        BY <3>1, <3>4, GcdUnfold
    <2> QED
      BY <2>1, <2>2
  <1>3. p[2] \in N
    <2>1. p[2] \in Nat
      OBVIOUS
    <2> HIDE DEF N
    <2> QED
      BY <1>1, <1>2, <2>1, InductionBySet
  <1> QED
    BY <1>3

(* A fraction is a value.                                                   *)
LEMMA FractionValue ==
    ASSUME NEW n \in Int, NEW d \in Nat \ {0}
    PROVE  Fraction(n, d) # NaN
  <1> DEFINE p == <<AbsOf(n), d>>
             g == Gcd[p]
  <1>1. AbsOf(n) \in Nat
    BY DEF AbsOf
  <1>2. p \in Nat \X Nat /\ p[2] # 0
    BY <1>1
  <1>3. g \in Nat \ {0}
    <2> HIDE DEF p
    <2> QED
      BY <1>2, GcdPositive
  <1>4. Fraction(n, d) = [n |-> n \div g, d |-> d \div g]
    BY DEF Fraction
  <1> HIDE DEF g, p
  <1>5. n \div g \in Int /\ d \div g \in Int
    BY <1>3
  <1> HIDE DEF g
  <1>6. [n |-> n \div g, d |-> d \div g] \in [n : Int, d : Int]
    BY <1>5
  <1> QED
    BY <1>4, <1>6, RollupAssumption
-----------------------------------------------------------------------------
(* A rate over a regular matrix.                                            *)

(* From any point but the last there is a rate.                             *)
LEMMA RateFrom ==
    ASSUME NEW q, CallOk(q), q.name \in Rates, NEW s \in Seq(Point), Strict(s),
           \A i \in DOMAIN s : s[i].v \in Int, NEW begin \in 1..(Len(s) - 1)
    PROVE  CounterDifference(q.name, s, begin, s[begin].v) # NaN
  <1> DEFINE C == Changes(q, s)
             n == Len(s) - begin
             v == s[begin].v
             T == SumFunctionOnSet(C, (begin + 1)..(begin + n))
             millis == s[Len(s)].t - s[begin].t
  <1>1. /\ Len(s) \in Nat /\ DOMAIN s = 1..Len(s) /\ begin \in Nat /\ n \in Nat
        /\ begin + n = Len(s) /\ begin < Len(s) /\ begin \in 1..Len(s) /\ Len(s) \in 1..Len(s)
    BY LenProperties
  <1>2. v \in Int /\ ResetOf(v, v) = 0
    <2>1. v \in Int
      BY <1>1
    <2> HIDE DEF v
    <2> QED
      BY <2>1 DEF ResetOf
  <1>3. \A i \in (begin + 1)..(begin + n) : C[i] \in Int
    <2> SUFFICES ASSUME NEW i \in (begin + 1)..(begin + n) PROVE i \in 2..Len(s)
      BY ChangesTyped
    <2> QED
      BY <1>1
  <1>4. Terms(C, (begin + 1)..(begin + n))
    <2>1. begin + 1 \in Int /\ begin + n \in Int
      BY <1>1
    <2>2. IsFiniteSet((begin + 1)..(begin + n))
      BY <2>1, FS_Interval
    <2> QED
      BY <1>3, <2>2 DEF Terms
  <1>5. T \in Int
    <2> HIDE DEF C, n
    <2> QED
      BY <1>4, SumInteger
  <1>6. CounterDifference(q.name, s, begin, v) = ValueFrom(q, s, begin, v - v + T)
    <2>1. \A i \in 1..n : C[begin + i] = Difference(Counting(q), s[begin + i - 1].v, s[begin + i].v)
      <3> SUFFICES ASSUME NEW i \in 1..n
                   PROVE  C[begin + i] = Difference(Counting(q), s[begin + i - 1].v, s[begin + i].v)
        OBVIOUS
      <3>1. begin + i \in 2..Len(s)
        BY <1>1
      <3> QED
        BY <3>1 DEF Changes
    <2>2. CountsFrom(q, s, begin, v, C, begin, n)
      <3> HIDE DEF C
      <3> QED
        BY <1>1, <1>2, <1>4, <2>1, CountingName DEF CountsFrom
    <2> HIDE DEF C, n
    <2> QED
      BY <2>2, CounterSum
  <1>7. millis \in Nat \ {0}
    <2> DEFINE x == s[begin].t
               y == s[Len(s)].t
    <2>1. x \in Int /\ y \in Int /\ x < y
      BY <1>1, PointAt DEF Strict
    <2>2. millis = y - x
      OBVIOUS
    <2> HIDE DEF x, y, millis
    <2> QED
      BY <2>1, <2>2
  <1>8. ValueFrom(q, s, begin, v - v + T) = Fraction((v - v + T) * 1000, millis)
    <2>1. begin # Len(s) /\ ~(millis <= 0)
      <3>1. begin # Len(s)
        <4> DEFINE N == Len(s)
        <4>1. begin \in Nat /\ N \in Nat /\ begin < N
          BY <1>1
        <4> HIDE DEF N
        <4>2. begin # N
          BY ONLY <4>1
        <4> QED
          BY <4>2 DEF N
      <3> HIDE DEF millis
      <3>2. ~(millis <= 0)
        BY <1>7
      <3> QED
        BY <3>1, <3>2
    <2> HIDE DEF v, T
    <2> QED
      BY <2>1, Zenon DEF ValueFrom
  <1>9. (v - v + T) * 1000 \in Int
    <2> HIDE DEF v, T
    <2> QED
      BY <1>2, <1>5
  <1> HIDE DEF T, millis
  <1>10. Fraction((v - v + T) * 1000, millis) # NaN
    <2> DEFINE w == (v - v + T) * 1000
    <2>1. w \in Int
      BY <1>9
    <2> HIDE DEF w
    <2>2. Fraction(w, millis) # NaN
      BY <1>7, <2>1, FractionValue
    <2> QED
      BY <2>2 DEF w
  <1> QED
    BY <1>6, <1>8, <1>10

(* A matrix whose estimate reaches the sample before the window: regular,   *)
(* no gap above the lookback, and at least one sample in the window.        *)
Reached(q, M, x) ==
    /\ CallOk(q) /\ q.name \in Rates
    /\ M \in Seq(Point) /\ Strict(M) /\ \A i \in DOMAIN M : M[i].v \in Int
    /\ Regular(M) /\ Len(M) >= 2 /\ M[2].t - M[1].t <= q.lookback
    /\ x \in Int /\ CountUntil(M, x) < Len(M)

LEMMA RateOf ==
    ASSUME NEW q, NEW M, NEW x, Reached(q, M, x)
    PROVE  metricsQLCounterValue(q.name, M, CountUntil(M, x) + 1, x, MaxPrev(q, M), q.lookback) # NaN
  <1> DEFINE first == CountUntil(M, x) + 1
             n == Len(M)
             g == M[2].t - M[1].t
             m == MaxPrev(q, M)
             prev == /\ first > 1
                     /\ \/ M[first - 1].t > x - m
                        \/ q.name \in Totals /\ M[first].t - M[first - 1].t < q.lookback
             value == metricsQLCounterValue(q.name, M, first, x, m, q.lookback)
  <1>1. /\ CallOk(q) /\ q.name \in Rates /\ M \in Seq(Point) /\ Strict(M)
        /\ \A i \in DOMAIN M : M[i].v \in Int
        /\ Regular(M) /\ g <= q.lookback /\ x \in Int
        /\ n \in Nat /\ n >= 2 /\ DOMAIN M = 1..n /\ first \in 1..n
        /\ \A i \in 1..n : i < first <=> M[i].t <= x
    <2>1. /\ M \in Seq(Point) /\ Strict(M) /\ x \in Int /\ CountUntil(M, x) < n /\ n >= 2
      BY DEF Reached
    <2>2. /\ CountUntil(M, x) \in 0..n /\ n \in Nat /\ DOMAIN M = 1..n
          /\ \A i \in 1..n : i <= CountUntil(M, x) <=> M[i].t <= x
      BY <2>1, CountUntilIs
    <2> DEFINE k == CountUntil(M, x)
    <2>3. first = k + 1 /\ k \in Nat /\ k < n
      BY <2>1, <2>2
    <2> HIDE DEF k, first
    <2>4. first \in 1..n /\ \A i \in 1..n : i < first <=> i <= k
      BY <2>2, <2>3
    <2> QED
      BY <2>1, <2>2, <2>4 DEF Reached, k
  <1>2. \A i \in 1..n : M[i].t \in Int
    BY <1>1, PointAt
  <1>3. Evenly(M, g) /\ g \in Int /\ g > 0
    <2>1. 1 \in 1..n /\ 2 \in 1..n
      BY <1>1
    <2>2. g \in Int /\ g > 0
      <3>1. M[1].t < M[2].t
        BY <1>1, <2>1 DEF Strict
      <3> QED
        BY <1>2, <2>1, <3>1
    <2>3. ASSUME NEW i \in 2..n PROVE GapAt(M, i) = g
      <3>1. CASE i = 2
        BY <3>1 DEF GapAt
      <3>2. CASE i # 2
        <4>1. i \in 3..n
          BY <1>1, <3>2
        <4> QED
          BY <1>1, <4>1 DEF GapAt, Regular
      <3> QED
        BY <3>1, <3>2
    <2> QED
      BY <2>2, <2>3 DEF Evenly
  <1>4. m \in Int /\ m >= g
    <2> DEFINE interval == metricsQLSampleInterval(M, q.step)
    <2>1. interval = MarginOr(q.step, g)
      <3>1. interval = MarginOr(q.step, Quantile(LastGaps(M, IntervalPoints)))
        BY <1>1 DEF metricsQLSampleInterval
      <3>2. Quantile(LastGaps(M, IntervalPoints)) = g
        <4> HIDE DEF g
        <4> QED
          BY <1>1, <1>3, RollupAssumption, EvenQuantile
      <3> QED
        BY <3>1, <3>2
    <2>2. interval \in Int /\ interval >= g
      <3> HIDE DEF g, interval
      <3> QED
        BY <1>3, <2>1, MarginEnough
    <2>3. q.lookback \in Int /\ q.instant = FALSE
      BY <1>1 DEF CallOk
    <2>4. m = Smaller(interval, q.lookback)
      BY <2>3 DEF MaxPrev
    <2> HIDE DEF interval, g, m
    <2> QED
      BY <1>1, <2>2, <2>3, <2>4 DEF Smaller, g
  <1>5. first > 1 => prev
    <2> SUFFICES ASSUME first > 1 PROVE M[first - 1].t > x - m
      OBVIOUS
    <2>1. first \in 2..n /\ first - 1 \in 1..n /\ ~(first < first)
      BY <1>1
    <2>2. GapAt(M, first) = g
      BY <1>3, <2>1 DEF Evenly
    <2> DEFINE y == M[first].t
               z == M[first - 1].t
    <2>3. y \in Int /\ z \in Int /\ y > x
      BY <1>1, <1>2, <2>1
    <2>4. y - z = g
      BY <2>2 DEF GapAt
    <2> HIDE DEF y, z, g, m
    <2>5. z > x - m
      BY <1>1, <1>3, <1>4, <2>3, <2>4
    <2> QED
      BY <2>5 DEF z
  <1>6. value = CounterFrom(q.name, M, first, prev)
    <2>1. ~(first > Len(M))
      BY <1>1
    <2> HIDE DEF first, m
    <2> QED
      BY <2>1, Zenon DEF metricsQLCounterValue
  <1> HIDE DEF prev, m, g, first
  <1>7. prev => first > 1
    BY DEF prev
  <1>8. \E begin \in 1..(n - 1) : value = CounterDifference(q.name, M, begin, M[begin].v)
    <2>1. CASE q.name = "rate"
      <3>1. q.name \notin LastTwo
        BY <2>1 DEF LastTwo
      <3>2. CASE prev
        <4>1. value = CounterDifference(q.name, M, first - 1, M[first - 1].v)
          BY <1>6, <3>1, <3>2, Zenon DEF CounterFrom
        <4>2. first - 1 \in 1..(n - 1)
          BY <1>1, <1>7, <3>2
        <4> QED
          BY <4>1, <4>2
      <3>3. CASE ~prev
        <4>1. value = CounterDifference(q.name, M, first, M[first].v)
          BY <1>1, <1>6, <3>1, <3>3, Zenon DEF CounterFrom
        <4>2. first \in 1..(n - 1)
          BY <1>1, <1>5, <3>3
        <4> QED
          BY <4>1, <4>2
      <3> QED
        BY <3>2, <3>3
    <2>2. CASE q.name = "irate"
      <3> DEFINE from == IF prev THEN first - 1 ELSE first
      <3>1. q.name \in LastTwo /\ q.name # "idelta"
        BY <2>2 DEF LastTwo
      <3>2. from \in 1..(n - 1)
        BY <1>1, <1>5, <1>7
      <3>3. Larger(from, n - 1) = n - 1
        <4>1. from \in Int /\ n \in Int /\ ~(from > n - 1)
          BY <1>1, <3>2
        <4> HIDE DEF from, n
        <4> QED
          BY <4>1 DEF Larger
      <3>4. value = LastTwoValue(q.name, M, n - 1)
        <4>1. value = LastTwoValue(q.name, M, Larger(from, n - 1))
          BY <1>6, <3>1, Zenon DEF CounterFrom
        <4> QED
          BY <3>3, <4>1
      <3>5. value = CounterDifference(q.name, M, n - 1, M[n - 1].v)
        BY <3>1, <3>4, Zenon DEF LastTwoValue
      <3>6. n - 1 \in 1..(n - 1)
        BY <1>1
      <3> QED
        BY <3>5, <3>6
    <2> QED
      BY <1>1, <2>1, <2>2 DEF Rates
  <1>9. value # NaN
    <2>1. PICK begin \in 1..(n - 1) : value = CounterDifference(q.name, M, begin, M[begin].v)
      BY <1>8
    <2>2. CounterDifference(q.name, M, begin, M[begin].v) # NaN
      BY <1>1, RateFrom
    <2> QED
      BY <2>1, <2>2
  <1> QED
    BY <1>9 DEF m, first
(* What the engine reads of a series for a step, without stale markers.     *)
LEMMA MatrixTimed ==
    ASSUME NEW q, CallOk(q), NEW s \in Seq(Point), Timed(s), NEW ts \in Int
    PROVE  /\ NonStale(MatrixAt(q, s, ts)) \in Seq(Point)
           /\ Timed(NonStale(MatrixAt(q, s, ts)))
           /\ \A i \in DOMAIN NonStale(MatrixAt(q, s, ts)) : NonStale(MatrixAt(q, s, ts))[i].v \in Int
  <1> DEFINE lo == ts - q.offset - SelectorRange(q)
             hi == ts - q.offset
             A == MatrixAt(q, s, ts)
             I == {i \in DOMAIN s : lo < s[i].t /\ s[i].t <= hi}
             J == {i \in DOMAIN A : A[i].v # Stale}
             M == NonStale(A)
  <1>1. A = Picked(s, I) /\ I \in SUBSET DOMAIN s
    BY DEF MatrixAt, Between
  <1>2. A \in Seq(Point) /\ Timed(A)
    <2> HIDE DEF I
    <2> HIDE DEF A
    <2> QED
      BY <1>1, PickedPoints
  <1> HIDE DEF A
  <1>3. M = Picked(A, J) /\ J \in SUBSET DOMAIN A
    BY DEF NonStale
  <1>4. M \in Seq(Point) /\ Timed(M)
    <2> HIDE DEF J, M
    <2> QED
      BY <1>2, <1>3, PickedPoints
  <1>5. Range(M) = {p \in Range(A) : p.v # Stale}
    BY <1>2, NonStalePoints
  <1> HIDE DEF M
  <1>6. ASSUME NEW i \in DOMAIN M PROVE M[i].v \in Int
    <2>1. M[i] \in Range(M)
      BY DEF Range
    <2>2. M[i].v # Stale /\ M[i] \in Point
      BY <1>4, <1>5, <2>1, LenProperties
    <2> QED
      BY <2>2 DEF Point
  <1> QED
    BY <1>4, <1>6 DEF M, A

(* A window with a sample ends after its beginning.                         *)
LEMMA WindowBegins ==
    ASSUME NEW s \in Seq(Point), Strict(s), NEW x \in Int, NEW hi \in Int, Between(s, x, hi) # <<>>
    PROVE  CountUntil(s, x) < Len(s)
  <1> DEFINE W == Between(s, x, hi)
  <1>1. W \in Seq(Point) /\ Range(W) = {p \in Range(s) : x < p.t /\ p.t <= hi}
    BY BetweenPoints
  <1> HIDE DEF W
  <1>2. 1 \in DOMAIN W
    <2>1. W # <<>>
      BY DEF W
    <2> QED
      BY <1>1, <2>1
  <1>3. W[1] \in Range(W)
    BY <1>2 DEF Range
  <1>4. W[1] \in Range(s) /\ x < W[1].t
    BY <1>1, <1>3
  <1>5. PICK i \in DOMAIN s : W[1] = s[i]
    BY <1>4 DEF Range
  <1>6. /\ CountUntil(s, x) \in 0..Len(s) /\ Len(s) \in Nat /\ DOMAIN s = 1..Len(s)
        /\ \A j \in 1..Len(s) : j <= CountUntil(s, x) <=> s[j].t <= x
    BY CountUntilIs
  <1>7. s[i].t \in Int /\ x < s[i].t
    BY <1>4, <1>5, PointAt
  <1>8. ~(i <= CountUntil(s, x)) /\ i \in 1..Len(s)
    BY <1>5, <1>6, <1>7
  <1> QED
    BY <1>6, <1>8

(* The estimate of the sample interval always reaches the sample before the *)
(* window (metricsql_compat.go:584-617): a rate or irate with a window,     *)
(* over a regular series whose samples are at most a lookback apart, has a  *)
(* value at every step whose window has a sample and whose matrix has two,  *)
(* even when the window is so short that it holds only one. RateReaches     *)
(* holds of any store and any request.                                      *)
THEOREM RateIsReached == Spec => []RateReaches
  <1>1. Inv /\ NothingBuilt => RateReaches
    <2> DEFINE Matrix(q, points, k) == NonStale(MatrixAt(q, points, GridTime(k)))
               Window(q, points, k) ==
                   Between(Matrix(q, points, k), GridTime(k) - q.offset - q.window, GridTime(k) - q.offset)
    <2> SUFFICES ASSUME Inv, NothingBuilt, FirstRead, NEW points \in PointSeries, NEW q \in Calls,
                        NEW k \in Grid, q.name \in Rates, q.window # 0,
                        OnePerTime(Matrix(q, points, k)), Regular(Matrix(q, points, k)),
                        Window(q, points, k) # <<>>, Len(Matrix(q, points, k)) >= 2,
                        Matrix(q, points, k)[2].t - Matrix(q, points, k)[1].t <= q.lookback
                 PROVE  RollupAt(q, points, GridTime(k)) # NaN
      BY DEF RateReaches
    <2>1. plan \in Plans
      BY DEF Inv
    <2>2. points \in Seq(Point) /\ Timed(points)
      BY SeriesCompared
    <2>3. CallOk(q) /\ q.step = plan.step
      BY <2>1, CallsOk
    <2> DEFINE ts == GridTime(k)
               M == Matrix(q, points, k)
               x == ts - q.offset - q.window
               hi == ts - q.offset
    <2>4. ts \in Int /\ x \in Int /\ hi \in Int
      <3>1. plan.start \in Int /\ plan.steps \in Nat /\ k \in 0..(plan.steps - 1)
        BY <2>1, PlanNumbers DEF Grid
      <3>2. plan.step \in Nat /\ q.offset \in Int /\ q.window \in Int
        BY <2>3 DEF CallOk
      <3> DEFINE z == k * plan.step
      <3>3. k \in Nat
        BY <3>1
      <3>4. z \in Int
        BY <3>2, <3>3
      <3>5. ts = plan.start + z
        BY DEF GridTime
      <3> HIDE DEF z, ts
      <3>6. ts \in Int
        BY <3>1, <3>4, <3>5
      <3> QED
        BY <3>2, <3>6
    <2>5. M \in Seq(Point) /\ Timed(M) /\ \A i \in DOMAIN M : M[i].v \in Int
      <3> HIDE DEF ts
      <3>1. M = NonStale(MatrixAt(q, points, ts))
        BY DEF ts
      <3> HIDE DEF M
      <3> QED
        BY <2>2, <2>3, <2>4, <3>1, MatrixTimed
    <2>6. /\ OnePerTime(M) /\ Regular(M) /\ Len(M) >= 2 /\ M[2].t - M[1].t <= q.lookback
          /\ Between(M, x, hi) # <<>>
      OBVIOUS
    <2>7. RollupAt(q, points, ts)
            = metricsQLCounterValue(q.name, M, CountUntil(M, x) + 1, x, MaxPrev(q, M), q.lookback)
      <3>1. q.name # "default_rollup"
        BY DEF Rates
      <3>2. RollupAt(q, points, ts) = RollupPoints(q, M, ts)
        <4> HIDE DEF ts
        <4>1. M = NonStale(MatrixAt(q, points, ts))
          BY DEF ts
        <4> HIDE DEF M
        <4> QED
          BY <3>1, <4>1 DEF RollupAt, metricsQLRollup
      <3>3. WindowOf(q, MaxPrev(q, M)) = q.window
        BY DEF WindowOf
      <3> HIDE DEF M, ts
      <3>4. RollupPoints(q, M, ts) = WindowRollupOf(q, M, x, MaxPrev(q, M))
        BY <3>3, Zenon DEF RollupPoints, RollupWith
      <3>5. WindowRollupOf(q, M, x, MaxPrev(q, M))
              = metricsQLCounterValue(q.name, M, CountUntil(M, x) + 1, x, MaxPrev(q, M), q.lookback)
        BY <3>1 DEF WindowRollupOf, RollupFrom
      <3> QED
        BY <3>2, <3>4, <3>5
    <2> HIDE DEF M, ts, x, hi, Matrix, Window
    <2>8. Strict(M)
      BY <2>5, <2>6, OneTimeStrict
    <2>9. Reached(q, M, x)
      BY <2>3, <2>4, <2>5, <2>6, <2>8, WindowBegins DEF Reached
    <2>10. RollupAt(q, points, ts) # NaN
      BY <2>7, <2>9, RateOf
    <2> QED
      BY <2>10 DEF ts
  <1> QED
    BY <1>1, HistogramInv, NothingBuiltInv, PTL
=============================================================================
