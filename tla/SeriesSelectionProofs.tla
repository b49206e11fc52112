------------------------ MODULE SeriesSelectionProofs ------------------------
(***************************************************************************)
(* Proofs about SeriesSelection for any label names, values, series and    *)
(* matchers, any number of matchers per query and any limit: the SQL       *)
(* conditions of Select only ever narrow the candidates, its short cut and *)
(* its limit lose nothing silently, and the paths that trust the SQL are   *)
(* exact when every condition is.                                          *)
(***************************************************************************)
EXTENDS SeriesSelection, FiniteSetTheorems, WellFoundedInduction, TLAPS

-----------------------------------------------------------------------------
(* The matchers.                                                            *)

LEMMA ListType ==
    ASSUME NEW ms \in MatcherLists, NEW i \in DOMAIN ms
    PROVE  /\ ms[i] \in Matchers
           /\ ms[i] \in MatcherType
           /\ i \in Nat
  <1>1. PICK n \in 0..MaxMatchers : ms \in [1..n -> Matchers]
    BY DEF MatcherLists
  <1>2. n \in Nat
    BY <1>1, SelectionAssumption
  <1>3. ms[i] \in Matchers /\ i \in Nat
    BY <1>1, <1>2
  <1> QED
    BY <1>3, SelectionAssumption

LEMMA SeriesType ==
    ASSUME NEW s \in Series
    PROVE  /\ s \in [Names -> Values]
           /\ s[MetricName] # Empty
  BY SelectionAssumption

(* A nonempty set of positions has a first one.                             *)
LEMMA FirstPosition ==
    ASSUME NEW T \in SUBSET Nat, T # {}
    PROVE  \E i \in T : \A j \in T : i <= j
  <1> DEFINE Less == {ss \in Nat \X Nat : ss[1] < ss[2]}
  <1>1. IsWellFoundedOn(Less, Nat)
    BY NatLessThanWellFounded, Zenon DEF OpToRel
  <1> HIDE DEF Less
  <1>2. \E i \in T : \A j \in T : ~(<<j, i>> \in Less)
    BY <1>1, WFMin
  <1>3. PICK i \in T : \A j \in T : ~(<<j, i>> \in Less)
    BY <1>2
  <1>4. ASSUME NEW j \in T PROVE i <= j
    <2>1. i \in Nat /\ j \in Nat /\ ~(<<j, i>> \in Less)
      BY <1>3
    <2>2. j < i => <<j, i>> \in Less
      BY <2>1 DEF Less
    <2> QED
      BY <2>1, <2>2
  <1> QED
    BY <1>3, <1>4

(* The exact metric of a query, if there is one, is that of some of its     *)
(* equality matchers.                                                      *)
LEMMA ExactIsAMatcher ==
    ASSUME NEW ms \in MatcherLists, ExactMetric(ms) # {}
    PROVE  \E i \in DOMAIN ms : /\ ms[i].name = MetricName
                                /\ ms[i].type = "="
                                /\ ms[i].lang # {Empty}
                                /\ ExactMetric(ms) = ms[i].lang
  <1> DEFINE exact == {i \in DOMAIN ms : /\ ms[i].name = MetricName
                                         /\ ms[i].type = "="
                                         /\ ms[i].lang # {Empty}}
             first == CHOOSE i \in exact : \A j \in exact : i <= j
  <1>1. ExactMetric(ms) = IF exact = {} THEN {} ELSE ms[first].lang
    BY DEF ExactMetric
  <1>2. exact # {}
    BY <1>1
  <1>3. exact \in SUBSET Nat
    BY ListType
  <1> HIDE DEF exact
  <1>4. first \in exact
    BY <1>2, <1>3, FirstPosition
  <1> QED
    BY <1>1, <1>2, <1>4 DEF exact

(* A series that matches is of the exact metric, when there is one.         *)
LEMMA MatchingMetric ==
    ASSUME NEW ms \in MatcherLists, ExactMetric(ms) # {},
           NEW s \in Series, MatchesAll(s, ms)
    PROVE  s[MetricName] \in ExactMetric(ms)
  <1>1. PICK k \in DOMAIN ms : /\ ms[k].name = MetricName
                               /\ ms[k].type = "="
                               /\ ExactMetric(ms) = ms[k].lang
    BY ExactIsAMatcher
  <1>2. Matches(ms[k], s[MetricName])
    BY <1>1 DEF MatchesAll
  <1> QED
    BY <1>1, <1>2 DEF Matches, Positive

(* The values of a condition are those of the matcher, or more of them.     *)
LEMMA ConditionWiderThanMatcher ==
    ASSUME NEW m \in Matchers
    PROVE  /\ m.lang \subseteq ConditionValues(m)
           /\ ~Prefixed(m) => ConditionValues(m) = m.lang
  <1>1. m \in MatcherType
    BY SelectionAssumption
  <1> QED
    BY <1>1, MatcherAssumption DEF ConditionValues, Prefixed, MatcherType

-----------------------------------------------------------------------------
(* The SQL conditions against the matchers.                                 *)

(* A series that satisfies the matchers satisfies every SQL condition, if   *)
(* no negated regular expression is pruned by its literal prefix.          *)
LEMMA PreFilterComplete ==
    ASSUME NEW ms \in MatcherLists,
           \A i \in DOMAIN ms : ~NegatedPrefix(ms[i]),
           NEW s \in Series, MatchesAll(s, ms)
    PROVE  PreFilter(ms, s)
  <1> SUFFICES ASSUME NEW i \in DOMAIN ms
               PROVE  /\ MetricConstraint(ms[i], s)
                      /\ LabelFilter(ms[i], ms, s)
    BY DEF PreFilter
  <1> DEFINE m == ms[i]
  <1>1. m \in Matchers /\ m \in MatcherType
    BY ListType
  <1>2. Matches(m, s[m.name])
    BY DEF MatchesAll
  <1>3. m.lang \subseteq ConditionValues(m)
    BY <1>1, ConditionWiderThanMatcher
  <1>4. m.type \notin Positive => ConditionValues(m) = m.lang
    <2>1. m.type \notin Positive => ~Prefixed(m)
      BY <1>1 DEF Prefixed, NegatedPrefix, Positive
    <2> QED
      BY <1>1, <2>1, ConditionWiderThanMatcher
  <1>5. MetricConstraint(m, s)
    BY <1>2, <1>3, <1>4 DEF MetricConstraint, Matches
  <1>6. LabelFilter(m, ms, s)
    <2> SUFFICES ASSUME HasMembership(m)
                 PROVE  (IndexHit(m, s) /\ s[MetricName] \in
                           (IF ExactMetric(ms) = {} THEN Values
                                                    ELSE ExactMetric(ms)))
                        <=> (m.type \in Positive)
      BY DEF LabelFilter
    <2>1. s[MetricName] \in (IF ExactMetric(ms) = {} THEN Values
                                                     ELSE ExactMetric(ms))
      <3>1. CASE ExactMetric(ms) = {}
        BY <3>1, SeriesType, SelectionAssumption
      <3>2. CASE ExactMetric(ms) # {}
        <4>1. PICK k \in DOMAIN ms : /\ ms[k].name = MetricName
                                     /\ ms[k].type = "="
                                     /\ ExactMetric(ms) = ms[k].lang
          BY <3>2, ExactIsAMatcher
        <4>2. Matches(ms[k], s[MetricName])
          BY <4>1 DEF MatchesAll
        <4> QED
          BY <3>2, <4>1, <4>2 DEF Matches, Positive
      <3> QED
        BY <3>1, <3>2
    <2>2. CASE m.type \in Positive
      <3>1. s[m.name] \in m.lang /\ Empty \notin m.lang
        BY <1>2, <2>2 DEF Matches, HasMembership
      <3> QED
        BY <1>3, <2>1, <2>2, <3>1 DEF IndexHit
    <2>3. CASE m.type \notin Positive
      BY <1>2, <1>4, <2>3 DEF Matches, IndexHit
    <2> QED
      BY <2>2, <2>3
  <1> QED
    BY <1>5, <1>6

(* With exact conditions the SQL selects what the matchers select.          *)
LEMMA TightPreFilterExact ==
    ASSUME NEW ms \in MatcherLists, AllTight(ms), NEW s \in Series
    PROVE  PreFilter(ms, s) <=> MatchesAll(s, ms)
  <1>1. ASSUME MatchesAll(s, ms) PROVE PreFilter(ms, s)
    <2>1. \A i \in DOMAIN ms : ~NegatedPrefix(ms[i])
      BY DEF AllTight, Tight, Prefixed, NegatedPrefix
    <2> QED
      BY <1>1, <2>1, PreFilterComplete
  <1>2. ASSUME PreFilter(ms, s) PROVE MatchesAll(s, ms)
    <2>1. \A i \in DOMAIN ms : ConditionValues(ms[i]) = ms[i].lang
      BY ListType, ConditionWiderThanMatcher DEF AllTight, Tight
    <2>2. \A i \in DOMAIN ms : ms[i].name = MetricName
                                 => Matches(ms[i], s[ms[i].name])
      BY <1>2, <2>1 DEF PreFilter, MetricConstraint, AllTight, Tight, Matches
    <2>3. s[MetricName] \in (IF ExactMetric(ms) = {} THEN Values
                                                     ELSE ExactMetric(ms))
      <3>1. CASE ExactMetric(ms) = {}
        BY <3>1, SeriesType, SelectionAssumption
      <3>2. CASE ExactMetric(ms) # {}
        <4>1. PICK k \in DOMAIN ms : /\ ms[k].name = MetricName
                                     /\ ms[k].type = "="
                                     /\ ExactMetric(ms) = ms[k].lang
          BY <3>2, ExactIsAMatcher
        <4> QED
          BY <2>2, <3>2, <4>1 DEF Matches, Positive
      <3> QED
        BY <3>1, <3>2
    <2>4. ASSUME NEW i \in DOMAIN ms, ms[i].name # MetricName
          PROVE  Matches(ms[i], s[ms[i].name])
      <3>1. ms[i] \in Matchers /\ ms[i] \in MatcherType
        BY ListType
      <3>2. CASE ms[i].noop
        <4>1. ms[i].type = "=~" /\ ms[i].lang = Values
          BY <3>1, <3>2, MatcherAssumption
        <4>2. s[ms[i].name] \in Values
          BY <3>1, SeriesType DEF MatcherType
        <4> QED
          BY <4>1, <4>2 DEF Matches, Positive
      <3>3. CASE ~ms[i].noop
        <4>1. HasMembership(ms[i])
          BY <2>4, <3>3 DEF AllTight, Tight
        <4>2. IndexHit(ms[i], s) <=> (ms[i].type \in Positive)
          BY <1>2, <2>3, <4>1 DEF PreFilter, LabelFilter
        <4>3. Empty \notin ms[i].lang
          BY <4>1 DEF HasMembership, Matches
        <4> QED
          BY <2>1, <4>2, <4>3 DEF IndexHit, Matches
      <3> QED
        BY <3>2, <3>3
    <2> QED
      BY <2>2, <2>4 DEF MatchesAll
  <1> QED
    BY <1>1, <1>2

(* The id selection from the label index alone agrees with the matchers,    *)
(* when the metric name is constrained once.                               *)
LEMMA TightIndexExact ==
    ASSUME NEW ms \in MatcherLists, AllTight(ms), FromIndex(ms),
           \A i, j \in DOMAIN ms :
              ms[i].name = MetricName /\ ms[j].name = MetricName => i = j,
           NEW s \in Series
    PROVE  /\ s[MetricName] \in ExactMetric(ms)
           /\ \A i \in DOMAIN ms :
                ~ms[i].noop /\ ms[i].name # MetricName =>
                   (IndexHit(ms[i], s) <=> (ms[i].type \in Positive))
           <=> MatchesAll(s, ms)
  <1> DEFINE Hits == \A i \in DOMAIN ms :
                       ~ms[i].noop /\ ms[i].name # MetricName =>
                          (IndexHit(ms[i], s) <=> (ms[i].type \in Positive))
  <1>1. PICK k \in DOMAIN ms : /\ ms[k].name = MetricName
                               /\ ms[k].type = "="
                               /\ ExactMetric(ms) = ms[k].lang
    BY ExactIsAMatcher DEF FromIndex
  <1>2. ASSUME NEW i \in DOMAIN ms, ms[i].name = MetricName
        PROVE  Matches(ms[i], s[ms[i].name])
                 <=> s[MetricName] \in ExactMetric(ms)
    <2>1. i = k
      BY <1>1, <1>2
    <2> QED
      BY <1>1, <2>1 DEF Matches, Positive
  <1>3. ASSUME NEW i \in DOMAIN ms, ms[i].name # MetricName, ms[i].noop
        PROVE  Matches(ms[i], s[ms[i].name])
    <2>1. ms[i] \in Matchers /\ ms[i] \in MatcherType
      BY ListType
    <2>2. ms[i].type = "=~" /\ ms[i].lang = Values
      BY <1>3, <2>1, MatcherAssumption
    <2>3. s[ms[i].name] \in Values
      BY <2>1, SeriesType DEF MatcherType
    <2> QED
      BY <2>2, <2>3 DEF Matches, Positive
  <1>4. ASSUME NEW i \in DOMAIN ms, ms[i].name # MetricName, ~ms[i].noop
        PROVE  (IndexHit(ms[i], s) <=> (ms[i].type \in Positive))
                 <=> Matches(ms[i], s[ms[i].name])
    <2>1. HasMembership(ms[i])
      BY <1>4 DEF AllTight, Tight
    <2>2. Empty \notin ms[i].lang
      BY <2>1 DEF HasMembership, Matches
    <2>3. ConditionValues(ms[i]) = ms[i].lang
      BY ListType, ConditionWiderThanMatcher DEF AllTight, Tight
    <2> QED
      BY <2>2, <2>3 DEF IndexHit, Matches
  <1>5. ASSUME s[MetricName] \in ExactMetric(ms), Hits
        PROVE  MatchesAll(s, ms)
    BY <1>2, <1>3, <1>4, <1>5 DEF MatchesAll
  <1>6. ASSUME MatchesAll(s, ms)
        PROVE  s[MetricName] \in ExactMetric(ms) /\ Hits
    BY <1>1, <1>2, <1>4, <1>6 DEF MatchesAll
  <1> QED
    BY <1>5, <1>6

(* Matchers found unsatisfiable match no series.                            *)
LEMMA UnsatisfiableMatchesNothing ==
    ASSUME NEW ms \in MatcherLists, Unsatisfiable(ms), NEW s \in Series
    PROVE  ~MatchesAll(s, ms)
  <1> SUFFICES ASSUME MatchesAll(s, ms) PROVE FALSE
    OBVIOUS
  <1>1. PICK i \in DOMAIN ms :
          /\ Candidates(ms[i]) # {}
          /\ \A c \in Candidates(ms[i]) :
               \E j \in DOMAIN ms :
                 ms[j].name = ms[i].name /\ ~Matches(ms[j], c)
    BY DEF Unsatisfiable
  <1>2. ms[i] \in Matchers
    BY ListType
  <1>3. ms[i].type \in Positive /\ Candidates(ms[i]) = ms[i].lang
    BY <1>1, <1>2, MatcherAssumption DEF Candidates, Positive
  <1>4. s[ms[i].name] \in Candidates(ms[i])
    BY <1>3 DEF MatchesAll, Matches
  <1> QED
    BY <1>1, <1>4 DEF MatchesAll

-----------------------------------------------------------------------------
(* The limit.                                                               *)

(* Below the limit, LIMIT and the limit check let everything through.       *)
LEMMA BelowLimit ==
    ASSUME NEW W, IsFiniteSet(W), Cardinality(W) < MaxSeries,
           NEW found \in SUBSET W
    PROVE  /\ Limited(found, MaxSeries) = {found}
           /\ \A sub \in SUBSET found : CheckLimit(sub) = Rows(sub)
  <1>1. \A sub \in SUBSET W : Cardinality(sub) < MaxSeries
    <2>1. \A sub \in SUBSET W : /\ Cardinality(sub) \in Nat
                                /\ Cardinality(sub) <= Cardinality(W)
      BY FS_Subset, FS_CardinalityType
    <2>2. Cardinality(W) \in Nat /\ MaxSeries \in Nat
      BY FS_CardinalityType, SelectionAssumption
    <2> QED
      BY <2>1, <2>2
  <1>2. Cardinality(found) \in Nat /\ MaxSeries \in Nat
    BY FS_Subset, FS_CardinalityType, SelectionAssumption
  <1>3. Limited(found, MaxSeries) = {found}
    BY <1>1, <1>2 DEF Limited
  <1>4. ASSUME NEW sub \in SUBSET found PROVE CheckLimit(sub) = Rows(sub)
    <2>1. sub \in SUBSET W
      OBVIOUS
    <2>2. Cardinality(sub) \in Nat /\ Cardinality(sub) < MaxSeries
      BY <1>1, <2>1, FS_Subset, FS_CardinalityType
    <2> QED
      BY <1>2, <2>2 DEF CheckLimit
  <1> QED
    BY <1>3, <1>4

(* What LIMIT cut off leaves exactly MaxSeries rows, which the limit check  *)
(* reports.                                                                *)
LEMMA LimitOrAll ==
    ASSUME NEW found, IsFiniteSet(found), NEW sub \in Limited(found, MaxSeries)
    PROVE  \/ CheckLimit(sub) = Rows(found)
           \/ CheckLimit(sub) = Error /\ Cardinality(found) >= MaxSeries
  <1>1. Cardinality(found) \in Nat /\ MaxSeries \in Nat
    BY FS_CardinalityType, SelectionAssumption
  <1>2. CASE Cardinality(found) <= MaxSeries
    BY <1>1, <1>2 DEF Limited, CheckLimit
  <1>3. CASE Cardinality(found) > MaxSeries
    BY <1>1, <1>3 DEF Limited, CheckLimit
  <1> QED
    BY <1>1, <1>2, <1>3

-----------------------------------------------------------------------------
(* The invariant.                                                           *)

(* The written series are finitely many, and a query holds a list of the    *)
(* matchers.                                                               *)
Written_OK ==
    /\ Written \subseteq Series
    /\ IsFiniteSet(Written)

SelectionInv ==
    /\ Written_OK
    /\ UnsatisfiableSound
    /\ SelectExact
    /\ LimitReported
    /\ TightIdsExact
    /\ SeriesActive

(* Select establishes its three properties.                                 *)
LEMMA SelectStep ==
    ASSUME Written_OK, NEW ms \in MatcherLists, Select(ms)
    PROVE  (UnsatisfiableSound /\ SelectExact /\ LimitReported)'
  <1>1. query' = [kind |-> "select", ms |-> ms] /\ Written' = Written
    BY DEF Select, Written
  <1>2. query'.ms = ms
    BY <1>1
  <1>3. Expected(ms)' = Expected(ms)
    BY <1>1 DEF Expected
  <1>4. UnsatisfiableSound'
    BY <1>2, UnsatisfiableMatchesNothing DEF UnsatisfiableSound
  <1>5. CASE Unsatisfiable(ms)
    <2>1. answer' = Rows({})
      BY <1>5 DEF Select
    <2>2. Expected(ms) = {}
      BY <1>5, UnsatisfiableMatchesNothing DEF Expected, Written_OK
    <2> QED
      BY <1>2, <1>3, <1>4, <2>1, <2>2 DEF SelectExact, LimitReported
  <1>6. CASE ~Unsatisfiable(ms)
    <2> DEFINE found == {s \in Written : PreFilter(ms, s)}
    <2>1. PICK sub \in Limited(found, MaxSeries) :
            answer' = CheckLimit({s \in sub : MatchesAll(s, ms)})
      <3>1. answer' \in SelectSeriesMatching(ms, <<0, 0>>, FALSE)
        BY <1>6 DEF Select
      <3> QED
        BY <3>1 DEF SelectSeriesMatching
    <2>2. IsFiniteSet(found) /\ found \subseteq Written
      BY FS_Subset DEF Written_OK
    <2>3. ASSUME ~Exceeds, \A i \in DOMAIN ms : ~NegatedPrefix(ms[i])
          PROVE  answer' = Rows(Expected(ms))
      <3>1. Cardinality(Written) < MaxSeries
        BY <2>3, FS_CardinalityType, SelectionAssumption
           DEF Exceeds, Written_OK
      <3>2. sub = found
        BY <2>1, <2>2, <3>1, BelowLimit DEF Written_OK
      <3>3. {s \in found : MatchesAll(s, ms)} = Expected(ms)
        BY <2>3, PreFilterComplete DEF Expected, Written_OK
      <3>4. Expected(ms) \in SUBSET found
        BY <3>3
      <3>5. CheckLimit(Expected(ms)) = Rows(Expected(ms))
        BY <2>2, <3>1, <3>4, BelowLimit DEF Written_OK
      <3> QED
        BY <2>1, <3>2, <3>3, <3>5
    <2>4. ASSUME AllTight(ms)
          PROVE  \/ answer' = Rows(Expected(ms))
                 \/ /\ answer' = Error
                    /\ Cardinality(Expected(ms)) >= MaxSeries
      <3>1. found = Expected(ms)
        BY <2>4, TightPreFilterExact DEF Expected, Written_OK
      <3>2. sub \subseteq found
        BY <2>1 DEF Limited
      <3>3. {s \in sub : MatchesAll(s, ms)} = sub
        BY <3>1, <3>2 DEF Expected
      <3> HIDE DEF found
      <3> QED
        BY <2>1, <2>2, <3>1, <3>3, LimitOrAll
    <2>5. Exceeds' = Exceeds
      BY <1>1 DEF Exceeds
    <2>6. SelectExact'
      BY <1>1, <1>2, <1>3, <2>3, <2>5 DEF SelectExact
    <2>7. LimitReported'
      BY <1>1, <1>2, <1>3, <2>4 DEF LimitReported
    <2> QED
      BY <1>4, <2>6, <2>7
  <1> QED
    BY <1>5, <1>6

(* SelectIds establishes its own, on either of its SQL shapes.              *)
LEMMA SelectIdsStep ==
    ASSUME Written_OK, NEW ms \in MatcherLists, SelectIds(ms)
    PROVE  TightIdsExact'
  <1>1. query'.ms = ms /\ Written' = Written /\ answer' = Rows(SelectedIds(ms))
    BY DEF SelectIds, Written
  <1>2. Expected(ms)' = Expected(ms)
    BY <1>1 DEF Expected
  <1>3. ASSUME AllTight(ms),
               \A i, j \in DOMAIN ms :
                  ms[i].name = MetricName /\ ms[j].name = MetricName => i = j
        PROVE  SelectedIds(ms) = Expected(ms)
    <2>1. CASE FromIndex(ms)
      BY <1>3, <2>1, TightIndexExact DEF SelectedIds, Expected, Written_OK
    <2>2. CASE ~FromIndex(ms)
      BY <1>3, <2>2, TightPreFilterExact DEF SelectedIds, Expected, Written_OK
    <2> QED
      BY <2>1, <2>2
  <1> QED
    BY <1>1, <1>2, <1>3 DEF TightIdsExact

(* HandleSeries establishes its own, with or without the Go-side filter.    *)
LEMMA HandleSeriesStep ==
    ASSUME Written_OK, NEW ms \in MatcherLists, NEW w \in Windows,
           HandleSeries(ms, w)
    PROVE  SeriesActive'
  <1> DEFINE found == {s \in Written : TimeFilter(ms, s, w) /\ PreFilter(ms, s)}
             listed == {s \in Expected(ms) : ActiveIn(s, w)}
  <1>1. /\ query'.ms = ms /\ query'.w = w
        /\ Written' = Written /\ samples' = samples
    BY DEF HandleSeries, Written
  <1>2. Exceeds' = Exceeds /\ (listed)' = listed
    BY <1>1 DEF Exceeds, Expected, ActiveIn
  <1>3. ASSUME ~Exceeds, AllTight(ms), ExactMetric(ms) # {}
        PROVE  answer' = Rows(listed)
    <2>1. found = listed
      <3>1. \A s \in Written : PreFilter(ms, s) <=> MatchesAll(s, ms)
        BY <1>3, TightPreFilterExact DEF Written_OK
      <3>2. \A s \in Written : MatchesAll(s, ms)
                                => s[MetricName] \in ExactMetric(ms)
        BY <1>3, MatchingMetric DEF Written_OK
      <3> QED
        BY <1>3, <3>1, <3>2 DEF TimeFilter, Expected
    <2>2. Cardinality(Written) < MaxSeries /\ IsFiniteSet(Written)
      BY <1>3, FS_CardinalityType, SelectionAssumption DEF Exceeds, Written_OK
    <2>3. listed \in SUBSET Written /\ listed \in SUBSET listed
      BY DEF Expected
    <2>4. {s \in listed : MatchesAll(s, ms)} = listed
      BY DEF Expected
    <2> HIDE DEF found, listed
    <2>5. /\ Limited(listed, MaxSeries) = {listed}
          /\ CheckLimit(listed) = Rows(listed)
      BY <2>2, <2>3, BelowLimit
    <2>6. CASE PushdownSafe(ms)
      <3>1. answer' \in SelectActiveSeriesJSON(ms, w)
        BY <2>6 DEF HandleSeries
      <3>2. PICK rows \in Limited(found, MaxSeries) : answer' = CheckLimit(rows)
        BY <3>1 DEF SelectActiveSeriesJSON, found
      <3> QED
        BY <2>1, <2>5, <3>2
    <2>7. CASE ~PushdownSafe(ms)
      <3>1. answer' \in SelectSeriesMatching(ms, w, TRUE)
        BY <2>7 DEF HandleSeries
      <3>2. PICK rows \in Limited(found, MaxSeries) :
              answer' = CheckLimit({s \in rows : MatchesAll(s, ms)})
        BY <3>1 DEF SelectSeriesMatching, found
      <3> QED
        BY <2>1, <2>4, <2>5, <3>2
    <2> QED
      BY <2>6, <2>7
  <1> QED
    BY <1>1, <1>2, <1>3 DEF SeriesActive

(* A step that leaves no query of a kind behind keeps that kind's           *)
(* properties.                                                             *)
LEMMA NoSelect ==
    ASSUME query'.kind # "select"
    PROVE  (UnsatisfiableSound /\ SelectExact /\ LimitReported)'
  BY DEF UnsatisfiableSound, SelectExact, LimitReported

LEMMA NoIds ==
    ASSUME query'.kind # "ids" PROVE TightIdsExact'
  BY DEF TightIdsExact

LEMMA NoSeries ==
    ASSUME query'.kind # "series" PROVE SeriesActive'
  BY DEF SeriesActive

LEMMA SelectionInductive ==
    Spec => []SelectionInv
  <1>1. Init => SelectionInv
    <2> SUFFICES ASSUME Init PROVE SelectionInv
      OBVIOUS
    <2>1. Written = {} /\ query.kind = "none"
      BY DEF Init, Written, NoQuery
    <2> QED
      BY <2>1, FS_EmptySet
         DEF SelectionInv, Written_OK, UnsatisfiableSound, SelectExact,
             LimitReported, TightIdsExact, SeriesActive
  <1>2. SelectionInv /\ [Next]_vars => SelectionInv'
    <2> SUFFICES ASSUME SelectionInv, [Next]_vars PROVE SelectionInv'
      OBVIOUS
    <2> USE DEF SelectionInv
    <2>1. CASE UNCHANGED vars
      BY <2>1 DEF vars, Written_OK, UnsatisfiableSound, SelectExact,
                  LimitReported, TightIdsExact, SeriesActive, ActiveIn,
                  Written, Exceeds, Expected
    <2>2. ASSUME NEW s \in Series, NEW t \in Times, WriteSample(s, t)
          PROVE  SelectionInv'
      <3>1. Written' = Written \cup {s}
        BY <2>2 DEF WriteSample, Written
      <3>2. Written_OK'
        BY <3>1, FS_AddElement DEF Written_OK
      <3>3. query'.kind = "none"
        BY <2>2 DEF WriteSample, NoQuery
      <3> QED
        BY <3>2, <3>3, NoSelect, NoIds, NoSeries
    <2>3. ASSUME NEW ms \in MatcherLists, Select(ms)
          PROVE  SelectionInv'
      <3>1. query'.kind = "select" /\ Written_OK'
        BY <2>3 DEF Select, Written_OK, Written
      <3> QED
        BY <2>3, <3>1, SelectStep, NoIds, NoSeries
    <2>4. ASSUME NEW ms \in MatcherLists, SelectIds(ms)
          PROVE  SelectionInv'
      <3>1. query'.kind = "ids" /\ Written_OK'
        BY <2>4 DEF SelectIds, Written_OK, Written
      <3> QED
        BY <2>4, <3>1, SelectIdsStep, NoSelect, NoSeries
    <2>5. ASSUME NEW ms \in MatcherLists, NEW w \in Windows,
                 HandleSeries(ms, w)
          PROVE  SelectionInv'
      <3>1. query'.kind = "series" /\ Written_OK'
        BY <2>5 DEF HandleSeries, Written_OK, Written
      <3> QED
        BY <2>5, <3>1, HandleSeriesStep, NoSelect, NoIds
    <2>6. CASE Respond
      <3>1. query'.kind = "none" /\ Written_OK'
        BY <2>6 DEF Respond, NoQuery, Written_OK, Written
      <3> QED
        BY <3>1, NoSelect, NoIds, NoSeries
    <2> QED
      BY <2>1, <2>2, <2>3, <2>4, <2>5, <2>6 DEF Next
  <1> QED
    BY <1>1, <1>2, PTL DEF Spec

(* Below the series limit Select's answer is exactly the matching series,   *)
(* whatever the label index pruned, unless a negated regular expression    *)
(* with a literal prefix takes part (storage.go:399-445, 688-843).         *)
THEOREM SelectIsExact == Spec => []SelectExact
  BY SelectionInductive, PTL DEF SelectionInv

(* With exact conditions an answer is either complete or the limit error,   *)
(* and the error is only reported when the limit is reached                *)
(* (storage.go:399-445).                                                   *)
THEOREM LimitIsReported == Spec => []LimitReported
  BY SelectionInductive, PTL DEF SelectionInv

(* The short cut of Select answers "nothing" only to queries that no series *)
(* can ever satisfy (storage.go:139-173).                                  *)
THEOREM UnsatisfiableIsSound == Spec => []UnsatisfiableSound
  BY SelectionInductive, PTL DEF SelectionInv

(* With exact conditions and the metric name constrained at most once, the  *)
(* ids that pushed-down queries aggregate over are those of the matching   *)
(* series, whether the series table or the label index is read             *)
(* (fastpath.go:1451-1522).                                                *)
THEOREM IdsAreExact == Spec => []TightIdsExact
  BY SelectionInductive, PTL DEF SelectionInv

(* Below the limit /series lists the matching series with a sample in the   *)
(* window, and no others, whatever the times in the series row say         *)
(* (storage.go:500-540).                                                   *)
THEOREM SeriesAreActive == Spec => []SeriesActive
  BY SelectionInductive, PTL DEF SelectionInv
=============================================================================
