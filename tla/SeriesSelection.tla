--------------------------- MODULE SeriesSelection ---------------------------
(***************************************************************************)
(* How a PromQL selector becomes a set of series (storage.go, fastpath.go):*)
(* the matchers are turned into SQL conditions on the series table and on  *)
(* the label index, ClickHouse applies them and a LIMIT, and the paths that*)
(* read label sets check the matchers again in Go. The paths that only     *)
(* need ids or raw rows trust the SQL.                                     *)
(*                                                                         *)
(* A regular expression is abstracted to what the code asks of it: the     *)
(* values it matches (lang), the literals it is an alternation of (lits,   *)
(* SetMatches) and the values that start with its literal prefix (prefix,  *)
(* Prefix). A label that a series does not have is the value Empty.        *)
(***************************************************************************)
EXTENDS Integers, FiniteSets, Sequences

CONSTANTS
    Names,        \* label names, MetricName among them
    MetricName,   \* labels.MetricName
    Values,       \* label values, Empty among them
    Empty,        \* the empty string: no such label
    Series,       \* the label sets that may be written
    Matchers,     \* the matchers a query may use
    MaxMatchers,  \* bound: matchers per query
    Times,        \* sample timestamps
    MaxSeries,    \* cfg.MaxSeries
    MaxSamples    \* bound: samples written

Positive == {"=", "=~"}
MatcherType == [name : Names, type : {"=", "!=", "=~", "!~"},
                lang : SUBSET Values, lits : SUBSET Values,
                prefix : SUBSET Values, noop : BOOLEAN]

ASSUME SelectionAssumption ==
    /\ MetricName \in Names
    /\ Empty \in Values
    /\ Series \subseteq [Names -> Values]
    /\ \A s \in Series : s[MetricName] # Empty
    /\ Matchers \subseteq MatcherType
    /\ Times \subseteq Int
    /\ MaxSeries \in Nat \ {0}
    /\ MaxSamples \in Nat
    /\ MaxMatchers \in Nat

(* What labels.Matcher guarantees about its own answers: an alternation of  *)
(* literals matches exactly these; what a regular expression matches starts *)
(* with its literal prefix, which is not empty; .* matches everything.     *)
ASSUME MatcherAssumption ==
    \A m \in Matchers :
        /\ m.lits # {} => m.lits = m.lang
        /\ m.prefix # {} => m.lang \subseteq m.prefix /\ Empty \notin m.prefix
        /\ m.type \in {"=", "!="} => /\ m.lits = {} /\ m.prefix = {}
                                     /\ \E v \in Values : m.lang = {v}
        /\ m.noop => m.type = "=~" /\ m.lang = Values

VARIABLES
    rowTimes,   \* the series table: [lo, hi] of each written series
    samples,    \* the sample table: pairs <<series, time>>
    query,      \* the query being answered, or NoQuery
    answer      \* what it was answered with

vars == <<rowTimes, samples, query, answer>>

NoQuery == [kind |-> "none"]
Written == DOMAIN rowTimes

-----------------------------------------------------------------------------
(* Matching.                                                                *)

(* labels.Matcher.Matches                                                   *)
Matches(m, v) == (v \in m.lang) <=> (m.type \in Positive)

(* matchesAll                                                               *)
MatchesAll(s, ms) == \A i \in DOMAIN ms : Matches(ms[i], s[ms[i].name])

(* matcherIsNoop, matchersPushdownSafe                                      *)
PushdownSafe(ms) ==
    /\ ms # <<>>
    /\ \A i \in DOMAIN ms :
         \/ ms[i].noop
         \/ ms[i].name = MetricName
         \/ ms[i].type \in Positive <=> ~Matches(ms[i], Empty)

(* matchersUnsatisfiable: some matcher lists its candidates and none of     *)
(* them satisfies every matcher on the same label.                         *)
Candidates(m) == CASE m.type = "=" -> m.lang
                   [] m.type = "=~" -> m.lits
                   [] OTHER -> {}

(* MUTANT of Unsatisfiable: one excluded candidate is enough.               *)
UnsatisfiableAny(ms) ==
    \E i \in DOMAIN ms :
        \E c \in Candidates(ms[i]) :
            \E j \in DOMAIN ms : ms[j].name = ms[i].name /\ ~Matches(ms[j], c)

Unsatisfiable(ms) ==
    \E i \in DOMAIN ms :
        /\ Candidates(ms[i]) # {}
        /\ \A c \in Candidates(ms[i]) :
             \E j \in DOMAIN ms : ms[j].name = ms[i].name /\ ~Matches(ms[j], c)

(* exactMetricName: the first one.                                          *)
ExactMetric(ms) ==
    LET exact == {i \in DOMAIN ms : /\ ms[i].name = MetricName
                                    /\ ms[i].type = "="
                                    /\ ms[i].lang # {Empty}}
    IN  IF exact = {} THEN {}
        ELSE ms[CHOOSE i \in exact : \A j \in exact : i <= j].lang

-----------------------------------------------------------------------------
(* The SQL conditions.                                                      *)

(* metricMatcherCondition, positiveLabelIndexMembershipCondition and        *)
(* negativeLabelIndexCondition: the values their condition accepts (for a  *)
(* negative matcher: rejects).                                             *)
ConditionValues(m) ==
    IF m.type \in {"=", "!="} THEN m.lang
    ELSE IF m.lits # {} THEN m.lits
    ELSE IF m.prefix # {} THEN m.prefix
    ELSE m.lang

(* metricNameConstraints: none for a matcher that accepts the empty name.   *)
MetricConstraint(m, s) ==
    m.name = MetricName /\ ~Matches(m, Empty) =>
        ((s[MetricName] \in ConditionValues(m)) <=> (m.type \in Positive))

(* MUTANT of HasMembership: positive matchers that accept "" are looked up. *)
HasMembershipOfEmpty(m) ==
    /\ m.name # MetricName
    /\ m.type \in Positive \/ Matches(m, Empty)

(* labelIndexMembershipCondition: whether a label matcher becomes a         *)
(* condition at all, and (by its type) IN or NOT IN.                       *)
HasMembership(m) ==
    /\ m.name # MetricName
    /\ m.type \in Positive <=> ~Matches(m, Empty)

(* A row of the label index for this series and label satisfies the         *)
(* condition; rows exist for labels the series has.                        *)
IndexHit(m, s) == s[m.name] # Empty /\ s[m.name] \in ConditionValues(m)

(* The id IN / id NOT IN filter of one label matcher; the subquery looks    *)
(* only at the exact metric, when there is one.                            *)
LabelFilter(m, ms, s) ==
    HasMembership(m) =>
        ((IndexHit(m, s) /\ s[MetricName] \in
            (IF ExactMetric(ms) = {} THEN Values ELSE ExactMetric(ms)))
         <=> (m.type \in Positive))

(* seriesPreFilters                                                         *)
PreFilter(ms, s) ==
    \A i \in DOMAIN ms : MetricConstraint(ms[i], s) /\ LabelFilter(ms[i], ms, s)

(* seriesTimeFilters: by the samples of an exact metric, else by the times  *)
(* in the series row, which are those of the batch that first wrote it.    *)
ActiveIn(s, w) == \E t \in Times : <<s, t>> \in samples /\ w[1] <= t /\ t <= w[2]

(* MUTANT of TimeFilter: the times of the series row are always trusted.    *)
TimeFilterByRow(ms, s, w) == rowTimes[s].hi >= w[1] /\ rowTimes[s].lo <= w[2]

TimeFilter(ms, s, w) ==
    IF ExactMetric(ms) # {}
    THEN ActiveIn(s, w) /\ s[MetricName] \in ExactMetric(ms)
    ELSE rowTimes[s].hi >= w[1] /\ rowTimes[s].lo <= w[2]

(* LIMIT n without an order: any n of the rows.                             *)
Limited(rows, n) ==
    IF Cardinality(rows) <= n THEN {rows}
    ELSE {sub \in SUBSET rows : Cardinality(sub) = n}

(* MUTANT of FromIndex: the metric is not required to be exact.             *)
FromIndexAnyMetric(ms) ==
    /\ \E i \in DOMAIN ms : HasMembership(ms[i]) /\ ms[i].type \in Positive
    /\ \A i \in DOMAIN ms : \/ ms[i].noop
                            \/ ms[i].name = MetricName
                            \/ HasMembership(ms[i])

(* selectedSeriesIDsFromLabelIndexSQL applies when there is an exact metric,*)
(* an IN matcher to start from and a condition for each label matcher that *)
(* is not .*                                                               *)
FromIndex(ms) ==
    /\ ExactMetric(ms) # {}
    /\ \E i \in DOMAIN ms : HasMembership(ms[i]) /\ ms[i].type \in Positive
    /\ \A i \in DOMAIN ms : \/ ms[i].noop
                            \/ ms[i].name = MetricName
                            \/ HasMembership(ms[i])

(* selectedSeriesSQL for ids.                                               *)
SelectedIds(ms) ==
    IF FromIndex(ms)
    THEN {s \in Written :
            /\ s[MetricName] \in ExactMetric(ms)
            /\ \A i \in DOMAIN ms :
                 ~ms[i].noop /\ ms[i].name # MetricName =>
                    (IndexHit(ms[i], s) <=> (ms[i].type \in Positive))}
    ELSE {s \in Written : PreFilter(ms, s)}

-----------------------------------------------------------------------------
(* The operations.                                                          *)

Rows(found) == [err |-> FALSE, rows |-> found]
Error == [err |-> TRUE, rows |-> {}]    \* "series limit exceeded"

(* MUTANT of CheckLimit: compares with > instead of >=.                     *)
CheckLimitAbove(found) ==
    IF Cardinality(found) > MaxSeries THEN Error ELSE Rows(found)

(* The limit check of the callers, after their Go-side filter if any.       *)
CheckLimit(found) ==
    IF Cardinality(found) >= MaxSeries THEN Error ELSE Rows(found)

(* selectSeriesMatching; activeOnly adds the time filters.                  *)
SelectSeriesMatching(ms, w, activeOnly) ==
    LET found == {s \in Written : /\ activeOnly => TimeFilter(ms, s, w)
                                  /\ PreFilter(ms, s)}
    IN  {CheckLimit({s \in rows : MatchesAll(s, ms)}) :
            rows \in Limited(found, MaxSeries)}

(* selectActiveSeriesJSON: the SQL is trusted.                              *)
SelectActiveSeriesJSON(ms, w) ==
    LET found == {s \in Written : TimeFilter(ms, s, w) /\ PreFilter(ms, s)}
    IN  {CheckLimit(rows) : rows \in Limited(found, MaxSeries)}

(* Any list, also an empty one: /series without match[]; match[] and remote *)
(* read may hold matchers that all accept the empty string.                *)
MatcherLists == UNION {[1..n -> Matchers] : n \in 0..MaxMatchers}
Windows == {w \in Times \X Times : w[1] <= w[2]}

Init ==
    /\ rowTimes = [s \in {} |-> [lo |-> 0, hi |-> 0]]
    /\ samples = {}
    /\ query = NoQuery
    /\ answer = Rows({})

(* Remote write of one sample: the series row is written once, with the     *)
(* times of the batch that brought the series (addRemoteWriteSeriesRecord).*)
WriteSample(s, t) ==
    /\ query = NoQuery
    /\ <<s, t>> \notin samples
    /\ Cardinality(samples) < MaxSamples
    /\ samples' = samples \cup {<<s, t>>}
    /\ rowTimes' = IF s \in Written THEN rowTimes
                   ELSE [x \in Written \cup {s} |->
                           IF x = s THEN [lo |-> t, hi |-> t] ELSE rowTimes[x]]
    /\ UNCHANGED <<query, answer>>

(* Select, up to the loading of samples: selectSeries.                      *)
Select(ms) ==
    /\ query = NoQuery
    /\ query' = [kind |-> "select", ms |-> ms]
    /\ IF Unsatisfiable(ms)
       THEN answer' = Rows({})
       ELSE answer' \in SelectSeriesMatching(ms, <<0, 0>>, FALSE)
    /\ UNCHANGED <<rowTimes, samples>>

(* handleSeries for one match[]: raw rows, or else selectActiveSeries.      *)
HandleSeries(ms, w) ==
    /\ query = NoQuery
    /\ query' = [kind |-> "series", ms |-> ms, w |-> w]
    /\ answer' \in IF PushdownSafe(ms) THEN SelectActiveSeriesJSON(ms, w)
                   ELSE SelectSeriesMatching(ms, w, TRUE)
    /\ UNCHANGED <<rowTimes, samples>>

(* The selected_series of label names, label values and pushed-down         *)
(* aggregations; without pushdown they go through Select.                  *)
SelectIds(ms) ==
    /\ query = NoQuery
    /\ PushdownSafe(ms)
    /\ query' = [kind |-> "ids", ms |-> ms]
    /\ answer' = Rows(SelectedIds(ms))
    /\ UNCHANGED <<rowTimes, samples>>

(* The response is sent.                                                    *)
Respond ==
    /\ query # NoQuery
    /\ query' = NoQuery
    /\ answer' = Rows({})
    /\ UNCHANGED <<rowTimes, samples>>

Next ==
    \/ \E s \in Series, t \in Times : WriteSample(s, t)
    \/ \E ms \in MatcherLists : \/ Select(ms)
                                \/ SelectIds(ms)
                                \/ \E w \in Windows : HandleSeries(ms, w)
    \/ Respond

Spec == Init /\ [][Next]_vars

-----------------------------------------------------------------------------
(* Properties.                                                              *)

Expected(ms) == {s \in Written : MatchesAll(s, ms)}

NegatedPrefix(m) == m.type = "!~" /\ m.lits = {} /\ m.prefix # {}
Prefixed(m) == m.type \in {"=~", "!~"} /\ m.lits = {} /\ m.prefix # {}

(* A condition that accepts exactly what its matcher accepts.               *)
Tight(m) == /\ ~Prefixed(m)
            /\ IF m.name = MetricName THEN ~Matches(m, Empty)
                                      ELSE m.noop \/ HasMembership(m)
AllTight(ms) == \A i \in DOMAIN ms : Tight(ms[i])

Exceeds == Cardinality(Written) >= MaxSeries

(* Below the limit, Select returns exactly the series that match, as long   *)
(* as no negated regular expression is pruned by its literal prefix: the   *)
(* label index may only narrow the candidates (storage.go:404-444,         *)
(* 684-843).                                                               *)
SelectExact ==
    query.kind = "select" /\ ~Exceeds
      /\ (\A i \in DOMAIN query.ms : ~NegatedPrefix(query.ms[i]))
    => answer = Rows(Expected(query.ms))

(* What the limit cuts off is reported, never silent, when every condition  *)
(* is exact: an answer that is not an error is complete                    *)
(* (storage.go:415-443).                                                   *)
LimitReported ==
    query.kind = "select" /\ AllTight(query.ms)
    => \/ answer = Rows(Expected(query.ms))
       \/ answer = Error /\ Cardinality(Expected(query.ms)) >= MaxSeries

(* The short cut of Select is sound: matchers found unsatisfiable match no  *)
(* series that could ever be written (storage.go:135-172).                 *)
UnsatisfiableSound ==
    query.kind = "select" /\ Unsatisfiable(query.ms)
    => \A s \in Series : ~MatchesAll(s, query.ms)

(* Whichever of its two SQL shapes it takes, the id selection is exact for  *)
(* conditions that are, unless the metric name is constrained twice        *)
(* (fastpath.go:1451-1522).                                                *)
TightIdsExact ==
    query.kind = "ids" /\ AllTight(query.ms)
      /\ (\A i, j \in DOMAIN query.ms :
            query.ms[i].name = MetricName /\ query.ms[j].name = MetricName
              => i = j)
    => answer = Rows(Expected(query.ms))

(* /series with an exact metric name and exact conditions lists the         *)
(* matching series that have a sample in the window, however long after    *)
(* the series row was written (storage.go:500-540).                        *)
SeriesActive ==
    query.kind = "series" /\ ~Exceeds /\ AllTight(query.ms)
      /\ ExactMetric(query.ms) # {}
    => answer = Rows({s \in Expected(query.ms) : ActiveIn(s, query.w)})

(* "exact Prometheus matcher semantics are preserved by a final Go-side     *)
(* matcher filter" (PERFORMANCE.md:453-454): below the limit, no matching   *)
(* series is missing from Select's answer.                                 *)
NoMatchLost ==
    query.kind = "select" /\ ~Exceeds => Expected(query.ms) \subseteq answer.rows

(* Query shapes are pushed down only when that is safe (README.md:567): the *)
(* ids that a pushed-down selection returns all match its matchers.        *)
PushdownExact ==
    query.kind = "ids" => answer.rows \subseteq Expected(query.ms)
=============================================================================
