--------------------------- MODULE HistogramRange ---------------------------
(* A range query for the buckets of stored histograms in the PostHog        *)
(* layout: sum by (le) of a counter function. The compact evaluator reads   *)
(* the rows of one source after the other and keeps only the points its     *)
(* next steps need (posthog_histogram_compact.go). When the rows are not    *)
(* what it can handle, the query is read again in general: the builder of   *)
(* posthog_histogram.go makes one series per label set and bound, and the   *)
(* engine reads each of them through the iterator of storage.go.            *)
(*                                                                          *)
(* A row is one stored sample: [id, t, bounds, counts, count, temporality]; *)
(* store is the rows in the order in which ClickHouse returns them, by      *)
(* source and time. The quantile over the summed buckets is the engine's.   *)
EXTENDS RollupSQL

CONSTANTS
    Stores,          \* the sequences of rows a query may find
    LabelsOf,        \* the label set of each source id
    Plans,           \* the requests: a call of Rollup with start, steps, compact
    Inf,             \* the bound of the last bucket, above every other
    MaxUint64, MaxSamples, MaxSeries,
    Hour,            \* an hour, in the units of timestamps
    Windows, Offsets \* the windows and offsets the SQL rollups are compared with

(* A stored row, and a call of the request.                                 *)
Row == [id : DOMAIN LabelsOf, t : Int, bounds : Seq(Int), counts : Seq(Nat), count : Nat,
        temporality : STRING]
RangePlan ==
    [name : CounterFunctions, window : Nat, step : Nat \ {0}, lookback : Nat \ {0},
     offset : {0}, instant : {FALSE}, start : Int, steps : Nat \ {0}, compact : BOOLEAN]

ASSUME HistogramAssumption ==
    /\ MaxUint64 \in Nat /\ MaxSamples \in Nat /\ MaxSeries \in Nat /\ Inf \in Nat
    /\ Hour \in Nat \ {0} /\ Windows \subseteq Nat /\ Offsets \subseteq Int
    /\ Stores \subseteq Seq(Row) /\ Plans \subseteq RangePlan

VARIABLES
    store, plan,
    phase,    \* compact, build, engine, done or failed
    path,     \* who answers: "compact" or "general"
    row,      \* the number of rows read so far
    ev,       \* the compact evaluator
    built,    \* the builder of the general path
    it,       \* the iterator the engine reads and its position
    read,     \* the series the engine has read
    sums      \* the summed buckets: bound -> step -> value

vars == <<store, plan, phase, path, row, ev, built, it, read, sums>>

GridTime(g) == plan.start + g * plan.step
Grid == 0..(plan.steps - 1)
End == GridTime(plan.steps - 1)

(* The rows of a read from mint to the end of the request.                  *)
RowsFrom(mint) ==
    Picked(store, {i \in DOMAIN store : store[i].t >= mint /\ store[i].t <= End})

(* readCompactHistogram: where its read begins.                             *)
CompactMint == plan.start - plan.window - plan.lookback + 1
CompactRows == RowsFrom(CompactMint)

(* The engine asks for the selector's range before the first step.          *)
GeneralRows == RowsFrom(plan.start - SelectorRange(plan) + 1)

BoundsOf(r) == Append(r.bounds, Inf)
Cumulative(r) == [i \in DOMAIN r.counts |-> SumFunctionOnSet(r.counts, 1..i)]

(* The conditions of postHogHistogramBuckets, which add repeats: a bound    *)
(* from Inf on is not finite.                                               *)
BadLengths(r) == Len(r.counts) # Len(r.bounds) + 1
BadBuckets(r) ==
    \/ \E i \in DOMAIN r.counts : Cumulative(r)[i] > MaxUint64
    \/ \E i \in DOMAIN r.bounds : r.bounds[i] >= Inf
    \/ \E i \in 2..Len(r.bounds) : r.bounds[i] <= r.bounds[i - 1]
    \/ Cumulative(r)[Len(r.counts)] # r.count

-----------------------------------------------------------------------------
(* The compact evaluator.                                                   *)

NewEvaluator ==
    [have |-> FALSE, id |-> 0, bounds |-> <<>>, current |-> <<>>, history |-> <<>>,
     grid |-> 0, samples |-> 0, series |-> 0, buckets |-> {}]

(* irate and idelta read the last two points, and the estimate one point    *)
(* more than its intervals.                                                 *)
InstantPoints == IntervalPoints + 1

(* MUTANT of FirstKept: a history is cut as soon as it passes the limit, to *)
(* one point less than the estimate needs.                                  *)
FirstKeptShort(times, ts) ==
    LET first == Cardinality({i \in DOMAIN times : times[i].t <= ts - SelectorRange(plan)})
    IN  IF plan.name \in LastTwo /\ Len(times) - first > InstantPoints
          THEN Len(times) - IntervalPoints
          ELSE first

(* How many points of a history no later step needs.                        *)
FirstKept(times, ts) ==
    LET first == Cardinality({i \in DOMAIN times : times[i].t <= ts - SelectorRange(plan)})
    IN  IF plan.name \in LastTwo /\ Len(times) - first > 2 * InstantPoints
          THEN Len(times) - InstantPoints
          ELSE first

(* The sums with each bucket's value at step g added. The buckets of a      *)
(* source share their times.                                                *)
AddValues(s, columns, history, g, first, start, maxPrev) ==
    [b \in DOMAIN s |->
        IF b \notin Range(columns) THEN s[b]
        ELSE [s[b] EXCEPT ![g] = AddValue(@,
                metricsQLCounterValue(plan.name,
                    history[CHOOSE i \in DOMAIN columns : columns[i] = b],
                    first, start, maxPrev, plan.lookback))]]

SumFrom(s, columns, history, g, start, maxPrev) ==
    AddValues(s, columns, history, g, CountUntil(history[1], start) + 1, start, maxPrev)

SumWith(s, columns, history, g, maxPrev) ==
    SumFrom(s, columns, history, g, GridTime(g) - WindowOf(plan, maxPrev), maxPrev)

SumStep(s, columns, history, g) ==
    IF history = <<>> \/ Head(history) = <<>> THEN s
    ELSE SumWith(s, columns, history, g,
             Smaller(metricsQLSampleInterval(history[1], plan.step), plan.lookback))

CutHistory(history, ts) ==
    [i \in DOMAIN history |->
        SubSeq(history[i], FirstKept(history[1], ts) + 1, Len(history[i]))]

(* One iteration of advance: cut the histories, then add the values.        *)
AdvanceWith(s, g, history) ==
    [s EXCEPT !.history = history, !.sums = SumStep(@, s.columns, history, g)]
AdvanceStep(s, g) == AdvanceWith(s, g, CutHistory(s.history, GridTime(g)))

(* advance: every step before until, or every step left when it finishes.   *)
Advance(e, s, until, finish) ==
    LET grids == SelectSeq([i \in 1..plan.steps |-> i - 1],
                           LAMBDA g : g >= e.grid /\ (finish \/ GridTime(g) < until))
        end == FoldLeft(AdvanceStep,
                        [history |-> e.history, columns |-> Append(e.bounds, Inf), sums |-> s],
                        grids)
    IN  [ev |-> [e EXCEPT !.history = end.history, !.grid = @ + Len(grids)], sums |-> end.sums]

(* The evaluator when row r arrives: a new source ends the one before.      *)
EndSource(r) ==
    IF ev.have /\ ev.id # r.id
      THEN [Advance(ev, sums, 0, TRUE) EXCEPT !.ev.have = FALSE]
      ELSE [ev |-> ev, sums |-> sums]

(* The state of a new source, and the columns of buckets not seen yet.      *)
OpenSource(e, r) ==
    [e EXCEPT !.have = TRUE, !.id = r.id, !.bounds = r.bounds,
              !.current = [i \in DOMAIN r.counts |-> 0],
              !.history = [i \in DOMAIN r.counts |-> <<>>],
              !.grid = 0, !.series = @ + Len(r.counts),
              !.buckets = @ \cup Range(BoundsOf(r))]
OpenColumns(s, r) ==
    [b \in DOMAIN s \cup Range(BoundsOf(r)) |-> IF b \in DOMAIN s THEN s[b] ELSE [g \in Grid |-> NaN]]

(* A repeated timestamp with other counts.                                  *)
Duplicate(e, r) ==
    LET times == e.history[1]
    IN  times # <<>> /\ times[Len(times)].t = r.t /\ e.current # Cumulative(r)

(* What add says of row r to the evaluator e, in the order of its checks.   *)
Verdict(e, r) ==
    CASE r.temporality # "cumulative" -> "fallback"
      [] r.temporality = "cumulative" /\ BadLengths(r) -> "fallback"
      [] OTHER ->
           IF e.samples + Len(r.counts) > MaxSamples THEN "error"
           ELSE IF ~e.have /\ e.series + Len(r.counts) > MaxSeries THEN "error"
           ELSE IF ~e.have /\ Range(BoundsOf(r)) \ e.buckets # {}
                     /\ Cardinality(e.buckets \cup Range(BoundsOf(r))) > MaxSamples \div plan.steps
             THEN "fallback"
           ELSE IF e.have /\ e.bounds # r.bounds THEN "fallback"
           ELSE "ok"

(* The query leaves the compact path, or fails.                             *)
LeaveCompact(next) ==
    /\ phase' = next /\ path' = "general"
    /\ row' = 0 /\ ev' = NewEvaluator /\ sums' = <<>>

(* The end of add, once the steps before the row are evaluated.             *)
AddPoint(r, e, s) ==
    LET times == e.history[1]
        late == times # <<>> /\ times[Len(times)].t > r.t
    IN  IF late \/ BadBuckets(r) \/ Duplicate(e, r)
          THEN LeaveCompact("build")
          ELSE /\ ev' = [e EXCEPT !.current = Cumulative(r),
                                  !.history = [i \in DOMAIN @ |->
                                      Append(@[i], [t |-> r.t, v |-> Cumulative(r)[i]])]]
               /\ sums' = s /\ row' = row + 1
               /\ UNCHANGED <<phase, path>>

AddAdvanced(r, moved) == AddPoint(r, moved.ev, moved.sums)

AddOpened(r, e, s) == AddAdvanced(r, Advance(e, s, r.t, FALSE))

(* add for the evaluator e, whose source is r's or has ended.               *)
AddRow(r, e, s) ==
    CASE Verdict(e, r) = "fallback" -> LeaveCompact("build")
      [] Verdict(e, r) = "error" -> LeaveCompact("failed")
      [] OTHER -> LET counted == [e EXCEPT !.samples = @ + Len(r.counts)]
                  IN  AddOpened(r, IF e.have THEN counted ELSE OpenSource(counted, r),
                                OpenColumns(s, r))

AddAfter(r, before) == AddRow(r, before.ev, before.sums)

(* add: one row of the compact read.                                        *)
CompactAdd ==
    /\ phase = "compact" /\ row < Len(CompactRows)
    /\ AddAfter(CompactRows[row + 1], EndSource(CompactRows[row + 1]))
    /\ UNCHANGED <<store, plan, built, it, read>>

(* The end of the compact read: the last source's steps are evaluated.      *)
CompactFinish ==
    /\ phase = "compact" /\ row = Len(CompactRows)
    /\ LET end == Advance(ev, sums, 0, TRUE) IN ev' = end.ev /\ sums' = end.sums
    /\ phase' = "done"
    /\ UNCHANGED <<store, plan, path, row, built, it, read>>

-----------------------------------------------------------------------------
(* The general path: the builder.                                           *)

NewBuilder == [series |-> <<>>, previous |-> <<>>, temporality |-> <<>>, samples |-> 0]

(* The series with keyed points appended, each to the series of its key.    *)
AppendTo(series, points) ==
    [k \in DOMAIN series \cup {p.key : p \in Range(points)} |->
        LET added == Picked(points, {i \in DOMAIN points : points[i].key = k})
        IN  (IF k \in DOMAIN series THEN series[k] ELSE <<>>)
              \o [i \in DOMAIN added |-> [t |-> added[i].t, v |-> added[i].v]]]

(* The buckets a source had in its row before r and no longer has in r get  *)
(* a stale marker at r's time.                                              *)
Gone(r) == IF r.id \in DOMAIN built.previous
             THEN built.previous[r.id] \ Range(BoundsOf(r)) ELSE {}

Keyed(r, b, v) == [key |-> <<LabelsOf[r.id], b>>, t |-> r.t, v |-> v]
PointsOf(r) == [i \in DOMAIN BoundsOf(r) |-> Keyed(r, BoundsOf(r)[i], Cumulative(r)[i])]
MarkersOf(r) ==
    LET gone == Ranked(Gone(r), <=) IN [i \in DOMAIN gone |-> Keyed(r, gone[i], Stale)]

(* addSample: one row of the general read. The selector names its metric,   *)
(* so a row that cannot become points fails the query, and so does a second *)
(* temporality in one label set.                                            *)
BuildRow(r, labels, added) ==
    LET series == AppendTo(built.series, added)
    IN  IF \/ BadLengths(r) \/ BadBuckets(r)
           \/ r.temporality \notin {"cumulative", "delta"}
           \/ labels \in DOMAIN built.temporality /\ built.temporality[labels] # r.temporality
           \/ built.samples + Len(added) > MaxSamples
           \/ Cardinality(DOMAIN series) > MaxSeries
          THEN phase' = "failed" /\ UNCHANGED <<row, built>>
          ELSE /\ built' = [series |-> series,
                            previous |-> [k \in DOMAIN built.previous \cup {r.id} |->
                                IF k = r.id THEN Range(BoundsOf(r)) ELSE built.previous[k]],
                            temporality |-> [k \in DOMAIN built.temporality \cup {labels} |->
                                IF k = labels THEN r.temporality ELSE built.temporality[k]],
                            samples |-> built.samples + Len(added)]
               /\ row' = row + 1 /\ UNCHANGED phase

BuildAdd ==
    /\ phase = "build" /\ row < Len(GeneralRows)
    /\ LET r == GeneralRows[row + 1]
       IN  BuildRow(r, LabelsOf[r.id], PointsOf(r) \o MarkersOf(r))
    /\ UNCHANGED <<store, plan, path, ev, it, read, sums>>

(* MUTANT of SortSamples: points stay in the order of the rows.             *)
SortSamplesNot(points) == points

(* sortSamples, by time.                                                    *)
SortSamples(points) == SortBy(points, LAMBDA p : p.t)

(* accumulatePostHogDeltaSamples: a running total with one point per        *)
(* timestamp; a marker stays when nothing else shares its timestamp.        *)
Accumulate(points) ==
    LET times == Ranked({points[i].t : i \in DOMAIN points}, <=)
        Finite(s) == {i \in s : points[i].v # Stale}
        At(t) == Finite({i \in DOMAIN points : points[i].t = t})
        UpTo(t) == Finite({i \in DOMAIN points : points[i].t <= t})
    IN  [k \in DOMAIN times |->
            [t |-> times[k],
             v |-> IF At(times[k]) = {} THEN Stale
                   ELSE SumFunctionOnSet(Values(points), UpTo(times[k]))]]

(* finish: sorted series, and running totals of delta points.               *)
BuildFinish ==
    /\ phase = "build" /\ row = Len(GeneralRows)
    /\ built' = [built EXCEPT !.series = [k \in DOMAIN @ |->
           LET sorted == SortSamples(@[k])
           IN  IF built.temporality[k[1]] = "delta" THEN Accumulate(sorted) ELSE sorted]]
    /\ sums' = [b \in {k[2] : k \in DOMAIN built.series} |-> [g \in Grid |-> NaN]]
    /\ phase' = "engine"
    /\ UNCHANGED <<store, plan, path, row, ev, it, read>>

-----------------------------------------------------------------------------
(* The general path: the iterator, read by the engine.                      *)

(* Next moves on, and stays after the end.                                  *)
NextIdx(points, idx) == IF idx > Len(points) THEN idx ELSE idx + 1

(* MUTANT of SeekIdx: a seek always leaves the current point.               *)
SeekIdxMoves(points, idx, t) ==
    idx + 1 + Cardinality({i \in (idx + 1)..Len(points) : points[i].t < t})

(* Seek stays when the current point is late enough; otherwise it searches  *)
(* the points after the current one.                                        *)
SeekIdx(points, idx, t) ==
    IF idx \in DOMAIN points /\ points[idx].t >= t
      THEN idx
      ELSE idx + 1 + Cardinality({i \in (idx + 1)..Len(points) : points[i].t < t})

NoIterator == [key |-> <<>>, idx |-> 0, passed |-> <<>>, grid |-> 0, fill |-> FALSE]
Points == built.series[it.key]
Valid == it.idx \in DOMAIN Points

(* Iterator, and the engine's first Next. Series come in label order.       *)
OpenIterator ==
    /\ phase = "engine" /\ it.key = <<>>
    /\ \E k \in DOMAIN built.series :
         /\ it' = [NoIterator EXCEPT !.key = k, !.idx = NextIdx(built.series[k], 0)]
         /\ \A j \in DOMAIN built.series :
              j[1] < k[1] \/ (j[1] = k[1] /\ j[2] < k[2]) => j \in read
         /\ k \notin read
    /\ UNCHANGED <<store, plan, phase, path, row, ev, built, read, sums>>

(* The engine begins a step: it seeks to the start of the step's range when *)
(* it has read nothing yet or that start lies ahead.                        *)
EngineSeek ==
    /\ phase = "engine" /\ it.key # <<>> /\ ~it.fill
    /\ LET low == GridTime(it.grid) - SelectorRange(plan)
           ahead == Valid /\ (it.grid = 0 \/ low > Points[it.idx].t)
       IN  it' = [it EXCEPT !.fill = TRUE,
                            !.idx = IF ahead THEN SeekIdx(Points, @, low) ELSE @,
                            !.passed = IF ahead THEN <<>> ELSE @]
    /\ UNCHANGED <<store, plan, phase, path, row, ev, built, read, sums>>

(* Points before the step's time are passed over and remembered.            *)
EngineNext ==
    /\ phase = "engine" /\ it.fill /\ Valid /\ Points[it.idx].t < GridTime(it.grid)
    /\ it' = [it EXCEPT !.idx = NextIdx(Points, @), !.passed = Append(@, Points[it.idx])]
    /\ UNCHANGED <<store, plan, phase, path, row, ev, built, read, sums>>

Ready == it.fill /\ ~(Valid /\ Points[it.idx].t < GridTime(it.grid))

(* The points the engine hands to the function at the current step.         *)
EngineWindow ==
    Picked(it.passed,
           {i \in DOMAIN it.passed : it.passed[i].t > GridTime(it.grid) - SelectorRange(plan)})
        \o IF Valid /\ Points[it.idx].t = GridTime(it.grid) THEN <<Points[it.idx]>> ELSE <<>>

(* The function at the current step, added to its bucket's sum.             *)
EngineEvaluate ==
    /\ phase = "engine" /\ Ready
    /\ sums' = [sums EXCEPT ![it.key[2]][it.grid] =
                   AddValue(@, metricsQLRollup(plan, EngineWindow, GridTime(it.grid)))]
    /\ IF it.grid < plan.steps - 1
         THEN it' = [it EXCEPT !.grid = @ + 1, !.fill = FALSE] /\ UNCHANGED read
         ELSE it' = NoIterator /\ read' = read \cup {it.key}
    /\ UNCHANGED <<store, plan, phase, path, row, ev, built>>

(* Every series is read: the sums are answered.                             *)
EngineDone ==
    /\ phase = "engine" /\ it.key = <<>> /\ read = DOMAIN built.series
    /\ phase' = "done"
    /\ UNCHANGED <<store, plan, path, row, ev, built, it, read, sums>>

(* ClickHouse fails or the request's context ends during a read.            *)
ReadFails ==
    /\ phase \in {"compact", "build"}
    /\ phase' = "failed"
    /\ UNCHANGED <<store, plan, path, row, ev, built, it, read, sums>>

HourOf(t) == t - (t % Hour)

(* postHogExactHistogramMetadataSQL: the sources of the series table, which *)
(* knows in which hours a series has rows, and no more.                     *)
MetadataIds ==
    {store[i].id : i \in {i \in DOMAIN store :
        HourOf(CompactMint) <= HourOf(store[i].t) /\ HourOf(store[i].t) <= HourOf(End)}}

(* tryCompactHistogramRange: the compact read needs its flag, a call it can *)
(* plan and sources that differ in their labels.                            *)
CompactSources ==
    plan.compact /\ \A i, j \in MetadataIds : LabelsOf[i] = LabelsOf[j] => i = j

Init ==
    /\ store \in Stores /\ plan \in Plans
    /\ path = IF CompactSources THEN "compact" ELSE "general"
    /\ phase = IF CompactSources THEN "compact" ELSE "build"
    /\ row = 0 /\ ev = NewEvaluator /\ built = NewBuilder /\ it = NoIterator
    /\ read = {} /\ sums = <<>>

Next ==
    \/ CompactAdd \/ CompactFinish
    \/ BuildAdd \/ BuildFinish
    \/ OpenIterator \/ EngineSeek \/ EngineNext \/ EngineEvaluate \/ EngineDone
    \/ ReadFails

Spec == Init /\ [][Next]_vars

-----------------------------------------------------------------------------
(* What the answer should be, from the stored rows alone.                   *)

StoredRows ==
    Picked(store, {i \in DOMAIN store :
                      plan.start - SelectorRange(plan) < store[i].t /\ store[i].t <= End})
Labels == {LabelsOf[r.id] : r \in Range(StoredRows)}
HasBound(r, b) == b \in Range(BoundsOf(r))
RowsWith(labels, b) ==
    Picked(StoredRows, {i \in DOMAIN StoredRows :
                           LabelsOf[StoredRows[i].id] = labels /\ HasBound(StoredRows[i], b)})
CountUpTo(r, b) ==
    SumFunctionOnSet(r.counts, {i \in DOMAIN r.counts : BoundsOf(r)[i] <= b})

(* The bucket series of a label set: what was stored at each time, or the   *)
(* total of everything stored so far when the rows are differences.         *)
BucketSeries(labels, b) ==
    LET rows == RowsWith(labels, b)
        points == [i \in DOMAIN rows |-> [t |-> rows[i].t, v |-> CountUpTo(rows[i], b)]]
        times == Ranked({rows[i].t : i \in DOMAIN rows}, <=)
        before(t) == {i \in DOMAIN rows : rows[i].t <= t}
    IN  IF rows # <<>> /\ rows[1].temporality = "delta"
          THEN [k \in DOMAIN times |->
                  [t |-> times[k],
                   v |-> SumFunctionOnSet(Values(points), before(times[k]))]]
          ELSE SortBy(points, LAMBDA p : p.t)

Expected(b, g) ==
    FoldSet(LAMBDA labels, sum : AddValue(sum, RollupAt(plan, BucketSeries(labels, b), GridTime(g))),
            NaN, Labels)

Answered(b, g) == IF b \in DOMAIN sums THEN sums[b][g] ELSE NaN
AllBounds == UNION {Range(BoundsOf(r)) : r \in Range(StoredRows)}
AnswerIs == \A b \in AllBounds \cup DOMAIN sums : \A g \in Grid : Answered(b, g) = Expected(b, g)

(* The answer of the compact evaluator is, for every bucket and step, the   *)
(* sum over the sources of the counter function on all the points of the    *)
(* selector's range, although it reads the rows in one pass, cuts its       *)
(* histories and never sees a series whole ("the points that the engine     *)
(* passes to the counter function", posthog_histogram_compact.go:161-163).  *)
CompactExact == phase = "done" /\ path = "compact" => AnswerIs

(* One point per timestamp: the engine may leave out a second point at the  *)
(* time of a step itself.                                                   *)
OnePerTime(points) == \A i, j \in DOMAIN points : points[i].t = points[j].t => i = j
StoreOnePerTime ==
    \A labels \in Labels, b \in AllBounds : OnePerTime(BucketSeries(labels, b))

(* The general path answers the same from built series: sources that share  *)
(* labels are merged in time order, and delta rows are running totals       *)
(* (posthog_histogram.go:583-628).                                          *)
GeneralExact == phase = "done" /\ path = "general" /\ StoreOnePerTime => AnswerIs

(* Through Next and Seek the engine gets at every step exactly the points   *)
(* of the step's range, none skipped and none twice (storage.go:1303-1327). *)
WindowRead ==
    phase = "engine" /\ Ready /\ OnePerTime(Points) =>
        EngineWindow = Between(Points, GridTime(it.grid) - SelectorRange(plan), GridTime(it.grid))

-----------------------------------------------------------------------------
(* The SQL rollups. They see points only, so they are compared with the     *)
(* engine on the bucket series of every store, stale markers included, for  *)
(* every function, window and offset.                                       *)

PointSeries ==
    {BucketSeries(labels, b) : labels \in Labels, b \in AllBounds} \cup Range(built.series)
Functions == CounterFunctions \cup {"default_rollup"}

(* The calls of the request's step and lookback. A missing window is kept   *)
(* for rate and default_rollup only (metricsql_compat.go:397-400).          *)
CallOf(name, window, offset) == [plan EXCEPT !.name = name, !.window = window, !.offset = offset]
RequestCalls ==
    {CallOf(name, window, offset) :
        name \in Functions, window \in Windows \cup {plan.step, plan.window}, offset \in Offsets}
Calls == {q \in RequestCalls : q.window = 0 => q.name \in {"rate", "default_rollup"}}

(* The points stored, when the request begins, and the points built, when   *)
(* the engine begins to read them.                                          *)
FirstRead ==
    \/ row = 0 /\ phase = IF CompactSources THEN "compact" ELSE "build"
    \/ phase = "engine" /\ it.key = <<>> /\ read = {}

(* At every step the native SQL gives what the engine gives, at window      *)
(* edges, over resets and gaps and with an offset                           *)
(* (fastpath_range_native.go:218-357).                                      *)
NativeExact ==
    FirstRead => \A points \in PointSeries, q \in Calls, k \in Grid :
        OnePerTime(points) =>
            NativeRollup(q, points, plan.start, plan.steps, k)
              = RollupAt(q, points, GridTime(k))

Regular(points) ==
    \A i \in 3..Len(points) :
        points[i].t - points[i - 1].t = points[2].t - points[1].t

(* The PostHog SQL estimates one interval per series; on a regular series   *)
(* its counters are those of the engine (fastpath_range.go:290-293: only    *)
(* "irregular series can produce different results").                       *)
RangeExact ==
    FirstRead => \A points \in PointSeries, q \in Calls, k \in Grid :
        q.name \in CounterFunctions /\ q.window # 0 /\ OnePerTime(points) /\ Regular(NonStale(points)) =>
            RangeRollup(q, points, plan.start, plan.steps, k)
              = RollupAt(q, points, GridTime(k))

(* The interval estimate reaches the previous sample of a regular series:   *)
(* while its samples are at most a lookback apart it has a rate at every    *)
(* step whose window has a sample and whose matrix has one before           *)
(* (metricsql_compat.go:584-617).                                           *)
RateReaches ==
    FirstRead => \A points \in PointSeries, q \in Calls, k \in Grid :
        LET matrix == NonStale(MatrixAt(q, points, GridTime(k)))
            window == Between(matrix, GridTime(k) - q.offset - q.window, GridTime(k) - q.offset)
        IN  /\ q.name \in Rates /\ q.window # 0 /\ OnePerTime(matrix) /\ Regular(matrix)
            /\ window # <<>> /\ Len(matrix) >= 2
            /\ matrix[2].t - matrix[1].t <= q.lookback
            => RollupAt(q, points, GridTime(k)) # NaN
=============================================================================
