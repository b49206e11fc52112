------------------------------ MODULE RollupSQL ------------------------------
(* The same rollups as the SQL that the range fast paths push to            *)
(* ClickHouse: fastpath_range_native.go for snuffle's own tables, with one  *)
(* matrix per step or with the neighbours of each sample, and               *)
(* fastpath_range.go for the PostHog layout. A request is its start, its    *)
(* step (of the call) and its number of points.                             *)
EXTENDS Rollup

(* MUTANT of StepsOf: floor for ceil at the first step of a sample.         *)
StepsOfFloor(t, q, width, start, count) ==
    Larger(0, (t + q.offset - start) \div q.step) ..
        (Smaller(count, CeilDiv(t + q.offset + width - start, q.step)) - 1)

(* The indexes of the steps that use a sample at time t: the steps s with   *)
(* s - width < t + offset <= s.                                             *)
StepsOf(t, q, width, start, count) ==
    Larger(0, CeilDiv(t + q.offset - start, q.step)) ..
        (Smaller(count, CeilDiv(t + q.offset + width - start, q.step)) - 1)

(* max_prev of rollupValues.                                                *)
NativeMaxPrev(q, points) ==
    Smaller(IF Len(points) < 2 THEN q.step
            ELSE MarginOr(q.step, Quantile(LastGaps(points, IntervalPoints))),
            q.lookback)

(* window_ms of both statements: with no window, one for bare selectors and *)
(* one for rate.                                                            *)
WindowMs(q, maxPrev) ==
    IF q.window # 0 THEN q.window
    ELSE IF q.name = "default_rollup" THEN Smaller(Larger(q.step, maxPrev), q.lookback)
    ELSE Larger(q.step, maxPrev)

(* The last stages of rollupValues: begin, baseline, tail and value.        *)
NativeValue(q, points, begin, baseline) ==
    LET tail == Values(SubSeq(points, begin, Len(points)))
        value == points[Len(points)].v - baseline +
                   IF q.name = "increase" \/ q.name \in Rates
                     THEN ResetsOf(<<baseline>> \o tail) ELSE 0
        millis == points[Len(points)].t - points[begin].t
    IN  IF q.name \notin Rates THEN Whole(value)
        ELSE IF Len(tail) < 2 \/ millis <= 0 THEN NaN
        ELSE Fraction(value * 1000, millis)

NativeBaseline(q, points, current, hasPrev, begin) ==
    CASE q.name \in Totals /\ ~hasPrev ->
           FirstBaseline(current[1].v, IF Len(current) > 1 THEN current[2].v - current[1].v ELSE 0)
      [] q.name = "idelta" /\ begin = Len(points) -> 0
      [] OTHER -> points[begin].v

NativeBegin(q, points, current, hasPrev, begin) ==
    NativeValue(q, points, begin, NativeBaseline(q, points, current, hasPrev, begin))

NativeFrom(q, points, current, before, hasPrev) ==
    NativeBegin(q, points, current, hasPrev,
        LET initial == IF hasPrev THEN before ELSE before + 1
        IN  IF q.name \in LastTwo THEN Larger(initial, Len(points) - 1) ELSE initial)

NativeCurrent(q, points, current, before, oldest) ==
    IF current = <<>> THEN NaN
    ELSE IF q.name = "default_rollup"
      THEN IF current[Len(current)].v = Stale THEN NaN ELSE Whole(current[Len(current)].v)
    ELSE NativeFrom(q, points, current, before,
           /\ before > 0
           /\ \/ points[before].t > oldest
              \/ q.name \in Totals /\ current[1].t - points[before].t < q.lookback)

NativeWith(q, points, evalTs, window, maxPrev) ==
    LET current == Picked(points, {i \in DOMAIN points : points[i].t > evalTs - window})
    IN  NativeCurrent(q, points, current, Len(points) - Len(current), evalTs - window - maxPrev)

NativePrepared(q, points, evalTs, maxPrev) ==
    NativeWith(q, points, evalTs, WindowMs(q, maxPrev), maxPrev)

(* rollupValues: the value of a call from the matrix of one step.           *)
RollupValues(q, points, evalTs) == NativePrepared(q, points, evalTs, NativeMaxPrev(q, points))

(* windowRollup: each sample is expanded to the steps whose matrix has it.  *)
WindowRollup(q, points, start, count, k) ==
    RollupValues(q,
        Picked(points, {i \in DOMAIN points :
                           k \in StepsOf(points[i].t, q, SelectorRange(q), start, count)}),
        start + k * q.step - q.offset)

(* What a sample adds to a total whose previous sample counts.              *)
Difference(q, previous, v) ==
    IF q.name # "increase" \/ v >= previous THEN v - previous
    ELSE IF (previous - v) * 8 < previous THEN 0
    ELSE v

(* What sample i adds to the total at evalTs.                               *)
Contribution(q, points, evalTs, i) ==
    IF i > 1 /\ points[i - 1].t > evalTs - SelectorRange(q)
      THEN Difference(q, points[i - 1].v, points[i].v)
      ELSE points[i].v - FirstBaseline(points[i].v,
             IF i < Len(points) /\ points[i + 1].t <= evalTs
               THEN points[i + 1].v - points[i].v ELSE 0)

LongGap(q, points) == \E i \in 2..Len(points) : points[i].t - points[i - 1].t >= q.lookback

(* totalRollup: without a gap as long as the lookback, increase and delta   *)
(* are sums of what each sample of the window adds.                         *)
TotalRollup(q, points, start, count, k) ==
    LET used == {i \in DOMAIN points : k \in StepsOf(points[i].t, q, q.window, start, count)}
    IN  IF LongGap(q, points) THEN WindowRollup(q, points, start, count, k)
        ELSE IF used = {} THEN NaN
        ELSE Whole(SumFunction(
                 [i \in used |-> Contribution(q, points, start + k * q.step - q.offset, i)]))

(* The samples a request reads for a series; only bare selectors read stale *)
(* markers.                                                                 *)
ReadSamples(q, series, start, count) ==
    LET samples == Between(series, start - q.offset - SelectorRange(q) - 1,
                           start + (count - 1) * q.step - q.offset)
    IN  IF q.name = "default_rollup" THEN samples ELSE NonStale(samples)

NativePoints(q, points, start, count, k) ==
    IF q.name \in Totals
      THEN TotalRollup(q, points, start, count, k)
      ELSE WindowRollup(q, points, start, count, k)

(* nativeRangePlan.rollup: the value at step k.                             *)
NativeRollup(q, series, start, count, k) ==
    NativePoints(q, ReadSamples(q, series, start, count), start, count, k)

-----------------------------------------------------------------------------
(* rangeRollupSQL, the PostHog layout: one interval per series, and a row   *)
(* for each step a sample is used at.                                       *)

(* MUTANT of RangeHasPrev: the previous sample is looked for in the window  *)
(* instead of the matrix.                                                   *)
RangeHasPrevInside(q, prevTs, evalTs, window, maxPrev) ==
    prevTs > evalTs - window

(* Whether the sample before the window counts.                             *)
RangeHasPrev(q, prevTs, evalTs, window, maxPrev) ==
    /\ prevTs > evalTs - SelectorRange(q)
    /\ q.name \in Totals \/ prevTs > evalTs - window - maxPrev

(* The columns of a row: sample i at evalTs.                                *)
RangeRow(q, points, evalTs, window, maxPrev, i) ==
    LET counter == [q EXCEPT !.name = IF q.name \in Rates THEN "increase" ELSE @]
    IN  [ts |-> points[i].t, v |-> points[i].v,
         isFirst |-> i = 1 \/ points[i - 1].t <= evalTs - window,
         hasPrev |-> i > 1 /\ RangeHasPrev(q, points[i - 1].t, evalTs, window, maxPrev),
         diff |-> Difference(counter, IF i = 1 THEN 0 ELSE points[i - 1].v, points[i].v),
         gap |-> IF i = 1 THEN 0 ELSE points[i].t - points[i - 1].t,
         initial |-> IF q.name \notin Totals THEN 0
                     ELSE points[i].v - FirstBaseline(points[i].v,
                            IF i < Len(points) /\ points[i + 1].t <= evalTs
                              THEN points[i + 1].v - points[i].v ELSE 0)]

(* rangeRollupValueSQL: one value from the rows of a step, NaN for NULL.    *)
RangeValue(q, rows, last) ==
    LET started(r) == r.isFirst /\ ~r.hasPrev
        sum == SumFunction([r \in rows |-> IF started(r) THEN r.initial ELSE r.diff])
        gaps == SumFunction([r \in rows |-> IF started(r) THEN 0 ELSE r.gap])
        two == Cardinality(rows) >= 2 \/ \E r \in rows : r.isFirst /\ r.hasPrev
    IN  CASE q.name \in Totals -> Whole(sum)
          [] q.name = "rate" -> IF two /\ gaps > 0 THEN Fraction(sum * 1000, gaps) ELSE NaN
          [] q.name = "irate" ->
               IF two /\ last.gap > 0 THEN Fraction(last.diff * 1000, last.gap) ELSE NaN
          [] q.name = "idelta" -> Whole(IF two THEN last.diff ELSE last.v)

(* A bare selector: the sample that no later one has replaced.              *)
RangeLatest(evalTs, window, last) ==
    IF evalTs - last.ts < window /\ last.v # Stale THEN Whole(last.v) ELSE NaN

RangeSteps(q, points, evalTs, window, maxPrev, used) ==
    IF used = {} THEN NaN
    ELSE IF q.name = "default_rollup"
      THEN LET i == Max(used) IN RangeLatest(evalTs, window, [ts |-> points[i].t, v |-> points[i].v])
    ELSE RangeValue(q, {RangeRow(q, points, evalTs, window, maxPrev, i) : i \in used},
                    RangeRow(q, points, evalTs, window, maxPrev, Max(used)))

(* How long a sample is used.                                               *)
Span(q, points, window, i) ==
    IF q.name # "default_rollup" THEN window
    ELSE IF i < Len(points) THEN Smaller(SelectorRange(q), points[i + 1].t - points[i].t)
    ELSE SelectorRange(q)

RangeWith(q, points, start, count, k, window, maxPrev) ==
    RangeSteps(q, points, start + k * q.step - q.offset, window, maxPrev,
        {i \in DOMAIN points :
            k \in StepsOf(points[i].t, q, Span(q, points, window, i), start, count)})

RangePrepared(q, points, start, count, k, maxPrev) ==
    RangeWith(q, points, start, count, k, WindowMs(q, maxPrev), maxPrev)

RangePoints(q, points, start, count, k) ==
    RangePrepared(q, points, start, count, k,
        Smaller(IF Len(points) < 2 THEN q.step
                ELSE MarginOr(q.step, Quantile(LastGaps(points, Len(points)))),
                q.lookback))

RangeRollup(q, series, start, count, k) ==
    RangePoints(q, ReadSamples(q, series, start, count), start, count, k)

=============================================================================
