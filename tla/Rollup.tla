------------------------------- MODULE Rollup -------------------------------
(* MetricsQL rollups as the engine evaluates them (metricsql_compat.go): a  *)
(* function of the points of one series in the matrix before a step, the    *)
(* points of the window and the one point before the window that may count  *)
(* as the previous sample.                                                  *)
(*                                                                          *)
(* A series is a sequence of points [t, v] in time order; times are in      *)
(* milliseconds. A call q is a record of the rewritten function's           *)
(* arguments: name, window (0: none was written), step, lookback, offset    *)
(* and instant. Values are exact: a result is a fraction [n, d], or NaN     *)
(* when the function has no value at that step.                             *)
EXTENDS Integers, Sequences, FiniteSets, FiniteSetsExt, SequencesExt

CONSTANTS
    IntervalPoints,  \* intervals the estimate reads; the code's is 20
    NaN,             \* no value
    Stale            \* the value of a stale marker

ASSUME RollupAssumption ==
    /\ IntervalPoints \in Nat \ {0}
    /\ NaN \notin Int /\ NaN \notin [n : Int, d : Int] /\ Stale \notin Int

Totals == {"increase", "delta"}
Rates == {"rate", "irate"}
LastTwo == {"irate", "idelta"}
CounterFunctions == Totals \cup Rates \cup LastTwo

AbsOf(x) == IF x < 0 THEN -x ELSE x
Larger(a, b) == IF a > b THEN a ELSE b
Smaller(a, b) == IF a < b THEN a ELSE b
CeilDiv(a, b) == -((-a) \div b)

(* Fractions in lowest terms, so that equal values are equal records.       *)
Gcd[p \in Nat \X Nat] == IF p[2] = 0 THEN p[1] ELSE Gcd[<<p[2], p[1] % p[2]>>]
Fraction(n, d) == LET g == Gcd[<<AbsOf(n), d>>] IN [n |-> n \div g, d |-> d \div g]
Whole(n) == [n |-> n, d |-> 1]
Plus(a, b) == Fraction(a.n * b.d + b.n * a.d, a.d * b.d)
AddValue(sum, v) == IF v = NaN THEN sum ELSE IF sum = NaN THEN v ELSE Plus(sum, v)

(* The elements of S in the order LE, which is total on S.                  *)
Ranked(S, LE(_, _)) ==
    [k \in 1..Cardinality(S) |-> CHOOSE x \in S : Cardinality({y \in S : LE(y, x)}) = k]

(* The elements of s at the indexes I, in the order of s.                   *)
Picked(s, I) ==
    LET order == Ranked(I, <=) IN [k \in DOMAIN order |-> s[order[k]]]

(* s sorted by a number of each element; equal ones keep their order.       *)
SortBy(s, Key(_)) ==
    LET order == Ranked(DOMAIN s, LAMBDA i, j :
                     Key(s[i]) < Key(s[j]) \/ (Key(s[i]) = Key(s[j]) /\ i <= j))
    IN  [k \in DOMAIN order |-> s[order[k]]]

Values(points) == [i \in DOMAIN points |-> points[i].v]
NonStale(points) == Picked(points, {i \in DOMAIN points : points[i].v # Stale})

(* The points with lo < t <= hi: windows are open on the left.              *)
Between(points, lo, hi) ==
    Picked(points, {i \in DOMAIN points : lo < points[i].t /\ points[i].t <= hi})

-----------------------------------------------------------------------------
(* The estimate of the sample interval.                                     *)

(* The 0.6 quantile of the sorted gaps, interpolated and truncated.         *)
Interpolated(low, high, tenths) == low + ((high - low) * tenths) \div 10
Quantile(gaps) ==
    LET position == 6 * (Len(gaps) - 1)
        index == position \div 10 + 1
    IN  Interpolated(gaps[index], gaps[Smaller(index + 1, Len(gaps))], position % 10)

(* MUTANT of Margin: the margin is taken off the interval.                  *)
MarginShort(interval) == interval - interval \div 8

(* The margin for variation of the timestamps.                              *)
Margin(interval) ==
    CASE interval <= 2000 -> interval * 5
      [] interval > 2000 /\ interval <= 4000 -> interval * 3
      [] interval > 4000 /\ interval <= 8000 -> interval * 2
      [] interval > 8000 /\ interval <= 16000 -> interval + interval \div 2
      [] interval > 16000 /\ interval <= 32000 -> interval + interval \div 4
      [] OTHER -> interval + interval \div 8

(* The last count gaps between neighbours, sorted.                          *)
LastGaps(points, count) ==
    LET n == Len(points)
        kept == Smaller(n - 1, count)
    IN  SortBy([i \in 1..kept |-> points[n - kept + i].t - points[n - kept + i - 1].t],
               LAMBDA gap : gap)

(* An interval that is not positive is no estimate.                         *)
MarginOr(fallback, interval) == IF interval <= 0 THEN fallback ELSE Margin(interval)

metricsQLSampleInterval(points, fallback) ==
    IF Len(points) < 2 THEN fallback
    ELSE MarginOr(fallback, Quantile(LastGaps(points, IntervalPoints)))

-----------------------------------------------------------------------------
(* The counter functions.                                                   *)

(* What a counter's drops add to the difference of its ends: a small drop   *)
(* is a partial reset and adds the drop, any other the value before it.     *)
ResetOf(previous, v) ==
    IF v >= previous THEN 0
    ELSE IF (previous - v) * 8 < previous THEN previous - v
    ELSE previous
ResetsOf(values) ==
    SumFunction([i \in 1..(Len(values) - 1) |-> ResetOf(values[i], values[i + 1])])

(* The value from point begin on, above baseline.                           *)
CounterDifference(name, points, begin, baseline) ==
    LET n == Len(points)
        resets == IF name = "increase" \/ name \in Rates
                    THEN ResetsOf(<<baseline>> \o Values(SubSeq(points, begin, n)))
                    ELSE 0
        value == points[n].v - baseline + resets
        millis == points[n].t - points[begin].t
    IN  IF name \notin Rates THEN Whole(value)
        ELSE IF begin = n \/ millis <= 0 THEN NaN
        ELSE Fraction(value * 1000, millis)

(* What a total counts from without a previous sample: a value that could   *)
(* be the start of a counter counts from zero.                              *)
FirstBaseline(v, delta) == IF AbsOf(v) < 10 * (AbsOf(delta) + 1) THEN 0 ELSE v

(* irate and idelta begin at the last point but one, if they may.           *)
LastTwoValue(name, points, begin) ==
    CounterDifference(name, points, begin,
        IF name = "idelta" /\ begin = Len(points) THEN 0 ELSE points[begin].v)

(* The value with or without the sample before the window.                  *)
CounterFrom(name, points, first, havePrev) ==
    IF name \in LastTwo
      THEN LastTwoValue(name, points,
               Larger(IF havePrev THEN first - 1 ELSE first, Len(points) - 1))
    ELSE IF havePrev
      THEN CounterDifference(name, points, first - 1, points[first - 1].v)
    ELSE CounterDifference(name, points, first,
             IF name \in Rates THEN points[first].v
             ELSE FirstBaseline(points[first].v,
                      IF first < Len(points) THEN points[first + 1].v - points[first].v ELSE 0))

(* points: the points of the matrix; first: the index of the first point    *)
(* after start, the beginning of the window.                                *)
metricsQLCounterValue(name, points, first, start, maxPrev, lookback) ==
    IF first > Len(points)
      THEN NaN
      ELSE CounterFrom(name, points, first,
             /\ first > 1
             /\ \/ points[first - 1].t > start - maxPrev
                \/ name \in Totals /\ points[first].t - points[first - 1].t < lookback)

(* The width of the matrix the rewrite fetches.                             *)
SelectorRange(q) ==
    IF q.name = "default_rollup" /\ q.instant /\ q.window = 0
      THEN q.lookback
      ELSE (IF q.window = 0 THEN q.step ELSE q.window) + q.lookback

(* How far before the window a previous sample may lie.                     *)
MaxPrev(q, points) ==
    Smaller(IF q.instant THEN q.step ELSE metricsQLSampleInterval(points, q.step), q.lookback)

(* The window of a call: written, or resolved from the sample interval.     *)
WindowOf(q, maxPrev) ==
    CASE q.window # 0 -> q.window
      [] q.window = 0 /\ q.name # "default_rollup" -> Larger(q.step, maxPrev)
      [] q.window = 0 /\ q.name = "default_rollup" /\ q.instant -> q.lookback
      [] OTHER -> Smaller(Larger(q.step, maxPrev), q.lookback)

(* The number of points up to time t.                                       *)
CountUntil(points, t) == Cardinality({i \in DOMAIN points : points[i].t <= t})

(* The value of a call over points whose window begins at start. A bare     *)
(* selector whose last point is a stale marker has no value.                *)
RollupFrom(q, points, first, start, maxPrev) ==
    IF q.name # "default_rollup"
      THEN metricsQLCounterValue(q.name, points, first, start, maxPrev, q.lookback)
    ELSE IF first > Len(points) \/ points[Len(points)].v = Stale THEN NaN
    ELSE Whole(points[Len(points)].v)

WindowRollupOf(q, points, start, maxPrev) ==
    RollupFrom(q, points, CountUntil(points, start) + 1, start, maxPrev)

RollupWith(q, points, ts, maxPrev) ==
    WindowRollupOf(q, points, ts - q.offset - WindowOf(q, maxPrev), maxPrev)

RollupPoints(q, points, ts) == RollupWith(q, points, ts, MaxPrev(q, points))

(* The value at step ts of a call over the points the engine read for it.   *)
(* Counters do not see stale markers.                                       *)
metricsQLRollup(q, matrix, ts) ==
    RollupPoints(q, IF q.name = "default_rollup" THEN matrix ELSE NonStale(matrix), ts)

(* The points of series a call reads at step ts.                            *)
MatrixAt(q, series, ts) ==
    Between(series, ts - q.offset - SelectorRange(q), ts - q.offset)

RollupAt(q, series, ts) == metricsQLRollup(q, MatrixAt(q, series, ts), ts)

=============================================================================
