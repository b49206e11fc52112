------------------------------ MODULE LogMetric ------------------------------
(***************************************************************************)
(* LogQL metric queries. Snuffle evaluates them in two ways: in Go, on log *)
(* rows it fetched (logql.go), or as one ClickHouse statement when the     *)
(* expression has a form that SQL can express (logql_sql.go). Both are     *)
(* functions from rows to samples here.                                    *)
(*                                                                         *)
(* Values are rationals <<numerator, denominator>> in lowest terms. An     *)
(* optional part (a grouping, a comparison, a matching) is a sequence of   *)
(* at most one element; an undefined value (NaN, NULL) is the empty set    *)
(* where a defined one is a singleton. Samples are sets, so the order of   *)
(* series is not modelled, and where the code picks one of several equal   *)
(* candidates both sides pick the same.                                    *)
(***************************************************************************)
EXTENDS LogRows

CONSTANTS
    Second,       \* a second, in the units of timestamps
    Expressions   \* metric expressions, each with the ones it is made of

Unary == {"agg", "topk", "labelfn"}

(* parseLogQLDuration refuses durations that are not positive.              *)
ASSUME ExpressionAssumption ==
    \A e \in Expressions :
        /\ e.kind = "range" => e.window \in Nat \ {0} /\ e.offset \in Nat
        /\ e.kind \in Unary => e.of \in Expressions
        /\ e.kind = "binary" => e.lhs \in Expressions /\ e.rhs \in Expressions

R(n, d) ==
    LET g == Max({k \in 1 .. d : n % k = 0 /\ d % k = 0}) IN <<n \div g, d \div g>>
CompareR(op, a, b) == Compare(op, a[1] * b[2], b[1] * a[2])

SumOf(S, f(_)) == MapThenSumSet(f, S)
ValueOf(r) == CHOOSE x \in r.unwrap : TRUE

(* The unwrapped values of a set of rows in order.                          *)
Sorted(U) ==
    LET upTo(v) == Cardinality({r \in U : ValueOf(r) <= v})
    IN  [i \in 1 .. Cardinality(U) |-> Min({v \in {ValueOf(r) : r \in U} : upTo(v) >= i})]

(* The value halfway between the closest ranks of a sorted sequence; level  *)
(* is a rational between 0 and 1.                                          *)
Quantile(s, level) ==
    LET rank == level[1] * (Len(s) - 1)
        lower == rank \div level[2]
        weight == rank % level[2]
    IN  IF lower >= Len(s) - 1 THEN <<s[Len(s)], 1>>
        ELSE R(s[lower + 1] * (level[2] - weight) + s[lower + 2] * weight, level[2])

-----------------------------------------------------------------------------
(*                           Evaluation in Go                              *)

(* rangeAggregationValue. stddev_over_time, the root of stdvar_over_time,   *)
(* is left out.                                                            *)
rangeAggregationValue(fn, group, window, param) ==
    LET U == {r \in group : r.unwrap # {}}
        n == Cardinality(U)
        sum == SumOf(U, ValueOf)
        bytes == SumOf(group, LAMBDA r : r.line.size)
        oldest(older(_, _)) == ValueOf(CHOOSE r \in U : \A s \in U : ~older(s, r))
    IN  CASE fn = "count_over_time" -> {R(Cardinality(group), 1)}
          [] fn = "rate" -> {R(Cardinality(group) * Second, window)}
          [] fn = "bytes_over_time" -> {R(bytes, 1)}
          [] fn = "bytes_rate" -> {R(bytes * Second, window)}
          [] fn = "sum_over_time" -> {R(sum, 1)}
          [] U = {} -> {}
          [] fn = "avg_over_time" -> {R(sum, n)}
          [] fn = "min_over_time" -> {R(Min({ValueOf(r) : r \in U}), 1)}
          [] fn = "max_over_time" -> {R(Max({ValueOf(r) : r \in U}), 1)}
          [] fn = "first_over_time" -> {R(oldest(LAMBDA a, b : a.ts < b.ts), 1)}
          [] fn = "last_over_time" -> {R(oldest(LAMBDA a, b : a.ts > b.ts), 1)}
          [] fn = "stdvar_over_time" ->
               {R(SumOf(U, LAMBDA r : (n * ValueOf(r) - sum) * (n * ValueOf(r) - sum)), n * n * n)}
          [] fn = "quantile_over_time" ->
               {Quantile(Sorted(U), param)}
          [] OTHER -> {}

(* stableLabelMap: names that start with __ are not shown.                  *)
Stable(labels) == Only(labels, DOMAIN labels \ {"__error__"})

(* groupingLabels; without a grouping everything is one group.              *)
groupingLabels(labels, grouping) ==
    IF grouping = <<>> THEN <<>>
    ELSE IF grouping[1].without THEN Only(labels, DOMAIN labels \ grouping[1].labels)
    ELSE Only(labels, grouping[1].labels)

(* rangeAggregationLabels; without a grouping every label set is one.       *)
rangeAggregationLabels(labels, grouping) ==
    IF grouping = <<>> THEN Stable(labels) ELSE groupingLabels(labels, grouping)

InWindow(agg, ts, t) == ts > t - agg.window - agg.offset /\ ts <= t - agg.offset

(* evaluateLogQLRangeAggregation on fetched rows.                           *)
evaluateLogQLRangeAggregation(agg, rs, t) ==
    LET kept == {r \in {apply(agg.sel, x) : x \in {x \in rs : InWindow(agg, x.ts, t)}} : r.ok}
        key(r) == rangeAggregationLabels(r.labels, agg.grouping)
        group(k) == {r \in kept : key(r) = k}
    IN  IF agg.fn = "absent_over_time" /\ kept = {} THEN {[labels |-> <<>>, value |-> <<1, 1>>]}
        ELSE UNION {{[labels |-> k, value |-> v] :
                        v \in rangeAggregationValue(agg.fn, group(k), agg.window, agg.param)}
                       : k \in {key(r) : r \in kept}}

(* The sum of rationals of a set of samples.                                *)
SumR(S) ==
    LET d == FoldSet(LAMBDA s, acc : acc * s.value[2], 1, S)
    IN  R(SumOf(S, LAMBDA s : s.value[1] * (d \div s.value[2])), d)

Extreme(S, op) == (CHOOSE s \in S : \A o \in S : ~CompareR(op, o.value, s.value)).value

(* aggregateValues; stddev and stdvar of samples are left out.              *)
aggregateValues(fn, S) ==
    CASE fn = "sum" -> SumR(S)
      [] fn = "count" -> <<Cardinality(S), 1>>
      [] fn = "avg" -> R(SumR(S)[1], SumR(S)[2] * Cardinality(S))
      [] fn = "min" -> Extreme(S, "<")
      [] fn = "max" -> Extreme(S, ">")

(* evaluateLogQLAggregation                                                *)
Aggregate(agg, child) ==
    LET key(s) == groupingLabels(s.labels, agg.grouping)
    IN  {[labels |-> k, value |-> aggregateValues(agg.fn, {s \in child : key(s) = k})]
            : k \in {key(s) : s \in child}}

(* evaluateLogQLTopK, and LIMIT k BY eval_ns in SQL.                        *)
TopK(S, k, top) ==
    IF Cardinality(S) <= k THEN S
    ELSE CHOOSE T \in SUBSET S :
            /\ Cardinality(T) = k
            /\ \A s \in T, o \in S \ T : CompareR(IF top THEN ">=" ELSE "<=", s.value, o.value)

(* evaluateLogQLLabelFunction: label_replace with a constant replacement.   *)
LabelReplace(fn, S) ==
    {[labels |-> IF Get(s.labels, fn.src) \in fn.vals THEN Over(Single(fn.dst, fn.to), s.labels)
                 ELSE s.labels,
      value |-> s.value] : s \in S}

(* applyLogQLBinaryValue; division, modulo and power are left out.          *)
applyLogQLBinaryValue(op, a, b, bool) ==
    CASE op = "+" -> {R(a[1] * b[2] + b[1] * a[2], a[2] * b[2])}
      [] op = "-" -> {R(a[1] * b[2] - b[1] * a[2], a[2] * b[2])}
      [] op = "*" -> {R(a[1] * b[1], a[2] * b[2])}
      [] OTHER -> IF bool THEN {IF CompareR(op, a, b) THEN <<1, 1>> ELSE <<0, 1>>}
                  ELSE IF CompareR(op, a, b) THEN {a} ELSE {}

(* logQLBinaryMatchKey                                                     *)
MatchKey(labels, matching) ==
    IF matching = <<>> THEN labels
    ELSE IF matching[1].on THEN Only(labels, matching[1].labels)
    ELSE Only(labels, DOMAIN labels \ matching[1].labels)

(* logQLBinaryOutputLabels                                                 *)
OutputLabels(l, r, matching) ==
    IF matching = <<>> THEN l
    ELSE CASE matching[1].group = "right" -> Over(Only(l, matching[1].include), r)
           [] matching[1].group = "left" -> Over(Only(r, matching[1].include), l)
           [] OTHER -> l

(* evaluateLogQLSetBinary                                                  *)
SetBinary(op, lhs, rhs) ==
    LET key(s) == MatchKey(s.labels, op.matching)
        matched(s, S) == \E o \in S : key(o) = key(s)
    IN  CASE op.op = "and" -> {s \in lhs : matched(s, rhs)}
          [] op.op = "unless" -> {s \in lhs : ~matched(s, rhs)}
          [] op.op = "or" -> lhs \cup {s \in rhs : ~matched(s, lhs)}

(* evaluateLogQLVectorBinary: all partners of a sample if a side is         *)
(* grouped, otherwise the first that gives a value.                        *)
VectorBinary(op, lhs, rhs) ==
    LET partners(l) ==
            UNION {{[labels |-> OutputLabels(l.labels, r.labels, op.matching), value |-> v] :
                       v \in applyLogQLBinaryValue(op.op, l.value, r.value, op.bool)} :
                     r \in {r \in rhs : MatchKey(r.labels, op.matching) = MatchKey(l.labels, op.matching)}}
        grouped == op.matching # <<>> /\ op.matching[1].group # ""
    IN  UNION {IF grouped \/ partners(l) = {} THEN partners(l) ELSE {CHOOSE s \in partners(l) : TRUE}
                  : l \in lhs}

(* evaluateLogQLScalarVectorBinary                                         *)
ScalarBinary(op, scalar, S, onLeft) ==
    UNION {{[labels |-> s.labels, value |-> v] :
               v \in IF onLeft THEN applyLogQLBinaryValue(op.op, scalar, s.value, op.bool)
                     ELSE applyLogQLBinaryValue(op.op, s.value, scalar, op.bool)} : s \in S}

(* evaluateLogQLBinaryOp. A scalar side is a literal whose own comparison   *)
(* kept it.                                                                *)
BinaryOp(op, lhs, rhs) ==
    LET scalar(e, S) == e.kind = "scalar" /\ S # {}
        value(S) == (CHOOSE s \in S : TRUE).value
    IN  CASE scalar(op.lhs, lhs) -> ScalarBinary(op, value(lhs), rhs, TRUE)
          [] scalar(op.rhs, rhs) -> ScalarBinary(op, value(rhs), lhs, FALSE)
          [] op.op \in {"and", "or", "unless"} -> SetBinary(op, lhs, rhs)
          [] OTHER -> VectorBinary(op, lhs, rhs)

(* filterLogQLComparison                                                   *)
Compared(S, cmp) == {s \in S : cmp = <<>> \/ CompareR(cmp[1], s.value, cmp[2])}

(* evaluateLogQLMetricAt: the samples of an expression at a time.           *)
EvalAt(expr, rs, t) ==
    LET eval[e \in Expressions] ==
            Compared(CASE e.kind = "range" -> evaluateLogQLRangeAggregation(e, rs, t)
                       [] e.kind = "agg" -> Aggregate(e, eval[e.of])
                       [] e.kind = "topk" -> TopK(eval[e.of], e.k, e.top)
                       [] e.kind = "labelfn" -> LabelReplace(e, eval[e.of])
                       [] e.kind = "binary" -> BinaryOp(e, eval[e.lhs], eval[e.rhs])
                       [] e.kind \in {"scalar", "vector"} -> {[labels |-> <<>>, value |-> e.value]},
                     e.cmp)
    IN  eval[expr]

(* logQLRangePoints and the evaluation times of a query.                    *)
logQLRangePoints(start, end, step) == IF end < start THEN 0 ELSE (end - start) \div step + 1
Grid(start, end, step) == {start + i * step : i \in 0 .. (logQLRangePoints(start, end, step) - 1)}

(* evaluateLogQLRangeMetric, evaluateLogQLInstantMetric.                    *)
EvalGrid(e, rs, start, end, step) ==
    UNION {{[labels |-> Stable(s.labels), t |-> t, value |-> s.value] : s \in EvalAt(e, rs, t)} :
             t \in Grid(start, end, step)}

(* collectLogQLSelectors: the range aggregations from left to right.        *)
RangeAggs(expr) ==
    LET aggs[e \in Expressions] ==
            CASE e.kind = "range" -> <<e>>
              [] e.kind \in Unary -> aggs[e.of]
              [] e.kind = "binary" -> aggs[e.lhs] \o aggs[e.rhs]
              [] OTHER -> <<>>
    IN  aggs[expr]

-----------------------------------------------------------------------------
(*                           Evaluation in SQL                             *)

CountFns == {"count_over_time", "rate", "bytes_over_time", "bytes_rate"}
BucketFns == {"sum_over_time", "avg_over_time", "min_over_time", "max_over_time", "stdvar_over_time"}
UnwrapFns == BucketFns \cup {"first_over_time", "last_over_time", "quantile_over_time"}

(* The parser in effect before stage i; a pushed pipeline has at most one.  *)
ParserBefore(stages, i) ==
    {stages[j] : j \in {j \in 1 .. (i - 1) : stages[j].kind = "parser"}}

(* logQLSQLPipeline: the stages that have an SQL form.                      *)
PipelineInSQL(stages) ==
    \A i \in DOMAIN stages :
        LET st == stages[i]
            parser == ParserBefore(stages, i)
        IN  CASE st.kind = "line_filter" -> TRUE
              [] st.kind = "parser" -> parser = {} /\ (st.parser = "regexp" => st.groups # {})
              [] st.kind = "label_filter" ->
                   \A j \in DOMAIN st.filters :
                       st.filters[j].name = "__error__" => ~st.filters[j].numeric
              [] st.kind = "unwrap" ->
                   \A p \in parser : p.parser = "regexp" => st.name \in p.groups
              [] OTHER -> FALSE

Unwraps(stages) == {stages[i] : i \in {i \in DOMAIN stages : stages[i].kind = "unwrap"}}

(* buildLogQLRangeAggSQLPlan: a plan, or none.                              *)
buildLogQLRangeAggSQLPlan(agg, grouping, outer) ==
    LET g == IF grouping = <<>> THEN agg.grouping ELSE grouping
        wanted == IF agg.fn \in CountFns THEN 0 ELSE 1
    IN  {[agg |-> agg, labels |-> IF g = <<>> THEN {} ELSE g[1].labels \ {"__error__"},
          cmp |-> <<>>, topk |-> <<>>] :
           x \in {x \in {1} : /\ g # <<>> => ~g[1].without
                              /\ outer \/ g # <<>>
                              /\ agg.fn \in CountFns \cup UnwrapFns
                              /\ PipelineInSQL(agg.sel.stages)
                              /\ Cardinality(Unwraps(agg.sel.stages)) = wanted}}

(* buildLogQLMetricSQLPlan for a range aggregation or the sum of one.       *)
InnerSQLPlan(e) ==
    CASE e.kind = "range" -> buildLogQLRangeAggSQLPlan(e, <<>>, FALSE)
      [] e.kind = "agg" /\ e.fn = "sum" /\ e.of.kind = "range" /\ e.of.cmp = <<>> ->
           buildLogQLRangeAggSQLPlan(e.of, e.grouping, TRUE)
      [] OTHER -> {}

(* buildLogQLMetricSQLPlan: also topk of one of those.                      *)
buildLogQLMetricSQLPlan(e) ==
    IF e.kind = "topk"
    THEN {[p EXCEPT !.cmp = e.cmp, !.topk = <<e.k, e.top>>] :
            p \in {p \in InnerSQLPlan(e.of) : e.of.cmp = <<>>}}
    ELSE {[p EXCEPT !.cmp = e.cmp] : p \in InnerSQLPlan(e)}

(* logQLSQLPipelineLabelValueExpr: the field a parser finds; JSON_VALUE and *)
(* extractKeyValuePairs look for the name itself in the text.              *)
ParsedValue(r, n, parser) ==
    IF parser.parser \in {"json", "logfmt"} THEN Get(r.line.db[parser.parser], n)
    ELSE IF n \in parser.groups THEN Get(r.line.caps, n) ELSE Empty

(* The value of a label filter in SQL: the parsed field, or else the label. *)
SQLFilterValue(r, n, parsers) ==
    LET parser == CHOOSE p \in parsers : TRUE
        parsed == IF parsers = {} THEN Empty ELSE ParsedValue(r, n, parser)
    IN  IF n = "__error__"
        THEN IF parsers # {} /\ parser.parser = "json" /\ ~r.line.db.valid THEN "JSONParserErr" ELSE Empty
        ELSE IF parsed # Empty THEN parsed ELSE LabelValue(r, n)

(* The filters of logQLMetricBaseFilters.                                   *)
SQLKeeps(r, sel) ==
    /\ \A m \in sel.matchers : Matches(m, LabelValue(r, m.name))
    /\ \A i \in DOMAIN sel.stages :
         LET st == sel.stages[i]
         IN  CASE st.kind = "line_filter" -> LineMatches(st, r.line)
               [] st.kind = "label_filter" ->
                    LET value(n) == SQLFilterValue(r, n, ParserBefore(sel.stages, i))
                    IN  FiltersMatch(st.filters,
                                     [k \in DOMAIN st.filters |-> value(st.filters[k].name)])
               [] OTHER -> TRUE

(* The unwrapped value in SQL: the parsed field, without a fallback.        *)
SQLUnwrap(r, stages) ==
    LET i == CHOOSE i \in DOMAIN stages : stages[i].kind = "unwrap"
        parsers == ParserBefore(stages, i)
        v == IF parsers = {} THEN LabelValue(r, stages[i].name)
             ELSE ParsedValue(r, stages[i].name, CHOOSE p \in parsers : TRUE)
    IN  IF v \in DOMAIN Number THEN {Number[v]} ELSE {}

(* logQLLabelsFromGroupValues: the grouping labels that have a value.       *)
GroupLabels(values) == [n \in {n \in DOMAIN values : values[n] # Empty} |-> values[n]]

(* The step bucket of a time; intDiv rounds towards zero.                   *)
intDiv(a, b) == IF a >= 0 THEN a \div b ELSE -((-a) \div b)
CeilTo(t, step) == intDiv(t + step - 1, step) * step

(* MUTANT of Fanout: one repetition too few.                                *)
FanoutShort(bucket, window, start, end, step) ==
    LET points == logQLRangePoints(start, end, step)
        repeats == Max({1, Min({window \div step, points}) - 1})
        first == start + CeilTo(Max({bucket - start, 0}), step)
    IN  {t \in {first + i * step : i \in 0 .. (repeats - 1)} :
            t >= start /\ t <= end /\ bucket > t - window /\ bucket <= t}

(* logQLWindowFanoutSQL: the evaluation times whose window has the bucket.  *)
Fanout(bucket, window, start, end, step) ==
    LET points == logQLRangePoints(start, end, step)
        repeats == Max({1, Min({window \div step, points})})
        first == start + CeilTo(Max({bucket - start, 0}), step)
    IN  {t \in {first + i * step : i \in 0 .. (repeats - 1)} :
            t >= start /\ t <= end /\ bucket > t - window /\ bucket <= t}

(* logQLMetricBucketSQLSafe, logQLUnwrapMetricBucketSQLSafe and the fan-out *)
(* of the other unwrapping functions.                                      *)
BucketSafe(agg, step) == agg.window % step = 0 /\ agg.offset = 0

(* The evaluation times at which a row counts: those of its step bucket, or *)
(* the CROSS JOIN, which does not shift the window by the offset.          *)
SeenAt(agg, ts, start, end, step) ==
    IF BucketSafe(agg, step) THEN Fanout(CeilTo(ts, step), agg.window, start, end, step)
    ELSE {t \in Grid(start, end, step) : ts > t - agg.window /\ ts <= t}

(* plan.valueExpr, logQLUnwrapWindowAggregateExpr, and for step buckets     *)
(* logQLUnwrapBucketAggregateExpr, which has its own variance.             *)
SQLValue(agg, group, bucketed) ==
    LET n == Cardinality(group)
        sum == SumOf(group, ValueOf)
        squares == SumOf(group, LAMBDA r : ValueOf(r) * ValueOf(r))
    IN  IF agg.fn = "stdvar_over_time" /\ bucketed
        THEN {R(Max({0, n * squares - sum * sum}), n * n)}
        ELSE rangeAggregationValue(agg.fn, group, agg.window, agg.param)

(* logQLMetricResultSQL: the comparison first, then topk per time.          *)
ResultSQL(plan, S) ==
    LET kept == Compared(S, plan.cmp)
    IN  IF plan.topk = <<>> THEN kept
        ELSE UNION {TopK({s \in kept : s.t = t}, plan.topk[1], plan.topk[2]) : t \in {s.t : s \in kept}}

(* queryLogQLMetricSQL, queryLogQLMetricBucketSQL and the two that unwrap   *)
(* (queryLogQLUnwrapMetricSQL, queryLogQLUnwrapMetricBucketSQL).           *)
LinesSQL(plan, table, start, end, step) ==
    LET agg == plan.agg
        sel == agg.sel
        low == start - agg.window - agg.offset
        high == end - agg.offset
        source == {r \in table : r.ts >= low /\ r.ts <= high /\ SQLKeeps(r, sel)}
        valued(r) == [tag |-> r.tag, ts |-> r.ts, line |-> r.line,
                      unwrap |-> IF agg.fn \in CountFns THEN {} ELSE SQLUnwrap(r, sel.stages),
                      at |-> SeenAt(agg, r.ts, start, end, step),
                      labels |-> GroupLabels([n \in plan.labels |-> LabelValue(r, n)])]
        rs == {r \in {valued(r) : r \in source} : agg.fn \in CountFns \/ r.unwrap # {}}
        keys == UNION {{[labels |-> r.labels, t |-> t] : t \in r.at} : r \in rs}
        group(k) == {r \in rs : r.labels = k.labels /\ k.t \in r.at}
    IN  ResultSQL(plan,
          UNION {{[labels |-> k.labels, t |-> k.t, value |-> v] :
                     v \in SQLValue(agg, group(k), BucketSafe(agg, step) /\ agg.fn \in BucketFns)}
                    : k \in keys})
=============================================================================
