------------------------------- MODULE LogQuery -------------------------------
(***************************************************************************)
(* A LogQL query (loki_api.go, logql_sql.go) beside the pushes that fill   *)
(* the tables. A log query reads rows until enough of them pass the part   *)
(* of the pipeline that runs in Go. A metric query is one statement when   *)
(* SQL can express it, over the lines or over the minute statistics;       *)
(* otherwise the rows of each selector are fetched, one after the other,   *)
(* and the expression is evaluated in Go. Pushes go on in between.         *)
(*                                                                         *)
(* A query is a record: kind ("logs" or "metric"), sel or expr, instant,   *)
(* start, end, step, limit and dir. LIMIT keeps the first rows in time     *)
(* order, of rows with one timestamp any. The queries are those of the     *)
(* snuffle layout.                                                         *)
(***************************************************************************)
EXTENDS LokiPush, LogMetric

CONSTANTS
    Queries,     \* the queries a client may send
    MaxRows,     \* LogQueryMaxRows
    Extra,       \* how many more rows than asked for are read (256)
    MaxPoints,   \* maxRangePushdownPoints
    MaxTime      \* the largest timestamp (MaxInt64)

ASSUME LogQueryAssumption ==
    /\ Second \in Nat \ {0}
    /\ MaxRows \in Nat \ {0}
    /\ Extra \in Nat \ {0}
    /\ MaxPoints \in Nat
    /\ MaxTime \in Nat
    /\ \A q \in Queries : q.start \in Int /\ q.end \in Int /\ q.start <= MaxTime /\ q.end <= MaxTime
    /\ \A q \in Queries : q.kind = "logs" =>
         /\ q.limit \in Int
         /\ Len(q.sel.stages) \in Nat /\ DOMAIN q.sel.stages = 1 .. Len(q.sel.stages)
         /\ \A i \in DOMAIN q.sel.stages : q.sel.stages[i].kind \in StageKinds
    /\ \A q \in Queries : q.kind = "metric" =>
         /\ {"kind", "expr", "instant", "start", "end", "step"} \subseteq DOMAIN q
         /\ q.expr \in Expressions
         /\ q.instant \in BOOLEAN
         /\ ~q.instant => /\ q.step \in Nat \ {0}
                          /\ "asked" \in DOMAIN q /\ q.asked = <<q.start, q.end>>

VARIABLES
    query,      \* the query and its aligned range
    phase,      \* what its handler is doing
    cand,       \* candidateLimit
    fetched,    \* the rows fetched so far, each with the number of its fetch
    fetches,    \* statements sent so far
    seen,       \* the lines the last statement could see
    torn,       \* lines were added between two of its statements
    answer      \* the lines or samples of the answer

queryVars == <<query, phase, cand, fetched, fetches, seen, torn, answer>>
vars == <<pushVars, queryVars>>

NoQuery == [kind |-> "none"]

(* logQLLogsTableSQL: the lines, joined with their streams.                 *)
Lines == {e \in events : StreamID(e) \in streams}

-----------------------------------------------------------------------------
(* MUTANT of ceilUnixNanoTime: the edge of the type is not looked at.       *)
ceilUnixNanoTimeWraps(t, step) ==
    LET rem == IF t >= 0 THEN t % step ELSE -((-t) % step)
        up == t + (step - rem)
    IN  IF rem > 0 THEN {IF up > MaxTime THEN up - 2 * MaxTime - 2 ELSE up} ELSE {t - rem}

(* ceilUnixNanoTime: t rounded up to the step, if it has a representation.  *)
(* Go's % has the sign of the dividend.                                    *)
ceilUnixNanoTime(t, step) ==
    LET rem == IF t >= 0 THEN t % step ELSE -((-t) % step)
    IN  IF rem > 0
        THEN IF t > MaxTime - (step - rem) THEN {} ELSE {t + (step - rem)}
        ELSE {t - rem}

Between(q, start, end) == [q EXCEPT !.start = start, !.end = end]

(* alignLogQLMetricRange                                                   *)
Aligned(q) ==
    IF q.instant THEN {q}
    ELSE {Between(q, s, e) :
            s \in ceilUnixNanoTime(q.start, q.step), e \in ceilUnixNanoTime(q.end, q.step)}

(* MUTANT of logQLCandidateLimit: as if the whole pipeline ran in SQL.      *)
logQLCandidateLimitPushed(sel, limit) == Min({MaxRows, limit + Min({Extra, limit})})

(* logQLCandidateLimit: how many rows to read for limit of them.            *)
logQLCandidateLimit(sel, limit) ==
    IF ~FullyPushed(sel) THEN MaxRows ELSE Min({MaxRows, limit + Min({Extra, limit})})

(* queryLogQLRows: a limit that is missing or too large is the maximum.     *)
Limit(q) == IF q.limit <= 0 \/ q.limit > MaxRows THEN MaxRows ELSE q.limit

QueryInit ==
    /\ query = NoQuery
    /\ phase = "idle"
    /\ cand = 0
    /\ fetched = {}
    /\ fetches = 0
    /\ seen = {}
    /\ torn = FALSE
    /\ answer = {}

Init == PushInit /\ QueryInit

Refuse(q) ==
    /\ query' = q
    /\ phase' = "refused"
    /\ UNCHANGED <<cand, fetched, fetches, seen, torn, answer>>

(* handleLokiQuery, handleLokiQueryRange up to the first statement.         *)
handleLokiQuery(q) ==
    /\ phase = "idle"
    /\ config.layout = "snuffle" /\ Has("logs") /\ Has("streams")
    /\ \/ q.end < q.start /\ Refuse(q)
       \/ /\ q.end >= q.start /\ q.kind = "logs"
          /\ query' = q
          /\ phase' = "logs"
          /\ cand' = logQLCandidateLimit(q.sel, Limit(q))
          /\ UNCHANGED <<fetched, fetches, seen, torn, answer>>
       \/ /\ q.end >= q.start /\ q.kind = "metric"
          /\ \/ Aligned(q) = {} /\ Refuse(q)
             \/ \E a \in Aligned(q) :
                   IF logQLRangePoints(a.start, a.end, a.step) > MaxPoints THEN Refuse(q)
                   ELSE /\ query' = a
                        /\ phase' = IF buildLogQLMetricSQLPlan(q.expr) # {} THEN "sql" ELSE "eval"
                        /\ UNCHANGED <<cand, fetched, fetches, seen, torn, answer>>
    /\ UNCHANGED pushVars

Before(a, b) == IF query.dir = "backward" THEN a.ts > b.ts ELSE a.ts < b.ts

(* ORDER BY time LIMIT n.                                                  *)
FirstOf(S, n) ==
    IF Cardinality(S) <= n THEN {S}
    ELSE {T \in kSubset(n, S) : \A a \in T, b \in S \ T : ~Before(b, a)}

(* When queryLogQLRows stops reading.                                       *)
ReadDone(kept, raw) == kept >= Limit(query) \/ raw < cand \/ cand >= MaxRows

(* The labels of a row that SQL matched completely: a label that SQL found  *)
(* in the resource is added from an equality matcher (scanLogStreamRows).  *)
Annotated(row) ==
    LET given == {m \in query.sel.matchers : m.op = "=" /\ m.name \notin DOMAIN row.labels}
    IN  [row EXCEPT !.labels = Over(@, [n \in {m.name : m \in given} |->
            CHOOSE v \in (CHOOSE m \in given : m.name = n).vals : TRUE])]

(* MUTANT of PipelineRows: rows already filtered by SQL are not filtered    *)
(* again by the stages that run in Go.                                     *)
PipelineRowsRaw(S) == {Annotated(GoRow(r)) : r \in S}

(* What becomes of the rows read: scanLogStreamRows for a selector that is  *)
(* fully pushed, otherwise scanLogRows and applyLogQLSelector.             *)
PipelineRows(S) ==
    IF FullyPushed(query.sel) THEN {Annotated(GoRow(r)) : r \in S}
    ELSE {x \in {apply(query.sel, GoRow(r)) : r \in S} : x.ok}

(* One statement of queryLogQLRows, and logStreamResults once it has        *)
(* enough; otherwise the limit is doubled.                                 *)
ReadLogs ==
    /\ phase = "logs"
    /\ \E raw \in FirstOf(BaseRows(Lines, query.sel, query.start, query.end), cand) :
         LET kept == PipelineRows(raw)
         IN  IF ReadDone(Cardinality(kept), Cardinality(raw))
             THEN /\ \E out \in FirstOf(kept, Limit(query)) : answer' = out
                  /\ phase' = "answered"
                  /\ UNCHANGED cand
             ELSE /\ cand' = Min({MaxRows, 2 * cand})
                  /\ UNCHANGED <<phase, answer>>
    /\ fetches' = fetches + 1
    /\ seen' = Lines
    /\ torn' = (fetches > 0 /\ (torn \/ seen # Lines))
    /\ UNCHANGED <<query, fetched, pushVars>>

-----------------------------------------------------------------------------
StatsLabels == {"trace_id", "span_id"}

(* logQLMetricSnuffleStatsSQLSafe                                          *)
StatsSafe(plan, step) ==
    /\ Has("stats")
    /\ plan.agg.fn \in CountFns /\ BucketSafe(plan.agg, step)
    /\ step >= Minute /\ step % Minute = 0
    /\ plan.agg.sel.stages = <<>>
    /\ \A m \in plan.agg.sel.matchers : m.name \notin StatsLabels
    /\ plan.labels \cap StatsLabels = {}

(* logQLSnuffleStatsLabelIndexJoinCount > 0: labels are taken from the      *)
(* index if every group label and every matcher can be.                    *)
UseLabelIndex(plan) ==
    /\ Has("labels")
    /\ plan.labels # {} \/ plan.agg.sel.matchers # {}
    /\ plan.labels \cap (ServiceNames \cup LevelAliases) = {}
    /\ \A m \in plan.agg.sel.matchers : m.op \in {"=", "=~"} /\ Empty \notin m.vals

IndexValue(s, n) ==
    LET found == {x.value : x \in {x \in labelIndex : x.stream = s /\ x.name = n}}
    IN  IF found = {} THEN Empty ELSE CHOOSE v \in found : TRUE

(* A matcher on the index: some row under one of the label's names fits.    *)
IndexMatches(s, m) ==
    \E x \in labelIndex : x.stream = s /\ x.name \in KeptNames(m.name) /\ Matches(m, x.value)

(* MUTANT of StatsBucket: a minute counts from its start, not its end.      *)
StatsBucketStart(c, step) == CeilTo(c.bucket, step)

(* The step bucket a minute belongs to, by the end of the minute.           *)
StatsBucket(c, step) == CeilTo(c.bucket + Minute, step)

(* queryLogQLMetricSnuffleStatsSQL: the minutes that match, by label index  *)
(* or by joining the streams, summed over the steps of the window. With    *)
(* group labels count_over_time fans out, everything else is summed over a *)
(* window frame on the grid and kept where lines were counted.             *)
StatsSQL(plan, start, end, step) ==
    LET agg == plan.agg
        indexed == UseLabelIndex(plan)
        value(c, n) == IF indexed THEN IndexValue(c.stream, n) ELSE StreamLabelValue(c.stream, n)
        matches(c) == \A m \in agg.sel.matchers :
                        IF indexed THEN IndexMatches(c.stream, m) ELSE Matches(m, value(c, m.name))
        source == {c \in stats : /\ c.bucket >= MinuteOf(start - agg.window)
                                 /\ c.bucket <= MinuteOf(end)
                                 /\ indexed \/ c.stream \in streams
                                 /\ matches(c)}
        labels(c) == GroupLabels([n \in plan.labels |-> value(c, n)])
        frame(c) == {t \in Grid(start, end, step) :
                       \E k \in 0 .. (Max({agg.window \div step, 1}) - 1) : StatsBucket(c, step) = t - k * step}
        at(c) == IF agg.fn = "count_over_time" /\ plan.labels # {} /\ plan.topk = <<>>
                 THEN Fanout(StatsBucket(c, step), agg.window, start, end, step)
                 ELSE frame(c)
        keys == UNION {{[labels |-> labels(c), t |-> t] : t \in at(c)} : c \in source}
        group(k) == {c \in source : labels(c) = k.labels /\ k.t \in at(c)}
        total(k) == IF agg.fn \in {"count_over_time", "rate"} THEN SumOf(group(k), LAMBDA c : c.count)
                    ELSE SumOf(group(k), LAMBDA c : c.bytes)
        per == IF agg.fn \in {"rate", "bytes_rate"} THEN <<Second, agg.window>> ELSE <<1, 1>>
    IN  ResultSQL(plan, {[labels |-> k.labels, t |-> k.t, value |-> R(total(k) * per[1], per[2])] : k \in keys})

(* The plan of the query; an instant query is evaluated with a step of a    *)
(* second (tryLogQLInstantMetricSQL).                                      *)
Plan == CHOOSE p \in buildLogQLMetricSQLPlan(query.expr) : TRUE
SQLStep == IF query.instant THEN Second ELSE query.step
FromStats == StatsSafe(Plan, SQLStep)

(* tryLogQLRangeMetricSQL, tryLogQLInstantMetricSQL, queryLogQLMetricSQL.   *)
MetricSQL ==
    /\ phase = "sql"
    /\ answer' = IF FromStats THEN StatsSQL(Plan, query.start, query.end, SQLStep)
                 ELSE LinesSQL(Plan, Lines, query.start, query.end, SQLStep)
    /\ phase' = "answered"
    /\ fetches' = fetches + 1
    /\ seen' = IF FromStats THEN {e \in Lines : \E c \in stats : c.tag = <<e.tag[1], e.tag[2]>>} ELSE Lines
    /\ UNCHANGED <<query, cand, fetched, torn, pushVars>>

-----------------------------------------------------------------------------
(* MUTANT of logQLMetricFetchBounds: the windows are not fetched.           *)
logQLMetricFetchBoundsNarrow(aggs, start, end) ==
    LET offset == Max({aggs[i].offset : i \in DOMAIN aggs} \cup {0})
    IN  <<start - offset, end - offset>>

(* logQLMetricFetchBounds: the longest window, and the longest offset at    *)
(* both ends.                                                              *)
logQLMetricFetchBounds(aggs, start, end) ==
    LET window == Max({aggs[i].window : i \in DOMAIN aggs} \cup {0})
        offset == Max({aggs[i].offset : i \in DOMAIN aggs} \cup {0})
    IN  <<start - window - offset, end - offset>>

(* logQLSelectorKey leaves out what label filters, formats and unwrap do.   *)
SelectorKey(sel) ==
    <<sel.matchers,
      [i \in DOMAIN sel.stages |->
         LET st == sel.stages[i]
         IN  <<st.kind,
               IF st.kind = "line_filter" THEN <<st.op, st.words>> ELSE <<>>,
               IF st.kind = "parser" THEN <<st.parser>> ELSE <<>>,
               IF st.kind = "line_format" THEN <<st.name>> ELSE <<>>>>]>>

(* The selectors of the expression, each key once, in order.                *)
Fetches ==
    LET aggs == RangeAggs(query.expr)
        new(i) == \A j \in 1 .. (i - 1) : SelectorKey(aggs[j].sel) # SelectorKey(aggs[i].sel)
        at == SelectSeq([i \in DOMAIN aggs |-> i], new)
    IN  [k \in DOMAIN at |-> aggs[at[k]].sel]

(* One statement of queryLogQLMetricRows. It asks for one row more than the *)
(* maximum, to tell a full answer from one that was cut off.               *)
FetchSelector ==
    /\ phase = "eval"
    /\ fetches < Len(Fetches)
    /\ LET bounds == logQLMetricFetchBounds(RangeAggs(query.expr), query.start, query.end)
           found == BaseRows(Lines, Fetches[fetches + 1], bounds[1], bounds[2])
       IN  IF Cardinality(found) > MaxRows
           THEN phase' = "refused" /\ UNCHANGED fetched
           ELSE /\ fetched' = fetched \cup {[GoRow(r) EXCEPT !.tag = <<fetches, r.tag>>] : r \in found}
                /\ UNCHANGED phase
    /\ fetches' = fetches + 1
    /\ seen' = Lines
    /\ torn' = (fetches > 0 /\ (torn \/ seen # Lines))
    /\ UNCHANGED <<query, cand, answer, pushVars>>

(* evaluateLogQLInstantMetric, evaluateLogQLRangeMetric.                    *)
Evaluate ==
    /\ phase = "eval"
    /\ fetches = Len(Fetches)
    /\ answer' = EvalGrid(query.expr, fetched, query.start, query.end, query.step)
    /\ phase' = "answered"
    /\ UNCHANGED <<query, cand, fetched, fetches, seen, torn, pushVars>>

(* ClickHouse reports an error or the query's time is over.                 *)
QueryFails ==
    /\ phase \in {"logs", "sql", "eval"}
    /\ phase' = "refused"
    /\ UNCHANGED <<query, cand, fetched, fetches, seen, torn, answer, pushVars>>

(* The handler has answered and is gone.                                    *)
Reply ==
    /\ phase \in {"answered", "refused"}
    /\ query' = NoQuery /\ phase' = "idle"
    /\ cand' = 0 /\ fetched' = {} /\ fetches' = 0
    /\ seen' = {} /\ torn' = FALSE /\ answer' = {}
    /\ UNCHANGED pushVars

QueryNext ==
    \/ \E q \in Queries : handleLokiQuery(q)
    \/ ReadLogs \/ MetricSQL \/ FetchSelector \/ Evaluate \/ QueryFails \/ Reply

(* The handler only computes or writes its answer. These steps and those of *)
(* pushes do not affect each other, so pushes may as well wait for them.   *)
Private ==
    \/ phase \in {"answered", "refused"}
    \/ phase = "eval" /\ fetches = Len(Fetches)

Next == QueryNext \/ (~Private /\ PushNext /\ UNCHANGED queryVars)

Spec == Init /\ [][Next]_vars

-----------------------------------------------------------------------------
(* A matcher is evaluated in SQL and again in Go, where metadata hides a    *)
(* stream label of the same name; the exactness below is for lines on      *)
(* which the two agree.                                                    *)
SameLabels(r, sel) == \A m \in sel.matchers : LabelValue(r, m.name) = RecheckValue(GoRow(r), m.name)

(* The lines a log query is about: those whose labels match in SQL and that *)
(* pass every stage of the pipeline, wherever the stage runs.              *)
Wanted ==
    {r \in seen : /\ r.ts >= query.start /\ r.ts <= query.end
                  /\ \A m \in query.sel.matchers : Matches(m, LabelValue(r, m.name))
                  /\ applyStages(GoRow(r), query.sel.stages).ok}

(* A line filter after decolorize is pushed all the same and sees other     *)
(* text in the database (logql.go:1682-1689).                              *)
SameText(r, sel) ==
    r.line.hidden # {} => \A i \in DOMAIN sel.stages : sel.stages[i].kind # "decolorize"

Agrees(r, sel) == SameLabels(r, sel) /\ SameText(r, sel)

(* A log query returns the first lines of its direction that pass the whole *)
(* pipeline, as many as asked for, unless it read LogQueryMaxRows rows     *)
(* (loki_api.go:279-323): filters that run in Go do not make it stop early *)
(* and splitting the pipeline between SQL and Go loses nothing.            *)
FirstLinesReturned ==
    phase = "answered" /\ query.kind = "logs" =>
        LET got == {r \in Wanted : r.tag \in {a.tag : a \in answer}}
        IN  (\A r \in seen : Agrees(r, query.sel)) =>
              /\ {a.tag : a \in answer} \subseteq {r.tag : r \in Wanted}
              /\ Cardinality(BaseRows(seen, query.sel, query.start, query.end)) < MaxRows =>
                    /\ Cardinality(answer) = Min({Limit(query), Cardinality(Wanted)})
                    /\ \A r \in got, o \in Wanted \ got : ~Before(o, r)

(* A log query reads the table once: the loop that doubles the limit        *)
(* (loki_api.go:290-322) never goes round, since either every row read is  *)
(* kept or the first limit is already the maximum.                         *)
OneRead == query.kind = "logs" => fetches <= 1

(* Offsets of one expression agree, so that the bounds fit all of it.       *)
SameOffset(aggs) == \A i, j \in DOMAIN aggs : aggs[i].offset = aggs[j].offset

(* No line is fetched for two selectors (logQLSelectorKey tells apart what  *)
(* the statement does not, and overlapping selectors count a line twice).  *)
FetchedOnce == \A a, b \in fetched : a.tag[2] = b.tag[2] => a = b

(* The reference: the expression on every line there is, each once.         *)
OnEveryLine ==
    EvalGrid(query.expr, {GoRow(r) : r \in seen}, query.start, query.end, query.step)

(* A metric evaluated in Go on fetched rows has the value it has on all     *)
(* lines: the bounds of the fetch, the filters that SQL applies to it and  *)
(* the selectors it fetches together do not change the result              *)
(* (loki_api.go:325-357, 464-515).                                         *)
EvaluatorExact ==
    (/\ phase = "answered" /\ query.kind = "metric"
     /\ buildLogQLMetricSQLPlan(query.expr) = {}
     /\ ~torn /\ FetchedOnce /\ SameOffset(RangeAggs(query.expr))
     /\ \A r \in seen, i \in DOMAIN RangeAggs(query.expr) :
           Agrees(r, RangeAggs(query.expr)[i].sel)) => answer = OnEveryLine

(* Plans whose SQL means what the expression means. Not among them: an      *)
(* offset that the CROSS JOIN forgets, an outer sum of something that is   *)
(* not a sum, an inner grouping that a plain sum takes over, a topk with a *)
(* comparison (SQL compares first), groups by parsed labels, and an        *)
(* instant query between two seconds.                                      *)
FaithfulPlan(e) ==
    LET aggs == RangeAggs(e)
        agg == aggs[1]
        sum == IF e.kind = "topk" THEN e.of ELSE e
    IN  /\ agg.offset = 0
        /\ sum.kind = "agg" => /\ agg.fn \in CountFns \cup {"sum_over_time"}
                               /\ agg.grouping = <<>>
        /\ e.kind = "topk" => e.cmp = <<>>
        /\ query.instant => query.start % Second = 0

(* Go's parser and the functions of the database find the same field: not   *)
(* so for a nested key, which Go flattens, for a name Go rewrites, or for  *)
(* JSON that is not an object.                                             *)
SameField(r, n, parser) ==
    parser.parser \in {"json", "logfmt"} =>
        IF n = "__error__" THEN r.line.db.valid = r.line.valid
        ELSE ParsedValue(r, n, parser) =
                 Get(IF parser.parser = "logfmt" THEN r.line.logfmt
                     ELSE IF r.line.valid THEN r.line.json ELSE <<>>, n)

(* Rows on which the two ways of reading a label agree: no metadata hides a *)
(* label that is matched, filtered or grouped by, the parsers find the same *)
(* fields, none of them a group label, and they find the one to unwrap;    *)
(* the line is not from before 1970, where buckets round the other way.    *)
FaithfulRow(r, plan) ==
    LET stages == plan.agg.sel.stages
        go == GoRow(r)
        filters == UNION {ToSet(stages[i].filters) :
                      i \in {i \in DOMAIN stages : stages[i].kind = "label_filter"}}
        filtered == {m.name : m \in plan.agg.sel.matchers} \cup {f.name : f \in filters}
        unwrapped == {st.name : st \in Unwraps(stages)}
        parsers == ParserBefore(stages, Len(stages) + 1)
    IN  /\ r.ts >= 0
        /\ \A n \in filtered \cup unwrapped \cup plan.labels, p \in parsers : SameField(r, n, p)
        /\ \A n \in filtered \ {"__error__"} : LabelValue(r, n) = FilterValue(go, n)
        /\ \A n \in plan.labels :
             LabelValue(r, n) = Get(go.labels, n) /\ \A p \in parsers : ParsedValue(r, n, p) = Empty
        /\ \A n \in unwrapped :
             IF parsers = {} THEN LabelValue(r, n) = RowValue(go, n)
             ELSE \A p \in parsers : ParsedValue(r, n, p) # Empty \/ RowValue(go, n) = Empty
        /\ plan.agg.fn = "sum_over_time" =>
             LET out == apply(plan.agg.sel, go) IN out.ok => out.unwrap # {}

(* A metric answered by one statement over the lines has the value that the *)
(* evaluator in Go would give it: step buckets, fan-out, CROSS JOIN and    *)
(* the SQL forms of pipelines and functions agree with it at every window  *)
(* edge (logql_sql.go:506-831, 1138-1203).                                 *)
SQLMetricExact ==
    (/\ phase = "answered" /\ query.kind = "metric"
     /\ buildLogQLMetricSQLPlan(query.expr) # {}
     /\ ~FromStats /\ FaithfulPlan(query.expr)
     /\ \A r \in seen : FaithfulRow(r, Plan)) => answer = OnEveryLine

(* What the statistics can know of lines: minutes, and labels of streams.   *)
(* A window is [t - w, t), unlike the (t - w, t] of the evaluator.         *)
OnCountedLines ==
    LET agg == Plan.agg
        in(r, t) == r.ts >= t - agg.window /\ r.ts < t
        wanted == {r \in seen : \A m \in agg.sel.matchers : Matches(m, StreamLabelValue(r, m.name))}
        labels(r) == GroupLabels([n \in Plan.labels |-> StreamLabelValue(r, n)])
        group(l, t) == {r \in wanted : labels(r) = l /\ in(r, t)}
    IN  {x \in {[labels |-> l, t |-> t,
                 value |-> CHOOSE v \in rangeAggregationValue(agg.fn,
                     {[line |-> r.line, tag |-> r.tag, unwrap |-> {}] : r \in group(l, t)}, agg.window, <<0, 1>>) : TRUE]
                  : l \in {labels(r) : r \in wanted}, t \in Grid(query.start, query.end, query.step)} :
            group(x.labels, x.t) # {}}

(* A stream whose only service is a resource attribute called service_name: *)
(* the index has it as a service, the dictionary of streams does not.      *)
ServiceInIndexOnly(s) ==
    "service_name" \notin DOMAIN s.labels /\ Get(s.res, "service_name") # Empty

(* A metric answered from the minute statistics counts every line of the    *)
(* attempts counted so far once, in the right window and group, by the     *)
(* label index as by the streams, unless it asks for a service and there   *)
(* is such a stream (logql_sql.go:877-1134).                               *)
StatsExact ==
    (/\ phase = "answered" /\ query.kind = "metric"
     /\ buildLogQLMetricSQLPlan(query.expr) # {}
     /\ FromStats /\ Plan.cmp = <<>> /\ Plan.topk = <<>>
     /\ \A m \in Plan.agg.sel.matchers, r \in seen :
           m.name \in ServiceNames => ~ServiceInIndexOnly(r)) => answer = OnCountedLines

(* Evaluation times of a range query are the multiples of the step from the *)
(* first after the start asked for; near the end of time the query is      *)
(* refused instead (loki_api.go:517-548, 249).                             *)
GridAligned ==
    query.kind = "metric" /\ phase # "refused" /\ ~query.instant =>
        /\ query.start % query.step = 0 /\ query.end % query.step = 0
        /\ query.start - query.asked[1] \in 0 .. (query.step - 1)
        /\ query.end - query.asked[2] \in 0 .. (query.step - 1)
        /\ query.end <= MaxTime
        /\ Cardinality(Grid(query.start, query.end, query.step)) <= MaxPoints
=============================================================================
