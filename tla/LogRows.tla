------------------------------- MODULE LogRows -------------------------------
(***************************************************************************)
(* Log lines: how a pushed entry becomes a stored row (loki_api.go), how   *)
(* SQL and how Go resolve the labels of a stored row, and how a selector   *)
(* is applied to it on either side (logql.go, logql_sql.go).               *)
(*                                                                         *)
(* A label map is a function from the names present to their values, with  *)
(* the names the code uses: the labels and fields it keeps have every alias *)
(* of service and of level, resource attributes are kept as they come. No   *)
(* pushed name starts with __. A line is what the code asks of it: words    *)
(* (what a line filter finds in it), hidden (words it shows only once its   *)
(* colours are removed), size, level (the explicit severity), word (the    *)
(* severity its words suggest), valid (is it a JSON object?), json and     *)
(* logfmt (the fields Go's parsers find, flattened and renamed), db (what  *)
(* ClickHouse finds instead: valid, and by name json and logfmt) and caps  *)
(* (what the capture groups of a regexp or pattern match). The code treats *)
(* span_id as it does trace_id, which stands for both; parsers without     *)
(* parameters stand for those with them.                                   *)
(***************************************************************************)
EXTENDS Integers, Sequences, FiniteSets, TLC, SequencesExt

CONSTANT Number   \* the label values that parse as numbers, and what they are

ServiceNames == {"service_name", "service.name"}
LevelNames == {"level", "severity_text", "detected_level"}
LevelAliases == LevelNames \cup {"severity"}

Empty == ""   \* the value of a label that is not there

Get(m, n) == IF n \in DOMAIN m THEN m[n] ELSE Empty
Only(m, names) == [n \in DOMAIN m \cap names |-> m[n]]
Single(n, v) == [x \in {n} |-> v]
Core(names, v) == IF v = Empty THEN <<>> ELSE [n \in names |-> v]

(* The value of the first of some names that has one.                       *)
FirstValue(m, names) ==
    LET given == {i \in DOMAIN names : Get(m, names[i]) # Empty}
    IN  IF given = {} THEN Empty ELSE m[names[Min(given)]]

(* Two maps as one; the first hides the second.                             *)
Over(f, g) == [n \in DOMAIN f \cup DOMAIN g |-> IF n \in DOMAIN f THEN f[n] ELSE g[n]]

-----------------------------------------------------------------------------
(* addSnuffleLogLabel: the names a pushed label is kept under. They are     *)
(* also the names logQLSnuffleStreamLabelKeyCondition accepts for a label. *)
KeptNames(a) ==
    IF a \in ServiceNames THEN ServiceNames ELSE IF a \in LevelAliases THEN LevelNames ELSE {a}

(* A pushed map as addSnuffleLogLabel keeps it. The code ranges over a Go   *)
(* map, so of several aliases any one may be written last.                 *)
Collapsed(m) ==
    LET names == UNION {KeptNames(a) : a \in DOMAIN m}
        last == {w \in [names -> DOMAIN m] :
                    \A n \in names : n \in KeptNames(w[n]) /\ \A o \in KeptNames(n) : w[o] = w[n]}
    IN  {[n \in names |-> m[w[n]]] : w \in last}

(* inferLogSeverity: what the line says, or what its words suggest.         *)
inferLogSeverity(line) == IF line.level # Empty THEN line.level ELSE line.word

(* lokiInsertRow for one order of the two loops: l are the stream labels, f *)
(* the fields. Metadata overrides the service and level of the labels, the *)
(* resource's service.name is the service only if nothing else is, and the *)
(* final service and level replace those of the stream labels. attrs is    *)
(* what the PostHog layout stores instead.                                 *)
InsertedRow(e, l, f) ==
    LET last(n) == IF n \in DOMAIN f THEN f[n] ELSE Get(l, n)
        service == IF last("service_name") = Empty THEN Get(e.res, "service.name")
                   ELSE last("service_name")
        severity == IF last("level") = Empty THEN inferLogSeverity(e.line) ELSE last("level")
        trace == last("trace_id")
        columns == ServiceNames \cup (LevelNames \ {"detected_level"})
    IN  [labels |-> Over(Core(ServiceNames, service), Over(Core(LevelNames, severity), l)),
         res |-> e.res,
         fields |-> IF Get(l, "trace_id") = Empty THEN Over(Core({"trace_id"}, trace), f) ELSE f,
         attrs |-> Only(Over(f, l), (DOMAIN f \cup DOMAIN l) \ columns),
         ts |-> e.ts,
         line |-> e.line]

(* The rows an entry may become; resource metadata is split off first.      *)
lokiInsertRow(e) ==
    {InsertedRow(e, l, f) : l \in Collapsed(e.labels), f \in Collapsed(e.meta)}

(* snuffleLogStreamID: a hash of both maps, taken to be free of collisions. *)
StreamID(r) == [labels |-> r.labels, res |-> r.res]

-----------------------------------------------------------------------------
(* The label of a stream in SQL: service_name and severity_text of          *)
(* log_streams, and logQLSnuffleStreamOnlyLabelValueExpr. Of a resource     *)
(* only service.name is read as the service.                               *)
StreamLabelValue(s, n) ==
    CASE n \in ServiceNames ->
           IF "service_name" \in DOMAIN s.labels THEN s.labels["service_name"]
           ELSE Get(s.res, "service.name")
      [] n \in LevelAliases -> Get(s.labels, "level")
      [] n = "trace_id" -> Get(s.labels, "trace_id")
      [] OTHER -> IF n \in DOMAIN s.labels THEN s.labels[n] ELSE Get(s.res, n)

(* logQLSnuffleLabelValueExpr: the label of a row in SQL, its stream first. *)
LabelValue(r, n) ==
    LET stream == StreamLabelValue(r, n)
    IN  CASE n \in ServiceNames -> IF stream # Empty THEN stream ELSE Get(r.fields, n)
          [] n \in LevelAliases -> IF stream # Empty THEN stream ELSE Get(r.fields, "level")
          [] OTHER -> IF n \in DOMAIN r.fields \ DOMAIN r.labels THEN r.fields[n] ELSE stream

(* scanLogRows, labelsAndFieldsFromLogColumns: the row Go works on. Its     *)
(* attributes are mapConcat(labels, fields), so a field hides a label.     *)
GoRow(r) ==
    LET attrs == Over(r.fields, r.labels)
        core == Over(Core(ServiceNames, LabelValue(r, "service_name")),
                     Over(Core(LevelNames, LabelValue(r, "level")),
                          Core({"trace_id"}, LabelValue(r, "trace_id"))))
    IN  [tag |-> r.tag,
         labels |-> Over(attrs, core),
         stream |-> Over(attrs, core),
         fields |-> Over(attrs, Over(core, r.res)),
         line |-> r.line, ts |-> r.ts, unwrap |-> {}, ok |-> TRUE]

(* matchesValue and logQLStringCondition. vals are the values the matcher's *)
(* literal or expression matches.                                          *)
Matches(m, v) == (v \in m.vals) = (m.op \in {"=", "==", "=~"})

(* logQLLineFilter.matches and logQLLineFilterCondition.                    *)
LineMatches(f, line) == (f.words \cap line.words # {}) = (f.op \in {"|=", "|~", "|>"})

(* The comparison of a label filter or of a result with a number.           *)
Compare(op, a, b) ==
    CASE op = "==" -> a = b
      [] op = "!=" -> a # b
      [] op = ">"  -> a > b
      [] op = ">=" -> a >= b
      [] op = "<"  -> a < b
      [] op = "<=" -> a <= b

(* logQLLabelFilter.matches for the value v; one that does not parse fails  *)
(* every numeric comparison. In SQL a comparison with NULL is not true.    *)
FilterMatches(f, v) ==
    IF f.numeric THEN v \in DOMAIN Number /\ Compare(f.op, Number[v], f.num)
    ELSE Matches(f, v)

(* matchesLogQLLabelFilters: the filters of a stage from left to right;     *)
(* values[i] is the value the i-th one reads.                               *)
FiltersMatch(filters, values) ==
    FoldLeft(LAMBDA acc, i :
               LET ok == FilterMatches(filters[i], values[i])
               IN  IF i = 1 THEN ok
                   ELSE IF filters[i - 1].conn = "or" THEN acc \/ ok ELSE acc /\ ok,
             TRUE, [i \in DOMAIN filters |-> i])

-----------------------------------------------------------------------------
(* row.value and the value a label filter reads.                            *)
RowValue(row, n) == IF n \in DOMAIN row.labels THEN row.labels[n] ELSE Get(row.fields, n)
FilterValue(row, n) == IF Get(row.labels, n) # Empty THEN row.labels[n] ELSE Get(row.fields, n)

(* setLogQLParserError keeps the first error.                               *)
WithError(row, err) ==
    LET set(m) == IF Get(m, "__error__") = Empty THEN Over(Single("__error__", err), m) ELSE m
    IN  [row EXCEPT !.labels = set(@), !.fields = set(@)]

WithFields(row, m) == [row EXCEPT !.labels = Over(m, @), !.fields = Over(m, @)]

(* applyParser, applyNamedCaptureParser.                                    *)
applyParser(row, st) ==
    CASE st.parser = "json" ->
           IF row.line.valid THEN WithFields(row, row.line.json) ELSE WithError(row, "JSONParserErr")
      [] st.parser = "logfmt" -> WithFields(row, row.line.logfmt)
      [] OTHER -> WithFields(row, Only(row.line.caps, st.groups))

(* renderLogQLTemplate for a template that shows one label.                 *)
Rendered(row, n) ==
    LET v == RowValue(row, n)
    IN  [words |-> {v} \ {Empty}, hidden |-> {}, size |-> IF v = Empty THEN 0 ELSE 1, level |-> Empty,
         word |-> "unknown", valid |-> FALSE, json |-> <<>>, logfmt |-> <<>>, caps |-> <<>>,
         db |-> [valid |-> FALSE, json |-> <<>>, logfmt |-> <<>>]]

decolorizeLogLine(line) == [line EXCEPT !.words = @ \cup line.hidden, !.hidden = {}]

StageKinds ==
    {"line_filter", "parser", "label_filter", "line_format", "label_format", "drop", "keep",
     "decolorize", "unwrap"}

(* One stage of a pipeline on a row; a row that is not ok is dropped.       *)
applyStage(row, st) ==
    CASE st.kind = "line_filter" -> [row EXCEPT !.ok = @ /\ LineMatches(st, row.line)]
      [] st.kind = "parser" -> applyParser(row, st)
      [] st.kind = "label_filter" ->
           [row EXCEPT !.ok = @ /\ FiltersMatch(st.filters,
                     [i \in DOMAIN st.filters |-> FilterValue(row, st.filters[i].name)])]
      [] st.kind = "line_format" -> [row EXCEPT !.line = Rendered(row, st.name)]
      [] st.kind = "label_format" -> [row EXCEPT !.labels = Over(Single(st.name, RowValue(row, st.from)), @)]
      [] st.kind = "drop" ->
           [row EXCEPT !.labels = Only(@, DOMAIN @ \ st.names), !.fields = Only(@, DOMAIN @ \ st.names)]
      [] st.kind = "keep" ->
           [row EXCEPT !.labels = Only(@, st.names), !.fields = Only(@, st.names)]
      [] st.kind = "decolorize" -> [row EXCEPT !.line = decolorizeLogLine(@)]
      [] st.kind = "unwrap" ->
           IF RowValue(row, st.name) \in DOMAIN Number
           THEN [row EXCEPT !.unwrap = {Number[RowValue(row, st.name)]}]
           ELSE WithError(row, "SampleExtractionErr")

(* The row after each of the stages.                                        *)
RowAfter(row, stages) ==
    LET after[n \in 0 .. Len(stages)] ==
            IF n = 0 THEN row ELSE applyStage(after[n - 1], stages[n])
    IN  after
applyStages(row, stages) == RowAfter(row, stages)[Len(stages)]

(* logQLMatcherLabelValue: a label, or another of its aliases.              *)
MatcherLabelValue(labels, n) ==
    IF Get(labels, n) # Empty THEN labels[n]
    ELSE FirstValue(labels, CASE n \in ServiceNames -> <<"service_name", "service.name">>
                              [] n \in LevelAliases -> <<"level", "severity_text", "detected_level", "severity">>
                              [] OTHER -> <<n>>)

(* The label a selector's matcher is compared with once more in Go.         *)
RecheckValue(row, n) ==
    LET value == MatcherLabelValue(row.stream, n) IN IF value # Empty THEN value ELSE Get(row.fields, n)

(* logQLSelector.apply: the matchers again, then the stages.                *)
apply(sel, row) ==
    LET out == applyStages(row, sel.stages)
    IN  [out EXCEPT !.ok = @ /\ \A m \in sel.matchers : Matches(m, RecheckValue(row, m.name))]

-----------------------------------------------------------------------------
(* logQLBaseFilters: the line filters before the first line_format are part *)
(* of the statement.                                                       *)
PushedLineFilters(stages) ==
    {stages[i] : i \in {j \in DOMAIN stages :
        /\ stages[j].kind = "line_filter"
        /\ \A k \in 1 .. j : stages[k].kind # "line_format"}}

(* The rows of a table that logQLBaseFilters keeps between two times.       *)
BaseRows(rows, sel, start, end) ==
    {r \in rows : /\ r.ts >= start /\ r.ts <= end
                  /\ \A m \in sel.matchers : Matches(m, LabelValue(r, m.name))
                  /\ \A f \in PushedLineFilters(sel.stages) : LineMatches(f, r.line)}

(* logQLSelectorFullyPushed                                                *)
FullyPushed(sel) == \A i \in DOMAIN sel.stages : sel.stages[i].kind = "line_filter"
=============================================================================
