----------------------------- MODULE MCLogQuery -----------------------------
(* Lines, pushes and queries for LogQuery: a second is two ticks, a minute  *)
(* four. The pushes cover aliases that disagree, metadata, resources (also *)
(* one called service_name), a line on a minute boundary, nested JSON, JSON *)
(* that does not parse and coloured text.                                  *)
EXTENDS LogQuery

Line(words, size, valid, json, logfmt) ==
    [words |-> words, hidden |-> {}, size |-> size, level |-> "", word |-> "unknown",
     valid |-> valid, json |-> json, logfmt |-> logfmt, caps |-> <<>>,
     db |-> [valid |-> valid, json |-> json, logfmt |-> logfmt]]

(* {"dur": 2, "code": 500, "user": {"id": 5}}                               *)
Flat == "dur" :> "2" @@ "code" :> "500"
JsonLine == [Line({"ok", "d"}, 3, TRUE, Flat @@ "user_id" :> "5", <<>>) EXCEPT
               !.caps = "code" :> "500", !.db.json = Flat]
FastLine == Line({"ok"}, 2, TRUE, "dur" :> "1", "dur" :> "1")
PlainLine == [Line({"err"}, 1, FALSE, <<>>, "dur" :> "x") EXCEPT !.word = "error"]
ColourLine == [FastLine EXCEPT !.hidden = {"err"}]

Entry(labels, meta, res, ts, line) ==
    [labels |-> labels, meta |-> meta, res |-> res, ts |-> ts, line |-> line]

Api(name) == name :> "api"
Web == "service.name" :> "web"

Sent ==
    [p1 |-> {<< Entry(Api("service_name") @@ "app" :> "a", <<>>, <<>>, 4, JsonLine),
                Entry("app" :> "b", <<>>, Web, 7, FastLine),
                Entry(Api("service.name") @@ "app" :> "a", "trace_id" :> "t", <<>>, 9, PlainLine) >>},
     p2 |-> {<< Entry("level" :> "info" @@ "severity" :> "warn", "zone" :> "m",
                      Api("service_name") @@ "severity" :> "s" @@ "pod" :> "x" @@ "zone" :> "r", 6, ColourLine) >>,
             << >>, Malformed}]

Snuffle(tabs) == [layout |-> "snuffle", tables |-> {"logs", "streams"} \cup tabs]
AllConfigs == {Snuffle({"labels", "stats"}), Snuffle({}),
               [layout |-> "snuffle", tables |-> {"logs"}],
               [layout |-> "snuffle", tables |-> {}],
               [layout |-> "posthog", tables |-> {"logs"}]}

Numbers == "1" :> 1 @@ "2" :> 2 @@ "500" :> 500

(* Selectors                                                               *)
Eq(n, v) == [name |-> n, op |-> "=", vals |-> {v}]
Sel(ms, stages) == [matchers |-> ms, stages |-> stages]
Has_(w) == [kind |-> "line_filter", op |-> "|=", words |-> {w}]
Json == [kind |-> "parser", parser |-> "json"]
Logfmt == [kind |-> "parser", parser |-> "logfmt"]
Regexp == [kind |-> "parser", parser |-> "regexp", groups |-> {"code"}]
Unwrap(n) == [kind |-> "unwrap", name |-> n]
Filter(n, op, vals) ==
    [name |-> n, op |-> op, vals |-> vals, numeric |-> FALSE, num |-> 0, conn |-> "and"]
AtLeast(n, x) == [name |-> n, op |-> ">=", vals |-> {}, numeric |-> TRUE, num |-> x, conn |-> "or"]
Filters(fs) == [kind |-> "label_filter", filters |-> fs]
AppA == {Eq("app", "a")}
Service == {Eq("service.name", "api")}
AnyApp == {[name |-> "app", op |-> "=~", vals |-> {"a", "b"}]}

(* Expressions                                                             *)
Range_(fn, sel, w, off, g) ==
    [kind |-> "range", fn |-> fn, sel |-> sel, window |-> w, offset |-> off, grouping |-> g,
     param |-> <<1, 2>>, cmp |-> <<>>]
By(names) == <<[without |-> FALSE, labels |-> names]>>
Without(names) == <<[without |-> TRUE, labels |-> names]>>
Sum_(g, e) == [kind |-> "agg", fn |-> "sum", grouping |-> g, of |-> e, cmp |-> <<>>]
Agg(fn, g, e) == [kind |-> "agg", fn |-> fn, grouping |-> g, of |-> e, cmp |-> <<>>]
Top(k, e) == [kind |-> "topk", k |-> k, top |-> TRUE, of |-> e, cmp |-> <<>>]
Bin(op, l, r, m) == [kind |-> "binary", op |-> op, lhs |-> l, rhs |-> r, bool |-> FALSE,
                     matching |-> m, cmp |-> <<>>]
Lit(x) == [kind |-> "scalar", value |-> <<x, 1>>, cmp |-> <<>>]
Vec(x) == [kind |-> "vector", value |-> <<x, 1>>, cmp |-> <<>>]
Where(e, op, x) == [e EXCEPT !.cmp = <<op, <<x, 1>>>>]
On(names) == <<[on |-> TRUE, labels |-> names, group |-> "", include |-> {}]>>
GroupLeft(names) == <<[on |-> TRUE, labels |-> names, group |-> "left", include |-> {"service_name"}]>>
Count(ms, w, g) == Range_("count_over_time", Sel(ms, <<>>), w, 0, g)

LogsQ(sel, limit, dir) ==
    [kind |-> "logs", sel |-> sel, instant |-> FALSE, start |-> 1, end |-> 10, step |-> 0,
     limit |-> limit, dir |-> dir]
MetricQ(e, start, end, step) ==
    [kind |-> "metric", expr |-> e, instant |-> FALSE, start |-> start, end |-> end, step |-> step,
     asked |-> <<start, end>>]
InstantQ(e, t) ==
    [kind |-> "metric", expr |-> e, instant |-> TRUE, start |-> t, end |-> t, step |-> 1]

LogQueries ==
    {LogsQ(Sel({}, <<>>), 2, "backward"),
     LogsQ(Sel(AppA, <<Has_("ok")>>), 1, "forward"),
     LogsQ(Sel({Eq("pod", "x")}, <<>>), 0, "forward"),
     LogsQ(Sel({[name |-> "severity", op |-> "!=", vals |-> {"error"}]}, <<Json>>), 2, "backward"),
     LogsQ(Sel({}, <<Json, Filters(<<Filter("__error__", "=", {""})>>)>>), 1, "forward"),
     LogsQ(Sel({}, <<Logfmt, Filters(<<AtLeast("dur", 1), Filter("app", "=", {"b"})>>)>>), 2, "backward"),
     LogsQ(Sel({}, <<Json, [kind |-> "line_format", name |-> "dur"], Has_("1")>>), 1, "backward"),
     LogsQ(Sel(AnyApp, <<Json, [kind |-> "label_format", name |-> "x", from |-> "dur"],
                         [kind |-> "keep", names |-> {"app", "x"}], Filters(<<Filter("x", "=", {"1"})>>)>>), 1, "forward"),
     LogsQ(Sel({}, <<[kind |-> "decolorize"], [kind |-> "drop", names |-> {"app"}], Has_("err")>>), 2, "forward"),
     [LogsQ(Sel({}, <<>>), 2, "forward") EXCEPT !.start = 11]}

SQLQueries ==
    {MetricQ(Sum_(By({"app"}), Count(AnyApp, 8, <<>>)), 3, 12, 4),
     MetricQ(Sum_(By({"service_name"}), Count({}, 4, <<>>)), 4, 12, 4),
     MetricQ(Sum_(<<>>, Range_("bytes_rate", Sel(Service, <<>>), 8, 0, <<>>)), 4, 12, 4),
     MetricQ(Sum_(By({"app"}), Count(Service, 4, <<>>)), 4, 8, 4),
     MetricQ(Sum_(By({"app"}), Range_("rate", Sel(AnyApp, <<Json, Filters(<<Filter("user_id", "=", {"5"})>>)>>), 4, 0, <<>>)), 4, 12, 4),
     MetricQ(Top(1, Sum_(By({"app"}), Range_("rate", Sel({}, <<Has_("ok")>>), 4, 0, <<>>))), 4, 12, 2),
     MetricQ(Where(Sum_(By({"trace_id"}), Count({}, 6, <<>>)), ">", 1), 5, 10, 4),
     MetricQ(Count({}, 4, By({"app"})), 4, 10, 3),
     MetricQ(Sum_(By({"app"}), Range_("sum_over_time", Sel(AnyApp, <<Json, Filters(<<AtLeast("dur", 1), Filter("app", "=", {"c"})>>), Unwrap("dur")>>), 6, 0, <<>>)), 4, 10, 2),
     MetricQ(Range_("stdvar_over_time", Sel({}, <<Json, Unwrap("dur")>>), 8, 0, By({"service_name"})), 4, 12, 2),
     MetricQ(Range_("quantile_over_time", Sel({}, <<Logfmt, Unwrap("dur")>>), 6, 0, By({"app"})), 4, 12, 2),
     MetricQ(Range_("avg_over_time", Sel(AnyApp, <<Regexp, Filters(<<Filter("app", "=", {"a"})>>), Unwrap("code")>>), 5, 0, By({"app"})), 4, 12, 2),
     InstantQ(Sum_(By({"app"}), Count({}, 6, <<>>)), 10)}

EvalQueries ==
    {MetricQ(Count({}, 6, <<>>), 4, 10, 2),
     InstantQ(Agg("max", By({"service_name"}), Range_("max_over_time", Sel({}, <<Logfmt, Unwrap("dur")>>), 8, 0, Without({"app"}))), 9),
     MetricQ(Bin("-", Sum_(By({"app"}), Count(AppA, 6, <<>>)), Sum_(By({"app"}), Count(AppA, 2, <<>>)), On({"app"})), 4, 10, 2),
     MetricQ(Bin("or", Sum_(By({"app"}), Count(AppA, 4, <<>>)), Vec(0), <<>>), 4, 8, 4),
     MetricQ(Bin("*", Lit(2), Range_("first_over_time", Sel({}, <<Json, Unwrap("dur")>>), 8, 2, By({"app"})), <<>>), 4, 12, 4),
     MetricQ(Bin("+", Count(AppA, 6, <<>>), Sum_(By({"app"}), Count({Eq("app", "b")}, 6, <<>>)), GroupLeft({})), 8, 8, 4),
     MetricQ(Range_("absent_over_time", Sel({Eq("app", "c")}, <<>>), 4, 0, <<>>), 4, 8, 4),
     MetricQ(Top(1, Agg("count", By({"level"}), Count({}, 8, <<>>))), 8, 8, 4),
     MetricQ([kind |-> "labelfn", dst |-> "app", src |-> "app", vals |-> {"a"}, to |-> "z", cmp |-> <<>>,
              of |-> Agg("avg", By({"app"}), Count({}, 8, <<>>))], 8, 8, 4)}

EdgeQueries ==
    {MetricQ(Count({}, 4, By({"app"})), 37, 39, 4), MetricQ(Count({}, 4, By({"app"})), -3, 3, 4),
     MetricQ(Count({}, 4, By({"app"})), 0, 30, 2), MetricQ(Count({}, 4, By({"app"})), 8, 4, 4)}

AllQueries == LogQueries \cup SQLQueries \cup EvalQueries \cup EdgeQueries

(* The expressions of the queries and everything they are made of.          *)
RECURSIVE Parts(_)
Parts(e) ==
    {e} \cup (CASE e.kind \in Unary -> Parts(e.of)
               [] e.kind = "binary" -> Parts(e.lhs) \cup Parts(e.rhs)
               [] OTHER -> {})
AllExpressions == UNION {Parts(q.expr) : q \in {q \in AllQueries : q.kind = "metric"}}
=============================================================================
