-------------------------- MODULE MCSeriesSelection --------------------------
(* Instances of SeriesSelection for TLC: two metrics and one label whose    *)
(* values "a1", "a2" share the prefix "a".                                 *)
EXTENDS SeriesSelection

WrittenSeries ==
       {[metric |-> "up", job |-> "a1"], [metric |-> "up", job |-> "a2"],
        [metric |-> "upper", job |-> ""], [metric |-> "upper", job |-> "b"]}

LabelValues == {"", "up", "upper", "a1", "a2", "b"}
M(n, t, lang, lits, prefix) ==
    [name |-> n, type |-> t, lang |-> lang, lits |-> lits, prefix |-> prefix,
     noop |-> FALSE]

MatcherSet ==
    { M("metric", "=", {"up"}, {}, {}),
      M("metric", "!=", {"up"}, {}, {}),
      M("metric", "=~", {"upper"}, {}, {"up", "upper"}),       \* up.+
      M("metric", "=~", {"up", "upper"}, {"up", "upper"}, {}), \* up|upper
      M("job", "=", {"a1"}, {}, {}),
      M("job", "=", {""}, {}, {}),
      M("job", "!=", {"a1"}, {}, {}),
      M("job", "!=", {""}, {}, {}),
      M("job", "=~", {"a1"}, {}, {"a1", "a2"}),                \* a.*1
      M("job", "=~", {"a1", "b"}, {"a1", "b"}, {}),            \* a1|b
      M("job", "=~", {"", "b"}, {"", "b"}, {}),                \* b|
      M("job", "!~", {"a1"}, {}, {"a1", "a2"}),                \* a.*1
      M("job", "!~", {"a1", "b"}, {"a1", "b"}, {}),
      M("job", "=~", {"a1", "a2"}, {}, {}),                    \* .[12]
      [M("job", "=~", LabelValues, {}, {}) EXCEPT !.noop = TRUE] }
=============================================================================
