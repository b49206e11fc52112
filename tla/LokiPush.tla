------------------------------- MODULE LokiPush -------------------------------
(***************************************************************************)
(* A Loki push (loki_api.go). The handler decodes the body into rows and   *)
(* fills four tables one after the other: the dictionary of streams, the   *)
(* label index, the lines and the minute statistics; the index and the     *)
(* statistics are optional. In the PostHog layout there is one insert.     *)
(* Every insert may be stored, refused, or stored and still reported as    *)
(* failed (a timeout); the push then fails and the client sends it again,  *)
(* as it does when the answer is lost. The listings (labels, label values, *)
(* series) read the streams, the index and the statistics.                 *)
(***************************************************************************)
EXTENDS LogRows

CONSTANTS
    Pushes,        \* the clients that push
    Bodies,        \* what each may send: sequences of entries, or Malformed
    Malformed,     \* a body, label string or timestamp that does not parse
    Configs,       \* the configurations: a layout and the tables configured
    Minute,        \* a minute, in the units of timestamps
    MaxAttempts,   \* bound: how often each client sends
    MaxFaults      \* bound: failed inserts and lost answers together

ASSUME PushAssumption ==
    /\ \A p \in Pushes : \A body \in Bodies[p] : body # Malformed =>
         /\ IsFiniteSet(DOMAIN body)
         /\ \A i \in DOMAIN body :
              /\ body[i].ts \in Int
              /\ {"words", "hidden"} \subseteq DOMAIN body[i].line
              /\ body[i].line.word # Empty
    /\ \A c \in Configs : c.layout \in {"snuffle", "posthog"}
    /\ Minute \in Nat \ {0}
    /\ MaxAttempts \in Nat
    /\ MaxFaults \in Nat

VARIABLES
    config,      \* the configuration; it does not change
    pc,          \* what the handler of each push does, or what it answered
    attempt,     \* how often each was sent
    rows,        \* the rows of the current attempt
    streams,     \* log_streams
    labelIndex,  \* log_stream_labels
    events,      \* logs
    stats,       \* log_stream_stats: one contribution per insert and key
    faults       \* faults so far

tables == <<streams, labelIndex, events, stats>>
pushVars == <<config, pc, attempt, rows, streams, labelIndex, events, stats, faults>>

Inserting == {"streams", "labels", "events", "stats"}
Answered == {"acked", "failed", "rejected"}
Has(table) == table \in config.tables

-----------------------------------------------------------------------------
(* insertSnuffleLogStreams: each stream of the batch once.                  *)
StreamsOf(rs) == {StreamID(rs[i]) : i \in DOMAIN rs}

(* The index rows of a stream: its labels and the resource attributes they  *)
(* do not hide, empty values left out.                                     *)
IndexEntries(s) ==
    LET visible == DOMAIN s.labels \cup DOMAIN s.res
        value(n) == IF n \in DOMAIN s.labels THEN s.labels[n] ELSE s.res[n]
    IN  {[name |-> n, value |-> value(n), stream |-> s] : n \in {n \in visible : value(n) # Empty}}

(* insertSnuffleLogStreamLabels                                            *)
IndexOf(rs) == UNION {IndexEntries(s) : s \in StreamsOf(rs)}

(* insertSnuffleLogEvents: all rows. The tag says where a line comes from.  *)
EventsOf(p, a, rs) ==
    {[tag |-> <<p, a, i>>, labels |-> rs[i].labels, res |-> rs[i].res, fields |-> rs[i].fields,
      attrs |-> rs[i].attrs, ts |-> rs[i].ts, line |-> rs[i].line] : i \in DOMAIN rs}

MinuteOf(t) == t - (t % Minute)

(* The bytes of some of the rows.                                           *)
BytesOf(rs, I) == MapThenSumSet(LAMBDA i : rs[i].line.size, I)

(* insertSnuffleLogStreamStats: lines and bytes per minute and stream.      *)
StatsOf(p, a, rs) ==
    LET at(b, s) == {i \in DOMAIN rs : MinuteOf(rs[i].ts) = b /\ StreamID(rs[i]) = s}
        row(b, s) == [tag |-> <<p, a>>, bucket |-> b, stream |-> s,
                      count |-> Cardinality(at(b, s)),
                      bytes |-> BytesOf(rs, at(b, s))]
    IN  {row(MinuteOf(rs[i].ts), StreamID(rs[i])) : i \in DOMAIN rs}

-----------------------------------------------------------------------------
PushInit ==
    /\ config \in Configs
    /\ pc = [p \in Pushes |-> "idle"]
    /\ attempt = [p \in Pushes |-> 0]
    /\ rows = [p \in Pushes |-> <<>>]
    /\ streams = {}
    /\ labelIndex = {}
    /\ events = {}
    /\ stats = {}
    /\ faults = 0

(* decodeLokiPushRows: the rows a body may become.                          *)
Decoded(body) ==
    {rs \in [DOMAIN body -> UNION {lokiInsertRow(body[i]) : i \in DOMAIN body}] :
        \A i \in DOMAIN body : rs[i] \in lokiInsertRow(body[i])}

(* handleLokiPush up to the first insert. Nothing is stored for a malformed *)
(* body or one without lines; without a table for lines, or for streams in *)
(* the snuffle layout, the push is refused.                                *)
handleLokiPush(p, body) ==
    /\ pc[p] \in {"idle", "failed"}
    /\ attempt[p] < MaxAttempts
    /\ attempt' = [attempt EXCEPT ![p] = @ + 1]
    /\ \/ /\ ~Has("logs")
          /\ pc' = [pc EXCEPT ![p] = "failed"]
          /\ UNCHANGED rows
       \/ /\ Has("logs") /\ body = Malformed
          /\ pc' = [pc EXCEPT ![p] = "rejected"]
          /\ UNCHANGED rows
       \/ /\ Has("logs") /\ body # Malformed
          /\ \E rs \in Decoded(body) : rows' = [rows EXCEPT ![p] = rs]
          /\ pc' = [pc EXCEPT ![p] =
                      CASE body = <<>> -> "acked"
                        [] body # <<>> /\ config.layout = "posthog" -> "events"
                        [] OTHER -> IF Has("streams") THEN "streams" ELSE "failed"]
    /\ UNCHANGED <<config, tables, faults>>

(* MUTANT of AfterInsert: the statistics are written before the lines.       *)
AfterInsertStatsFirst(stage) ==
    CASE stage = "streams" -> "labels"
      [] stage = "labels" -> IF Has("stats") THEN "stats" ELSE "events"
      [] stage = "stats" -> "events"
      [] stage = "events" -> "acked"

(* insertSnuffleLokiLogRows: the order of the inserts.                      *)
AfterInsert(stage) ==
    CASE stage = "streams" -> IF Has("labels") THEN "labels" ELSE "events"
      [] stage = "labels" -> "events"
      [] stage = "events" ->
           IF config.layout = "snuffle" /\ Has("stats") THEN "stats" ELSE "acked"
      [] stage = "stats" -> "acked"

Store(p) ==
    /\ streams' = IF pc[p] = "streams" THEN streams \cup StreamsOf(rows[p]) ELSE streams
    /\ labelIndex' = IF pc[p] = "labels" THEN labelIndex \cup IndexOf(rows[p]) ELSE labelIndex
    /\ events' = IF pc[p] = "events" THEN events \cup EventsOf(p, attempt[p], rows[p]) ELSE events
    /\ stats' = IF pc[p] = "stats" THEN stats \cup StatsOf(p, attempt[p], rows[p]) ELSE stats

Insert(p) ==
    /\ pc[p] \in Inserting
    /\ Store(p)
    /\ pc' = [pc EXCEPT ![p] = AfterInsert(pc[p])]
    /\ UNCHANGED <<config, attempt, rows, faults>>

(* MUTANT of InsertFails: a failed insert is taken for a success.           *)
InsertFailsIgnored(p) ==
    /\ pc[p] \in Inserting
    /\ faults < MaxFaults
    /\ Store(p) \/ UNCHANGED tables
    /\ pc' = [pc EXCEPT ![p] = AfterInsert(pc[p])]
    /\ faults' = faults + 1
    /\ UNCHANGED <<config, attempt, rows>>

(* An insert that is reported as failed, stored or not, or a process that   *)
(* dies at it: the tables filled so far stay as they are.                  *)
InsertFails(p) ==
    /\ pc[p] \in Inserting
    /\ faults < MaxFaults
    /\ Store(p) \/ UNCHANGED tables
    /\ pc' = [pc EXCEPT ![p] = "failed"]
    /\ faults' = faults + 1
    /\ UNCHANGED <<config, attempt, rows>>

(* The client does not get the answer and will send the push again.         *)
LoseAnswer(p) ==
    /\ pc[p] = "acked"
    /\ attempt[p] < MaxAttempts
    /\ faults < MaxFaults
    /\ pc' = [pc EXCEPT ![p] = "failed"]
    /\ faults' = faults + 1
    /\ UNCHANGED <<config, attempt, rows, tables>>

PushNext ==
    \E p \in Pushes : \/ \E body \in Bodies[p] : handleLokiPush(p, body)
                      \/ Insert(p) \/ InsertFails(p) \/ LoseAnswer(p)

PushSpec == PushInit /\ [][PushNext]_pushVars

-----------------------------------------------------------------------------
(* MUTANT of ActiveStreams: the first minute of the range is left out when  *)
(* the range starts inside it.                                             *)
ActiveStreamsLate(start, end) ==
    {c.stream : c \in {c \in stats : c.bucket >= start /\ c.bucket <= MinuteOf(end)}}

(* logQLSnuffleActiveStreamsSQL: the streams with lines in those minutes.   *)
ActiveStreams(start, end) ==
    {c.stream : c \in {c \in stats : c.bucket >= MinuteOf(start) /\ c.bucket <= MinuteOf(end)}}

(* logQLSnuffleStreamsTableSQL                                             *)
StreamsTable(start, end) ==
    IF Has("stats") THEN streams \cap ActiveStreams(start, end) ELSE streams

(* handleLokiLabels: the built-in names and those of the streams.           *)
LabelNames(start, end) ==
    ServiceNames \cup LevelNames \cup {"trace_id", "span_id"}
      \cup UNION {DOMAIN s.labels \cup DOMAIN s.res : s \in StreamsTable(start, end)}

(* logQLSnuffleLabelValuesFromIndexSQL                                     *)
ValuesFromIndex(n, start, end) ==
    {x.value : x \in {x \in labelIndex : /\ x.name \in KeptNames(n)
                                         /\ x.stream \in ActiveStreams(start, end)}}

(* The same from the streams, where both maps are listed.                   *)
ValuesFromStreams(n, start, end) ==
    LET table == StreamsTable(start, end)
    IN  IF n \in ServiceNames \cup LevelAliases THEN {StreamLabelValue(s, n) : s \in table} \ {Empty}
        ELSE ({Get(s.labels, n) : s \in table} \cup {Get(s.res, n) : s \in table}) \ {Empty}

(* handleLokiLabelValues                                                   *)
LabelValues(n, start, end) ==
    IF Has("labels") /\ Has("stats") THEN ValuesFromIndex(n, start, end)
    ELSE ValuesFromStreams(n, start, end)

(* snuffleStreamLabels: empty values are dropped; the first alias with a    *)
(* value, a resource attribute if need be, names the service and the level.*)
snuffleStreamLabels(s) ==
    LET full(m) == Only(m, {n \in DOMAIN m : m[n] # Empty})
        out == Over(full(s.labels), full(s.res))
    IN  Over(Core(ServiceNames, FirstValue(out, <<"service_name", "service.name">>)),
             Over(Core(LevelNames, FirstValue(out, <<"level", "severity_text", "detected_level">>)), out))

(* handleLokiSeries for a selector without stages: the matchers in SQL and, *)
(* on the labels shown, again in Go.                                       *)
Series(matchers, start, end) ==
    {l \in {snuffleStreamLabels(s) : s \in {s \in StreamsTable(start, end) :
               \A m \in matchers : Matches(m, StreamLabelValue(s, m.name))}} :
        \A m \in matchers : Matches(m, MatcherLabelValue(l, m.name))}

-----------------------------------------------------------------------------
(* The types of the state.                                                 *)
PushTypeOK ==
    /\ config \in Configs
    /\ pc \in [Pushes -> {"idle"} \cup Inserting \cup Answered]
    /\ attempt \in [Pushes -> 0 .. MaxAttempts]
    /\ faults \in 0 .. MaxFaults
    /\ \A e \in events : e.tag[1] \in Pushes

(* Every stored line finds its stream, and if labels are indexed its index  *)
(* rows: log queries join lines with log_streams (logql.go:1655) and drop  *)
(* those without one, whatever insert failed on the way.                   *)
EventJoined ==
    config.layout = "snuffle" =>
        \A e \in events : /\ StreamID(e) \in streams
                          /\ Has("labels") => IndexEntries(StreamID(e)) \subseteq labelIndex

(* A push that is acknowledged (204, loki_api.go:115) has all lines of that *)
(* attempt stored, and counted where statistics are kept.                  *)
AckedPushWhole ==
    \A p \in Pushes : pc[p] = "acked" =>
        /\ EventsOf(p, attempt[p], rows[p]) \subseteq events
        /\ config.layout = "snuffle" /\ Has("stats") =>
              StatsOf(p, attempt[p], rows[p]) \subseteq stats

(* What the statistics count exists as lines, also after a failed attempt:  *)
(* queries answered from them never count more than the lines.             *)
StatsBacked ==
    \A c \in stats :
        c.count = Cardinality({e \in events : /\ <<e.tag[1], e.tag[2]>> = c.tag
                                              /\ MinuteOf(e.ts) = c.bucket
                                              /\ StreamID(e) = c.stream})

(* The lines of an acknowledged push can be found: for every label of its   *)
(* stream, /series for that label at the time of the line lists the stream *)
(* and the label's values include it (loki_api.go:613-880). A resource     *)
(* attribute under a name of service or level is not read by that name.    *)
AckedStreamListed ==
    config.layout = "snuffle" =>
        \A p \in Pushes : pc[p] = "acked" => \A i \in DOMAIN rows[p] :
            LET r == rows[p][i]
                names == DOMAIN r.labels \cup {a \in DOMAIN r.res : KeptNames(a) = {a}}
            IN  \A n \in {n \in names : StreamLabelValue(r, n) # Empty} :
                LET m == [name |-> n, op |-> "=", vals |-> {StreamLabelValue(r, n)}] IN
                /\ snuffleStreamLabels(StreamID(r)) \in Series({m}, r.ts, r.ts)
                /\ StreamLabelValue(r, n) \in LabelValues(n, r.ts, r.ts)
                /\ n \in LabelNames(r.ts, r.ts)

(* A resource attribute that the index lists and that no query reads as a   *)
(* label of the line: its own metadata hides it, it is a trace, or it is   *)
(* called service_name where queries read service.name (logql.go:1802).    *)
HiddenAttribute(e, a) ==
    /\ a \in DOMAIN e.res \ DOMAIN e.labels
    /\ a \in DOMAIN e.fields \cup {"trace_id", "service_name"}

(* With statistics a listing offers what a query can find: every series,    *)
(* and every value of the index, has a line in the minutes asked for, the  *)
(* attributes above aside. The statistics are written last for this.       *)
ListedHasLines ==
    config.layout = "snuffle" /\ Has("stats") =>
        \A b \in {c.bucket : c \in stats} :
            LET lines == {e \in events : MinuteOf(e.ts) = b}
            IN  /\ Series({}, b, b) \subseteq {snuffleStreamLabels(StreamID(e)) : e \in lines}
                /\ Has("labels") => \A n \in LabelNames(b, b) : \A v \in LabelValues(n, b, b) :
                      \E e \in lines :
                         \/ v = LabelValue(e, n)
                         \/ \E a \in KeptNames(n) : HiddenAttribute(e, a) /\ v = e.res[a]
=============================================================================
