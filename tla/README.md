# Formal models of Snuffle

TLA+ models of [Snuffle](../src/README.md), a Go service that offers the
Prometheus and Loki APIs over data in ClickHouse. Each module is translated
from the Go source; `PROJECT.json` maps every definition to its lines. TLC
checks the modules on small instances, TLAPS proves the most important
properties for every value of the constants.

All paths below are relative to `src/internal/snuffle/`.

## 1. The system

| Component | State | Operations | Talks to |
| --- | --- | --- | --- |
| Remote-write ingestion (`remote.go`) | `knownSeries` cache and `seriesMu` per process; series, sample, histogram, exemplar and metadata tables in ClickHouse | `handleRemoteWrite`, `insertRemoteWriteBatch`, `insertMissingRemoteSeriesRows` | ClickHouse; shares cache and mutex with the self-scrape |
| Batch building (`remote.go`, `remote_fast.go`) | the batch; an open-addressing hash table | `buildRemoteWriteBatchFromProto`, `buildRemoteWriteBatch`, `populateSeriesLabelsJSONFromProto` | feeds ingestion |
| Series selection (`storage.go`, `fastpath.go`) | none of its own; reads series table, label index, samples | `Select`, `/series`, pushed-down id selections | ClickHouse |
| PromQL request (`api.go`, `storage.go`, `clickhouse.go`) | select futures, request-scoped connection pool | `handleQuery`, `handleQueryRange`, `CHQuerier.Select`, `withRequestCredentials` | Prometheus engine, ClickHouse |
| Self-scrape (`metrics.go`) | a timer | `scrapeAndWriteSelfMetrics` | ingestion |
| Remote read (`remote.go`) | none | `remoteReadSamples` | series selection |
| Tenancy (`api.go`) | the team of a request | `teamHandler`, `withTeamID` | every handler |
| Series iterators (`storage.go`) | position in a series | `Next`, `Seek` | the engine |
| Instant and range fast paths (`fastpath*.go`) | none | recognise an expression, build one SQL query | ClickHouse |
| MetricsQL compatibility (`metricsql_*.go`) | none | rewrite the query, counter functions, `running_sum` | the engine |
| PostHog layout and histograms (`posthog_*.go`) | an evaluator per query | compact and general evaluation of classic histograms | ClickHouse |
| Loki API, LogQL (`loki_api.go`, `logql*.go`) | log streams, labels, events and statistics in ClickHouse | push, query, range query, labels | ClickHouse |
| TLS, logging, query tags, metrics, configuration | none that others read | | |

What is hard in it:

- *Concurrency.* Requests of one process meet at `seriesMu`, several processes
  meet only in ClickHouse; a PromQL request runs a goroutine per selector and
  two more for its loads.
- *Failure.* Every ClickHouse call may fail, an insert may be applied although
  it reported an error, or after its caller gave up; a process may die
  anywhere; the client loses answers and retries.
- *Ordering.* Rows must not precede the series rows that give them labels.
- *Two implementations of one thing.* A fast and a slow batch builder; SQL
  conditions and Go matchers; SQL rollups, the compact histogram evaluator and
  the engine; LogQL in SQL, from statistics and in Go.
- *Boundaries.* Series limit, negative timestamps, a full hash table, the edges
  of windows and steps, the largest timestamp.

`PROJECT.json` lists these as hazards, each with its line and the properties
that cover it.

## 2. The modules

| Module | What it is |
| --- | --- |
| `RemoteWrite` | ingestion by several processes over one ClickHouse |
| `IngestContract` | what ingestion promises, without caches, locks or failures |
| `RemoteWriteProofs` | theorems about `RemoteWrite` |
| `WriteBatch` | from a decoded request to a batch, both builders |
| `FastSeriesIndex` | the hash table that `WriteBatch` uses |
| `FastSeriesIndexProofs`, `WriteBatchProofs` | theorems about the table and about the builders |
| `SeriesSelection` | from matchers to a set of series |
| `SeriesSelectionProofs` | theorems about `SeriesSelection` |
| `QueryRequest` | one PromQL request with its goroutines and its pool |
| `QueryRequestProofs` | theorems about `QueryRequest` |
| `LogRows` | what a log line is when stored, read and sent through a pipeline |
| `LokiPush` | Loki ingestion: four tables, failures, retries; the listings |
| `LogMetric` | LogQL metric expressions: evaluated in Go, and as SQL |
| `LogQuery` | a LogQL request beside the pushes; composes the three above |
| `LogQueryProofs` | theorems about `LokiPush` and `LogQuery` |
| `Rollup` | the MetricsQL rollups as the engine evaluates them |
| `RollupSQL` | the same rollups as the SQL of both range fast paths |
| `HistogramRange` | a range query over stored histograms: compact evaluator, fallback, iterators |
| `HistogramRangeProofs` | theorems about `HistogramRange` and both rollup modules |
| `HistogramPathProofs` | the theorem about the general path, from rows to answer |
| `MC*` | values of the constants for TLC |

Definitions whose comment begins with MUTANT are plausible bugs that nothing
uses. Each property has one that violates it (`mutants` in `PROJECT.json`), as
evidence that the property depends on the code.

### RemoteWrite

A request is at a program counter `pc[r]`, served by process `on[r]`. The
phases follow `insertMissingRemoteSeriesRows`: `filter`, `lookup`, `merge` are
the two halves of `filterNewSeriesRows` and the query between them; `lock` is
`seriesMu.Lock()`; `refilter`, `relookup`, `remerge` the same again under the
mutex; then `encode`, `insert`, `cache`. After them come the row tables in the
order of `insertRemoteWriteBatch`. Every ClickHouse call is one atomic step
between two local steps, so other requests run before and after it, and local
state read earlier may be stale.

`known` is `knownSeries.ids` of each process, `mu` the holder of its
`seriesMu`. `seriesRows` counts the rows that the series table holds per tenant
and id, and `stored` how often a request's rows are in a row table: retries
duplicate float samples (`README.md`, "Know the boundaries").

The environment: a call fails (`Fail`), with or without effect; a series insert
is applied later (`late`, `CommitLate`); the process crashes and restarts with
an empty cache (`Crash`); the 204 is lost (`LoseAnswer`); a client sends the
batch again to any process (`Resend`). A self-scrape is a request that is never
sent again. `layout` is the schema layout; it never changes. In the PostHog layout
there is no series phase and the samples go to an input table whose views add the
series; histograms and exemplars have no table there unless the environment names
one (`config.go:136`, `config.go:144`), and then nothing registers their series.
`RowSeries` says which series the rows of a table bring or wait for.

Abstracted: a batch is its tenant and the ids its rows of each kind refer to.

### WriteBatch and FastSeriesIndex

A time series is its id, the shape of its label list (sorted, unsorted, or one
of four malformed shapes), its samples, histogram times and exemplars. The fast
builder is one action per time series (`ParseFastTimeSeries`), since it can
give up in the middle; the slow builder replaces the whole batch.
`PopulateLabels` is the second pass over the body, for any nonempty set of new
series. The protobuf encoding is abstracted to the message it encodes, with the
fields of a time series in their usual order. Metadata rows are copied as they
are and only make the fast builder give up.

The index has real slots and keys. The code starts with 16 slots, the model
with two, so that collisions, wrap-around and growth happen with three ids.

### SeriesSelection

A matcher carries what the code asks of it: its type, the values its
expression matches (`lang`), the literals it is an alternation of (`lits`,
`SetMatches`), the values that start with its literal prefix (`prefix`), and
whether it is one of the spellings of `.*`. `MatcherAssumption` states what
`labels.Matcher` guarantees about them. SQL conditions are predicates on
series; `LIMIT` without `ORDER BY` is any subset of that size. The series row
keeps the times of the batch that first wrote it.

The model is of the current layout with a samples table and without the
optional activity table. `/series` is modelled for one `match[]`.

### QueryRequest

The handler refuses the request, or tries the fast path, or lets the engine
run. The engine calls `Select` for all selectors first and then waits for the
futures one after the other; it looks at the context between selectors, not
while it waits, and may give up with an evaluation error before or after any of
them (`label_replace` with a bad expression, `api.go:373`). `pool` is the request's connection pool, opened by the first
caller. `synced` says whether anything orders the handler after the opening:
without it the read of `requestConn.conn` in `closeConn` is a data race, which
the model resolves nondeterministically.

### LogRows and LokiPush

A line is a record of what the code asks of it: the words it contains (and
those that colour codes hide), its size, the level it names, what each of Go's
parsers finds in it and, in `db`, what ClickHouse's functions find. `lokiInsertRow`
makes a row of an entry: a label or field under an alias of service or level is
kept under every alias (`KeptNames`; when several aliases disagree, Go's map order
decides, so the model has a set of rows), resource attributes keep their names,
the level is inferred, metadata become attributes. A stream is its labels and resource attributes; its id is
abstracted to the stream itself.

A push is at a program counter `pc[p]`: the handler decodes the body, then
inserts into streams, label index, lines and statistics in the order of
`insertSnuffleLokiLogRows`, each insert one step. `InsertFails` is an insert
that is reported as failed, applied or not, or the death of the process at it;
`LoseAnswer` makes the client send again. Stored lines and statistics carry the
attempt they come from, since retries duplicate them. The listings
(`LabelNames`, `LabelValues`, `Series`) are functions of the tables.

### LogMetric and LogQuery

A query is the parsed expression. `LogMetric` has its evaluation in Go
(`EvalAt`: range aggregation, vector aggregation, topk, label_replace, binary
operations) and the plan SQL makes of it (`buildLogQLMetricSQLPlan`) with the
meaning of that SQL: a cross join of lines and steps, or step buckets with the
fan-out of `logQLWindowFanoutSQL`. Values are exact fractions. Expressions nest:
`Expressions` is a set of them closed under their parts, and what recurses over an
expression is a recursive function on that set.

`LogQuery` runs one request beside the pushes. A log query reads rows up to
its candidate limit and sends them through the part of the pipeline SQL did not
apply. A metric query is one statement over lines or statistics, or one fetch
per selector and an evaluation; pushes go on between two fetches, which `torn`
records. `seen` is what the statements could see: the properties compare the
answer with the direct definition on these lines.

### Rollup and RollupSQL

`Rollup` translates `metricsQLSampleInterval`, `metricsQLCounterValue` and
`metricsQLRollup` for float points; `RollupAt` applies them to the matrix the
engine reads at a step. `RollupSQL` translates the statements of
`fastpath_range_native.go` (one matrix per step, or neighbours when no gap is
as long as the lookback) and `fastpath_range.go` (PostHog: one interval per
series), stage by stage. Results are exact fractions instead of floats.
`IntervalPoints` is the number of intervals of the estimate, 20 in the code.

### HistogramRange

The rows of the store arrive one by one (`CompactAdd`): the compact evaluator
checks each, evaluates every step that lies before it and cuts its histories.
Whether it is tried at all depends on the sources of the series table, which knows
only the hours in which a source has rows (`MetadataIds`).
On a row it cannot handle it leaves everything and the query is read again:
`BuildAdd` makes a series per label set and bound, with stale markers for
buckets that disappear, `BuildFinish` sorts them and turns delta rows into
running totals. The engine then reads each series through the iterator:
`OpenIterator`, and per step `EngineSeek`, `EngineNext` until the step's time is
reached, and `EngineEvaluate`. These three are external, modelled from the way
the engine uses `Next` and `Seek`.

## 3. What the runs check

| Run | Bounds | Shows |
| --- | --- | --- |
| `rw_one_process` | one process, two clients and a self-scrape, two series, one crash, no retries | `OneRowPerSeries`; `EveryAttemptAnswered` and `MutexReleased` under fairness |
| `rw_cluster` | two processes, two tenants sharing ids, a client with a retry and a self-scrape, one crash, late inserts, all four tables, both layouts | `CacheSound`, `NoOrphanRows`, `AckedDurable`, `WrittenSeriesCached`, `ImplementsContract` |
| `rw_two_processes` | two processes, no failures | `OneRowPerSeries` is violated |
| `selection` | four series, fifteen matcher shapes in lists of at most two, limit three, four samples at two times | `SelectExact`, `LimitReported`, `UnsatisfiableSound`, `TightIdsExact`, `SeriesActive` |
| `selection_lost` | the same | `NoMatchLost` is violated |
| `selection_pushdown` | the same | `PushdownExact` is violated |
| `query_request` | four selectors: one repeated, one unsatisfiable | `AnswerComplete`, `PoolClosedAfterWait`; `RequestEnds`, `FuturesFinish` under fairness |
| `query_pool_leak` | the same | `PoolsRequestScoped` is violated |
| `write_batch` | up to three of eighteen time-series shapes | `FastMatchesSlow`, `RejectionJustified`, `RecordsCoverRows`, `RowsOnGrid`, `LabelsFound`, `IndexIsMap` |
| `log_query` | two pushes (three lines; one line, none or a malformed body), two attempts each, one fault, five configurations, 36 queries | `EventJoined`, `AckedPushWhole`, `StatsBacked`, `AckedStreamListed`, `ListedHasLines`; `FirstLinesReturned`, `OneRead`; `EvaluatorExact`, `SQLMetricExact`, `StatsExact`, `GridAligned` |
| `histograms` | 240 stores of up to three sources, five requests of two to four steps | `CompactExact`, `GeneralExact`, `WindowRead`, `NativeExact`, `RangeExact`, `RateReaches` |
| `histogram_implicit` | the same stores, rate without a window | `CompactExact` is violated |

Why the bounds are enough: two requests are what a race for a series needs, a
third makes one wait while the other two take turns; two tenants with a common
id are what a confusion of tenants needs; one crash and one retry put a second
life of each process and of each request into every state. In `selection` the
limit lies between the number of series and what most selectors match, so that
cases below, at and above it occur. In `write_batch` the ids 3 and 7 have the
same home slot in tables of two and of four slots, and three ids force a table
of two slots to grow.

In `log_query` a minute is four ticks and a second two, so that lines lie on and
beside the edges of minutes, steps and windows; five rows are the most a query
reads, so that the limit is met; `MaxTime` is 39, so that rounding up meets the
largest timestamp. In `histograms` the estimate reads two intervals instead of
20 and a history keeps three points instead of 21: series of seven points then
cut histories several times. The times of the sources are regular, irregular,
repeated, and with gaps longer than the lookback; the counts grow, reset and
drop a little; a second source has the same, other, changing, falling or infinite bounds,
counts that do not add up, or delta rows, and a third shares its labels. The SQL
rollups are compared on the bucket series of all these stores, with every
function, the windows 0, 1 s, the step and the request's own, and the offsets 0 and
3 s (`Windows`, `Offsets`).

Deadlock checking is off where the system may stop: when all requests have been
answered and may not be sent again, or the one request is over.

### Fairness

- `RemoteWrite!Fairness`: weak fairness of each handler's own steps, since every
  ClickHouse call ends by the `CHTimeout` of its context and the scheduler runs
  what can run. Strong fairness of `LockSeries`: a `sync.Mutex` hands over to
  a waiter that has waited longer than a millisecond, so it starves nobody.
- `QueryRequest!FairSpec`: weak fairness of the handler and of every goroutine,
  for the same reasons. The client's and the context's actions are not fair.

`LogQuery` and `HistogramRange` state no liveness: a log request has no loop that
depends on another actor (`OneRead` bounds the one it has), and a histogram query
is sequential and each of its steps consumes a row, a point or a step.

### Disagreements found

1. *One row per time series* (`PERFORMANCE.md:352`). True in one process
   (`OneRow` below), not between processes: lookup and insert are serialised by
   a mutex of the process (`rw_two_processes`).
2. *Exact matcher semantics by a final Go-side filter* (`PERFORMANCE.md:453`). A
   filter can only remove. `job!~"a.*1"` becomes `NOT IN (… startsWith 'a')` and
   loses `job="a2"` (`selection_lost`; `storage.go:834`, `storage.go:759`).
3. *Safely pushed down* (`README.md:566`). Where no Go-side filter follows,
   `startsWith` and dropped metric-name conditions let in series that do not
   match (`selection_pushdown`).
4. *Request-scoped pools* (`clickhouse.go:25`). An engine that gives up before it
   waits for a future, on a cancelled context or an evaluation error, leaves a
   goroutine that may open the pool after `closeConn` ran (`query_pool_leak`).
5. *The points that the engine passes to the counter function*
   (`posthog_histogram_compact.go:162`). For a rate without a window the plan's
   selector range is step + lookback, but the read begins at start − lookback:
   the first steps miss up to a step of history (`histogram_implicit`).

The Loki side has several evaluations of one query that differ outside the
preconditions the exactness properties state (`FaithfulPlan`, `FaithfulRow`,
`Agrees`, `SameOffset`, `FetchedOnce`; section 5 lists them).

Stated in properties rather than as findings: the fast builder refuses, or
accepts and then fails for ever with 503, bodies that hold a time series without
rows and with malformed labels (`RejectionJustified`, `LabelsFound`);
`min_time` and `max_time` of a series row are not kept up to date, so `/series`
without an exact metric name may miss a live series (`SeriesActive` is limited to
exact names); `LIMIT` is applied before the Go-side filter, so with inexact
conditions an answer may be cut off silently (`LimitReported` is limited to exact
ones).

## 4. What is proved

Thirty-one of the runs' invariants and the refinement are theorems, for every value of
the constants. The assumptions are the named `ASSUME`s of the modules; TLC evaluates
them on every run. They give the shapes of the inputs (a batch, a time series, a log
entry, a parsed query), positive sizes, that a query's times are at most the largest
timestamp, and what `labels.Matcher` guarantees.

### Ingestion

`RemoteWriteProofs`, for any sets of processes, requests, tenants, ids and batches
and any bounds, in both layouts and with any tables configured:

- `TypeCorrect`: `TypeOK`, the type invariant the other proofs build on.
- `SafetyInvariant`, and from it `CacheIsSound`, `NoOrphans`, `WrittenCached`. None
  of these is inductive by itself. That a request past the series phase finds its
  series registered needs to know, at every earlier phase, that each series of the
  batch is either still in `rows` or already in the cache, and that what a lookup
  replied is registered at the time it is merged, although other requests ran in
  between. The invariant ties `rows`, `reply`, `known` and `seriesRows` together
  for every value of `pc`. It is preserved because nothing is ever deregistered.
- `CopiesInvariant`, and from it `AckedIsDurable`: a table before the current one is
  stored at least once in this or an earlier attempt, and no table more often than
  the request was sent.
- `OneRow`: with one process, the current layout and no late inserts,
  `OneRowPerSeries`. Its invariant says that only the holder of `seriesMu` is in the
  critical section and that after the recheck the rows to be inserted have none.

- `Refinement`: every step of `RemoteWrite` is a step of `IngestContract` or leaves its
  state alone, under the mapping `Contract` in `RemoteWrite`.

### The hash table and the builders

`FastSeriesIndexProofs`, for any keys and tables of any size from two
slots: `SetKeepsIndex` (the table stays well formed and never full, so
that every probe ends), `GetAfterSet` and `GetOfOthers` (it behaves as a map). The
invariant `IndexOK` says that a key is found by probing from its home slot without
meeting a free one, that the count is right and that less than seven tenths of the
slots are taken. Growth refills a table of twice the size; `RefillNeverGrows`
shows that the refill stays below the load limit, so that the recursion of `set` and
`grow` in the code is one level deep.

`WriteBatchProofs` proves all six properties of the run for any time series and any
number of them: `FastIsSlow`, `RejectionsAreJustified`, `RecordsCover`,
`RowsAreOnGrid`, `LabelsAreFound`, `IndexMaps`. The inductive invariant `BatchInv`
says that while the fast builder has the body, its batch is the batch of the slow
builder over the time series read so far, and that the index maps the ids of that
batch to their places. So everything about batches is shown once, for the slow
builder's prefixes (`SlowBatchesOK`): a record has the least and greatest time of the
rows of its series (`Fits`), no two records have one id (`Distinct`), and
neighbouring rows of one series are in different buckets (`Apart`).

The attempt to prove it corrected `RowsOnGrid`: without a bucket interval the rows
keep their times, which the property now says.

### Reading series

`SeriesSelectionProofs` proves `SelectIsExact`, `LimitIsReported`,
`UnsatisfiableIsSound`, `IdsAreExact` and `SeriesAreActive` for any series, values and
matchers, from lemmas that relate each SQL condition to the matcher it stands for,
once for the series table and once for the label index.

`QueryRequestProofs` proves `AnswersAreComplete` and `PoolsAreClosed` for any
expression. The invariant `QueryInv` follows the handler through the selectors: those
before its position were waited for and are loaded whole, a future exists only for a
selector that can be satisfied, the pool has been asked for before anyone uses it,
and a handler that waited for all of them is ordered after the opening of the pool.

### Logs

`LogQueryProofs`, of pushes, for any bodies, configurations and bounds:

- `PushTypes`: the types of the state.
- `LinesJoined` (`EventJoined`): inductive once it is joined by the statement that a
  push past an insert has that insert's rows in the table, for the attempt it is
  in, and that nothing is ever removed.
- `AckedWhole` (`AckedPushWhole`), from the same statement at the last insert.
- `CountsBacked` (`StatsBacked`): needs that the lines of an attempt are stored
  before its statistics, that lines carry their attempt, and that an attempt's rows
  do not change while it runs, so that counting them in the table and in the batch
  is the same.
- `AckedListed` and `ListedBacked` (`AckedStreamListed`, `ListedHasLines`): the
  listings. They need in addition (`ListInv`) that every row has a level, that index
  rows belong to their stream and that a row of the statistics has a line of its
  minute and stream. The attempt to prove `ListedHasLines` corrected it: a resource
  attribute that a line's metadata hides, a trace, and a resource attribute called
  `service_name` are listed by the index but are not what SQL reads as a label of
  that line (`HiddenAttribute`).

and of any queries beside any pushes:

- `PushesUndisturbed`: `LogQuery` implements `LokiPush`, so the theorems above hold
  beside queries too.
- `LinesAreFirst` (`FirstLinesReturned`) and `ReadsOnce` (`OneRead`). A row keeps its
  time and identity through every stage, once dropped stays dropped, and keeps its
  text up to the first `line_format` (`StagesKeep`, by induction over the stages), so
  that the line filters in the statement drop only what the pipeline would drop, and
  all of that if there is nothing else. The first limit is at least the number of
  lines asked for if everything is in the statement, and otherwise the maximum, so
  one read is enough; lines are told apart by where they come from (`LineInv`), so
  what is kept can be counted.
- `GridIsAligned` (`GridAligned`), from the arithmetic of rounding up with Go's `%`.

### Rollups and histograms

`HistogramRangeProofs`, for any stored rows, bounds, labels, requests and limits:

- `HistogramInv`: the inductive invariant `Inv`. The builder's series are sequences
  of points; the engine reads them in time order; the iterator has passed exactly
  points before the current step's time (`BehindStep`), and has remembered each of
  them that the range of the current step may still hold (`RemembersFrom`). The
  invariant must name the range's start of the step that comes next as well as of
  the one being filled, because a seek forgets what was remembered.
- `EngineReadsWindow` (`WindowRead`): what was remembered and still lies in the
  range, with the point at the step itself, has the same times as the range of the
  series. Both are in strict time order, and two such sequences with the same points
  are equal (`StrictUnique`).
- `NativeSQLExact` (`NativeExact`), in three parts. The steps that a sample is
  expanded to are those whose range holds it (`StepUses`, the rounding of both
  divisions), so a step's matrix in SQL is the engine's (`StepMatrix`), at any sign
  of the times and with any offset. On one matrix the stages of `rollupValues` are
  those of `metricsqlRollup` (`NativeStages`, `OneMatrix`). A total without long gaps
  is a sum over the window (`TotalSteps`): the differences of neighbours telescope
  (`Telescope`), their resets are the resets of the values, and no gap is long enough
  for the engine to refuse the previous sample. That the property speaks of built
  series only once they are sorted needs the invariant `NothingBuilt`.
- `RangeSQLExact` (`RangeExact`). The statement of the PostHog tables estimates the
  interval once per series, from all it reads, and takes any earlier sample within
  the lookback of a total; the engine estimates from the step's matrix. On a regular
  series every part that is read has the same gap (`ReadEvenly`, `EvenStretch`), the
  quantile of equal gaps is that gap (`EvenQuantile`) and the margin never makes it
  smaller (`MarginEnough`), so both take the same previous sample (`SamePrev`). The
  rows of a step then add up to the difference of its ends (`StepRows`,
  `StatementValue`), as the engine's does (`EngineValue`).
- `RateIsReached` (`RateReaches`): by the same estimate the sample before a window
  always counts, so a rate has two samples (`RateOf`). That its value is not `NaN`
  needs that a fraction in lowest terms has a denominator, which is Euclid's
  algorithm: `Gcd` satisfies its equation (`GcdUnfold`) and is not zero
  (`GcdPositive`).

The module starts with a theory of what the models are built of, for any data:
ranking a finite set (`RankTaken`, `RankedSequence`), the elements of a sequence at
some indexes (`PickedElements`, `PickedStretch`), sorting (`SortedByTime`,
`SortedNumbers`) and sums over finite sets in any order (`SumUnfold`, `SumRemove`,
`SameSum`).

`HistogramPathProofs`, with the same generality:

- `GeneralPathExact` (`GeneralExact`), with the inductive invariant `GeneralOk`. It
  follows a request through three representations of the same points.
  - While rows are read (`Collected`), each series of the builder is traced to rows:
    an increasing map from its points to the rows of its labels, a point or a stale
    marker for each, and no row with the bucket missing (`Traced`, `CollectedNext`).
    A row adds at most one point to a series, since its bounds increase and the
    markers are of bounds it does not have (`RowAdds`).
  - `finish` makes of each series what was stored (`FinishedSeries`): sorting and
    dropping markers only renames the rows that are counted (`SortedHolds`), a
    running total over points is the total over rows (`HeldTotal`), and two series
    in strict time order with the same points are equal. This is where one point per
    timestamp is needed.
  - While the engine reads, the sum of a bucket at a step is the sum over the label
    sets read so far (`SumsOk`, `EvaluateSums`). Values are fractions in lowest terms
    and may be absent; that their sum does not depend on the order needs that adding
    them is associative and commutative (`PlusSwaps`, from `GcdScale`), so that the
    engine's order and that of the specification give one sum (`ValueSumWithin`,
    `ExpectedSum`).

  The attempt to prove it corrected `BadBuckets`: the code rejects a bound that is not
  finite (`posthog_histogram.go:425`), without which a row could have two buckets
  named `+Inf`.

### How recursion is proved about

The induction theorems of the library take an operator as a parameter, which the
provers at hand cannot instantiate. Where a proof needs induction over a sequence,
the property is given as the set of numbers that have it (`SetInduction`,
`InductionBySet`, from the least element of a set of naturals), and for each
recursive function a lemma first shows that its equation has a solution
(`SampleRowsSteps`, `SlowBatchesSteps`, `RowAfterSteps`, …).

### What is only model-checked, and why

- Liveness (`EveryAttemptAnswered`, `MutexReleased`, `RequestEnds`, `FuturesFinish`):
  out of the proof system's reach.
- `EvaluatorExact`, `SQLMetricExact`, `StatsExact`: they compare sums, quantiles and
  choices over two different sets of rows. The general statement would also have to
  leave out lines with equal times: `first_over_time` and `topk` choose among them,
  and the model chooses alike only on equal sets.
- `CompactExact`: false of a rate without a window (`histogram_implicit`), and a proof
  for the other requests would need that a history cut at every step still holds the
  matrix of each later one, and that several buckets share the times of the first. The
  sums themselves are no obstacle any more.

## 5. Preconditions, and what is not modelled

### Preconditions of the exactness properties

Where they do not hold, the code's evaluations of one query differ:

- Logs, SQL against Go: the cross join forgets an offset in its window condition;
  an outer `sum` over a range function that does not add up, or over an inner
  grouping; a comparison under `topk` (SQL compares first); `unwrap` after a parser
  has no fallback to stream labels in SQL; `sum_over_time` without any number is 0
  in Go and no sample in SQL; groups by parsed or resource-only labels; an instant
  query between two seconds; lines from before 1970, whose bucket `intDiv` rounds
  towards zero (`logql_sql.go:986`).
- Logs, fields that the parsers find (`SameField`): `JSON_VALUE(body, '$.label')`
  (`logql_sql.go:385`) knows the keys of the object, Go flattens and renames them
  (`logql.go:1231`), so that on `{"user":{"id":5}}` the filter `| json | user_id="5"`
  matches in Go and not in SQL, and likewise for a key Go rewrites; JSON that is valid
  but not an object is an `__error__` in Go only.
- Logs, a resource attribute called literally `service_name`: it is kept under this
  name (`loki_api.go:1257`), and the index lists and matches it as the service
  (`logql.go:1815`), but queries read `resource_attributes['service.name']` alone
  (`logql.go:1799`). A listing then offers a service that no query finds
  (`HiddenAttribute` in `ListedHasLines`), and statistics by the index count lines
  that statistics by the streams do not (`ServiceInIndexOnly` in `StatsExact`).
- Logs, statistics: windows are [t − w, t) where the evaluator has (t − w, t]
  (`logql_test.go:1350` shows it is known), and labels are those of the stream alone.
- Logs, fetched rows: two selectors of a binary operation that overlap count a line
  twice; different offsets in one expression cut the fetch
  (`logQLMetricFetchBounds` subtracts the largest offset from the end) although
  `loki_api.go:334` wants a truncated input to be an error; metadata that hide a
  stream label; a line filter after `decolorize` is pushed down all the same.
- Rollups: one point per timestamp, since the engine may leave out a second point
  at the time of a step itself; the PostHog SQL also needs a regular series and an
  explicit window, as its comment says (`fastpath_range.go:290`).

### Left out of modelled components

- Logs: parsing of LogQL and decoding of pushes; stddev, division, remainder and
  power; `label_join`, JSON parser parameters, template functions; log queries in
  the PostHog layout; limits of listings and `/series` with stages; the truncation of
  nanoseconds to `DateTime64(6)`.
- Rollups: native histograms, `running_sum`, `*_over_time` in SQL, the offset
  subquery, aggregation and union around a rollup.
- Histograms: the quantile and label functions on top of the sums, the union of
  branches, `_count` and `_sum`, selectors that do not name one metric, real series
  beside virtual ones, discovery and row decoding. The mixed iterator repeats the
  code of the float iterator for another type of point.
- Selection: label names and values, unions of selectors, the activity table.

### Components not modelled

Configuration, TLS, logging, query tags, the metrics registry, the commands and the
benchmark tools keep no state that another component reads. SQL text, parsers and
JSON are modelled by what they mean. ClickHouse is external. The instant fast path
(besides its id selection) and the selection SQL of the PostHog layout are SQL
builders whose parts repeat those modelled; they come next.

What would follow: the instant fast path against `Rollup`; `/labels` and label values
in `SeriesSelection`; team parsing; a proof of `CompactExact` for requests with a
window, and of `EvaluatorExact` for functions that do not depend on which of two
lines of one time comes first.
