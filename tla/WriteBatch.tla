------------------------------ MODULE WriteBatch ------------------------------
(***************************************************************************)
(* From the decoded body of a remote write to a batch. The handler first   *)
(* tries buildRemoteWriteBatchFromProto (remote_fast.go), which reads the  *)
(* protobuf in one pass, refuses bodies it cannot handle and keeps no      *)
(* labels; buildRemoteWriteBatch (remote.go) does the rest. Labels of the  *)
(* series that turn out to be new are read from the body a second time.    *)
(*                                                                         *)
(* A time series is its id (that of its sorted labels), the shape of its   *)
(* label list, its samples, the times of its histograms and its exemplars. *)
(* Samples that are NaN but not stale markers are dropped, exemplars that  *)
(* are any NaN too; an exemplar may have a malformed label list.           *)
(***************************************************************************)
EXTENDS FastSeriesIndex

CONSTANTS
    TimeSeries,   \* the time series a request may hold
    MaxSeries,    \* bound: time series in a request
    Interval      \* RemoteWriteInterval in ms

Droppable == "nan"
Malformed == "malformed"    \* an exemplar whose labels are refused
BadLabels == {"none", "noname", "dup", "emptyname"}
LabelShapes == BadLabels \cup {"sorted", "unsorted"}

ASSUME BatchAssumption ==
    /\ \A ts \in TimeSeries :
         /\ ts.id \in Nat
         /\ ts.labels \in LabelShapes
         /\ ts.samples \in Seq([t : Int, v : STRING])
         /\ ts.hists \in Seq(Int)
         /\ ts.exems \in Seq([t : Int, v : STRING])
    /\ MaxSeries \in Nat
    /\ Interval \in Int

VARIABLES
    req,     \* the time series of the request, in order
    meta,    \* does it hold metadata?
    pos,     \* the time series the fast builder is at
    index,   \* seriesIndexByID
    batch,   \* the batch under construction
    state,   \* what the handler is doing
    labeled  \* the series whose labels the second pass found

vars == <<req, meta, pos, index, batch, state, labeled>>

EmptyBatch == [series |-> <<>>, samples |-> <<>>, hists |-> <<>>, exems |-> <<>>]

-----------------------------------------------------------------------------
(* MUTANT of Bucket: negative times are rounded towards zero.               *)
BucketTruncated(t) ==
    IF Interval <= 0 THEN t
    ELSE IF t >= 0 THEN t - (t % Interval) ELSE t + ((-t) % Interval)

(* bucketTimestampForStepMS; Go's % has the sign of the dividend.           *)
Bucket(t) ==
    LET rem == IF t >= 0 THEN t % Interval ELSE -((-t) % Interval)
    IN  IF Interval <= 0 THEN t
        ELSE t - (IF rem < 0 THEN rem + Interval ELSE rem)

(* isRemoteWriteSampleDroppable, and NaN exemplars.                         *)
Keeps(x) == x.v # Droppable
KeepsExemplar(x) == x.v \notin {Droppable, "stale"}

Kept(ts) == {x \in Range(ts.samples) : Keeps(x)}
KeptExemplars(ts) == {x \in Range(ts.exems) : KeepsExemplar(x)}

(* A sample that falls into the bucket of the row before it replaces its    *)
(* value.                                                                  *)
AddSample(rows, id, x) ==
    IF rows # <<>> /\ Last(rows).id = id /\ Last(rows).t = Bucket(x.t)
    THEN [rows EXCEPT ![Len(rows)].v = x.v]
    ELSE Append(rows, [id |-> id, t |-> Bucket(x.t), v |-> x.v])

(* The rows after each sample, and after each exemplar, of a time series.   *)
SampleRows(rows, ts) ==
    LET after[n \in 0..Len(ts.samples)] ==
            IF n = 0 THEN rows
            ELSE IF Keeps(ts.samples[n]) THEN AddSample(after[n - 1], ts.id, ts.samples[n])
            ELSE after[n - 1]
    IN  after
AddSamples(rows, ts) == SampleRows(rows, ts)[Len(ts.samples)]

ExemplarRows(rows, ts) ==
    LET after[n \in 0..Len(ts.exems)] ==
            IF n = 0 THEN rows
            ELSE IF KeepsExemplar(ts.exems[n])
                 THEN Append(after[n - 1], [id |-> ts.id, t |-> ts.exems[n].t])
            ELSE after[n - 1]
    IN  after
AddExemplars(rows, ts) == ExemplarRows(rows, ts)[Len(ts.exems)]

(* The times observeTime sees: buckets, except for exemplars.               *)
Observed(ts) == {Bucket(x.t) : x \in Kept(ts)}
                  \cup {Bucket(t) : t \in Range(ts.hists)}
                  \cup {x.t : x \in KeptExemplars(ts)}

(* MUTANT of Widen: a series that comes a second time is not widened.       *)
WidenKeepsFirst(records, at, ts) ==
    LET row == [id |-> ts.id, min |-> Min(Observed(ts)), max |-> Max(Observed(ts))]
    IN  IF at = 0 THEN Append(records, row) ELSE records

(* The update that addRemoteWriteSeriesRecord and addFastSeriesRecord share,*)
(* given where the id already is (0: nowhere).                             *)
Widen(records, at, ts) ==
    LET row == [id |-> ts.id, min |-> Min(Observed(ts)), max |-> Max(Observed(ts))]
    IN  IF at = 0 THEN Append(records, row)
        ELSE [records EXCEPT ![at].min = Min({@, row.min}),
                             ![at].max = Max({@, row.max})]

-----------------------------------------------------------------------------
(* buildRemoteWriteBatch.                                                   *)

SlowOutcome(ts) ==
    IF ts.samples = <<>> /\ ts.hists = <<>> /\ ts.exems = <<>> THEN "skip"
    ELSE IF \/ ts.labels \in BadLabels
            \/ \E i \in DOMAIN ts.exems : ts.exems[i].v = Malformed
    THEN "error"
    ELSE IF Observed(ts) = {} THEN "skip" ELSE "add"

Positions(records, id) == {i \in DOMAIN records : records[i].id = id}

AddTimeSeries(b, ts) ==
    LET at == Positions(b.series, ts.id)
    IN  [series |-> Widen(b.series, IF at = {} THEN 0 ELSE Min(at), ts),
         samples |-> AddSamples(b.samples, ts),
         hists |-> b.hists \o [i \in DOMAIN ts.hists |-> [id |-> ts.id, t |-> Bucket(ts.hists[i])]],
         exems |-> AddExemplars(b.exems, ts)]

(* The batch after each time series of the request.                         *)
SlowBatches(list) ==
    LET after[n \in 0..Len(list)] ==
            IF n = 0 THEN EmptyBatch
            ELSE IF SlowOutcome(list[n]) = "add" THEN AddTimeSeries(after[n - 1], list[n])
            ELSE after[n - 1]
    IN  after
SlowBatch(list) == SlowBatches(list)[Len(list)]

SlowFails(list) == \E i \in DOMAIN list : SlowOutcome(list[i]) = "error"

-----------------------------------------------------------------------------
(* buildRemoteWriteBatchFromProto.                                          *)

(* MUTANT of FastOutcome: histograms and exemplars are passed over.         *)
FastOutcomeIgnoresRest(ts) ==
    IF ts.labels \in {"dup", "emptyname"} THEN "error"
    ELSE IF ts.labels = "unsorted" THEN "fallback"
    ELSE IF ts.samples = <<>> THEN "skip"
    ELSE IF ts.labels \in BadLabels THEN "error"
    ELSE IF Kept(ts) = {} THEN "skip" ELSE "add"

(* MUTANT of FastOutcome: labels out of order are an error.                 *)
FastOutcomeOrdered(ts) ==
    IF ts.labels \in {"dup", "emptyname", "unsorted"} THEN "error"
    ELSE IF ts.hists # <<>> \/ ts.exems # <<>> THEN "fallback"
    ELSE IF ts.samples = <<>> THEN "skip"
    ELSE IF ts.labels \in BadLabels THEN "error"
    ELSE IF Kept(ts) = {} THEN "skip" ELSE "add"

(* What parseFastTimeSeries does with a time series: its labels come first, *)
(* then samples, then the exemplars and histograms it does not handle.     *)
FastOutcome(ts) ==
    IF ts.labels \in {"dup", "emptyname"} THEN "error"
    ELSE IF ts.labels = "unsorted" \/ ts.hists # <<>> \/ ts.exems # <<>>
    THEN "fallback"
    ELSE IF ts.samples = <<>> THEN "skip"
    ELSE IF ts.labels \in BadLabels THEN "error"
    ELSE IF Kept(ts) = {} THEN "skip" ELSE "add"

Init ==
    /\ req \in UNION {[1..n -> TimeSeries] : n \in 0..MaxSeries}
    /\ meta \in BOOLEAN
    /\ pos = 1
    /\ index = NewIndex
    /\ batch = EmptyBatch
    /\ state = "fast"
    /\ labeled = {}

(* parseFastTimeSeries with addFastSeriesRecord.                            *)
ParseFastTimeSeries ==
    /\ state = "fast"
    /\ pos <= Len(req)
    /\ LET ts == req[pos]
           found == Get(index, ts.id)
       IN  CASE FastOutcome(ts) = "add" ->
                  /\ batch' = [batch EXCEPT
                        !.samples = AddSamples(@, ts),
                        !.series = Widen(@, IF found[2] THEN found[1] ELSE 0, ts)]
                  /\ index' = IF found[2] THEN index
                              ELSE SetIndex(index, ts.id, Len(batch.series) + 1)
                  /\ pos' = pos + 1
                  /\ UNCHANGED state
             [] FastOutcome(ts) = "skip" ->
                  /\ pos' = pos + 1
                  /\ UNCHANGED <<batch, index, state>>
             [] FastOutcome(ts) = "fallback" ->
                  /\ state' = "slow"
                  /\ UNCHANGED <<batch, index, pos>>
             [] OTHER ->
                  /\ state' = "rejected"
                  /\ UNCHANGED <<batch, index, pos>>
    /\ UNCHANGED <<req, meta, labeled>>

(* After the last time series: metadata is left to the slow builder.        *)
FinishFast ==
    /\ state = "fast"
    /\ pos > Len(req)
    /\ state' = IF meta THEN "slow" ELSE "built_fast"
    /\ UNCHANGED <<req, meta, pos, index, batch, labeled>>

(* buildRemoteWriteBatch replaces whatever the fast builder had.            *)
BuildSlow ==
    /\ state = "slow"
    /\ IF SlowFails(req)
       THEN state' = "rejected" /\ UNCHANGED batch
       ELSE state' = "built_slow" /\ batch' = SlowBatch(req)
    /\ UNCHANGED <<req, meta, pos, index, labeled>>

(* MUTANT of PopulateLabels: a time series that is not new is an error.     *)
PopulateOnlyNew(needed) ==
    /\ state = "built_fast"
    /\ IF \A i \in DOMAIN req : req[i].id \in needed
       THEN state' = "labeled" /\ labeled' = needed
       ELSE state' = "unavailable" /\ UNCHANGED labeled
    /\ UNCHANGED <<req, meta, pos, index, batch>>

(* populateSeriesLabelsJSONFromProto for the series that are new: the time  *)
(* series are read again, in order, until each of them has its labels.     *)
(* Also those without samples must have valid labels here.                 *)
PopulateLabels(needed) ==
    /\ state = "built_fast"
    /\ LET found(n) == needed \subseteq {req[i].id : i \in {j \in 1..n :
                                            req[j].labels \notin BadLabels}}
           bad(n) == \E j \in 1..n : req[j].labels \in BadLabels
           ends == {n \in 0..Len(req) : found(n) \/ bad(n)}
       IN  IF ends # {} /\ ~bad(Min(ends))
           THEN state' = "labeled" /\ labeled' = needed
           ELSE state' = "unavailable" /\ UNCHANGED labeled
    /\ UNCHANGED <<req, meta, pos, index, batch>>

SeriesIds == {batch.series[i].id : i \in DOMAIN batch.series}

Next ==
    \/ ParseFastTimeSeries
    \/ FinishFast
    \/ BuildSlow
    \/ \E needed \in SUBSET SeriesIds \ {{}} : PopulateLabels(needed)

Spec == Init /\ [][Next]_vars

-----------------------------------------------------------------------------
(* Properties.                                                              *)

Built == state \in {"built_fast", "built_slow", "labeled", "unavailable"}

(* The hash table answers like a map from the ids of the batch to their     *)
(* positions, through collisions, wrap-around, growth and the id zero, and *)
(* every probe ends (remote_fast.go:42-114).                               *)
IndexIsMap ==
    state \in {"fast", "built_fast"} =>
        /\ HasRoom(index)
        /\ \A ts \in TimeSeries :
             Get(index, ts.id) =
               IF ts.id \in SeriesIds
               THEN <<CHOOSE i \in DOMAIN batch.series :
                        batch.series[i].id = ts.id, TRUE>>
               ELSE <<0, FALSE>>

(* A body that the fast builder takes becomes the batch that the slow one   *)
(* would have made of it (remote_fast.go:217-397 against remote.go:233-398).*)
FastMatchesSlow ==
    state \in {"built_fast", "labeled", "unavailable"} =>
        ~SlowFails(req) /\ batch = SlowBatch(req)

(* The fast builder refuses a body that the slow one would take only for a  *)
(* label list of a time series that has no rows at all.                    *)
RejectionJustified ==
    state = "rejected" =>
        \/ SlowFails(req)
        \/ \E i \in DOMAIN req : req[i].samples = <<>>
                                   /\ req[i].labels \in BadLabels

(* Every row's series has exactly one series record, and its bounds are the *)
(* extreme times of the rows of this request: what ingestion relies on when*)
(* it registers series before rows (remote.go:290-398).                    *)
RecordsCoverRows ==
    Built =>
        LET all == batch.samples \o batch.hists \o batch.exems
            times(id) == {all[i].t : i \in {j \in DOMAIN all : all[j].id = id}}
        IN  /\ SeriesIds = {all[i].id : i \in DOMAIN all}
            /\ \A i, j \in DOMAIN batch.series :
                 batch.series[i].id = batch.series[j].id => i = j
            /\ \A i \in DOMAIN batch.series :
                 LET r == batch.series[i]
                 IN  r.min = Min(times(r.id)) /\ r.max = Max(times(r.id))

(* The bucket r of a time t.                                               *)
OnGrid(r, t) ==
    IF Interval <= 0 THEN r = t
    ELSE r <= t /\ t < r + Interval /\ r % Interval = 0

(* Sample rows lie on the interval grid, at or before their time and less   *)
(* than an interval away from it, also before 1970 (without an interval    *)
(* they keep their time), and samples of one series that follow each other *)
(* in a bucket leave one row (remote.go:303-325, 581-590).                 *)
RowsOnGrid ==
    Built =>
        /\ \A i \in DOMAIN batch.samples :
             LET r == batch.samples[i]
             IN  \E j \in DOMAIN req :
                    /\ req[j].id = r.id
                    /\ \E x \in Range(req[j].samples) : x.v = r.v /\ OnGrid(r.t, x.t)
        /\ \A i \in 2..Len(batch.samples) :
             batch.samples[i].id = batch.samples[i-1].id
               => batch.samples[i].t # batch.samples[i-1].t

(* When the fast builder took the body, the second pass finds the labels of *)
(* every new series, unless some time series without rows has a bad label  *)
(* list (remote_fast.go:585-682).                                          *)
LabelsFound ==
    state = "unavailable" =>
        \E i \in DOMAIN req : req[i].samples = <<>> /\ req[i].labels \in BadLabels
=============================================================================
