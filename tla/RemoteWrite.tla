----------------------------- MODULE RemoteWrite -----------------------------
(***************************************************************************)
(* Remote-write ingestion: handleRemoteWrite and insertRemoteWriteBatch    *)
(* (remote.go), as run by every HTTP request and by the self-scrape loop   *)
(* (metrics.go) of one or more snuffle processes that share one ClickHouse.*)
(*                                                                         *)
(* A batch is first made to have its series rows in ClickHouse             *)
(* (insertMissingRemoteSeriesRows: cache filter, lookup, seriesMu, cache   *)
(* filter and lookup again, encode, insert, cache) and only then are its   *)
(* metadata, samples, histograms and exemplars inserted, in that order.    *)
(* Every ClickHouse call may fail, an insert that reports an error may     *)
(* have been applied, or may still be applied later; a process may crash   *)
(* and the client may lose the answer and send the request again.          *)
(*                                                                         *)
(* In the PostHog layout there is no series phase: materialized views make *)
(* the series of the samples. Metadata, histograms and exemplars have no   *)
(* table there by default, but the environment may name one (config.go).   *)
(***************************************************************************)
EXTENDS Integers, FiniteSets

CONSTANTS
    Procs,         \* snuffle processes; each has its own Server value
    Requests,      \* remote-write requests and self-scrapes
    Scrapes,       \* the requests that are self-scrapes: never sent again
    Teams,         \* tenants
    Ids,           \* series ids (stableSeriesID of a label set)
    Batches,       \* the decoded batches a request may carry
    Configured,    \* the row tables the configuration names
    Layouts,       \* the schema layouts a deployment may have
    AllowLate,     \* may a timed-out series insert be applied afterwards?
    MaxAttempts,   \* bound: times one request is sent
    MaxCrashes,    \* bound: process crashes
    None           \* "nobody holds the mutex"

\* The row tables, in the order insertRemoteWriteBatch fills them.
Tables == {"metadata", "samples", "histograms", "exemplars"}

\* A decoded batch: the tenant, the series ids its rows refer to per table,
\* whether it carries metadata, and whether the body decoded at all.
BatchType == [team : Teams, samples : SUBSET Ids, histograms : SUBSET Ids,
              exemplars : SUBSET Ids, metadata : BOOLEAN, valid : BOOLEAN]

ASSUME ConstantsAssumption ==
    /\ Scrapes \subseteq Requests
    /\ Batches \subseteq BatchType
    /\ Configured \subseteq Tables
    /\ "samples" \in Configured
    /\ Layouts \subseteq {"current", "posthog"}
    /\ AllowLate \in BOOLEAN
    /\ MaxAttempts \in Nat \ {0}
    /\ MaxCrashes \in Nat
    /\ None \notin Requests

Keys == Teams \X Ids

VARIABLES
    layout,      \* the schema layout; it does not change
    pc,          \* the step each request is at
    on,          \* the process that serves the request's current attempt
    batch,       \* the batch each request carries (a retry sends it again)
    rows,        \* insertMissingRemoteSeriesRows' rows/newRows
    reply,       \* the ids the series lookup returned
    known,       \* knownSeries.ids of each process
    mu,          \* the holder of seriesMu of each process
    seriesRows,  \* ClickHouse: rows of the series table per key
    late,        \* ClickHouse: a series insert of r it may still apply
    stored,      \* ClickHouse: copies of r's rows per row table
    attempts,    \* times the request was sent
    crashes      \* crashes so far

vars == <<layout, pc, on, batch, rows, reply, known, mu, seriesRows, late,
          stored, attempts, crashes>>

SeriesPhases == {"filter", "lookup", "merge", "lock"}
Critical == {"refilter", "relookup", "remerge", "encode", "insert", "cache"}
Answers == {"ok", "failed", "rejected"}
Phases == {"new"} \cup SeriesPhases \cup Critical \cup Tables \cup Answers
InFlight == SeriesPhases \cup Critical \cup Tables

(* cfg.postHogSchemaLayout() *)
PostHog == layout = "posthog"

(* The ids some row of the batch refers to. buildRemoteWriteBatch adds a    *)
(* series record for each time series with at least one row.               *)
Series(b) == b.samples \cup b.histograms \cup b.exemplars

RowIds(b, t) == CASE t = "samples" -> b.samples
                  [] t = "histograms" -> b.histograms
                  [] t = "exemplars" -> b.exemplars
                  [] OTHER -> {}

HasRows(b, t) == IF t = "metadata" THEN b.metadata ELSE RowIds(b, t) # {}

KeysOf(b, ids) == {<<b.team, i>> : i \in ids}

(* The series that rows of table t bring or wait for: in the PostHog layout *)
(* only the samples do, through the views of their input table.            *)
RowSeries(r, t) ==
    IF PostHog /\ t # "samples" THEN {} ELSE KeysOf(batch[r], RowIds(batch[r], t))

Registered == {k \in Keys : seriesRows[k] > 0}

(* defer s.seriesMu.Unlock(): runs on every way out of the critical section.*)
Unlock(r) == mu' = [mu EXCEPT ![on[r]] = IF @ = r THEN None ELSE @]

(* MUTANT of Fail: the error returns leave seriesMu locked.                 *)
FailKeepsLock(r) ==
    /\ pc' = [pc EXCEPT ![r] = "failed"]
    /\ rows' = [rows EXCEPT ![r] = {}]
    /\ reply' = [reply EXCEPT ![r] = {}]
    /\ UNCHANGED mu

(* The handler returns an error: 503, or a logged self-scrape failure.      *)
Fail(r) ==
    /\ pc' = [pc EXCEPT ![r] = "failed"]
    /\ rows' = [rows EXCEPT ![r] = {}]
    /\ reply' = [reply EXCEPT ![r] = {}]
    /\ Unlock(r)

(* MUTANT of SeriesDone: the success returns leave seriesMu locked.         *)
DoneKeepsLock(r) ==
    /\ pc' = [pc EXCEPT ![r] = "metadata"]
    /\ rows' = [rows EXCEPT ![r] = {}]
    /\ reply' = [reply EXCEPT ![r] = {}]
    /\ UNCHANGED mu

(* insertMissingRemoteSeriesRows returns nil: on to the row tables.         *)
SeriesDone(r) ==
    /\ pc' = [pc EXCEPT ![r] = "metadata"]
    /\ rows' = [rows EXCEPT ![r] = {}]
    /\ reply' = [reply EXCEPT ![r] = {}]
    /\ Unlock(r)

-----------------------------------------------------------------------------
Init ==
    /\ layout \in Layouts
    /\ pc = [r \in Requests |-> "new"]
    /\ on \in [Requests -> Procs]
    /\ batch \in [Requests -> Batches]
    /\ rows = [r \in Requests |-> {}]
    /\ reply = [r \in Requests |-> {}]
    /\ known = [p \in Procs |-> {}]
    /\ mu = [p \in Procs |-> None]
    /\ seriesRows = [k \in Keys |-> 0]
    /\ late = [r \in Requests |-> {}]
    /\ stored = [r \in Requests |-> [t \in Tables |-> 0]]
    /\ attempts = [r \in Requests |-> 1]
    /\ crashes = 0

(* The body is not snappy, not protobuf or has malformed labels: 400.       *)
RejectBadData(r) ==
    /\ pc[r] = "new"
    /\ ~batch[r].valid
    /\ pc' = [pc EXCEPT ![r] = "rejected"]
    /\ UNCHANGED <<layout, on, batch, rows, reply, known, mu, seriesRows, late, stored,
                   attempts, crashes>>

(* handleRemoteWrite up to insertMissingRemoteSeriesRows: an empty batch is *)
(* acknowledged at once; the PostHog layout has no series phase.           *)
HandleRemoteWrite(r) ==
    /\ pc[r] = "new"
    /\ batch[r].valid
    /\ LET b == batch[r]
       IN  IF Series(b) = {} /\ ~b.metadata
           THEN pc' = [pc EXCEPT ![r] = "ok"] /\ UNCHANGED rows
           ELSE IF PostHog \/ Series(b) = {}
           THEN pc' = [pc EXCEPT ![r] = "metadata"] /\ UNCHANGED rows
           ELSE /\ pc' = [pc EXCEPT ![r] = "filter"]
                /\ rows' = [rows EXCEPT ![r] = Series(b)]
    /\ UNCHANGED <<layout, on, batch, reply, known, mu, seriesRows, late, stored,
                   attempts, crashes>>

(* filterCachedSeriesRows, in the first pass and again under seriesMu.      *)
FilterCachedSeriesRows(r) ==
    /\ pc[r] \in {"filter", "refilter"}
    /\ LET uncached ==
             {i \in rows[r] : <<batch[r].team, i>> \notin known[on[r]]}
       IN  IF uncached = {}
           THEN SeriesDone(r)
           ELSE /\ rows' = [rows EXCEPT ![r] = uncached]
                /\ pc' = [pc EXCEPT ![r] =
                            IF @ = "filter" THEN "lookup" ELSE "relookup"]
                /\ UNCHANGED <<reply, mu>>
    /\ UNCHANGED <<layout, on, batch, known, seriesRows, late, stored, attempts,
                   crashes>>

(* MUTANT of KnownIds: the lookup has no tenant filter.                     *)
KnownIdsAnyTeam(r) ==
    {i \in rows[r] : \E t \in Teams : <<t, i>> \in Registered}

(* The series query of filterNewSeriesRows: knownSeriesIDsSQL returns which *)
(* of the batch's ids the tenant's series table already holds.             *)
KnownIds(r) == {i \in rows[r] : <<batch[r].team, i>> \in Registered}

(* MUTANT of LookupSeries: a failed lookup counts as "nothing is missing".  *)
LookupErrorIgnored(r) ==
    /\ pc[r] \in {"lookup", "relookup"}
    /\ \/ /\ reply' = [reply EXCEPT ![r] = KnownIds(r)]
          /\ pc' = [pc EXCEPT ![r] =
                      IF @ = "lookup" THEN "merge" ELSE "remerge"]
          /\ UNCHANGED <<rows, mu>>
       \/ SeriesDone(r)
    /\ UNCHANGED <<layout, on, batch, known, seriesRows, late, stored, attempts,
                   crashes>>

LookupSeries(r) ==
    /\ pc[r] \in {"lookup", "relookup"}
    /\ \/ /\ reply' = [reply EXCEPT ![r] = KnownIds(r)]
          /\ pc' = [pc EXCEPT ![r] =
                      IF @ = "lookup" THEN "merge" ELSE "remerge"]
          /\ UNCHANGED <<rows, mu>>
       \/ Fail(r)
    /\ UNCHANGED <<layout, on, batch, known, seriesRows, late, stored, attempts,
                   crashes>>

(* Process-wide cache of known series, keyed by tenant and id.              *)
CacheIds(r, ids) ==
    known' = [known EXCEPT ![on[r]] = @ \cup KeysOf(batch[r], ids)]

(* The rest of filterNewSeriesRows: cache what the lookup found and drop it.*)
MergeKnown(r) ==
    /\ pc[r] \in {"merge", "remerge"}
    /\ CacheIds(r, reply[r])
    /\ LET newRows == rows[r] \ reply[r]
       IN  IF newRows = {}
           THEN SeriesDone(r)
           ELSE /\ rows' = [rows EXCEPT ![r] = newRows]
                /\ reply' = [reply EXCEPT ![r] = {}]
                /\ pc' = [pc EXCEPT ![r] =
                            IF @ = "merge" THEN "lock" ELSE "encode"]
                /\ UNCHANGED mu
    /\ UNCHANGED <<layout, on, batch, seriesRows, late, stored, attempts, crashes>>

(* MUTANT of LockSeries: no second look at cache and table under the lock.  *)
LockWithoutRecheck(r) ==
    /\ pc[r] = "lock"
    /\ mu[on[r]] = None
    /\ mu' = [mu EXCEPT ![on[r]] = r]
    /\ pc' = [pc EXCEPT ![r] = "encode"]
    /\ UNCHANGED <<layout, on, batch, rows, reply, known, seriesRows, late, stored,
                   attempts, crashes>>

(* s.seriesMu.Lock() *)
LockSeries(r) ==
    /\ pc[r] = "lock"
    /\ mu[on[r]] = None
    /\ mu' = [mu EXCEPT ![on[r]] = r]
    /\ pc' = [pc EXCEPT ![r] = "refilter"]
    /\ UNCHANGED <<layout, on, batch, rows, reply, known, seriesRows, late, stored,
                   attempts, crashes>>

(* MUTANT of EncodeLabels: the rows are cached before they are inserted.    *)
EncodeAndCache(r) ==
    /\ pc[r] = "encode"
    /\ \/ /\ pc' = [pc EXCEPT ![r] = "insert"]
          /\ CacheIds(r, rows[r])
          /\ UNCHANGED <<rows, reply, mu>>
       \/ Fail(r) /\ UNCHANGED known
    /\ UNCHANGED <<layout, on, batch, seriesRows, late, stored, attempts, crashes>>

(* populateSeriesLabelsJSON / populateSeriesLabelsJSONFromProto.            *)
EncodeLabels(r) ==
    /\ pc[r] = "encode"
    /\ \/ pc' = [pc EXCEPT ![r] = "insert"] /\ UNCHANGED <<rows, reply, mu>>
       \/ Fail(r)
    /\ UNCHANGED <<layout, on, batch, known, seriesRows, late, stored, attempts,
                   crashes>>

AddSeriesRows(keys) ==
    seriesRows' = [k \in Keys |-> IF k \in keys THEN seriesRows[k] + 1
                                                ELSE seriesRows[k]]

(* insertRemoteSeriesRows: a synchronous insert. On an error the rows may   *)
(* be absent, present, or (AllowLate) still on their way.                  *)
InsertSeriesRows(r) ==
    /\ pc[r] = "insert"
    /\ \/ /\ AddSeriesRows(KeysOf(batch[r], rows[r]))
          /\ pc' = [pc EXCEPT ![r] = "cache"]
          /\ UNCHANGED <<rows, reply, mu, late>>
       \/ Fail(r) /\ UNCHANGED <<seriesRows, late>>
       \/ Fail(r) /\ AddSeriesRows(KeysOf(batch[r], rows[r]))
                  /\ UNCHANGED late
       \/ /\ AllowLate
          /\ late[r] = {}
          /\ late' = [late EXCEPT ![r] = rows[r]]
          /\ Fail(r)
          /\ UNCHANGED seriesRows
    /\ UNCHANGED <<layout, on, batch, known, stored, attempts, crashes>>

(* MUTANT of CacheKnownSeriesRows: the inserted rows are not cached.        *)
ForgetToCache(r) ==
    /\ pc[r] = "cache"
    /\ SeriesDone(r)
    /\ UNCHANGED <<layout, on, batch, known, seriesRows, late, stored, attempts,
                   crashes>>

(* cacheKnownSeriesRows, then the deferred unlock.                          *)
CacheKnownSeriesRows(r) ==
    /\ pc[r] = "cache"
    /\ CacheIds(r, rows[r])
    /\ SeriesDone(r)
    /\ UNCHANGED <<layout, on, batch, seriesRows, late, stored, attempts, crashes>>

AfterTable(t) == CASE t = "metadata" -> "samples"
                   [] t = "samples" -> "histograms"
                   [] t = "histograms" -> "exemplars"
                   [] t = "exemplars" -> "ok"

(* The row table t has r's rows once more. In the PostHog layout the        *)
(* samples go to the input table, whose materialized views add the series. *)
StoreRows(r, t) ==
    /\ stored' = [stored EXCEPT ![r][t] = @ + 1]
    /\ IF PostHog THEN AddSeriesRows(RowSeries(r, t)) ELSE UNCHANGED seriesRows

(* MUTANT of InsertRows: the error of an insert is dropped.                 *)
InsertErrorIgnored(r) ==
    /\ pc[r] \in Tables
    /\ LET t == pc[r]
       IN  /\ pc' = [pc EXCEPT ![r] = AfterTable(t)]
           /\ \/ HasRows(batch[r], t) /\ t \in Configured /\ StoreRows(r, t)
              \/ UNCHANGED <<stored, seriesRows>>
    /\ UNCHANGED <<layout, on, batch, rows, reply, known, mu, late, attempts, crashes>>

(* insertRemoteMetadataRows, insertRemoteSampleRows,                        *)
(* insertRemoteHistogramRows, insertRemoteExemplarRows: nothing to do      *)
(* without rows or without a table; an insert that reports an error may    *)
(* have been applied.                                                      *)
InsertRows(r) ==
    /\ pc[r] \in Tables
    /\ LET t == pc[r]
       IN  IF HasRows(batch[r], t) /\ t \in Configured
           THEN \/ /\ StoreRows(r, t)
                   /\ pc' = [pc EXCEPT ![r] = AfterTable(t)]
                   /\ UNCHANGED <<rows, reply, mu>>
                \/ Fail(r) /\ UNCHANGED <<stored, seriesRows>>
                \/ Fail(r) /\ StoreRows(r, t)
           ELSE /\ pc' = [pc EXCEPT ![r] = AfterTable(t)]
                /\ UNCHANGED <<rows, reply, mu, stored, seriesRows>>
    /\ UNCHANGED <<layout, on, batch, known, late, attempts, crashes>>

-----------------------------------------------------------------------------
(* The environment.                                                         *)

(* The 204 never reaches the client.                                        *)
LoseAnswer(r) ==
    /\ pc[r] = "ok"
    /\ r \notin Scrapes
    /\ pc' = [pc EXCEPT ![r] = "failed"]
    /\ UNCHANGED <<layout, on, batch, rows, reply, known, mu, seriesRows, late, stored,
                   attempts, crashes>>

(* A client sends a batch that was not acknowledged again, to any process.  *)
Resend(r) ==
    /\ pc[r] = "failed"
    /\ r \notin Scrapes
    /\ attempts[r] < MaxAttempts
    /\ attempts' = [attempts EXCEPT ![r] = @ + 1]
    /\ \E p \in Procs : on' = [on EXCEPT ![r] = p]
    /\ pc' = [pc EXCEPT ![r] = "new"]
    /\ UNCHANGED <<layout, batch, rows, reply, known, mu, seriesRows, late, stored,
                   crashes>>

(* ClickHouse applies a series insert whose caller gave up.                 *)
CommitLate(r) ==
    /\ late[r] # {}
    /\ AddSeriesRows(KeysOf(batch[r], late[r]))
    /\ late' = [late EXCEPT ![r] = {}]
    /\ UNCHANGED <<layout, pc, on, batch, rows, reply, known, mu, stored, attempts,
                   crashes>>

(* The process dies and is started again: its cache and mutex are new and   *)
(* the requests it was serving get no answer. A series insert it had sent  *)
(* may (AllowLate) still be applied.                                       *)
Crash(p) ==
    /\ crashes < MaxCrashes
    /\ crashes' = crashes + 1
    /\ LET dying == {r \in Requests : on[r] = p /\ pc[r] \in InFlight}
       IN  /\ pc' = [r \in Requests |->
                       IF r \in dying THEN "failed" ELSE pc[r]]
           /\ rows' = [r \in Requests |-> IF r \in dying THEN {} ELSE rows[r]]
           /\ reply' = [r \in Requests |->
                          IF r \in dying THEN {} ELSE reply[r]]
           /\ \/ UNCHANGED late
              \/ /\ AllowLate
                 /\ \E r \in dying :
                      /\ pc[r] = "insert"
                      /\ late[r] = {}
                      /\ late' = [late EXCEPT ![r] = rows[r]]
    /\ known' = [known EXCEPT ![p] = {}]
    /\ mu' = [mu EXCEPT ![p] = None]
    /\ UNCHANGED <<layout, on, batch, seriesRows, stored, attempts>>

(* The steps of the handler itself.                                         *)
Step(r) ==
    \/ RejectBadData(r)
    \/ HandleRemoteWrite(r)
    \/ FilterCachedSeriesRows(r)
    \/ LookupSeries(r)
    \/ MergeKnown(r)
    \/ EncodeLabels(r)
    \/ InsertSeriesRows(r)
    \/ CacheKnownSeriesRows(r)
    \/ InsertRows(r)

Next ==
    \/ \E r \in Requests : \/ Step(r)
                           \/ LockSeries(r)
                           \/ LoseAnswer(r)
                           \/ Resend(r)
                           \/ CommitLate(r)
    \/ \E p \in Procs : Crash(p)

(* Every ClickHouse call ends, with an answer or by the CHTimeout of its    *)
(* context, so a handler that can step does. sync.Mutex does not starve a  *)
(* waiter, so a request that can keep getting the lock gets it.            *)
Fairness == \A r \in Requests : WF_vars(Step(r)) /\ SF_vars(LockSeries(r))

Spec == Init /\ [][Next]_vars
FairSpec == Spec /\ Fairness

-----------------------------------------------------------------------------
(* Properties.                                                              *)

(* Every variable keeps its type; a count never goes below zero.            *)
TypeOK ==
    /\ layout \in Layouts
    /\ pc \in [Requests -> Phases]
    /\ on \in [Requests -> Procs]
    /\ batch \in [Requests -> BatchType]
    /\ rows \in [Requests -> SUBSET Ids]
    /\ reply \in [Requests -> SUBSET Ids]
    /\ known \in [Procs -> SUBSET Keys]
    /\ mu \in [Procs -> Requests \cup {None}]
    /\ seriesRows \in [Keys -> Nat]
    /\ late \in [Requests -> SUBSET Ids]
    /\ stored \in [Requests -> [Tables -> Nat]]
    /\ attempts \in [Requests -> Nat]
    /\ crashes \in Nat

(* The process-wide cache never claims a series that ClickHouse does not    *)
(* hold for that tenant: a wrong entry would be trusted for the lifetime of *)
(* the process and its series would never be written (remote.go:738-816).  *)
CacheSound == \A p \in Procs : known[p] \subseteq Registered

(* No sample, histogram or exemplar is ever in ClickHouse without the       *)
(* series row that gives it labels, whichever call failed, whoever crashed *)
(* and whoever else wrote: the series phase comes first (remote.go:617-652).*)
(* In the PostHog layout this is so of samples only: nothing registers the *)
(* series of histograms and exemplars sent to tables named for them there. *)
NoOrphanRows ==
    \A r \in Requests, t \in Tables :
        stored[r][t] > 0 => RowSeries(r, t) \subseteq Registered

(* A 204 means every row of the batch with a configured table is stored,    *)
(* at least once and at most once per time the request was sent, and that  *)
(* its stored series are registered (remote.go:69-75, README at-least-once).*)
AckedDurable ==
    \A r \in Requests : pc[r] = "ok" =>
        \A t \in Configured : HasRows(batch[r], t) =>
            /\ stored[r][t] \in 1..attempts[r]
            /\ RowSeries(r, t) \subseteq Registered

(* The series table has one row per time series: the recheck under seriesMu *)
(* keeps requests of one process from inserting a series twice             *)
(* (remote.go:665-692; PERFORMANCE.md "one row per time series").          *)
OneRowPerSeries == \A k \in Keys : seriesRows[k] <= 1

(* A request that got past the series phase left every series of its batch  *)
(* in the cache of its process, so the next batch with the same series     *)
(* needs no lookup and no lock (remote.go:767-773, 802-811).               *)
WrittenSeriesCached ==
    \A r \in Requests : pc[r] \in Tables /\ ~PostHog =>
        KeysOf(batch[r], Series(batch[r])) \subseteq known[on[r]]

(* Every attempt ends with an answer, although requests wait for each other *)
(* on seriesMu, their calls fail and their process may crash.              *)
EveryAttemptAnswered ==
    \A r \in Requests : pc[r] \in InFlight \cup {"new"} ~> pc[r] \in Answers

(* seriesMu is never left locked: whenever it is held it is released again. *)
MutexReleased ==
    \A p \in Procs : mu[p] # None ~> mu[p] = None

(* The state of IngestContract that a state of this module stands for.      *)
Contract ==
    INSTANCE IngestContract WITH
        RowTables <- Tables,
        carries <- [r \in Requests |->
                      {t \in Configured : HasRows(batch[r], t)}],
        rowKeys <- [r \in Requests |-> [t \in Tables |-> RowSeries(r, t)]],
        registered <- Registered,
        data <- {x \in Requests \X Tables : stored[x[1]][x[2]] > 0},
        acked <- {r \in Requests : pc[r] = "ok"}

(* Ingestion keeps its contract: every step of a handler, of ClickHouse or  *)
(* of a client is a step of IngestContract or leaves its state alone       *)
(* (remote.go:617-692).                                                    *)
ImplementsContract == Contract!Spec
=============================================================================
