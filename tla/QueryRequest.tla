----------------------------- MODULE QueryRequest -----------------------------
(***************************************************************************)
(* One PromQL request (api.go, storage.go, clickhouse.go): the handler     *)
(* tries the fast path and otherwise lets the Prometheus engine run the    *)
(* query. The engine first calls Select for every selector, which starts   *)
(* one goroutine per distinct selector and returns a future, and then      *)
(* evaluates the expression, waiting for one future after the other. A     *)
(* goroutine opens the request's ClickHouse pool if nobody did, selects    *)
(* the series and loads samples and histograms in parallel. The pool is    *)
(* closed when the handler returns. The context may be done at any time.   *)
(***************************************************************************)
EXTENDS Integers, Sequences

CONSTANTS
    Keys,          \* distinct selectors (selectCacheKey)
    Unsat,         \* those that matchersUnsatisfiable answers at once
    Selectors,     \* the selectors of the expression, in evaluation order
    LatestOnly     \* a select may be one statement: an instant query without
                   \* a histogram table, or the PostHog layout

ASSUME QueryAssumption ==
    /\ Unsat \subseteq Keys
    /\ Selectors \in Seq(Keys)
    /\ LatestOnly \in BOOLEAN

VARIABLES
    phase,     \* what the handler is doing
    pos,       \* the selector it is at
    ctxDone,   \* the request's context is cancelled or timed out
    future,    \* the select of each key
    load,      \* its two parallel loads
    pool,      \* requestClickHouseConnection.conn
    synced,    \* a synchronisation orders the handler after the opening
    answer     \* what the client is told

vars == <<phase, pos, ctxDone, future, load, pool, synced, answer>>

Finished == {"ok", "error"}
Running == {"started", "select", "load"}
Loads == {"samples", "histograms"}
Positions == 1 .. (Len(Selectors) + 1)

-----------------------------------------------------------------------------
Init ==
    /\ phase = "fast"
    /\ pos = 1
    /\ ctxDone = FALSE
    /\ future = [k \in Keys |-> "none"]
    /\ load = [k \in Keys |-> [l \in Loads |-> "idle"]]
    /\ pool = "none"
    /\ synced = FALSE
    /\ answer = "none"

(* connection: the first caller opens the pool, all later ones get its      *)
(* result, a failure included.                                             *)
Connection ==
    IF pool = "none" THEN pool' \in {"open", "failed"} ELSE UNCHANGED pool

(* The handler writes its response; its deferred cancel ends the context.   *)
Reply(a) ==
    /\ answer' = a
    /\ phase' = "answered"
    /\ ctxDone' = TRUE

(* A malformed request is refused before anything is asked, a query that    *)
(* the engine does not take after the fast path declined it.               *)
RejectQuery ==
    /\ phase \in {"fast", "prepare"}
    /\ pos = 1
    /\ Reply("error")
    /\ UNCHANGED <<pos, future, load, pool, synced>>

(* tryCompactHistogramRange and tryFast...Query run in the handler itself:  *)
(* they decline the query, with or without having asked ClickHouse, or     *)
(* answer it. An error does not fall back to the engine.                   *)
TryFastQuery ==
    /\ phase = "fast"
    /\ \/ UNCHANGED <<pool, synced>>
       \/ Connection /\ synced' = TRUE
    /\ \/ phase' = "prepare" /\ pool' # "failed" /\ UNCHANGED <<answer, ctxDone>>
       \/ synced' /\ pool' = "open" /\ Reply("ok")
       \/ synced' /\ Reply("error")
    /\ UNCHANGED <<pos, future, load>>

(* CHQuerier.Select, called by the engine for each selector before it       *)
(* evaluates anything: a known key shares the future already there.        *)
Select ==
    /\ phase = "prepare"
    /\ IF pos > Len(Selectors)
       THEN /\ phase' = "evaluate"
            /\ pos' = 1
            /\ UNCHANGED future
       ELSE LET k == Selectors[pos]
            IN  /\ pos' = pos + 1
                /\ IF k \in Unsat \/ future[k] # "none"
                   THEN UNCHANGED future
                   ELSE future' = [future EXCEPT ![k] = "started"]
                /\ UNCHANGED phase
    /\ UNCHANGED <<ctxDone, load, pool, synced, answer>>

(* The engine looks at the context before it evaluates a selector, not      *)
(* while it waits for one. Its evaluation may fail for reasons of its own   *)
(* (the regular expression of label_replace, a label of count_values),     *)
(* before or after any selector.                                           *)
EvaluateSelector ==
    /\ phase = "evaluate"
    /\ \/ /\ Reply("failed") \/ (ctxDone /\ Reply("cancelled"))
          /\ UNCHANGED pos
       \/ pos > Len(Selectors) /\ Reply("ok") /\ UNCHANGED pos
       \/ /\ pos <= Len(Selectors) /\ ~ctxDone
          /\ IF Selectors[pos] \in Unsat
             THEN pos' = pos + 1 /\ UNCHANGED phase
             ELSE phase' = "wait" /\ UNCHANGED pos
          /\ UNCHANGED <<ctxDone, answer>>
    /\ UNCHANGED <<future, load, pool, synced>>

(* futureSeriesSet.wait: <-future.done, then the series or the error.       *)
Wait ==
    /\ phase = "wait"
    /\ future[Selectors[pos]] \in Finished
    /\ synced' = TRUE
    /\ IF future[Selectors[pos]] = "ok"
       THEN /\ phase' = "evaluate"
            /\ pos' = pos + 1
            /\ UNCHANGED <<ctxDone, answer>>
       ELSE Reply("error") /\ UNCHANGED pos
    /\ UNCHANGED <<future, load, pool>>

(* MUTANT of CloseConn: the pool is only closed after a success.            *)
CloseConnOnSuccess ==
    /\ phase = "answered"
    /\ phase' = "closed"
    /\ pool' = IF pool = "open" /\ answer = "ok" THEN "closed" ELSE pool
    /\ UNCHANGED <<pos, ctxDone, future, load, synced, answer>>

(* The deferred closeConn of clickHouseAuthHandler. Without synchronisation *)
(* its read of requestConn.conn races with the once.Do of a goroutine.     *)
CloseConn ==
    /\ phase = "answered"
    /\ phase' = "closed"
    /\ \/ pool' = IF pool = "open" THEN "closed" ELSE pool
       \/ ~synced /\ UNCHANGED pool
    /\ UNCHANGED <<pos, ctxDone, future, load, synced, answer>>

(* The client goes away or QueryTimeout passes.                             *)
ContextDone ==
    /\ ~ctxDone
    /\ ctxDone' = TRUE
    /\ UNCHANGED <<phase, pos, future, load, pool, synced, answer>>

-----------------------------------------------------------------------------
(* The goroutine of a future.                                               *)

Set(k, state) == future' = [future EXCEPT ![k] = state]

Connect(k) ==
    /\ future[k] = "started"
    /\ Connection
    /\ Set(k, IF pool' = "failed" THEN "error" ELSE "select")
    /\ UNCHANGED <<phase, pos, ctxDone, load, synced, answer>>

(* MUTANT of QuerySeries: an error returns without closing future.done.     *)
QuerySeriesHangs(k) ==
    /\ future[k] = "select"
    /\ \/ /\ Set(k, "load")
          /\ load' = [load EXCEPT ![k] = [l \in Loads |-> "running"]]
       \/ Set(k, "hung") /\ UNCHANGED load
    /\ UNCHANGED <<phase, pos, ctxDone, pool, synced, answer>>

(* selectLatestSeriesSamples or selectSeries; any statement may fail, with  *)
(* a context that is done or a pool that is closed among other reasons.    *)
QuerySeries(k) ==
    /\ future[k] = "select"
    /\ \/ /\ Set(k, "load")
          /\ load' = [load EXCEPT ![k] = [l \in Loads |-> "running"]]
       \/ LatestOnly /\ Set(k, "ok")
                     /\ load' = [load EXCEPT ![k] = [l \in Loads |-> "ok"]]
       \/ Set(k, "error") /\ UNCHANGED load
    /\ UNCHANGED <<phase, pos, ctxDone, pool, synced, answer>>

(* loadSamples and loadHistograms, side by side.                            *)
LoadPoints(k, l) ==
    /\ future[k] = "load"
    /\ load[k][l] = "running"
    /\ \E res \in Finished : load' = [load EXCEPT ![k][l] = res]
    /\ UNCHANGED <<phase, pos, ctxDone, future, pool, synced, answer>>

(* MUTANT of FinishSelect: the first load that ends finishes the future.    *)
FinishEarly(k) ==
    /\ future[k] = "load"
    /\ \E l \in Loads : load[k][l] \in Finished
    /\ Set(k, IF \E l \in Loads : load[k][l] = "error" THEN "error" ELSE "ok")
    /\ UNCHANGED <<phase, pos, ctxDone, load, pool, synced, answer>>

(* MUTANT of FinishSelect: a failed load returns without close(done).       *)
FinishOnlyOk(k) ==
    /\ future[k] = "load"
    /\ \A l \in Loads : load[k][l] = "ok"
    /\ Set(k, "ok")
    /\ UNCHANGED <<phase, pos, ctxDone, load, pool, synced, answer>>

(* wait.Wait(), the errors in order, close(future.done).                    *)
FinishSelect(k) ==
    /\ future[k] = "load"
    /\ \A l \in Loads : load[k][l] \in Finished
    /\ Set(k, IF \E l \in Loads : load[k][l] = "error" THEN "error" ELSE "ok")
    /\ UNCHANGED <<phase, pos, ctxDone, load, pool, synced, answer>>

Handler ==
    \/ RejectQuery
    \/ TryFastQuery
    \/ Select
    \/ EvaluateSelector
    \/ Wait
    \/ CloseConn

Goroutine(k) ==
    \/ Connect(k)
    \/ QuerySeries(k)
    \/ \E l \in Loads : LoadPoints(k, l)
    \/ FinishSelect(k)

Next == Handler \/ ContextDone \/ \E k \in Keys : Goroutine(k)

(* The Go scheduler runs every goroutine that can run, and every statement  *)
(* ends by the timeout of its context at the latest.                       *)
Spec == Init /\ [][Next]_vars
FairSpec == Spec /\ WF_vars(Handler) /\ \A k \in Keys : WF_vars(Goroutine(k))

-----------------------------------------------------------------------------
(* Properties.                                                              *)

(* A successful answer is never built on half-loaded series: when the       *)
(* engine answers, both loads of every satisfiable selector have ended     *)
(* without error and nobody writes to its series any more                  *)
(* (storage.go:61-76, 113-137).                                            *)
AnswerComplete ==
    answer = "ok" /\ pos > Len(Selectors) =>
        \A i \in 1..Len(Selectors) : Selectors[i] \notin Unsat =>
            \A l \in Loads : load[Selectors[i]][l] = "ok"

(* Once somebody has waited for the pool it is not left open: closeConn     *)
(* sees and closes it after every answer, an error of the fast path or of  *)
(* a select included. Only an engine that gave up (an evaluation error, a  *)
(* context that is done) before it waited for any future can leave it      *)
(* behind (api.go:124-134, clickhouse.go:109-130).                         *)
PoolClosedAfterWait ==
    phase = "closed" /\ pool = "open" =>
        /\ answer \in {"failed", "cancelled"}
        /\ \A i \in 1 .. (pos - 1) : Selectors[i] \in Unsat

(* "request-scoped pools bound credential lifetime" (clickhouse.go:25):     *)
(* when the request is over and its goroutines are, no pool is open.       *)
PoolsRequestScoped ==
    phase = "closed" /\ (\A k \in Keys : future[k] \notin Running)
        => pool # "open"

(* Every request ends, whatever fails: the engine waits for a future        *)
(* without a way out, so every started select must close its channel       *)
(* (storage.go:61-76, 200-210).                                            *)
RequestEnds == <>(phase = "closed")

(* No goroutine outlives its request for ever (storage.go:61-76).           *)
FuturesFinish == \A k \in Keys : future[k] \in Running ~> future[k] \in Finished
=============================================================================
