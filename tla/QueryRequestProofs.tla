-------------------------- MODULE QueryRequestProofs --------------------------
(***************************************************************************)
(* Proofs about QueryRequest for any selectors of any expression: whatever *)
(* fails and whenever the context ends, a successful answer is complete    *)
(* and a pool somebody has waited for is not left open.                    *)
(***************************************************************************)
EXTENDS QueryRequest, TLAPS

Over == {"answered", "closed"}
NoFutures == \A k \in Keys : future[k] = "none"

Shape ==
    /\ phase \in {"fast", "prepare", "evaluate", "wait"} \cup Over
    /\ pos \in Positions
    /\ future \in [Keys -> {"none"} \cup Running \cup Finished]
    /\ load \in [Keys -> [Loads -> {"idle", "running"} \cup Finished]]
    /\ pool \in {"none", "open", "failed", "closed"}
    /\ answer \in {"none", "ok", "error", "failed", "cancelled"}
    /\ phase \in Over <=> answer # "none"
    /\ phase = "wait" => pos <= Len(Selectors)

(* A future that is "ok" has both loads behind it.                          *)
LoadedWhole ==
    \A k \in Keys : future[k] = "ok" => \A l \in Loads : load[k][l] = "ok"

(* Somebody asked for the pool before it was used, and until a goroutine    *)
(* exists that was the handler itself.                                     *)
PoolAsked ==
    /\ \A k \in Keys : future[k] \notin {"none", "started"} => pool # "none"
    /\ synced => pool # "none"
    /\ NoFutures => pool = "none" \/ synced

(* Futures belong to satisfiable selectors of the expression, and none      *)
(* exists before the first Select.                                         *)
FuturesSelected ==
    /\ \A k \in Keys : future[k] # "none" =>
          k \notin Unsat /\ \E i \in 1 .. Len(Selectors) : Selectors[i] = k
    /\ phase \in {"fast", "prepare"} /\ pos = 1 => NoFutures
    /\ phase = "fast" => pos = 1 /\ pool = "none"

(* Selectors before the one at hand were waited for, also when the engine   *)
(* then gave up.                                                           *)
Waited(n) ==
    \A i \in 1 .. n : Selectors[i] \notin Unsat => future[Selectors[i]] = "ok" /\ synced

Evaluated ==
    /\ phase \notin {"fast", "prepare"} /\ answer \notin {"ok", "error"} => Waited(pos - 1)
    /\ answer = "ok" /\ pos > Len(Selectors) => Waited(Len(Selectors))

(* A handler whose engine did not give up has seen the pool, or there is    *)
(* none.                                                                   *)
HandlerSynced ==
    phase \in Over /\ answer \in {"ok", "error"} => synced \/ NoFutures

QueryInv ==
    /\ Shape
    /\ LoadedWhole
    /\ PoolAsked
    /\ FuturesSelected
    /\ Evaluated
    /\ HandlerSynced
    /\ PoolClosedAfterWait

-----------------------------------------------------------------------------
LEMMA InitInv == Init => QueryInv
  BY QueryAssumption DEF Init, QueryInv, Shape, LoadedWhole, PoolAsked, FuturesSelected, Evaluated,
     HandlerSynced, PoolClosedAfterWait, Waited, NoFutures, Over, Positions, Loads

(* The steps of the handler.                                                *)

LEMMA RejectInv == ASSUME QueryInv, RejectQuery PROVE QueryInv'
  BY QueryAssumption DEF QueryInv, RejectQuery, Reply, Shape, LoadedWhole, PoolAsked, FuturesSelected, Evaluated,
     HandlerSynced, PoolClosedAfterWait, Waited, NoFutures, Over, Positions

LEMMA FastInv == ASSUME QueryInv, TryFastQuery PROVE QueryInv'
  BY QueryAssumption DEF QueryInv, TryFastQuery, Connection, Reply, Shape, LoadedWhole, PoolAsked, FuturesSelected,
     Evaluated, HandlerSynced, PoolClosedAfterWait, Waited, NoFutures, Over, Positions

LEMMA SelectInv == ASSUME QueryInv, Select PROVE QueryInv'
  <1> USE QueryAssumption DEF QueryInv, Over
  <1>1. CASE pos > Len(Selectors)
    <2>1. phase' = "evaluate" /\ pos' = 1 /\ UNCHANGED <<ctxDone, future, load, pool, synced, answer>>
      BY <1>1 DEF Select
    <2> QED
      BY <2>1 DEF Select, Shape, LoadedWhole, PoolAsked, FuturesSelected, Evaluated, HandlerSynced,
         PoolClosedAfterWait, Waited, NoFutures, Positions
  <1>2. CASE pos <= Len(Selectors)
    <2> DEFINE k == Selectors[pos]
    <2>1. /\ phase = "prepare" /\ pos \in Nat /\ pos' = pos + 1 /\ k \in Keys
          /\ UNCHANGED <<phase, ctxDone, load, pool, synced, answer>>
      BY <1>2 DEF Select, Shape, Positions
    <2>2. CASE future' = future
      BY <1>2, <2>1, <2>2 DEF Shape, LoadedWhole, PoolAsked, FuturesSelected, Evaluated, HandlerSynced,
         PoolClosedAfterWait, Waited, NoFutures, Positions
    <2>3. CASE k \notin Unsat /\ future[k] = "none" /\ future' = [future EXCEPT ![k] = "started"]
      <3>1. /\ \A j \in Keys : future'[j] = IF j = k THEN "started" ELSE future[j]
            /\ ~NoFutures'
        BY <2>1, <2>3 DEF Shape, NoFutures
      <3>2. Shape' /\ LoadedWhole' /\ FuturesSelected'
        BY <1>2, <2>1, <2>3, <3>1 DEF Shape, Positions, Running, LoadedWhole, FuturesSelected
      <3> QED
        BY <2>1, <3>1, <3>2 DEF Shape, PoolAsked, Evaluated, HandlerSynced, PoolClosedAfterWait
    <2> QED
      BY <1>2, <2>1, <2>2, <2>3 DEF Select, Shape
  <1> QED
    BY <1>1, <1>2 DEF Shape, Positions

LEMMA EvaluateInv == ASSUME QueryInv, EvaluateSelector PROVE QueryInv'
  BY QueryAssumption DEF QueryInv, EvaluateSelector, Reply, Shape, LoadedWhole, PoolAsked, FuturesSelected, Evaluated,
     HandlerSynced, PoolClosedAfterWait, Waited, NoFutures, Over, Positions

LEMMA WaitInv == ASSUME QueryInv, Wait PROVE QueryInv'
  BY QueryAssumption DEF QueryInv, Wait, Reply, Shape, LoadedWhole, PoolAsked, FuturesSelected, Evaluated,
     HandlerSynced, PoolClosedAfterWait, Waited, NoFutures, Over, Positions, Finished

LEMMA CloseInv == ASSUME QueryInv, CloseConn PROVE QueryInv'
  <1>1. Shape' /\ LoadedWhole' /\ PoolAsked' /\ FuturesSelected' /\ Evaluated' /\ HandlerSynced'
    BY QueryAssumption DEF QueryInv, CloseConn, Shape, LoadedWhole, PoolAsked, FuturesSelected, Evaluated,
       HandlerSynced, Waited, NoFutures, Over
  <1>2. PoolClosedAfterWait'
    BY DEF QueryInv, CloseConn, PoolClosedAfterWait, Shape, PoolAsked, Evaluated, HandlerSynced, Waited, Over
  <1> QED
    BY <1>1, <1>2 DEF QueryInv

(* The steps of a goroutine.                                                *)
LEMMA ConnectInv == ASSUME QueryInv, NEW k \in Keys, Connect(k) PROVE QueryInv'
  <1>1. /\ pool # "none" => pool' = pool
        /\ pool' # "none" /\ future[k] = "started"
        /\ UNCHANGED <<phase, pos, ctxDone, load, synced, answer>>
    BY DEF Connect, Connection
  <1>2. PICK x \in {"select", "error"} : future' = [future EXCEPT ![k] = x]
    BY DEF Connect, Set
  <1>3. \A j \in Keys : future'[j] = IF j = k THEN x ELSE future[j]
    BY <1>2 DEF QueryInv, Shape
  <1>4. Shape' /\ LoadedWhole' /\ FuturesSelected'
    BY <1>1, <1>3, <1>2, QueryAssumption DEF QueryInv, Connect, Connection, Shape, LoadedWhole, FuturesSelected,
       NoFutures, Running, Finished
  <1>5. PoolAsked' /\ HandlerSynced'
    BY <1>1, <1>3 DEF QueryInv, PoolAsked, HandlerSynced, NoFutures
  <1>6. Evaluated'
    <2>1. \A i \in 1 .. Len(Selectors) : future[Selectors[i]] = "ok" => future'[Selectors[i]] = "ok"
      BY <1>1, <1>3, QueryAssumption
    <2> QED
      BY <1>1, <2>1 DEF QueryInv, Evaluated, Waited, Shape, Positions
  <1>7. PoolClosedAfterWait'
    BY <1>1 DEF QueryInv, PoolClosedAfterWait, Shape, PoolAsked, Evaluated, HandlerSynced, Waited, NoFutures, Over
  <1> QED
    BY <1>4, <1>5, <1>6, <1>7 DEF QueryInv

LEMMA QuerySeriesInv == ASSUME QueryInv, NEW k \in Keys, QuerySeries(k) PROVE QueryInv'
  <1> USE DEF QueryInv, Over
  <1>1. PICK x \in {"load", "ok", "error"} :
          /\ future[k] = "select" /\ future' = [future EXCEPT ![k] = x]
          /\ x = "ok" => load' = [load EXCEPT ![k] = [l \in Loads |-> "ok"]]
          /\ x = "load" => load' = [load EXCEPT ![k] = [l \in Loads |-> "running"]]
          /\ x = "error" => load' = load
          /\ UNCHANGED <<phase, pos, ctxDone, pool, synced, answer>>
    BY DEF QuerySeries, Set
  <1>2. /\ future'[k] = x
        /\ \A j \in Keys \ {k} : future'[j] = future[j] /\ load'[j] = load[j]
        /\ x = "ok" => \A l \in Loads : load'[k][l] = "ok"
    BY <1>1 DEF Shape
  <1>3. Shape'
    <2>1. future' \in [Keys -> {"none"} \cup Running \cup Finished]
      BY <1>1 DEF Shape, Running, Finished
    <2>2. load' \in [Keys -> [Loads -> {"idle", "running"} \cup Finished]]
      BY <1>1 DEF Shape, Finished
    <2> QED
      BY <1>1, <2>1, <2>2 DEF Shape
  <1>4. LoadedWhole'
    BY <1>2 DEF LoadedWhole
  <1>5. PoolAsked' /\ FuturesSelected'
    BY <1>1, <1>2 DEF PoolAsked, FuturesSelected, NoFutures
  <1>6. Evaluated'
    <2>1. \A i \in 1 .. Len(Selectors) : future[Selectors[i]] = "ok" => future'[Selectors[i]] = "ok"
      BY <1>1, <1>2, QueryAssumption
    <2> QED
      BY <1>1, <2>1 DEF Evaluated, Waited, Shape, Positions
  <1>7. HandlerSynced' /\ PoolClosedAfterWait'
    BY <1>1, <1>2 DEF HandlerSynced, PoolClosedAfterWait, NoFutures
  <1> QED
    BY <1>3, <1>4, <1>5, <1>6, <1>7

LEMMA LoadInv == ASSUME QueryInv, NEW k \in Keys, NEW l \in Loads, LoadPoints(k, l) PROVE QueryInv'
  BY QueryAssumption DEF QueryInv, LoadPoints, Set, Shape, LoadedWhole, PoolAsked, FuturesSelected, Evaluated,
     HandlerSynced, PoolClosedAfterWait, Waited, NoFutures, Over, Positions, Running, Finished, Loads

LEMMA FinishInv == ASSUME QueryInv, NEW k \in Keys, FinishSelect(k) PROVE QueryInv'
  BY QueryAssumption DEF QueryInv, FinishSelect, Set, Shape, LoadedWhole, PoolAsked, FuturesSelected, Evaluated,
     HandlerSynced, PoolClosedAfterWait, Waited, NoFutures, Over, Positions, Running, Finished, Loads
LEMMA NextInv == QueryInv /\ [Next]_vars => QueryInv'
  <1> SUFFICES ASSUME QueryInv, [Next]_vars PROVE QueryInv'
    OBVIOUS
  <1>1. CASE Handler
    BY <1>1, RejectInv, FastInv, SelectInv, EvaluateInv, WaitInv, CloseInv DEF Handler
  <1>2. CASE \E k \in Keys : Goroutine(k)
    BY <1>2, ConnectInv, QuerySeriesInv, LoadInv, FinishInv DEF Goroutine
  <1>3. CASE ContextDone \/ UNCHANGED vars
    BY <1>3 DEF QueryInv, ContextDone, vars, Shape, LoadedWhole, PoolAsked, FuturesSelected, Evaluated,
       HandlerSynced, PoolClosedAfterWait, Waited, NoFutures
  <1> QED
    BY <1>1, <1>2, <1>3 DEF Next

LEMMA QueryInvariant == Spec => []QueryInv
  BY InitInv, NextInv, PTL DEF Spec

-----------------------------------------------------------------------------
(* A query that the engine answers successfully has read all samples and    *)
(* histograms of every satisfiable selector, whatever goroutines failed or *)
(* were still running when (CHQuerier.Select, futureSeriesSet.wait).       *)
THEOREM AnswersAreComplete == Spec => []AnswerComplete
  <1>1. QueryInv => AnswerComplete
    BY QueryAssumption DEF QueryInv, AnswerComplete, Evaluated, Waited, LoadedWhole
  <1> QED
    BY <1>1, QueryInvariant, PTL

(* Only an engine that gave up before it waited for any future leaves the   *)
(* pool open: every other handler is ordered after its opening, also       *)
(* against goroutines that outlive it (closeConn,                          *)
(* requestClickHouseConnection).                                           *)
THEOREM PoolsAreClosed == Spec => []PoolClosedAfterWait
  <1>1. QueryInv => PoolClosedAfterWait
    BY DEF QueryInv
  <1> QED
    BY <1>1, QueryInvariant, PTL
=============================================================================
