--------------------------- MODULE RemoteWriteProofs ---------------------------
(***************************************************************************)
(* Proofs about RemoteWrite for any set of processes, requests, tenants,   *)
(* series ids and batches and any number of retries and crashes.           *)
(***************************************************************************)
EXTENDS RemoteWrite, TLAPS

-----------------------------------------------------------------------------
(* Type correctness.                                                        *)

(* What a batch refers to are ids, and its keys are keys of its tenant.     *)
LEMMA BatchIds ==
    ASSUME NEW b \in BatchType, NEW t
    PROVE  /\ Series(b) \subseteq Ids
           /\ RowIds(b, t) \subseteq Series(b)
           /\ b.team \in Teams
           /\ b.valid \in BOOLEAN
           /\ b.metadata \in BOOLEAN
  BY DEF BatchType, Series, RowIds

LEMMA KeysOfType ==
    ASSUME NEW b \in BatchType, NEW ids \in SUBSET Ids
    PROVE  KeysOf(b, ids) \in SUBSET Keys
  BY DEF BatchType, KeysOf, Keys

LEMMA AddSeriesRowsType ==
    ASSUME seriesRows \in [Keys -> Nat], NEW keys, AddSeriesRows(keys)
    PROVE  seriesRows' \in [Keys -> Nat]
  BY DEF AddSeriesRows

LEMMA FailType ==
    ASSUME TypeOK, NEW r \in Requests, Fail(r)
    PROVE  /\ pc' \in [Requests -> Phases]
           /\ rows' \in [Requests -> SUBSET Ids]
           /\ reply' \in [Requests -> SUBSET Ids]
           /\ mu' \in [Procs -> Requests \cup {None}]
  BY DEF TypeOK, Fail, Unlock, Phases, Answers

LEMMA SeriesDoneType ==
    ASSUME TypeOK, NEW r \in Requests, SeriesDone(r)
    PROVE  /\ pc' \in [Requests -> Phases]
           /\ rows' \in [Requests -> SUBSET Ids]
           /\ reply' \in [Requests -> SUBSET Ids]
           /\ mu' \in [Procs -> Requests \cup {None}]
  BY DEF TypeOK, SeriesDone, Unlock, Phases, Tables

LEMMA StoreRowsType ==
    ASSUME TypeOK, NEW r \in Requests, NEW t \in Tables, StoreRows(r, t)
    PROVE  /\ stored' \in [Requests -> [Tables -> Nat]]
           /\ seriesRows' \in [Keys -> Nat]
  BY AddSeriesRowsType DEF TypeOK, StoreRows

(* TypeOK is inductive by itself.                                           *)
LEMMA TypeStep ==
    ASSUME TypeOK, [Next]_vars
    PROVE  TypeOK'
<1>1. ASSUME NEW r \in Requests, RejectBadData(r) PROVE TypeOK'
  BY <1>1 DEF TypeOK, RejectBadData, Phases, Answers
<1>2. ASSUME NEW r \in Requests, HandleRemoteWrite(r) PROVE TypeOK'
  <2>1. Series(batch[r]) \subseteq Ids
    BY BatchIds DEF TypeOK
  <2> QED
    BY <1>2, <2>1
    DEF TypeOK, HandleRemoteWrite, Phases, Answers, SeriesPhases, Tables
<1>3. ASSUME NEW r \in Requests, FilterCachedSeriesRows(r) PROVE TypeOK'
  <2>1. CASE SeriesDone(r)
    BY <1>3, <2>1, SeriesDoneType DEF TypeOK, FilterCachedSeriesRows
  <2>2. CASE ~SeriesDone(r)
    <3> DEFINE uncached ==
          {i \in rows[r] : <<batch[r].team, i>> \notin known[on[r]]}
    <3>1. uncached \in SUBSET Ids
      BY DEF TypeOK
    <3>2. /\ rows' = [rows EXCEPT ![r] = uncached]
          /\ pc' = [pc EXCEPT ![r] =
                      IF @ = "filter" THEN "lookup" ELSE "relookup"]
          /\ UNCHANGED <<reply, mu>>
      BY <1>3, <2>2 DEF FilterCachedSeriesRows
    <3> HIDE DEF uncached
    <3>3. pc' \in [Requests -> Phases]
      BY <3>2 DEF TypeOK, Phases, SeriesPhases, Critical
    <3> QED
      BY <1>3, <3>1, <3>2, <3>3 DEF TypeOK, FilterCachedSeriesRows
  <2> QED BY <2>1, <2>2
<1>4. ASSUME NEW r \in Requests, LookupSeries(r) PROVE TypeOK'
  <2>1. CASE Fail(r)
    BY <1>4, <2>1, FailType DEF TypeOK, LookupSeries
  <2>2. CASE ~Fail(r)
    <3>1. KnownIds(r) \in SUBSET Ids
      BY DEF TypeOK, KnownIds
    <3>2. pc' \in [Requests -> Phases]
      <4>1. pc' = [pc EXCEPT ![r] = IF @ = "lookup" THEN "merge" ELSE "remerge"]
        BY <1>4, <2>2 DEF LookupSeries
      <4> QED
        BY <4>1 DEF TypeOK, Phases, SeriesPhases, Critical
    <3>3. reply' \in [Requests -> SUBSET Ids] /\ UNCHANGED <<rows, mu>>
      BY <1>4, <2>2, <3>1 DEF TypeOK, LookupSeries
    <3>4. UNCHANGED <<layout, on, batch, known, seriesRows, late, stored,
                      attempts, crashes>>
      BY <1>4 DEF LookupSeries
    <3> QED
      BY <3>2, <3>3, <3>4 DEF TypeOK
  <2> QED BY <2>1, <2>2
<1>5. ASSUME NEW r \in Requests, MergeKnown(r) PROVE TypeOK'
  <2>1. KeysOf(batch[r], reply[r]) \in SUBSET Keys
    BY KeysOfType DEF TypeOK
  <2>2. known' \in [Procs -> SUBSET Keys]
    BY <1>5, <2>1 DEF TypeOK, MergeKnown, CacheIds
  <2>3. CASE SeriesDone(r)
    BY <1>5, <2>2, <2>3, SeriesDoneType DEF TypeOK, MergeKnown, CacheIds
  <2>4. CASE ~SeriesDone(r)
    <3>1. pc' \in [Requests -> Phases]
      <4>1. pc' = [pc EXCEPT ![r] = IF @ = "merge" THEN "lock" ELSE "encode"]
        BY <1>5, <2>4 DEF MergeKnown, CacheIds
      <4> QED
        BY <4>1 DEF TypeOK, Phases, SeriesPhases, Critical
    <3>2. /\ rows' = [rows EXCEPT ![r] = rows[r] \ reply[r]]
          /\ reply' = [reply EXCEPT ![r] = {}]
          /\ UNCHANGED <<layout, mu, on, batch, seriesRows, late, stored,
                         attempts, crashes>>
      BY <1>5, <2>4 DEF MergeKnown, CacheIds
    <3> QED
      BY <2>2, <3>1, <3>2 DEF TypeOK
  <2> QED BY <2>3, <2>4
<1>6. ASSUME NEW r \in Requests, LockSeries(r) PROVE TypeOK'
  BY <1>6 DEF TypeOK, LockSeries, Phases, Critical
<1>7. ASSUME NEW r \in Requests, EncodeLabels(r) PROVE TypeOK'
  <2>1. CASE Fail(r)
    BY <1>7, <2>1, FailType DEF TypeOK, EncodeLabels
  <2>2. CASE ~Fail(r)
    BY <1>7, <2>2 DEF TypeOK, EncodeLabels, Phases, Critical
  <2> QED BY <2>1, <2>2
<1>8. ASSUME NEW r \in Requests, InsertSeriesRows(r) PROVE TypeOK'
  <2>1. seriesRows' \in [Keys -> Nat]
    BY <1>8, AddSeriesRowsType DEF TypeOK, InsertSeriesRows
  <2>2. CASE Fail(r)
    BY <1>8, <2>1, <2>2, FailType DEF TypeOK, InsertSeriesRows
  <2>3. CASE ~Fail(r)
    BY <1>8, <2>1, <2>3 DEF TypeOK, InsertSeriesRows, Phases, Critical
  <2> QED BY <2>2, <2>3
<1>9. ASSUME NEW r \in Requests, CacheKnownSeriesRows(r) PROVE TypeOK'
  <2>1. KeysOf(batch[r], rows[r]) \in SUBSET Keys
    BY KeysOfType DEF TypeOK
  <2> QED
    BY <1>9, <2>1, SeriesDoneType DEF TypeOK, CacheKnownSeriesRows, CacheIds
<1>10. ASSUME NEW r \in Requests, InsertRows(r) PROVE TypeOK'
  <2>1. pc[r] \in Tables /\ AfterTable(pc[r]) \in Phases
    BY <1>10 DEF InsertRows, AfterTable, Tables, Phases, Answers
  <2>2. /\ stored' \in [Requests -> [Tables -> Nat]]
        /\ seriesRows' \in [Keys -> Nat]
    BY <1>10, <2>1, StoreRowsType DEF TypeOK, InsertRows
  <2>3. CASE Fail(r)
    BY <1>10, <2>2, <2>3, FailType DEF TypeOK, InsertRows
  <2>4. CASE ~Fail(r)
    BY <1>10, <2>1, <2>2, <2>4 DEF TypeOK, InsertRows
  <2> QED BY <2>3, <2>4
<1>11. ASSUME NEW r \in Requests, LoseAnswer(r) PROVE TypeOK'
  BY <1>11 DEF TypeOK, LoseAnswer, Phases, Answers
<1>12. ASSUME NEW r \in Requests, Resend(r) PROVE TypeOK'
  BY <1>12 DEF TypeOK, Resend, Phases
<1>13. ASSUME NEW r \in Requests, CommitLate(r) PROVE TypeOK'
  BY <1>13, AddSeriesRowsType DEF TypeOK, CommitLate
<1>14. ASSUME NEW p \in Procs, Crash(p) PROVE TypeOK'
  <2>1. pc' \in [Requests -> Phases]
    BY <1>14 DEF TypeOK, Crash, Phases, Answers
  <2>2. rows' \in [Requests -> SUBSET Ids] /\ reply' \in [Requests -> SUBSET Ids]
    BY <1>14 DEF TypeOK, Crash
  <2>3. late' \in [Requests -> SUBSET Ids]
    BY <1>14 DEF TypeOK, Crash
  <2>4. known' \in [Procs -> SUBSET Keys] /\ mu' \in [Procs -> Requests \cup {None}]
    BY <1>14 DEF TypeOK, Crash
  <2> QED
    BY <1>14, <2>1, <2>2, <2>3, <2>4 DEF TypeOK, Crash
<1>15. CASE UNCHANGED vars
  BY <1>15 DEF TypeOK, vars
<1> QED
  BY <1>1, <1>2, <1>3, <1>4, <1>5, <1>6, <1>7, <1>8, <1>9, <1>10, <1>11,
     <1>12, <1>13, <1>14, <1>15 DEF Next, Step

(* Every variable of every reachable state keeps its type.                  *)
THEOREM TypeCorrect == Spec => []TypeOK
<1>1. Init => TypeOK
  BY ConstantsAssumption DEF Init, TypeOK, Phases
<1>2. TypeOK /\ [Next]_vars => TypeOK'
  BY TypeStep
<1> QED
  BY <1>1, <1>2, PTL DEF Spec

-----------------------------------------------------------------------------
(* The safety invariant. What makes CacheSound and NoOrphanRows inductive   *)
(* is what a handler knows between its steps: a lookup's reply names only  *)
(* registered series, and the series it has dropped from its rows are in   *)
(* the cache of its process.                                               *)

ReplySound(r) == KeysOf(batch[r], reply[r]) \subseteq Registered

DroppedCached(r) ==
    pc[r] \in SeriesPhases \cup Critical =>
        KeysOf(batch[r], Series(batch[r]) \ rows[r]) \subseteq known[on[r]]

InsertedRegistered(r) ==
    pc[r] = "cache" => KeysOf(batch[r], rows[r]) \subseteq Registered

PastCached(r) ==
    pc[r] \in Tables /\ ~PostHog =>
        KeysOf(batch[r], Series(batch[r])) \subseteq known[on[r]]

Local(r) == /\ ReplySound(r)
            /\ DroppedCached(r)
            /\ InsertedRegistered(r)
            /\ PastCached(r)

(* The strengthening of CacheSound, NoOrphanRows and WrittenSeriesCached.   *)
SafetyInv == /\ TypeOK
             /\ CacheSound
             /\ NoOrphanRows
             /\ \A r \in Requests : Local(r)

(* One request's action: every disjunct of Next but a crash.                *)
Act(q) == Step(q) \/ LockSeries(q) \/ LoseAnswer(q) \/ Resend(q) \/ CommitLate(q)

LEMMA KeysOfSubset ==
    ASSUME NEW b, NEW ids, NEW S
    PROVE  KeysOf(b, ids) \subseteq S <=> \A i \in ids : <<b.team, i>> \in S
  BY DEF KeysOf

LEMMA AddSeriesRowsGrows ==
    ASSUME TypeOK, NEW keys \in SUBSET Keys, AddSeriesRows(keys)
    PROVE  Registered' = Registered \cup keys
  BY DEF TypeOK, AddSeriesRows, Registered

LEMMA UnchangedRegistered ==
    ASSUME UNCHANGED seriesRows
    PROVE  Registered' = Registered
  BY DEF Registered

(* A series that is registered stays registered.                            *)
LEMMA RegisteredGrows ==
    ASSUME TypeOK, [Next]_vars
    PROVE  Registered \subseteq Registered' /\ batch' = batch /\ layout' = layout
<1>1. ASSUME NEW q \in Requests, Act(q)
      PROVE  /\ batch' = batch /\ layout' = layout
             /\ \/ UNCHANGED seriesRows
                \/ \E ids \in SUBSET Ids : AddSeriesRows(KeysOf(batch[q], ids))
  <2>1. batch' = batch /\ layout' = layout
    BY <1>1 DEF Act, Step, RejectBadData, HandleRemoteWrite,
         FilterCachedSeriesRows, LookupSeries, MergeKnown, LockSeries,
         EncodeLabels, InsertSeriesRows, CacheKnownSeriesRows, InsertRows,
         LoseAnswer, Resend, CommitLate
  <2>2. CASE InsertSeriesRows(q)
    BY <2>1, <2>2 DEF InsertSeriesRows, TypeOK
  <2>3. CASE InsertRows(q)
    <3>1. RowIds(batch[q], pc[q]) \in SUBSET Ids
      BY BatchIds DEF TypeOK
    <3>2. \E ids \in SUBSET Ids : RowSeries(q, pc[q]) = KeysOf(batch[q], ids)
      BY <3>1 DEF RowSeries, KeysOf
    <3> QED BY <2>1, <2>3, <3>2 DEF InsertRows, StoreRows
  <2>4. CASE CommitLate(q)
    BY <2>1, <2>4 DEF CommitLate, TypeOK
  <2>5. CASE ~InsertSeriesRows(q) /\ ~InsertRows(q) /\ ~CommitLate(q)
    BY <1>1, <2>1, <2>5 DEF Act, Step, RejectBadData, HandleRemoteWrite,
         FilterCachedSeriesRows, LookupSeries, MergeKnown, LockSeries,
         EncodeLabels, CacheKnownSeriesRows, LoseAnswer, Resend
  <2> QED BY <2>2, <2>3, <2>4, <2>5
<1>2. ASSUME NEW q \in Requests, Act(q) PROVE Registered \subseteq Registered'
  <2>1. CASE UNCHANGED seriesRows
    BY <2>1, UnchangedRegistered
  <2>2. ASSUME NEW ids \in SUBSET Ids, AddSeriesRows(KeysOf(batch[q], ids))
        PROVE  Registered \subseteq Registered'
    <3>1. KeysOf(batch[q], ids) \in SUBSET Keys
      BY KeysOfType DEF TypeOK
    <3> QED BY <2>2, <3>1, AddSeriesRowsGrows
  <2> QED BY <1>1, <1>2, <2>1, <2>2
<1>3. ASSUME NEW p \in Procs, Crash(p)
      PROVE  batch' = batch /\ layout' = layout /\ Registered \subseteq Registered'
  BY <1>3, UnchangedRegistered DEF Crash
<1>4. CASE UNCHANGED vars
  BY <1>4, UnchangedRegistered DEF vars
<1> QED
  BY <1>1, <1>2, <1>3, <1>4 DEF Next, Act

(* One request's action leaves the other requests' state alone, and takes   *)
(* nothing out of a cache.                                                 *)
LEMMA OthersUntouched ==
    ASSUME TypeOK, NEW q \in Requests, Act(q)
    PROVE  /\ \A r \in Requests \ {q} :
                 /\ pc'[r] = pc[r]
                 /\ on'[r] = on[r]
                 /\ rows'[r] = rows[r]
                 /\ reply'[r] = reply[r]
                 /\ stored'[r] = stored[r]
                 /\ attempts'[r] = attempts[r]
           /\ \A p \in Procs : known[p] \subseteq known'[p]
<1> USE DEF TypeOK
<1>1. CASE RejectBadData(q) BY <1>1 DEF RejectBadData
<1>2. CASE HandleRemoteWrite(q) BY <1>2 DEF HandleRemoteWrite
<1>3. CASE FilterCachedSeriesRows(q)
  BY <1>3 DEF FilterCachedSeriesRows, SeriesDone
<1>4. CASE LookupSeries(q) BY <1>4 DEF LookupSeries, Fail
<1>5. CASE MergeKnown(q) BY <1>5 DEF MergeKnown, CacheIds, SeriesDone
<1>6. CASE LockSeries(q) BY <1>6 DEF LockSeries
<1>7. CASE EncodeLabels(q) BY <1>7 DEF EncodeLabels, Fail
<1>8. CASE InsertSeriesRows(q) BY <1>8 DEF InsertSeriesRows, Fail
<1>9. CASE CacheKnownSeriesRows(q)
  BY <1>9 DEF CacheKnownSeriesRows, CacheIds, SeriesDone
<1>10. CASE InsertRows(q) BY <1>10 DEF InsertRows, StoreRows, Fail
<1>11. CASE LoseAnswer(q) BY <1>11 DEF LoseAnswer
<1>12. CASE Resend(q) BY <1>12 DEF Resend
<1>13. CASE CommitLate(q) BY <1>13 DEF CommitLate
<1> QED
  BY <1>1, <1>2, <1>3, <1>4, <1>5, <1>6, <1>7, <1>8, <1>9, <1>10, <1>11,
     <1>12, <1>13 DEF Act, Step

(* What a handler knows survives the steps that do not touch its state.     *)
LEMMA LocalFrame ==
    ASSUME NEW r \in Requests, Local(r),
           pc'[r] = pc[r], on'[r] = on[r], rows'[r] = rows[r],
           reply'[r] = reply[r], batch' = batch, layout' = layout,
           known[on[r]] \subseteq known'[on[r]],
           Registered \subseteq Registered'
    PROVE  Local(r)'
  BY DEF Local, ReplySound, DroppedCached, InsertedRegistered, PastCached, PostHog

(* A request that is not in a handler has only its old reply to account for.*)
LEMMA LocalIdle ==
    ASSUME NEW r \in Requests, Local(r), batch' = batch,
           reply'[r] = reply[r] \/ reply'[r] = {},
           Registered \subseteq Registered',
           pc'[r] \in {"new"} \cup Answers
    PROVE  Local(r)'
  BY DEF Local, ReplySound, DroppedCached, InsertedRegistered, PastCached,
         KeysOf, SeriesPhases, Critical, Tables, Answers

(* The series phase ends with every series of the batch in the cache.       *)
LEMMA LocalSeriesDone ==
    ASSUME TypeOK, NEW r \in Requests, SeriesDone(r), UNCHANGED <<on, batch>>,
           KeysOf(batch[r], Series(batch[r])) \subseteq known'[on[r]]
    PROVE  Local(r)'
<1>1. pc'[r] = "metadata" /\ reply'[r] = {}
  BY DEF SeriesDone, TypeOK
<1> QED
  BY <1>1 DEF Local, ReplySound, DroppedCached, InsertedRegistered, PastCached,
         KeysOf, SeriesPhases, Critical

(* Its own step leaves a request knowing what SafetyInv says it knows.      *)
LEMMA LocalStep ==
    ASSUME SafetyInv, NEW r \in Requests, Act(r),
           batch' = batch, layout' = layout, Registered \subseteq Registered'
    PROVE  Local(r)'
<1> DEFINE b == batch[r]
           Key(i) == <<batch[r].team, i>>
<1>0. TypeOK /\ CacheSound /\ Local(r)
  BY DEF SafetyInv
<1>known. \A p \in Procs : known[p] \subseteq known'[p]
  BY <1>0, OthersUntouched
<1>dropped. pc[r] \in SeriesPhases \cup Critical =>
              \A i \in Series(b) \ rows[r] : Key(i) \in known[on[r]]
  BY <1>0, KeysOfSubset DEF Local, DroppedCached
<1>on. on[r] \in Procs
  BY <1>0 DEF TypeOK
<1>1. CASE RejectBadData(r)
  BY <1>0, <1>1, LocalIdle DEF RejectBadData, TypeOK, Answers
<1>2. CASE HandleRemoteWrite(r)
  <2>1. reply'[r] = reply[r]
    BY <1>2 DEF HandleRemoteWrite
  <2>2. CASE pc'[r] = "ok"
    BY <1>0, <2>1, <2>2, LocalIdle DEF Answers
  <2>3. CASE pc'[r] = "metadata"
    <3>1. PostHog \/ Series(b) = {}
      BY <1>0, <1>2, <2>3 DEF HandleRemoteWrite, TypeOK
    <3> QED
      BY <1>0, <2>1, <2>3, <3>1 DEF Local, ReplySound, DroppedCached,
         InsertedRegistered, PastCached, PostHog, KeysOf, SeriesPhases, Critical
  <2>4. CASE pc'[r] = "filter"
    <3>1. rows'[r] = Series(b)
      BY <1>0, <1>2, <2>4 DEF HandleRemoteWrite, TypeOK
    <3> QED
      BY <1>0, <2>1, <2>4, <3>1 DEF Local, ReplySound, DroppedCached,
         InsertedRegistered, PastCached, KeysOf, Tables
  <2> QED
    BY <1>0, <1>2, <2>2, <2>3, <2>4 DEF HandleRemoteWrite, TypeOK
<1>3. CASE FilterCachedSeriesRows(r)
  <2> DEFINE uncached == {i \in rows[r] : Key(i) \notin known[on[r]]}
  <2>1. pc[r] \in SeriesPhases \cup Critical /\ UNCHANGED <<on, known>>
    BY <1>3 DEF FilterCachedSeriesRows, SeriesPhases, Critical
  <2>2. \A i \in Series(b) \ uncached : Key(i) \in known'[on[r]]
    BY <1>dropped, <2>1
  <2>3. CASE uncached = {}
    <3>1. KeysOf(b, Series(b)) \subseteq known'[on[r]]
      BY <2>2, <2>3, KeysOfSubset
    <3> QED
      BY <1>0, <1>3, <2>1, <2>3, <3>1, LocalSeriesDone
      DEF FilterCachedSeriesRows
  <2>4. CASE uncached # {}
    <3>1. /\ rows'[r] = uncached
          /\ pc'[r] \in {"lookup", "relookup"}
          /\ reply'[r] = reply[r]
      BY <1>0, <1>3, <2>4 DEF FilterCachedSeriesRows, TypeOK
    <3>2. KeysOf(b, Series(b) \ rows'[r]) \subseteq known'[on'[r]]
      BY <2>1, <2>2, <3>1, KeysOfSubset
    <3> QED
      BY <1>0, <3>1, <3>2 DEF Local, ReplySound, DroppedCached,
         InsertedRegistered, PastCached, Tables
  <2> QED BY <2>3, <2>4
<1>4. CASE LookupSeries(r)
  <2>1. CASE Fail(r)
    BY <1>0, <2>1, LocalIdle DEF Fail, TypeOK, Answers
  <2>2. CASE ~Fail(r)
    <3>1. /\ reply'[r] = KnownIds(r)
          /\ pc'[r] \in {"merge", "remerge"}
          /\ rows'[r] = rows[r]
          /\ on' = on
          /\ pc[r] \in {"lookup", "relookup"}
      BY <1>0, <1>4, <2>2 DEF LookupSeries, TypeOK
    <3>2. KeysOf(b, reply'[r]) \subseteq Registered'
      BY <3>1 DEF KnownIds, KeysOf
    <3>3. KeysOf(b, Series(b) \ rows'[r]) \subseteq known'[on'[r]]
      BY <1>known, <1>on, <1>dropped, <3>1, KeysOfSubset
      DEF SeriesPhases, Critical
    <3> QED
      BY <3>1, <3>2, <3>3 DEF Local, ReplySound, DroppedCached,
         InsertedRegistered, PastCached, Tables
  <2> QED BY <2>1, <2>2
<1>5. CASE MergeKnown(r)
  <2>1. /\ pc[r] \in SeriesPhases \cup Critical
        /\ on' = on
        /\ known'[on[r]] = known[on[r]] \cup KeysOf(b, reply[r])
    BY <1>0, <1>5, <1>on DEF MergeKnown, CacheIds, TypeOK, SeriesPhases, Critical
  <2>2. \A i \in Series(b) \ (rows[r] \ reply[r]) : Key(i) \in known'[on[r]]
    BY <1>dropped, <2>1 DEF KeysOf
  <2>3. CASE rows[r] \ reply[r] = {}
    <3>1. KeysOf(b, Series(b)) \subseteq known'[on[r]]
      BY <2>2, <2>3, KeysOfSubset
    <3> QED
      BY <1>0, <1>5, <2>1, <2>3, <3>1, LocalSeriesDone DEF MergeKnown
  <2>4. CASE rows[r] \ reply[r] # {}
    <3>1. /\ rows'[r] = rows[r] \ reply[r]
          /\ pc'[r] \in {"lock", "encode"}
          /\ reply'[r] = {}
      BY <1>0, <1>5, <2>4 DEF MergeKnown, CacheIds, TypeOK
    <3>2. KeysOf(b, Series(b) \ rows'[r]) \subseteq known'[on'[r]]
      BY <2>1, <2>2, <3>1, KeysOfSubset
    <3> QED
      BY <3>1, <3>2 DEF Local, ReplySound, DroppedCached,
         InsertedRegistered, PastCached, Tables, KeysOf
  <2> QED BY <2>3, <2>4
<1>6. CASE LockSeries(r)
  <2>1. /\ pc[r] = "lock" /\ pc'[r] = "refilter"
        /\ UNCHANGED <<on, rows, reply, known>>
    BY <1>0, <1>6 DEF LockSeries, TypeOK
  <2> QED
    BY <1>0, <2>1 DEF Local, ReplySound, DroppedCached, InsertedRegistered,
       PastCached, SeriesPhases, Critical, Tables
<1>7. CASE EncodeLabels(r)
  <2>1. CASE Fail(r)
    BY <1>0, <2>1, LocalIdle DEF Fail, TypeOK, Answers
  <2>2. CASE ~Fail(r)
    <3>1. /\ pc[r] = "encode" /\ pc'[r] = "insert"
          /\ UNCHANGED <<on, rows, reply, known>>
      BY <1>0, <1>7, <2>2 DEF EncodeLabels, TypeOK
    <3> QED
      BY <1>0, <3>1 DEF Local, ReplySound, DroppedCached, InsertedRegistered,
         PastCached, SeriesPhases, Critical, Tables
  <2> QED BY <2>1, <2>2
<1>8. CASE InsertSeriesRows(r)
  <2>1. CASE Fail(r)
    BY <1>0, <2>1, LocalIdle DEF Fail, TypeOK, Answers
  <2>2. CASE ~Fail(r)
    <3>1. /\ pc[r] = "insert" /\ pc'[r] = "cache"
          /\ UNCHANGED <<on, rows, reply, known>>
          /\ AddSeriesRows(KeysOf(b, rows[r]))
      BY <1>0, <1>8, <2>2 DEF InsertSeriesRows, TypeOK
    <3>2. KeysOf(b, rows[r]) \in SUBSET Keys
      BY <1>0, KeysOfType DEF TypeOK
    <3>3. KeysOf(b, rows'[r]) \subseteq Registered'
      BY <1>0, <3>1, <3>2, AddSeriesRowsGrows
    <3> QED
      BY <1>0, <3>1, <3>3 DEF Local, ReplySound, DroppedCached,
         InsertedRegistered, PastCached, SeriesPhases, Critical, Tables
  <2> QED BY <2>1, <2>2
<1>9. CASE CacheKnownSeriesRows(r)
  <2>1. /\ pc[r] \in Critical
        /\ UNCHANGED <<on, batch>>
        /\ known'[on[r]] = known[on[r]] \cup KeysOf(b, rows[r])
    BY <1>0, <1>9, <1>on DEF CacheKnownSeriesRows, CacheIds, TypeOK, Critical
  <2>2. \A i \in Series(b) : Key(i) \in known'[on[r]]
    BY <1>dropped, <2>1 DEF KeysOf
  <2>3. KeysOf(b, Series(b)) \subseteq known'[on[r]]
    BY <2>2, KeysOfSubset
  <2> QED
    BY <1>0, <1>9, <2>1, <2>3, LocalSeriesDone DEF CacheKnownSeriesRows
<1>10. CASE InsertRows(r)
  <2>1. CASE Fail(r)
    BY <1>0, <2>1, LocalIdle DEF Fail, TypeOK, Answers
  <2>2. CASE ~Fail(r)
    <3>1. /\ pc[r] \in Tables /\ pc'[r] = AfterTable(pc[r])
          /\ UNCHANGED <<on, rows, reply, known>>
      BY <1>0, <1>10, <2>2 DEF InsertRows, TypeOK
    <3>2. pc'[r] \in Tables \cup {"ok"}
      BY <3>1 DEF AfterTable, Tables
    <3> QED
      BY <1>0, <3>1, <3>2 DEF Local, ReplySound, DroppedCached, PostHog,
         InsertedRegistered, PastCached, SeriesPhases, Critical, Tables
  <2> QED BY <2>1, <2>2
<1>11. CASE LoseAnswer(r)
  BY <1>0, <1>11, LocalIdle DEF LoseAnswer, TypeOK, Answers
<1>12. CASE Resend(r)
  BY <1>0, <1>12, LocalIdle DEF Resend, TypeOK
<1>13. CASE CommitLate(r)
  BY <1>0, <1>13, LocalFrame DEF CommitLate
<1> QED
  BY <1>1, <1>2, <1>3, <1>4, <1>5, <1>6, <1>7, <1>8, <1>9, <1>10, <1>11,
     <1>12, <1>13 DEF Act, Step

(* Rows are stored only when their series are, or become, registered.       *)
LEMMA StoredRegistered ==
    ASSUME SafetyInv, NEW r \in Requests, InsertRows(r), NEW t \in Tables,
           stored'[r][t] # stored[r][t]
    PROVE  RowSeries(r, t) \subseteq Registered'
<1>0. TypeOK /\ CacheSound /\ PastCached(r)
  BY DEF SafetyInv, Local
<1>1. t = pc[r] /\ StoreRows(r, t)
  BY <1>0 DEF InsertRows, StoreRows, TypeOK
<1>2. RowSeries(r, t) \in SUBSET Keys
  BY <1>0, BatchIds, KeysOfType DEF TypeOK, RowSeries
<1>3. CASE PostHog
  BY <1>0, <1>1, <1>2, <1>3, AddSeriesRowsGrows DEF StoreRows
<1>4. CASE ~PostHog
  <2>1. KeysOf(batch[r], Series(batch[r])) \subseteq known[on[r]]
    BY <1>0, <1>1, <1>4 DEF PastCached
  <2>2. RowSeries(r, t) \subseteq Registered
    BY <1>0, <1>4, <2>1, BatchIds DEF CacheSound, RowSeries, KeysOf, TypeOK
  <2> QED
    BY <1>1, <1>4, <2>2, UnchangedRegistered DEF StoreRows
<1> QED BY <1>3, <1>4, ConstantsAssumption

(* SafetyInv is inductive.                                                  *)
LEMMA SafetyStep ==
    ASSUME SafetyInv, [Next]_vars
    PROVE  SafetyInv'
<1>0. TypeOK /\ CacheSound /\ NoOrphanRows /\ \A r \in Requests : Local(r)
  BY DEF SafetyInv
<1>1. /\ TypeOK' /\ Registered \subseteq Registered'
      /\ batch' = batch /\ layout' = layout /\ \A r, t : RowSeries(r, t)' = RowSeries(r, t)
  BY <1>0, TypeStep, RegisteredGrows DEF RowSeries, PostHog
<1>2. ASSUME NEW q \in Requests, Act(q) PROVE SafetyInv'
  <2>1. \A r \in Requests : Local(r)'
    <3> SUFFICES ASSUME NEW r \in Requests PROVE Local(r)'
      OBVIOUS
    <3>1. CASE r = q
      BY <1>1, <1>2, <3>1, LocalStep
    <3>2. CASE r # q
      BY <1>0, <1>1, <1>2, <3>2, OthersUntouched, LocalFrame DEF TypeOK
    <3> QED BY <3>1, <3>2
  <2>2. CacheSound'
    <3>1. CASE MergeKnown(q)
      <4>1. known' = [known EXCEPT ![on[q]] = @ \cup KeysOf(batch[q], reply[q])]
        BY <3>1 DEF MergeKnown, CacheIds
      <4>2. KeysOf(batch[q], reply[q]) \subseteq Registered
        BY <1>0 DEF Local, ReplySound
      <4> QED
        BY <1>0, <1>1, <4>1, <4>2 DEF CacheSound, TypeOK
    <3>2. CASE CacheKnownSeriesRows(q)
      <4>1. known' = [known EXCEPT ![on[q]] = @ \cup KeysOf(batch[q], rows[q])]
        BY <3>2 DEF CacheKnownSeriesRows, CacheIds
      <4>2. KeysOf(batch[q], rows[q]) \subseteq Registered
        BY <1>0, <3>2 DEF Local, InsertedRegistered, CacheKnownSeriesRows
      <4> QED
        BY <1>0, <1>1, <4>1, <4>2 DEF CacheSound, TypeOK
    <3>3. CASE ~MergeKnown(q) /\ ~CacheKnownSeriesRows(q)
      <4>1. known' = known
        BY <1>2, <3>3 DEF Act, Step, RejectBadData, HandleRemoteWrite,
           FilterCachedSeriesRows, LookupSeries, LockSeries, EncodeLabels,
           InsertSeriesRows, InsertRows, LoseAnswer, Resend, CommitLate
      <4> QED BY <1>0, <1>1, <4>1 DEF CacheSound
    <3> QED BY <3>1, <3>2, <3>3
  <2>3. NoOrphanRows'
    <3> SUFFICES ASSUME NEW r \in Requests, NEW t \in Tables, stored'[r][t] > 0
                 PROVE  RowSeries(r, t) \subseteq Registered'
      BY <1>1 DEF NoOrphanRows
    <3>1. CASE stored'[r][t] = stored[r][t]
      BY <1>0, <1>1, <3>1 DEF NoOrphanRows
    <3>2. CASE stored'[r][t] # stored[r][t]
      <4>1. r = q
        BY <1>0, <1>2, <3>2, OthersUntouched
      <4>2. InsertRows(q)
        BY <1>2, <3>2, <4>1 DEF Act, Step, RejectBadData, HandleRemoteWrite,
           FilterCachedSeriesRows, LookupSeries, MergeKnown, LockSeries,
           EncodeLabels, InsertSeriesRows, CacheKnownSeriesRows, LoseAnswer,
           Resend, CommitLate
      <4> QED BY <3>2, <4>1, <4>2, StoredRegistered
    <3> QED BY <3>1, <3>2
  <2> QED BY <1>1, <2>1, <2>2, <2>3 DEF SafetyInv
<1>3. ASSUME NEW p \in Procs, Crash(p) PROVE SafetyInv'
  <2>1. CacheSound'
    BY <1>0, <1>1, <1>3 DEF CacheSound, Crash, TypeOK
  <2>2. NoOrphanRows'
    BY <1>0, <1>1, <1>3 DEF NoOrphanRows, Crash
  <2>3. ASSUME NEW r \in Requests PROVE Local(r)'
    <3>1. on' = on /\ \A x \in Procs \ {p} : known'[x] = known[x]
      BY <1>0, <1>3 DEF Crash, TypeOK
    <3>2. CASE on[r] = p /\ pc[r] \in InFlight
      <4>1. pc'[r] = "failed" /\ reply'[r] = {}
        BY <1>3, <3>2 DEF Crash
      <4> QED BY <1>0, <1>1, <4>1, LocalIdle DEF Answers
    <3>3. CASE on[r] # p
      <4>1. pc'[r] = pc[r] /\ rows'[r] = rows[r] /\ reply'[r] = reply[r]
        BY <1>3, <3>3 DEF Crash
      <4>2. known[on[r]] \subseteq known'[on[r]]
        BY <1>0, <3>1, <3>3 DEF TypeOK
      <4> QED BY <1>0, <1>1, <3>1, <4>1, <4>2, LocalFrame
    <3>4. CASE pc[r] \notin InFlight
      <4>1. pc'[r] = pc[r] /\ reply'[r] = reply[r]
        BY <1>3, <3>4 DEF Crash
      <4>2. pc'[r] \in {"new"} \cup Answers
        BY <1>0, <3>4, <4>1 DEF TypeOK, Phases, InFlight
      <4> QED BY <1>0, <1>1, <4>1, <4>2, LocalIdle
    <3> QED BY <3>2, <3>3, <3>4
  <2> QED BY <1>1, <2>1, <2>2, <2>3 DEF SafetyInv
<1>4. CASE UNCHANGED vars
  <2>1. Registered' = Registered
    BY <1>4, UnchangedRegistered DEF vars
  <2>2. ASSUME NEW r \in Requests PROVE Local(r)'
    BY <1>0, <1>1, <1>4, LocalFrame DEF vars
  <2>3. CacheSound' /\ NoOrphanRows'
    BY <1>0, <1>1, <1>4, <2>1 DEF CacheSound, NoOrphanRows, vars
  <2> QED BY <1>1, <2>2, <2>3 DEF SafetyInv
<1> QED
  BY <1>2, <1>3, <1>4 DEF Next, Act

LEMMA SafetyInit == Init => SafetyInv
<1> SUFFICES ASSUME Init PROVE SafetyInv
  OBVIOUS
<1>1. TypeOK
  BY ConstantsAssumption DEF Init, TypeOK, Phases
<1>2. CacheSound /\ NoOrphanRows
  BY DEF Init, CacheSound, NoOrphanRows
<1>3. ASSUME NEW r \in Requests PROVE Local(r)
  BY DEF Init, Local, ReplySound, DroppedCached, InsertedRegistered,
     PastCached, KeysOf, SeriesPhases, Critical, Tables
<1> QED BY <1>1, <1>2, <1>3 DEF SafetyInv

(* The inductive invariant behind the three theorems that follow.           *)
THEOREM SafetyInvariant == Spec => []SafetyInv
<1>1. SafetyInv /\ [Next]_vars => SafetyInv'
  BY SafetyStep
<1> QED
  BY SafetyInit, <1>1, PTL DEF Spec

(* The series cache of every process names only series that ClickHouse      *)
(* holds for that tenant, for any number of processes, crashes, retries and *)
(* late inserts (filterNewSeriesRows, cacheKnownSeriesRows).               *)
THEOREM CacheIsSound == Spec => []CacheSound
<1>1. SafetyInv => CacheSound
  BY DEF SafetyInv
<1> QED BY SafetyInvariant, <1>1, PTL

(* No sample, histogram or exemplar is ever stored before its series row,   *)
(* whatever fails (insertRemoteWriteBatch); in the PostHog layout, no       *)
(* sample is.                                                               *)
THEOREM NoOrphans == Spec => []NoOrphanRows
<1>1. SafetyInv => NoOrphanRows
  BY DEF SafetyInv
<1> QED BY SafetyInvariant, <1>1, PTL

(* A request past its series phase has every one of its series cached.      *)
THEOREM WrittenCached == Spec => []WrittenSeriesCached
<1>1. SafetyInv => WrittenSeriesCached
  BY DEF SafetyInv, Local, PastCached, WrittenSeriesCached
<1> QED BY SafetyInvariant, <1>1, PTL

-----------------------------------------------------------------------------
(* Acknowledged batches. Within an attempt the tables are filled in order,  *)
(* so the current phase tells which tables this attempt has filled.        *)

Passed(phase) == CASE phase = "samples" -> {"metadata"}
                   [] phase = "histograms" -> {"metadata", "samples"}
                   [] phase = "exemplars" -> {"metadata", "samples", "histograms"}
                   [] phase = "ok" -> Tables
                   [] OTHER -> {}

Copies(r) ==
    \A t \in Tables :
        /\ stored[r][t] <= attempts[r]
        /\ pc[r] \in {"new"} \cup InFlight /\ t \notin Passed(pc[r])
              => stored[r][t] < attempts[r]
        /\ t \in Passed(pc[r]) /\ t \in Configured /\ HasRows(batch[r], t)
              => stored[r][t] > 0

CopiesInv == TypeOK /\ \A r \in Requests : Copies(r)

(* A step that neither stores nor resends, and passes no table.             *)
LEMMA CopiesFrame ==
    ASSUME NEW r \in Requests, Copies(r), batch' = batch,
           stored'[r] = stored[r], attempts'[r] = attempts[r],
           \/ pc'[r] = pc[r]
           \/ pc'[r] \in {"failed", "rejected"}
           \/ /\ pc[r] \in {"new"} \cup SeriesPhases \cup Critical
              /\ pc'[r] \in SeriesPhases \cup Critical \cup {"metadata"}
    PROVE  Copies(r)'
  BY DEF Copies, Passed, InFlight, SeriesPhases, Critical, Tables

LEMMA CopiesInsert ==
    ASSUME CopiesInv, NEW r \in Requests, InsertRows(r)
    PROVE  Copies(r)'
<1>0. TypeOK /\ Copies(r) /\ pc[r] \in Tables /\ batch' = batch
      /\ attempts' = attempts
  BY DEF CopiesInv, InsertRows
<1>1. \A t \in Tables : stored[r][t] \in Nat /\ attempts[r] \in Nat
  BY <1>0 DEF TypeOK
<1>2. CASE UNCHANGED stored /\ Fail(r)
  <2>1. pc'[r] = "failed"
    BY <1>0, <1>2 DEF Fail, TypeOK
  <2> QED BY <1>0, <1>2, <2>1, CopiesFrame
<1>3. CASE StoreRows(r, pc[r]) /\ Fail(r)
  <2>1. pc'[r] = "failed" /\ \A t \in Tables : stored'[r][t] =
             IF t = pc[r] THEN stored[r][t] + 1 ELSE stored[r][t]
    BY <1>0, <1>3 DEF Fail, StoreRows, TypeOK
  <2>2. pc[r] \notin Passed(pc[r])
    BY <1>0 DEF Passed, Tables
  <2> QED
    BY <1>0, <1>1, <2>1, <2>2 DEF Copies, Passed, InFlight, SeriesPhases,
       Critical, Tables
<1>4. CASE ~Fail(r)
  <2>1. pc'[r] = AfterTable(pc[r])
    BY <1>0, <1>4 DEF InsertRows, TypeOK
  <2>2. Passed(AfterTable(pc[r])) = Passed(pc[r]) \cup {pc[r]}
    BY <1>0 DEF Passed, AfterTable, Tables
  <2>3. pc[r] \notin Passed(pc[r])
    BY <1>0 DEF Passed, Tables
  <2>4. CASE HasRows(batch[r], pc[r]) /\ pc[r] \in Configured
    <3>1. \A t \in Tables : stored'[r][t] =
             IF t = pc[r] THEN stored[r][t] + 1 ELSE stored[r][t]
      BY <1>0, <1>4, <2>4 DEF InsertRows, StoreRows, TypeOK
    <3> QED
      BY <1>0, <1>1, <2>1, <2>2, <2>3, <3>1 DEF Copies, InFlight
  <2>5. CASE ~(HasRows(batch[r], pc[r]) /\ pc[r] \in Configured)
    <3>1. stored' = stored
      BY <2>5 DEF InsertRows
    <3> QED
      BY <1>0, <1>1, <2>1, <2>2, <2>3, <2>5, <3>1 DEF Copies, InFlight
  <2> QED BY <2>4, <2>5
<1> QED
  BY <1>2, <1>3, <1>4 DEF InsertRows

LEMMA CopiesStep ==
    ASSUME CopiesInv, [Next]_vars
    PROVE  CopiesInv'
<1>0. TypeOK /\ \A r \in Requests : Copies(r)
  BY DEF CopiesInv
<1>1. TypeOK' /\ batch' = batch
  BY <1>0, TypeStep, RegisteredGrows
<1>2. ASSUME NEW q \in Requests, Act(q), NEW r \in Requests PROVE Copies(r)'
  <2>1. CASE r # q
    BY <1>0, <1>1, <1>2, <2>1, OthersUntouched, CopiesFrame
  <2>2. CASE r = q
    <3>1. CASE InsertRows(r)
      BY <3>1, CopiesInsert
    <3>2. CASE Resend(r)
      <4>1. /\ pc'[r] = "new" /\ stored' = stored
            /\ attempts'[r] = attempts[r] + 1
        BY <1>0, <3>2 DEF Resend, TypeOK
      <4>2. \A t \in Tables : stored[r][t] \in Nat /\ attempts[r] \in Nat
        BY <1>0 DEF TypeOK
      <4> QED
        BY <1>0, <1>1, <4>1, <4>2 DEF Copies, Passed
    <3>3. CASE HandleRemoteWrite(r)
      <4>1. pc[r] = "new" /\ stored' = stored /\ attempts' = attempts
        BY <3>3 DEF HandleRemoteWrite
      <4>2. CASE pc'[r] = "ok"
        <5>1. \A t \in Tables : ~HasRows(batch[r], t)
          BY <1>0, <3>3, <4>2
          DEF HandleRemoteWrite, HasRows, RowIds, Series, Tables, TypeOK
        <5> QED
          BY <1>0, <1>1, <4>1, <4>2, <5>1
          DEF Copies, InFlight, SeriesPhases, Critical, Tables
      <4>3. CASE pc'[r] # "ok"
        <5>1. pc'[r] \in SeriesPhases \cup {"metadata"}
          BY <1>0, <3>3, <4>3 DEF HandleRemoteWrite, TypeOK, SeriesPhases
        <5> QED
          BY <1>0, <1>1, <4>1, <5>1, CopiesFrame
      <4> QED BY <4>2, <4>3
    <3>4. CASE RejectBadData(r) \/ LoseAnswer(r)
      <4>1. /\ pc'[r] \in {"failed", "rejected"}
            /\ stored' = stored /\ attempts' = attempts
        BY <1>0, <3>4 DEF RejectBadData, LoseAnswer, TypeOK
      <4> QED BY <1>0, <1>1, <4>1, CopiesFrame
    <3>5. CASE CommitLate(r)
      BY <1>0, <1>1, <3>5, CopiesFrame DEF CommitLate
    <3>6. CASE \/ FilterCachedSeriesRows(r) \/ LookupSeries(r) \/ MergeKnown(r)
               \/ LockSeries(r) \/ EncodeLabels(r) \/ InsertSeriesRows(r)
               \/ CacheKnownSeriesRows(r)
      <4>1. stored' = stored /\ attempts' = attempts
        BY <3>6 DEF FilterCachedSeriesRows, LookupSeries, MergeKnown,
           LockSeries, EncodeLabels, InsertSeriesRows, CacheKnownSeriesRows
      <4>2. pc[r] \in SeriesPhases \cup Critical
        BY <3>6 DEF FilterCachedSeriesRows, LookupSeries, MergeKnown,
           LockSeries, EncodeLabels, InsertSeriesRows, CacheKnownSeriesRows,
           SeriesPhases, Critical
      <4>3. pc'[r] \in SeriesPhases \cup Critical \cup {"metadata", "failed"}
        BY <1>0, <3>6 DEF FilterCachedSeriesRows, LookupSeries, MergeKnown,
           LockSeries, EncodeLabels, InsertSeriesRows, CacheKnownSeriesRows,
           SeriesDone, Fail, SeriesPhases, Critical, TypeOK
      <4> QED BY <1>0, <1>1, <4>1, <4>2, <4>3, CopiesFrame
    <3> QED
      BY <1>2, <2>2, <3>1, <3>2, <3>3, <3>4, <3>5, <3>6 DEF Act, Step
  <2> QED BY <2>1, <2>2
<1>3. ASSUME NEW p \in Procs, Crash(p), NEW r \in Requests PROVE Copies(r)'
  <2>1. /\ stored' = stored /\ attempts' = attempts
        /\ pc'[r] = pc[r] \/ pc'[r] = "failed"
    BY <1>3 DEF Crash
  <2> QED BY <1>0, <1>1, <2>1, CopiesFrame
<1>4. ASSUME UNCHANGED vars, NEW r \in Requests PROVE Copies(r)'
  BY <1>0, <1>1, <1>4, CopiesFrame DEF vars
<1> QED
  BY <1>1, <1>2, <1>3, <1>4 DEF Next, Act, CopiesInv

(* The inductive invariant that counts the copies of a batch per table.     *)
THEOREM CopiesInvariant == Spec => []CopiesInv
<1>1. Init => CopiesInv
  <2> SUFFICES ASSUME Init PROVE CopiesInv
    OBVIOUS
  <2>1. TypeOK
    BY ConstantsAssumption DEF Init, TypeOK, Phases
  <2>2. ASSUME NEW r \in Requests PROVE Copies(r)
    BY DEF Init, Copies, Passed
  <2> QED BY <2>1, <2>2 DEF CopiesInv
<1>2. CopiesInv /\ [Next]_vars => CopiesInv'
  BY CopiesStep
<1> QED BY <1>1, <1>2, PTL DEF Spec

(* An acknowledged batch is stored completely, between once and once per    *)
(* attempt, with its series registered (handleRemoteWrite's 204).          *)
THEOREM AckedIsDurable == Spec => []AckedDurable
<1>1. SafetyInv /\ CopiesInv => AckedDurable
  <2> SUFFICES ASSUME SafetyInv, CopiesInv, NEW r \in Requests, pc[r] = "ok",
                      NEW t \in Configured, HasRows(batch[r], t)
               PROVE  /\ stored[r][t] \in 1..attempts[r]
                      /\ RowSeries(r, t) \subseteq Registered
    BY DEF AckedDurable
  <2>1. t \in Tables /\ t \in Passed(pc[r])
    BY ConstantsAssumption DEF Passed
  <2>2. stored[r][t] > 0 /\ stored[r][t] <= attempts[r]
    BY <2>1 DEF CopiesInv, Copies
  <2>3. stored[r][t] \in Nat /\ attempts[r] \in Nat
    BY <2>1 DEF CopiesInv, TypeOK
  <2>4. RowSeries(r, t) \subseteq Registered
    BY <2>1, <2>2 DEF SafetyInv, NoOrphanRows
  <2> QED BY <2>2, <2>3, <2>4
<1> QED BY SafetyInvariant, CopiesInvariant, <1>1, PTL

-----------------------------------------------------------------------------
(* One row per series. The recheck under seriesMu is what makes it true:    *)
(* whoever is between its second lookup and its insert holds the mutex, so  *)
(* with one process nobody else can have inserted since the lookup.        *)

Holds(r) == pc[r] \in Critical => mu[on[r]] = r

MutexInv == TypeOK /\ \A r \in Requests : Holds(r)

LEMMA MutexStep ==
    ASSUME MutexInv, [Next]_vars
    PROVE  MutexInv'
<1>0. TypeOK /\ \A r \in Requests : Holds(r)
  BY DEF MutexInv
<1>1. TypeOK'
  BY <1>0, TypeStep
<1>2. ASSUME NEW q \in Requests, Act(q), NEW r \in Requests, r # q
      PROVE  Holds(r)'
  <2>1. pc'[r] = pc[r] /\ on'[r] = on[r]
    BY <1>0, <1>2, OthersUntouched
  <2>2. SUFFICES ASSUME pc[r] \in Critical PROVE mu'[on[r]] = r
    BY <2>1 DEF Holds
  <2>3. mu[on[r]] = r /\ on[r] \in Procs
    BY <1>0, <2>2 DEF Holds, TypeOK
  <2>4. CASE mu' = mu
    BY <2>3, <2>4
  <2>5. CASE Unlock(q)
    BY <1>0, <1>2, <2>3, <2>5 DEF Unlock, TypeOK
  <2>6. CASE LockSeries(q)
    BY <1>0, <1>2, <2>3, <2>6, ConstantsAssumption DEF LockSeries, TypeOK
  <2>7. mu' = mu \/ Unlock(q) \/ LockSeries(q)
    BY <1>2 DEF Act, Step, RejectBadData, HandleRemoteWrite,
       FilterCachedSeriesRows, LookupSeries, MergeKnown, EncodeLabels,
       InsertSeriesRows, CacheKnownSeriesRows, InsertRows, LoseAnswer,
       Resend, CommitLate, Fail, SeriesDone
  <2> QED BY <2>4, <2>5, <2>6, <2>7
<1>3. ASSUME NEW q \in Requests, Act(q) PROVE Holds(q)'
  <2> SUFFICES ASSUME pc'[q] \in Critical PROVE mu'[on'[q]] = q
    BY DEF Holds
  <2>1. CASE LockSeries(q)
    BY <1>0, <2>1 DEF LockSeries, TypeOK
  <2>2. CASE ~LockSeries(q)
    <3>1. pc[q] \in Critical /\ mu' = mu /\ on' = on
      <4>1. ~RejectBadData(q) /\ ~LoseAnswer(q) /\ ~Resend(q)
            /\ ~HandleRemoteWrite(q)
        BY <1>0 DEF RejectBadData, LoseAnswer, Resend, HandleRemoteWrite,
           TypeOK, Critical
      <4>2. ~Fail(q) /\ ~SeriesDone(q)
        BY <1>0 DEF Fail, SeriesDone, TypeOK, Critical
      <4>3. ~CacheKnownSeriesRows(q)
        BY <4>2 DEF CacheKnownSeriesRows, CacheIds
      <4>4. ~InsertRows(q)
        <5>1. ASSUME InsertRows(q) PROVE FALSE
          <6>1. pc'[q] = AfterTable(pc[q]) /\ pc[q] \in Tables
            BY <1>0, <4>2, <5>1 DEF InsertRows, TypeOK
          <6> QED BY <6>1 DEF AfterTable, Tables, Critical
        <5> QED BY <5>1
      <4>5. CASE FilterCachedSeriesRows(q)
        BY <1>0, <4>2, <4>5 DEF FilterCachedSeriesRows, TypeOK, Critical
      <4>6. CASE LookupSeries(q)
        BY <1>0, <4>2, <4>6 DEF LookupSeries, TypeOK, Critical
      <4>7. CASE MergeKnown(q)
        BY <1>0, <4>2, <4>7 DEF MergeKnown, CacheIds, TypeOK, Critical
      <4>8. CASE EncodeLabels(q)
        BY <4>2, <4>8 DEF EncodeLabels, Critical
      <4>9. CASE InsertSeriesRows(q)
        BY <4>2, <4>9 DEF InsertSeriesRows, Critical
      <4>10. CASE CommitLate(q)
        BY <4>10 DEF CommitLate
      <4> QED
        BY <1>3, <2>2, <4>1, <4>3, <4>4, <4>5, <4>6, <4>7, <4>8, <4>9, <4>10
        DEF Act, Step
    <3> QED BY <1>0, <3>1 DEF Holds
  <2> QED BY <2>1, <2>2
<1>4. ASSUME NEW p \in Procs, Crash(p), NEW r \in Requests PROVE Holds(r)'
  <2> SUFFICES ASSUME pc'[r] \in Critical PROVE mu'[on'[r]] = r
    BY DEF Holds
  <2>1. on' = on /\ pc[r] \in Critical /\ pc'[r] = pc[r]
    BY <1>4 DEF Crash, Critical
  <2>2. on[r] # p
    BY <1>4, <2>1 DEF Crash, Critical, InFlight
  <2> QED BY <1>0, <1>4, <2>1, <2>2 DEF Crash, Holds, TypeOK
<1>5. ASSUME UNCHANGED vars, NEW r \in Requests PROVE Holds(r)'
  BY <1>0, <1>5 DEF vars, Holds
<1> QED
  BY <1>1, <1>2, <1>3, <1>4, <1>5 DEF Next, Act, MutexInv

Fresh(r) ==
    /\ pc[r] = "remerge" => \A i \in rows[r] \ reply[r] :
                                <<batch[r].team, i>> \notin Registered
    /\ pc[r] \in {"encode", "insert"} => \A i \in rows[r] :
                                <<batch[r].team, i>> \notin Registered

OneRowInv ==
    /\ MutexInv
    /\ OneRowPerSeries
    /\ \A r \in Requests : late[r] = {} /\ Fresh(r)

(* The deployment the theorem is about: one process, snuffle's own schema,  *)
(* and a ClickHouse that applies no insert after reporting its failure.    *)
OneProcess == /\ \A p, x \in Procs : p = x
              /\ Layouts = {"current"}
              /\ ~AllowLate

(* With one process, what a step does to the series table.                  *)
LEMMA OnlyInsertRegisters ==
    ASSUME OneProcess, OneRowInv, NEW q \in Requests, Act(q),
           ~InsertSeriesRows(q)
    PROVE  UNCHANGED seriesRows
<1>1. late[q] = {} /\ ~PostHog
  BY DEF OneRowInv, MutexInv, TypeOK, OneProcess, PostHog
<1> QED
  BY <1>1 DEF OneProcess, Act, Step, RejectBadData, HandleRemoteWrite,
     FilterCachedSeriesRows, LookupSeries, MergeKnown, CacheIds, LockSeries,
     EncodeLabels, CacheKnownSeriesRows, InsertRows, StoreRows, LoseAnswer,
     Resend, CommitLate

LEMMA LateStaysEmpty ==
    ASSUME OneProcess, OneRowInv, [Next]_vars, NEW r \in Requests
    PROVE  late'[r] = {}
<1>0. late[r] = {} /\ \A q \in Requests : late[q] = {}
  BY DEF OneRowInv
<1>1. ASSUME NEW q \in Requests, Act(q) PROVE late' = late
  BY <1>0, <1>1 DEF OneProcess, Act, Step, RejectBadData, HandleRemoteWrite,
     FilterCachedSeriesRows, LookupSeries, MergeKnown, CacheIds, LockSeries,
     EncodeLabels, InsertSeriesRows, CacheKnownSeriesRows, InsertRows,
     LoseAnswer, Resend, CommitLate
<1>2. ASSUME NEW p \in Procs, Crash(p) PROVE late' = late
  BY <1>2 DEF OneProcess, Crash
<1> QED
  BY <1>0, <1>1, <1>2 DEF Next, Act, vars

(* What the mutex holder learned from its second lookup stays true.         *)
LEMMA FreshStep ==
    ASSUME OneProcess, OneRowInv, NEW q \in Requests, Act(q),
           NEW r \in Requests
    PROVE  Fresh(r)'
<1>0. /\ TypeOK /\ Fresh(r) /\ batch' = batch
      /\ \A x \in Requests : Holds(x)
  <2>1. TypeOK /\ Fresh(r) /\ \A x \in Requests : Holds(x)
    BY DEF OneRowInv, MutexInv
  <2>2. [Next]_vars
    BY DEF Act, Next
  <2> QED BY <2>1, <2>2, RegisteredGrows
<1>1. CASE r # q
  <2>1. pc'[r] = pc[r] /\ rows'[r] = rows[r] /\ reply'[r] = reply[r]
    BY <1>0, <1>1, OthersUntouched
  <2>2. CASE pc[r] \in Critical
    <3>1. ~InsertSeriesRows(q)
      BY <1>0, <1>1, <2>2 DEF InsertSeriesRows, Holds, Critical, OneProcess,
         TypeOK
    <3>2. Registered' = Registered
      BY <3>1, OnlyInsertRegisters, UnchangedRegistered
    <3> QED BY <1>0, <2>1, <3>2 DEF Fresh
  <2>3. CASE pc[r] \notin Critical
    BY <2>1, <2>3 DEF Fresh, Critical
  <2> QED BY <2>2, <2>3
<1>2. CASE r = q
  <2>1. CASE LookupSeries(r)
    <3>1. Registered' = Registered
      BY <2>1, UnchangedRegistered DEF LookupSeries
    <3>2. CASE Fail(r)
      BY <1>0, <3>2 DEF Fail, Fresh, TypeOK
    <3>3. CASE ~Fail(r)
      <4>1. /\ reply'[r] = KnownIds(r) /\ rows'[r] = rows[r]
            /\ pc'[r] \in {"merge", "remerge"}
        BY <1>0, <2>1, <3>3 DEF LookupSeries, TypeOK
      <4> QED BY <1>0, <3>1, <4>1 DEF Fresh, KnownIds
    <3> QED BY <3>2, <3>3
  <2>2. CASE MergeKnown(r)
    <3>1. Registered' = Registered
      BY <2>2, UnchangedRegistered DEF MergeKnown, CacheIds
    <3>2. CASE SeriesDone(r)
      BY <1>0, <3>2 DEF SeriesDone, Fresh, TypeOK
    <3>3. CASE ~SeriesDone(r)
      <4>1. /\ rows'[r] = rows[r] \ reply[r]
            /\ pc'[r] = IF pc[r] = "merge" THEN "lock" ELSE "encode"
            /\ pc[r] \in {"merge", "remerge"}
        BY <1>0, <2>2, <3>3 DEF MergeKnown, CacheIds, TypeOK
      <4> QED BY <1>0, <3>1, <4>1 DEF Fresh
    <3> QED BY <3>2, <3>3
  <2>3. CASE EncodeLabels(r)
    <3>1. Registered' = Registered
      BY <2>3, UnchangedRegistered DEF EncodeLabels
    <3>2. CASE Fail(r)
      BY <1>0, <3>2 DEF Fail, Fresh, TypeOK
    <3>3. CASE ~Fail(r)
      BY <1>0, <2>3, <3>1, <3>3 DEF EncodeLabels, Fresh, TypeOK
    <3> QED BY <3>2, <3>3
  <2>4. CASE CommitLate(r)
    BY <2>4 DEF CommitLate, OneRowInv
  <2>5. CASE ~(LookupSeries(r) \/ MergeKnown(r) \/ EncodeLabels(r)
               \/ CommitLate(r))
    <3>1. CASE InsertRows(r)
      <4>1. pc'[r] \in Tables \cup {"ok", "failed"}
        BY <1>0, <3>1 DEF InsertRows, AfterTable, Fail, TypeOK, Tables
      <4> QED BY <4>1 DEF Fresh, Tables
    <3>2. CASE ~InsertRows(r)
      <4>1. pc'[r] \notin {"remerge", "encode", "insert"}
        BY <1>0, <1>2, <2>5, <3>2 DEF Act, Step, RejectBadData,
           HandleRemoteWrite, FilterCachedSeriesRows, LockSeries,
           InsertSeriesRows, CacheKnownSeriesRows, LoseAnswer, Resend, Fail,
           SeriesDone, TypeOK
      <4> QED BY <4>1 DEF Fresh
    <3> QED BY <3>1, <3>2
  <2> QED BY <2>1, <2>2, <2>3, <2>4, <2>5
<1> QED BY <1>1, <1>2

LEMMA OneRowStep ==
    ASSUME OneProcess, OneRowInv, [Next]_vars
    PROVE  OneRowInv'
<1>0. MutexInv /\ TypeOK /\ OneRowPerSeries /\ \A r \in Requests : Fresh(r)
  BY DEF OneRowInv, MutexInv
<1>1. MutexInv' /\ \A r \in Requests : late'[r] = {}
  BY <1>0, MutexStep, LateStaysEmpty
<1>2. ASSUME NEW q \in Requests, Act(q) PROVE OneRowPerSeries'
  <2>1. CASE InsertSeriesRows(q)
    <3>1. \A k \in KeysOf(batch[q], rows[q]) : k \notin Registered
      BY <1>0, <2>1 DEF InsertSeriesRows, Fresh, KeysOf
    <3>2. UNCHANGED seriesRows \/ AddSeriesRows(KeysOf(batch[q], rows[q]))
      BY <2>1 DEF InsertSeriesRows
    <3> QED
      BY <1>0, <3>1, <3>2
      DEF OneRowPerSeries, AddSeriesRows, Registered, TypeOK
  <2>2. CASE ~InsertSeriesRows(q)
    BY <1>0, <1>2, <2>2, OnlyInsertRegisters DEF OneRowPerSeries
  <2> QED BY <2>1, <2>2
<1>3. ASSUME NEW p \in Procs, Crash(p)
      PROVE  OneRowPerSeries' /\ \A r \in Requests : Fresh(r)'
  <2>1. seriesRows' = seriesRows /\ Registered' = Registered /\ batch' = batch
    BY <1>3, UnchangedRegistered DEF Crash
  <2>2. ASSUME NEW r \in Requests PROVE Fresh(r)'
    <3>1. CASE pc'[r] = "failed"
      BY <3>1 DEF Fresh
    <3>2. CASE pc'[r] # "failed"
      <4>1. pc'[r] = pc[r] /\ rows'[r] = rows[r] /\ reply'[r] = reply[r]
        BY <1>3, <3>2 DEF Crash
      <4> QED BY <1>0, <2>1, <4>1 DEF Fresh
    <3> QED BY <3>1, <3>2
  <2> QED BY <1>0, <2>1, <2>2 DEF OneRowPerSeries
<1>4. CASE UNCHANGED vars
  <2>1. Registered' = Registered
    BY <1>4, UnchangedRegistered DEF vars
  <2> QED
    BY <1>0, <1>1, <1>4, <2>1 DEF OneRowInv, OneRowPerSeries, Fresh, vars
<1> QED
  BY <1>1, <1>2, <1>3, <1>4, FreshStep DEF Next, Act, OneRowInv

(* With one process the series table never has two rows for a series,       *)
(* however requests interleave, fail, crash and are sent again: the recheck *)
(* of insertMissingRemoteSeriesRows under seriesMu.                        *)
THEOREM OneRow ==
    ASSUME OneProcess
    PROVE  Spec => []OneRowPerSeries
<1>1. Init => OneRowInv
  <2> SUFFICES ASSUME Init PROVE OneRowInv
    OBVIOUS
  <2>1. TypeOK
    BY ConstantsAssumption DEF Init, TypeOK, Phases
  <2>2. \A r \in Requests : Holds(r) /\ Fresh(r) /\ late[r] = {}
    BY DEF Init, Holds, Fresh, Critical
  <2>3. OneRowPerSeries
    BY DEF Init, OneRowPerSeries
  <2> QED BY <2>1, <2>2, <2>3 DEF OneRowInv, MutexInv
<1>2. OneRowInv /\ [Next]_vars => OneRowInv'
  BY OneRowStep
<1>3. OneRowInv => OneRowPerSeries
  BY DEF OneRowInv
<1> QED BY <1>1, <1>2, <1>3, PTL DEF Spec

-----------------------------------------------------------------------------
(* RemoteWrite implements IngestContract: each initial state, and each step *)
(* of the handlers, of ClickHouse, of the clients and of crashing processes *)
(* is one of IngestContract under the mapping Contract, or a stutter.       *)

Carries == [r \in Requests |-> {t \in Configured : HasRows(batch[r], t)}]
RowKeysOf == [r \in Requests |-> [t \in Tables |-> RowSeries(r, t)]]
Data == {x \in Requests \X Tables : stored[x[1]][x[2]] > 0}
Acked == {r \in Requests : pc[r] = "ok"}

LEMMA RefineInit == Init => Contract!Init
<1> SUFFICES ASSUME Init PROVE Contract!Init
  OBVIOUS
<1>1. TypeOK
  BY SafetyInit DEF SafetyInv
<1>2. Carries \in [Requests -> SUBSET Tables]
  BY ConstantsAssumption DEF Carries
<1>3. ASSUME NEW r \in Requests, NEW t \in Tables
      PROVE  RowSeries(r, t) \in SUBSET Keys
  BY <1>1, BatchIds, KeysOfType DEF TypeOK, RowSeries
<1>4. RowKeysOf \in [Requests -> [Tables -> SUBSET Keys]]
  BY <1>3 DEF RowKeysOf
<1>5. Registered = {} /\ Data = {} /\ Acked = {}
  BY DEF Init, Registered, Data, Acked
<1> QED
  BY <1>2, <1>4, <1>5
  DEF Contract!Init, Carries, RowKeysOf, Data, Acked

(* The constant part of the mapped state, and that registration only grows. *)
LEMMA RefineFrame ==
    ASSUME TypeOK, [Next]_vars
    PROVE  /\ Carries' = Carries /\ RowKeysOf' = RowKeysOf
           /\ Registered \subseteq Registered' /\ Registered' \subseteq Keys
  BY RegisteredGrows DEF Carries, RowKeysOf, RowSeries, PostHog, Registered

(* A step that stores nothing.                                              *)
LEMMA RefineNoStore ==
    ASSUME TypeOK, [Next]_vars, UNCHANGED stored,
           \/ Acked' = Acked
           \/ /\ Registered' = Registered
              /\ \E r \in Requests :
                   \/ Acked' = Acked \ {r}
                   \/ /\ Acked' = Acked \cup {r}
                      /\ \A t \in Carries[r] : <<r, t>> \in Data
    PROVE  [Contract!Next]_(Contract!cvars)
<1>1. Data' = Data
  BY DEF Data
<1>2. CASE Acked' = Acked
  <2>1. Contract!Register
    BY <1>1, <1>2, RefineFrame
    DEF Contract!Register, Contract!Grow, Carries, RowKeysOf, Data, Acked
  <2> QED BY <2>1 DEF Contract!Next
<1>3. ASSUME NEW r \in Requests, Registered' = Registered, Acked' = Acked \ {r}
      PROVE  [Contract!Next]_(Contract!cvars)
  <2>1. Contract!Lose(r)
    BY <1>1, <1>3, RefineFrame
    DEF Contract!Lose, Carries, RowKeysOf, Data, Acked
  <2> QED BY <2>1 DEF Contract!Next
<1>4. ASSUME NEW r \in Requests, Registered' = Registered,
             Acked' = Acked \cup {r}, \A t \in Carries[r] : <<r, t>> \in Data
      PROVE  [Contract!Next]_(Contract!cvars)
  <2>1. Contract!Ack(r)
    BY <1>1, <1>4, RefineFrame
    DEF Contract!Ack, Carries, RowKeysOf, Data, Acked
  <2> QED BY <2>1 DEF Contract!Next
<1> QED BY <1>2, <1>3, <1>4

(* A step that stores the rows of one table.                                *)
LEMMA RefineStore ==
    ASSUME SafetyInv, CopiesInv, CopiesInv', [Next]_vars, NEW q \in Requests,
           Act(q), InsertRows(q), NEW t \in Tables, pc[q] = t, StoreRows(q, t)
    PROVE  [Contract!Next]_(Contract!cvars)
<1>0. TypeOK
  BY DEF SafetyInv
<1>1. /\ stored'[q][t] = stored[q][t] + 1
      /\ \A r \in Requests, u \in Tables :
            r # q \/ u # t => stored'[r][u] = stored[r][u]
  BY <1>0 DEF StoreRows, TypeOK
<1>2. stored[q][t] \in Nat
  BY <1>0 DEF TypeOK
<1>3. Data' = Data \cup {<<q, t>>}
  <2>1. ASSUME NEW r \in Requests, NEW u \in Tables
        PROVE  stored'[r][u] > 0 <=> stored[r][u] > 0 \/ (r = q /\ u = t)
    BY <1>1, <1>2
  <2> QED BY <1>0, <2>1 DEF Data
<1>4. RowSeries(q, t) \subseteq Registered'
  BY <1>0, <1>1, <1>2, StoredRegistered
<1>5. RowKeysOf[q][t] \subseteq Registered'
  BY <1>0, <1>4 DEF RowKeysOf
<1>6. \/ Acked' = Acked
      \/ Acked' = Acked \cup {q} /\ \A u \in Carries[q] : <<q, u>> \in Data'
  <2>1. \A r \in Requests \ {q} : pc'[r] = pc[r]
    BY <1>0, OthersUntouched
  <2>2. pc[q] # "ok"
    BY <1>0 DEF Tables
  <2>3. CASE pc'[q] = "ok"
    <3>1. Acked' = Acked \cup {q}
      BY <2>1, <2>3 DEF Acked
    <3>2. \A u \in Carries'[q] : <<q, u>> \in Data'
      <4>1. \A u \in Carries'[q] :
              u \in Configured /\ u \in Tables /\ HasRows(batch'[q], u)
        BY ConstantsAssumption DEF Carries
      <4> QED
        BY <2>3, <4>1 DEF CopiesInv, Copies, Passed, Data
    <3> QED BY <1>0, <3>1, <3>2, RefineFrame
  <2>4. CASE pc'[q] # "ok"
    BY <2>1, <2>2, <2>4 DEF Acked
  <2> QED BY <2>3, <2>4
<1>7. Contract!Store(q, t)
  BY <1>0, <1>3, <1>5, <1>6, RefineFrame
  DEF Contract!Store, Contract!Grow, Carries, RowKeysOf, Data, Acked
<1> QED BY <1>0, <1>7 DEF Contract!Next

LEMMA RefineStep ==
    ASSUME SafetyInv, CopiesInv, CopiesInv', [Next]_vars
    PROVE  [Contract!Next]_(Contract!cvars)
<1>0. TypeOK
  BY DEF SafetyInv
<1>1. ASSUME NEW q \in Requests, Act(q)
      PROVE  [Contract!Next]_(Contract!cvars)
  <2>1. CASE InsertRows(q) /\ StoreRows(q, pc[q])
    <3>1. PICK t \in Tables : t = pc[q]
      BY <2>1 DEF InsertRows
    <3>2. StoreRows(q, t)
      BY <2>1, <3>1 DEF StoreRows
    <3> QED
      BY <1>1, <2>1, <3>1, <3>2, RefineStore
  <2>2. CASE ~(InsertRows(q) /\ StoreRows(q, pc[q]))
    <3>1. stored' = stored
      BY <1>1, <2>2 DEF Act, Step, RejectBadData, HandleRemoteWrite,
         FilterCachedSeriesRows, LookupSeries, MergeKnown, LockSeries,
         EncodeLabels, InsertSeriesRows, CacheKnownSeriesRows, InsertRows,
         LoseAnswer, Resend, CommitLate
    <3>2. \A r \in Requests \ {q} : pc'[r] = pc[r]
      BY <1>0, <1>1, OthersUntouched
    <3>3. CASE pc'[q] = "ok" /\ pc[q] # "ok"
      <4>1. HandleRemoteWrite(q) \/ InsertRows(q)
        BY <1>0, <1>1, <3>3 DEF Act, Step, RejectBadData,
           FilterCachedSeriesRows, LookupSeries, MergeKnown, LockSeries,
           EncodeLabels, InsertSeriesRows, CacheKnownSeriesRows, LoseAnswer,
           Resend, CommitLate, Fail, SeriesDone, TypeOK
      <4>2. Registered' = Registered
        BY <2>2, <4>1, UnchangedRegistered DEF HandleRemoteWrite, InsertRows
      <4>3. Acked' = Acked \cup {q}
        BY <3>2, <3>3 DEF Acked
      <4>4. \A t \in Carries[q] : <<q, t>> \in Data
        <5>1. \A t \in Carries[q] : /\ t \in Configured /\ t \in Tables
                                    /\ HasRows(batch'[q], t)
          BY <1>0, ConstantsAssumption, RegisteredGrows DEF Carries
        <5> QED
          BY <3>1, <3>3, <5>1 DEF CopiesInv, Copies, Passed, Data
      <4> QED
        BY <1>0, <3>1, <4>2, <4>3, <4>4, RefineNoStore
    <3>4. CASE pc'[q] # "ok" /\ pc[q] = "ok"
      <4>1. LoseAnswer(q)
        BY <1>0, <1>1, <3>4 DEF Act, Step, RejectBadData, HandleRemoteWrite,
           FilterCachedSeriesRows, LookupSeries, MergeKnown, LockSeries,
           EncodeLabels, InsertSeriesRows, CacheKnownSeriesRows, InsertRows,
           Resend, CommitLate, Tables
      <4>2. Registered' = Registered
        BY <4>1, UnchangedRegistered DEF LoseAnswer
      <4>3. Acked' = Acked \ {q}
        BY <3>2, <3>4 DEF Acked
      <4> QED BY <1>0, <3>1, <4>2, <4>3, RefineNoStore
    <3>5. CASE pc'[q] = "ok" <=> pc[q] = "ok"
      <4>1. Acked' = Acked
        BY <3>2, <3>5 DEF Acked
      <4> QED BY <1>0, <3>1, <4>1, RefineNoStore
    <3> QED BY <3>3, <3>4, <3>5
  <2> QED BY <2>1, <2>2
<1>2. ASSUME NEW p \in Procs, Crash(p) PROVE [Contract!Next]_(Contract!cvars)
  <2>1. stored' = stored
    BY <1>2 DEF Crash
  <2>2. Acked' = Acked
    BY <1>2
    DEF Crash, Acked, InFlight, SeriesPhases, Critical, Tables
  <2> QED BY <1>0, <2>1, <2>2, RefineNoStore
<1>3. CASE UNCHANGED vars
  <2>1. stored' = stored /\ Acked' = Acked
    BY <1>3 DEF vars, Acked
  <2> QED BY <1>0, <2>1, RefineNoStore
<1> QED
  BY <1>1, <1>2, <1>3 DEF Next, Act

(* Ingestion implements its contract: rows never become visible before      *)
(* their series, and a batch is acknowledged only when it is stored        *)
(* completely, in both layouts and whatever fails                          *)
(* (insertRemoteWriteBatch, insertMissingRemoteSeriesRows).                *)
THEOREM Refinement == Spec => ImplementsContract
<1>1. SafetyInv /\ CopiesInv /\ CopiesInv' /\ [Next]_vars
        => [Contract!Next]_(Contract!cvars)
  BY RefineStep
<1> QED
  BY RefineInit, <1>1, SafetyInvariant, CopiesInvariant, PTL
  DEF Spec, Contract!Spec, ImplementsContract
=============================================================================
