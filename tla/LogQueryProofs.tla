---------------------------- MODULE LogQueryProofs ----------------------------
(***************************************************************************)
(* Proofs about LokiPush and LogQuery for any clients, bodies, queries,    *)
(* configurations and bounds: whatever inserts fail, stored lines can be   *)
(* joined with their stream, an acknowledged push is whole, and the        *)
(* statistics count lines that exist; beside any pushes, a log query reads *)
(* the table once and returns the first lines that pass its whole          *)
(* pipeline, and the evaluation times of a metric query are aligned to its *)
(* step.                                                                   *)
(***************************************************************************)
EXTENDS LogQuery, FiniteSetTheorems, WellFoundedInduction, TLAPS

-----------------------------------------------------------------------------
(* Pushes. The theorems of this section speak of PushSpec; that they hold   *)
(* beside queries is PushesUndisturbed.                                     *)

(* The lines stored for the current attempt of a client.                    *)
OfAttempt(p) == {e \in events : e.tag[1] = p /\ e.tag[2] = attempt[p]}

Shape ==
    /\ config \in Configs
    /\ pc \in [Pushes -> {"idle"} \cup Inserting \cup Answered]
    /\ attempt \in [Pushes -> 0 .. MaxAttempts]
    /\ faults \in 0 .. MaxFaults
    /\ DOMAIN rows = Pushes
    /\ \A p \in Pushes : IsFiniteSet(DOMAIN rows[p])

(* The dictionary and the index are filled before the lines.                *)
StreamsReady ==
    config.layout = "snuffle" => \A p \in Pushes :
        /\ pc[p] \in {"labels", "events", "stats"} => StreamsOf(rows[p]) \subseteq streams
        /\ pc[p] \in {"events", "stats"} /\ Has("labels") => IndexOf(rows[p]) \subseteq labelIndex

(* Lines and counts belong to attempts that got that far.                   *)
TagsKept ==
    /\ \A e \in events :
          /\ e.tag[1] \in Pushes
          /\ e.tag[2] \in Nat
          /\ e.tag[2] <= attempt[e.tag[1]]
          /\ e.tag[2] = attempt[e.tag[1]] => pc[e.tag[1]] \in {"stats", "acked", "failed"}
    /\ \A c \in stats :
          /\ c.tag[1] \in Pushes
          /\ c.tag[2] \in Nat
          /\ c.tag = <<c.tag[1], c.tag[2]>>
          /\ c.tag[2] <= attempt[c.tag[1]]
          /\ c.tag[2] = attempt[c.tag[1]] => pc[c.tag[1]] \in {"acked", "failed"}

(* Past the lines, those of the attempt are exactly its rows.               *)
AttemptStored ==
    \A p \in Pushes : pc[p] \in {"stats", "acked"} =>
        OfAttempt(p) = EventsOf(p, attempt[p], rows[p])

StatsStored ==
    config.layout = "snuffle" /\ Has("stats") =>
        \A p \in Pushes : pc[p] = "acked" => StatsOf(p, attempt[p], rows[p]) \subseteq stats

(* The inductive invariant.                                                 *)
PushInv ==
    /\ Shape
    /\ StreamsReady
    /\ TagsKept
    /\ AttemptStored
    /\ StatsStored
    /\ EventJoined
    /\ StatsBacked

-----------------------------------------------------------------------------
(* EventsOf keeps the identity of the stream of a row.                      *)
LEMMA EventsStream ==
    ASSUME NEW p, NEW a, NEW rs, NEW e \in EventsOf(p, a, rs)
    PROVE  /\ e.tag[1] = p /\ e.tag[2] = a
           /\ StreamID(e) \in StreamsOf(rs)
  BY DEF EventsOf, StreamsOf, StreamID

(* The rows, or lines, of a minute and a stream.                            *)
RowsAt(rs, b, s) == {i \in DOMAIN rs : MinuteOf(rs[i].ts) = b /\ StreamID(rs[i]) = s}
LinesAt(V, b, s) == {e \in V : MinuteOf(e.ts) = b /\ StreamID(e) = s}

(* What a minute and stream count among the rows of an attempt is what they *)
(* count among its lines.                                                  *)
LEMMA CountLines ==
    ASSUME NEW p, NEW a, NEW rs, IsFiniteSet(DOMAIN rs), NEW b, NEW s
    PROVE  Cardinality(RowsAt(rs, b, s)) = Cardinality(LinesAt(EventsOf(p, a, rs), b, s))
  <1> DEFINE I == {i \in DOMAIN rs : MinuteOf(rs[i].ts) = b /\ StreamID(rs[i]) = s}
             line(i) == [tag |-> <<p, a, i>>, labels |-> rs[i].labels, res |-> rs[i].res,
                         fields |-> rs[i].fields, attrs |-> rs[i].attrs, ts |-> rs[i].ts,
                         line |-> rs[i].line]
             E == {e \in EventsOf(p, a, rs) : MinuteOf(e.ts) = b /\ StreamID(e) = s}
             f == [i \in I |-> line(i)]
  <1>1. IsFiniteSet(I)
    BY FS_Subset
  <1>2. \A i \in DOMAIN rs : /\ line(i).ts = rs[i].ts
                             /\ StreamID(line(i)) = StreamID(rs[i])
                             /\ line(i).tag[3] = i
    BY DEF StreamID
  <1>3. EventsOf(p, a, rs) = {line(i) : i \in DOMAIN rs}
    BY DEF EventsOf
  <1> HIDE DEF line
  <1>4. E = {line(i) : i \in I}
    BY <1>2, <1>3
  <1>5. f \in Bijection(I, E)
    <2>1. \A i, j \in I : f[i] = f[j] => i = j
      BY <1>2
    <2>2. f \in [I -> E]
      BY <1>4
    <2>3. \A e \in E : \E i \in I : f[i] = e
      BY <1>4
    <2>4. DOMAIN f = I
      OBVIOUS
    <2> HIDE DEF f, I, E
    <2>5. f \in Injection(I, E)
      BY <2>1, <2>2, <2>4 DEF Injection, IsInjective
    <2>6. f \in Surjection(I, E)
      BY <2>2, <2>3 DEF Surjection
    <2> QED
      BY <2>5, <2>6 DEF Bijection
  <1>6. ExistsBijection(I, E)
    BY <1>5 DEF ExistsBijection
  <1> HIDE DEF I, E
  <1>7. Cardinality(E) = Cardinality(I)
    BY <1>1, <1>6, FS_Bijection
  <1> QED
    BY <1>7 DEF I, E, RowsAt, LinesAt

(* A row of the statistics.                                                 *)
LEMMA StatsRow ==
    ASSUME NEW p, NEW a, NEW rs, NEW c \in StatsOf(p, a, rs)
    PROVE  /\ c.tag = <<p, a>>
           /\ c.count = Cardinality(RowsAt(rs, c.bucket, c.stream))
  <1> DEFINE row(b, s) == [tag |-> <<p, a>>, bucket |-> b, stream |-> s,
                           count |-> Cardinality(RowsAt(rs, b, s)),
                           bytes |-> BytesOf(rs, RowsAt(rs, b, s))]
  <1>1. PICK i \in DOMAIN rs : c = row(MinuteOf(rs[i].ts), StreamID(rs[i]))
    BY DEF StatsOf, RowsAt
  <1> QED
    BY <1>1

(* The lines that a row of the statistics counts.                           *)
Counted(c, V) ==
    {e \in V : /\ <<e.tag[1], e.tag[2]>> = c.tag
               /\ MinuteOf(e.ts) = c.bucket
               /\ StreamID(e) = c.stream}

(* The counts of an attempt whose lines are exactly its rows are backed.    *)
LEMMA BackedByAttempt ==
    ASSUME NEW p, NEW a, NEW rs, IsFiniteSet(DOMAIN rs), NEW V,
           EventsOf(p, a, rs) = {e \in V : <<e.tag[1], e.tag[2]>> = <<p, a>>},
           NEW c \in StatsOf(p, a, rs)
    PROVE  c.count = Cardinality(Counted(c, V))
  <1>1. c.tag = <<p, a>> /\ c.count = Cardinality(RowsAt(rs, c.bucket, c.stream))
    <2>1. c \in StatsOf(p, a, rs)
      OBVIOUS
    <2> QED
      BY ONLY <2>1, StatsRow
  <1>2. c.count = Cardinality(LinesAt(EventsOf(p, a, rs), c.bucket, c.stream))
    <2>1. IsFiniteSet(DOMAIN rs)
      OBVIOUS
    <2>2. Cardinality(RowsAt(rs, c.bucket, c.stream))
            = Cardinality(LinesAt(EventsOf(p, a, rs), c.bucket, c.stream))
      BY ONLY <2>1, CountLines
    <2> QED
      BY <1>1, <2>2, Zenon
  <1>3. LinesAt(EventsOf(p, a, rs), c.bucket, c.stream) = Counted(c, V)
    BY <1>1 DEF LinesAt, Counted
  <1> QED
    BY <1>2, <1>3, Zenon

-----------------------------------------------------------------------------
LEMMA InitInv == PushInit => PushInv
  <1> SUFFICES ASSUME PushInit PROVE PushInv
    OBVIOUS
  <1>1. Shape
    BY PushAssumption, FS_EmptySet DEF PushInit, Shape
  <1> QED
    BY <1>1 DEF PushInit, PushInv, StreamsReady, TagsKept, AttemptStored, StatsStored,
                EventJoined, StatsBacked

(* A request arrives: no table changes, and nothing is stored yet under the *)
(* number of the new attempt.                                              *)
LEMMA HandleInv ==
    ASSUME PushInv, NEW p \in Pushes, NEW body \in Bodies[p], handleLokiPush(p, body)
    PROVE  PushInv'
  <1> USE DEF PushInv
  <1>1. /\ pc[p] \in {"idle", "failed"}
        /\ attempt' = [attempt EXCEPT ![p] = @ + 1]
        /\ attempt[p] < MaxAttempts
        /\ UNCHANGED <<config, streams, labelIndex, events, stats, faults>>
    BY DEF handleLokiPush, tables
  <1>2. \A q \in Pushes \ {p} : /\ pc'[q] = pc[q]
                                /\ rows'[q] = rows[q]
                                /\ attempt'[q] = attempt[q]
    BY DEF handleLokiPush, Shape
  <1>3. attempt'[p] = attempt[p] + 1 /\ attempt[p] \in 0 .. MaxAttempts
    BY <1>1 DEF Shape
  <1>4. /\ pc'[p] \in {"failed", "rejected", "acked", "events", "streams"}
        /\ pc'[p] = "events" => config.layout = "posthog"
        /\ pc'[p] = "acked" => DOMAIN rows'[p] = {}
    <2>1. CASE ~Has("logs") \/ body = Malformed
      BY <2>1 DEF handleLokiPush, Shape
    <2>2. CASE Has("logs") /\ body # Malformed
      <3>1. /\ pc' = [pc EXCEPT ![p] =
                        CASE body = <<>> -> "acked"
                          [] body # <<>> /\ config.layout = "posthog" -> "events"
                          [] OTHER -> IF Has("streams") THEN "streams" ELSE "failed"]
            /\ \E rs \in Decoded(body) : rows' = [rows EXCEPT ![p] = rs]
        BY <2>2 DEF handleLokiPush
      <3>2. DOMAIN rows'[p] = DOMAIN body
        BY <3>1 DEF Decoded, Shape
      <3> QED
        BY <3>1, <3>2 DEF Shape
    <2> QED
      BY <2>1, <2>2
  <1>5. Shape'
    <2>1. attempt' \in [Pushes -> 0 .. MaxAttempts]
      BY <1>1, PushAssumption DEF Shape
    <2>2. DOMAIN rows' = Pushes /\ pc' \in [Pushes -> {"idle"} \cup Inserting \cup Answered]
      <3>1. DOMAIN rows' = Pushes
        BY DEF handleLokiPush, Shape
      <3>2. pc' \in [Pushes -> {"idle"} \cup Inserting \cup Answered]
        <4>1. DOMAIN pc' = Pushes /\ pc' = [q \in Pushes |-> pc'[q]]
          BY DEF handleLokiPush, Shape
        <4> QED
          BY <4>1, <1>2, <1>4 DEF Shape, Inserting, Answered
      <3> QED
        BY <3>1, <3>2
    <2>3. IsFiniteSet(DOMAIN rows'[p])
      <3>1. CASE rows' = rows
        BY <3>1 DEF Shape
      <3>2. CASE body # Malformed /\ \E rs \in Decoded(body) : rows' = [rows EXCEPT ![p] = rs]
        <4>1. DOMAIN rows'[p] = DOMAIN body
          BY <3>2 DEF Decoded, Shape
        <4> QED
          BY <4>1, <3>2, PushAssumption
      <3> QED
        BY <3>1, <3>2 DEF handleLokiPush
    <2> QED
      BY <1>1, <1>2, <2>1, <2>2, <2>3 DEF Shape
  <1>6. StreamsReady'
    <2>1. config'.layout = "snuffle" => pc'[p] \notin {"labels", "events", "stats"}
      BY <1>1, <1>4
    <2> QED
      BY <1>1, <1>2, <2>1 DEF StreamsReady, Has
  <1>7. TagsKept'
    BY <1>1, <1>2, <1>3 DEF TagsKept, Shape
  <1>8. AttemptStored'
    <2>1. OfAttempt(p)' = {}
      BY <1>1, <1>3 DEF OfAttempt, TagsKept
    <2>2. pc'[p] = "acked" => EventsOf(p, attempt'[p], rows'[p]) = {}
      BY <1>4 DEF EventsOf
    <2>3. \A q \in Pushes \ {p} : OfAttempt(q)' = OfAttempt(q)
      BY <1>1, <1>2 DEF OfAttempt
    <2> QED
      BY <1>2, <1>4, <2>1, <2>2, <2>3 DEF AttemptStored
  <1>9. StatsStored'
    <2>1. pc'[p] = "acked" => StatsOf(p, attempt'[p], rows'[p]) = {}
      BY <1>4 DEF StatsOf
    <2> QED
      BY <1>1, <1>2, <2>1 DEF StatsStored, Has
  <1>10. EventJoined' /\ StatsBacked'
    BY <1>1 DEF EventJoined, StatsBacked, Has
  <1> QED
    BY <1>5, <1>6, <1>7, <1>8, <1>9, <1>10

(* An insert for p that was stored, whatever p is told about it.            *)
LEMMA StoreInv ==
    ASSUME PushInv, NEW p \in Pushes, pc[p] \in Inserting, Store(p),
           NEW x \in {AfterInsert(pc[p]), "failed"}, pc' = [pc EXCEPT ![p] = x],
           UNCHANGED <<config, attempt, rows>>, faults' \in 0 .. MaxFaults
    PROVE  PushInv'
  <1> USE DEF PushInv
  <1>1. /\ pc'[p] = x
        /\ \A q \in Pushes \ {p} : pc'[q] = pc[q]
    BY DEF Shape
  <1>2. /\ streams \subseteq streams' /\ labelIndex \subseteq labelIndex'
        /\ events \subseteq events' /\ stats \subseteq stats'
    BY DEF Store
  <1>3. /\ x \in {"labels", "events", "stats", "acked", "failed"}
        /\ x = "labels" => pc[p] = "streams"
        /\ x = "events" /\ Has("labels") => pc[p] = "labels"
        /\ x = "events" => pc[p] \in {"streams", "labels"}
        /\ x = "stats" => pc[p] = "events"
        /\ x = "acked" => pc[p] \in {"events", "stats"}
        /\ x = "acked" /\ config.layout = "snuffle" /\ Has("stats") => pc[p] = "stats"
    BY DEF AfterInsert, Inserting
  <1>4. Shape'
    <2>1. pc' \in [Pushes -> {"idle"} \cup Inserting \cup Answered]
      BY <1>3 DEF Shape, Inserting, Answered
    <2> QED
      BY <2>1 DEF Shape
  <1>5. \A e \in events' : e \in events \/ (pc[p] = "events" /\ e \in EventsOf(p, attempt[p], rows[p]))
    BY DEF Store
  <1>6. \A c \in stats' : c \in stats \/ (pc[p] = "stats" /\ c \in StatsOf(p, attempt[p], rows[p]))
    BY DEF Store
  <1>7. StreamsReady'
    <2> SUFFICES ASSUME config.layout = "snuffle", NEW q \in Pushes
                 PROVE  /\ pc'[q] \in {"labels", "events", "stats"} => StreamsOf(rows[q]) \subseteq streams'
                        /\ pc'[q] \in {"events", "stats"} /\ Has("labels") => IndexOf(rows[q]) \subseteq labelIndex'
      BY DEF StreamsReady, Has
    <2>1. CASE q # p
      BY <2>1, <1>1, <1>2 DEF StreamsReady
    <2>2. CASE q = p
      <3>1. pc[p] = "streams" => StreamsOf(rows[p]) \subseteq streams'
        BY DEF Store
      <3>2. pc[p] = "labels" => IndexOf(rows[p]) \subseteq labelIndex'
        BY DEF Store
      <3> QED
        BY <2>2, <3>1, <3>2, <1>1, <1>2, <1>3 DEF StreamsReady
    <2> QED
      BY <2>1, <2>2
  <1>8. TagsKept'
    <2>1. ASSUME NEW e \in events'
          PROVE  /\ e.tag[1] \in Pushes /\ e.tag[2] \in Nat
                 /\ e.tag[2] <= attempt[e.tag[1]]
                 /\ e.tag[2] = attempt[e.tag[1]] => pc'[e.tag[1]] \in {"stats", "acked", "failed"}
      <3>1. CASE e \in events
        <4>1. /\ e.tag[1] \in Pushes /\ e.tag[2] \in Nat
              /\ e.tag[2] <= attempt[e.tag[1]]
              /\ e.tag[2] = attempt[e.tag[1]] => pc[e.tag[1]] \in {"stats", "acked", "failed"}
          BY <3>1 DEF TagsKept
        <4>2. pc[p] \in {"stats", "acked", "failed"} => x \in {"stats", "acked", "failed"}
          BY <1>3
        <4> QED
          BY <4>1, <4>2, <1>1
      <3>2. CASE pc[p] = "events" /\ e \in EventsOf(p, attempt[p], rows[p])
        <4>1. e.tag[1] = p /\ e.tag[2] = attempt[p]
          BY <3>2, EventsStream
        <4> QED
          BY <4>1, <3>2, <1>1, <1>3, PushAssumption DEF Shape
      <3> QED
        BY <3>1, <3>2, <1>5
    <2>2. ASSUME NEW c \in stats'
          PROVE  /\ c.tag[1] \in Pushes /\ c.tag[2] \in Nat
                 /\ c.tag = <<c.tag[1], c.tag[2]>>
                 /\ c.tag[2] <= attempt[c.tag[1]]
                 /\ c.tag[2] = attempt[c.tag[1]] => pc'[c.tag[1]] \in {"acked", "failed"}
      <3>1. CASE c \in stats
        <4>1. /\ c.tag[1] \in Pushes /\ c.tag[2] \in Nat
              /\ c.tag = <<c.tag[1], c.tag[2]>>
              /\ c.tag[2] <= attempt[c.tag[1]]
              /\ c.tag[2] = attempt[c.tag[1]] => pc[c.tag[1]] \in {"acked", "failed"}
          BY <3>1 DEF TagsKept
        <4>2. pc[p] \notin {"acked", "failed"}
          BY DEF Inserting
        <4> QED
          BY <4>1, <4>2, <1>1
      <3>2. CASE pc[p] = "stats" /\ c \in StatsOf(p, attempt[p], rows[p])
        <4>1. c.tag = <<p, attempt[p]>>
          BY ONLY <3>2, StatsRow
        <4>2. x \in {"acked", "failed"}
          BY <3>2, <1>3
        <4> QED
          BY <4>1, <4>2, <1>1, PushAssumption DEF Shape
      <3> QED
        BY <3>1, <3>2, <1>6
    <2> QED
      BY <2>1, <2>2 DEF TagsKept
  <1>9. AttemptStored'
    <2>1. ASSUME NEW q \in Pushes, q # p PROVE OfAttempt(q)' = OfAttempt(q)
      BY <2>1, <1>2, <1>5, EventsStream DEF OfAttempt
    <2>2. ASSUME x \in {"stats", "acked"} PROVE OfAttempt(p)' = EventsOf(p, attempt[p], rows[p])
      <3>1. CASE pc[p] = "events"
        <4>1. OfAttempt(p) = {}
          BY <3>1 DEF OfAttempt, TagsKept
        <4>2. events' = events \cup EventsOf(p, attempt[p], rows[p])
          BY <3>1 DEF Store
        <4> QED
          BY <4>1, <4>2, EventsStream DEF OfAttempt
      <3>2. CASE pc[p] = "stats"
        <4>1. events' = events
          BY <3>2 DEF Store
        <4> QED
          BY <3>2, <4>1 DEF OfAttempt, AttemptStored
      <3> QED
        BY <2>2, <3>1, <3>2, <1>3
    <2> QED
      BY <2>1, <2>2, <1>1 DEF AttemptStored
  <1>10. StatsStored'
    <2>1. x = "acked" /\ config.layout = "snuffle" /\ Has("stats") =>
            StatsOf(p, attempt[p], rows[p]) \subseteq stats'
      BY <1>3 DEF Store
    <2> QED
      BY <2>1, <1>1, <1>2 DEF StatsStored, Has
  <1>11. EventJoined'
    <2> SUFFICES ASSUME config.layout = "snuffle", NEW e \in events'
                 PROVE  /\ StreamID(e) \in streams'
                        /\ Has("labels") => IndexEntries(StreamID(e)) \subseteq labelIndex'
      BY DEF EventJoined, Has
    <2>1. CASE e \in events
      BY <2>1, <1>2 DEF EventJoined
    <2>2. CASE pc[p] = "events" /\ e \in EventsOf(p, attempt[p], rows[p])
      <3>1. StreamID(e) \in StreamsOf(rows[p])
        BY <2>2, EventsStream
      <3>2. StreamsOf(rows[p]) \subseteq streams' /\ (Has("labels") => IndexOf(rows[p]) \subseteq labelIndex')
        BY <2>2, <1>2 DEF StreamsReady
      <3> QED
        BY <3>1, <3>2 DEF IndexOf
    <2> QED
      BY <2>1, <2>2, <1>5
  <1>12. StatsBacked'
    <2>1. ASSUME NEW c \in stats' PROVE c.count = Cardinality(Counted(c, events'))
      <3>1. CASE c \in stats
        <4>1. c.tag[2] = attempt[c.tag[1]] => pc[c.tag[1]] \in {"acked", "failed"}
          BY <3>1 DEF TagsKept
        <4>2. pc[p] = "events" => c.tag # <<p, attempt[p]>>
          BY <4>1
        <4>3. Counted(c, events') = Counted(c, events)
          <5>1. ASSUME NEW e \in events', e \notin events PROVE <<e.tag[1], e.tag[2]>> # c.tag
            BY <5>1, <4>2, <1>5, EventsStream
          <5> QED
            BY <5>1, <1>2 DEF Counted
        <4>4. c.count = Cardinality(Counted(c, events))
          BY <3>1 DEF StatsBacked, Counted
        <4> QED
          BY <4>3, <4>4
      <3>2. CASE pc[p] = "stats" /\ c \in StatsOf(p, attempt[p], rows[p])
        <4>1. events' = events
          BY <3>2 DEF Store
        <4>2. EventsOf(p, attempt[p], rows[p])
                = {e \in events : <<e.tag[1], e.tag[2]>> = <<p, attempt[p]>>}
          BY <3>2 DEF AttemptStored, OfAttempt
        <4>3. IsFiniteSet(DOMAIN rows[p])
          BY DEF Shape
        <4>4. c.count = Cardinality(Counted(c, events))
          BY ONLY <3>2, <4>2, <4>3, BackedByAttempt
        <4> QED
          BY <4>1, <4>4
      <3> QED
        BY <3>1, <3>2, <1>6
    <2> QED
      BY <2>1 DEF StatsBacked, Counted
  <1> QED
    BY <1>4, <1>7, <1>8, <1>9, <1>10, <1>11, <1>12

(* A client goes back to sending: nothing is stored or forgotten.           *)
LEMMA FailInv ==
    ASSUME PushInv, NEW p \in Pushes, pc' = [pc EXCEPT ![p] = "failed"],
           pc[p] \in Inserting \cup {"acked"},
           UNCHANGED <<config, attempt, rows, tables>>, faults' \in 0 .. MaxFaults
    PROVE  PushInv'
  <1> USE DEF PushInv, tables
  <1>1. /\ pc'[p] = "failed"
        /\ \A q \in Pushes \ {p} : pc'[q] = pc[q]
    BY DEF Shape
  <1>2. Shape'
    BY DEF Shape, Answered
  <1>3. StreamsReady'
    BY <1>1 DEF StreamsReady, Has
  <1>4. TagsKept'
    BY <1>1 DEF TagsKept
  <1>5. AttemptStored'
    BY <1>1 DEF AttemptStored, OfAttempt
  <1>6. StatsStored'
    BY <1>1 DEF StatsStored, Has
  <1>7. EventJoined' /\ StatsBacked'
    BY DEF EventJoined, StatsBacked, Has
  <1> QED
    BY <1>2, <1>3, <1>4, <1>5, <1>6, <1>7

LEMMA NextInv == PushInv /\ [PushNext]_pushVars => PushInv'
  <1> SUFFICES ASSUME PushInv, [PushNext]_pushVars PROVE PushInv'
    OBVIOUS
  <1>1. CASE UNCHANGED pushVars
    BY <1>1 DEF PushInv, pushVars, Shape, StreamsReady, TagsKept, AttemptStored, OfAttempt,
                StatsStored, EventJoined, StatsBacked, Has
  <1>2. ASSUME NEW p \in Pushes, NEW body \in Bodies[p], handleLokiPush(p, body) PROVE PushInv'
    BY <1>2, HandleInv
  <1>3. faults \in 0 .. MaxFaults
    BY DEF PushInv, Shape
  <1>4. ASSUME NEW p \in Pushes, Insert(p) PROVE PushInv'
    BY <1>3, <1>4, StoreInv DEF Insert
  <1>5. ASSUME NEW p \in Pushes, InsertFails(p) PROVE PushInv'
    <2>1. faults' \in 0 .. MaxFaults
      BY <1>3, <1>5, PushAssumption DEF InsertFails
    <2>2. CASE Store(p)
      BY <1>5, <2>1, <2>2, StoreInv DEF InsertFails
    <2>3. CASE UNCHANGED tables
      BY <1>5, <2>1, <2>3, FailInv DEF InsertFails
    <2> QED
      BY <1>5, <2>2, <2>3 DEF InsertFails
  <1>6. ASSUME NEW p \in Pushes, LoseAnswer(p) PROVE PushInv'
    <2>1. faults' \in 0 .. MaxFaults
      BY <1>3, <1>6, PushAssumption DEF LoseAnswer
    <2> QED
      BY <1>6, <2>1, FailInv DEF LoseAnswer
  <1> QED
    BY <1>1, <1>2, <1>4, <1>5, <1>6 DEF PushNext

LEMMA PushInvariant == PushSpec => []PushInv
  BY InitInv, NextInv, PTL DEF PushSpec

-----------------------------------------------------------------------------
(* Every stored line finds its stream and its index rows, whichever insert  *)
(* of whichever push failed or was cut short (insertSnuffleLokiLogRows).   *)
THEOREM LinesJoined == PushSpec => []EventJoined
  <1>1. PushInv => EventJoined
    BY DEF PushInv
  <1> QED
    BY <1>1, PushInvariant, PTL

(* An acknowledged push has all its lines stored and counted                *)
(* (handleLokiPush, insertSnuffleLokiLogRows).                             *)
THEOREM AckedWhole == PushSpec => []AckedPushWhole
  <1>1. PushInv => AckedPushWhole
    BY DEF PushInv, AckedPushWhole, AttemptStored, StatsStored, OfAttempt
  <1> QED
    BY <1>1, PushInvariant, PTL

(* A row of the statistics counts lines that exist, all those of its        *)
(* attempt, minute and stream, also after failed attempts and retries      *)
(* (insertSnuffleLogStreamStats).                                          *)
THEOREM CountsBacked == PushSpec => []StatsBacked
  <1>1. PushInv => StatsBacked
    BY DEF PushInv
  <1> QED
    BY <1>1, PushInvariant, PTL

(* The types of the state of the push handlers.                             *)
THEOREM PushTypes == PushSpec => []PushTypeOK
  <1>1. PushInv => PushTypeOK
    BY DEF PushInv, PushTypeOK, Shape, TagsKept
  <1> QED
    BY <1>1, PushInvariant, PTL

-----------------------------------------------------------------------------
(* What the listings need to know of rows, lines, index and statistics. The *)
(* labels of a row have every alias of service or none, all of level, and  *)
(* the aliases say the same.                                                *)
InStep(l, names) == \A x, y \in names : x \in DOMAIN l => y \in DOMAIN l /\ l[y] = l[x]

LabelsOK(l) ==
    /\ InStep(l, ServiceNames)
    /\ InStep(l, LevelNames)
    /\ "severity" \notin DOMAIN l

RowOK(r) ==
    /\ r.ts \in Int
    /\ LabelsOK(r.labels)
    /\ "level" \in DOMAIN r.labels
    /\ {"words", "hidden"} \subseteq DOMAIN r.line

ListInv ==
    /\ \A p \in Pushes : \A i \in DOMAIN rows[p] : RowOK(rows[p][i])
    /\ \A e \in events : RowOK(e)
    /\ \A x \in labelIndex : x \in IndexEntries(x.stream)
    /\ \A c \in stats : \E e \in events : c.bucket = MinuteOf(e.ts) /\ c.stream = StreamID(e)

(* addSnuffleLogLabel keeps the aliases in step, whatever the map ends with.*)
LEMMA CollapsedOK ==
    ASSUME NEW m, NEW l \in Collapsed(m)
    PROVE  LabelsOK(l)
  <1> DEFINE names == UNION {KeptNames(a) : a \in DOMAIN m}
  <1>1. PICK w \in [names -> DOMAIN m] :
            /\ \A n \in names : n \in KeptNames(w[n]) /\ \A o \in KeptNames(n) : w[o] = w[n]
            /\ l = [n \in names |-> m[w[n]]]
    BY DEF Collapsed
  <1>2. ASSUME NEW g \in {ServiceNames, LevelNames} PROVE InStep(l, g)
    <2>1. SUFFICES ASSUME NEW x \in g, NEW y \in g, x \in DOMAIN l
                   PROVE  y \in DOMAIN l /\ l[y] = l[x]
      BY DEF InStep
    <2>2. PICK a \in DOMAIN m : x \in KeptNames(a)
      BY <1>1, <2>1
    <2>3. y \in KeptNames(a) /\ y \in KeptNames(x)
      BY <1>2, <2>1, <2>2 DEF KeptNames, ServiceNames, LevelNames, LevelAliases
    <2>4. y \in names /\ x \in names
      BY <2>2, <2>3
    <2>5. w[y] = w[x]
      BY <1>1, <2>3, <2>4
    <2> QED
      BY <1>1, <2>4, <2>5
  <1>3. \A a : "severity" \notin KeptNames(a)
    BY DEF KeptNames, ServiceNames, LevelNames, LevelAliases
  <1> QED
    BY <1>1, <1>2, <1>3 DEF LabelsOK

(* Every inserted row has a level: at worst the one its line suggests.      *)
LEMMA InsertedRowOK ==
    ASSUME NEW e, e.ts \in Int, {"words", "hidden"} \subseteq DOMAIN e.line, e.line.word # Empty,
           NEW r \in lokiInsertRow(e)
    PROVE  RowOK(r)
  <1>1. PICK l \in Collapsed(e.labels), f \in Collapsed(e.meta) : r = InsertedRow(e, l, f)
    BY DEF lokiInsertRow
  <1> DEFINE last(n) == IF n \in DOMAIN f THEN f[n] ELSE Get(l, n)
             severity == IF last("level") = Empty THEN inferLogSeverity(e.line) ELSE last("level")
             service == IF last("service_name") = Empty THEN Get(e.res, "service.name")
                        ELSE last("service_name")
  <1>2. severity # Empty
    BY DEF inferLogSeverity
  <1>3. /\ r.ts = e.ts /\ r.line = e.line
        /\ r.labels = Over(Core(ServiceNames, service), Over(Core(LevelNames, severity), l))
    BY <1>1 DEF InsertedRow
  <1> HIDE DEF severity, service
  <1> DEFINE L == Over(Core(LevelNames, severity), l)
  <1>4. LabelsOK(l)
    BY CollapsedOK
  <1>5. DOMAIN Core(LevelNames, severity) = LevelNames
        /\ \A n \in LevelNames : Core(LevelNames, severity)[n] = severity
    BY <1>2 DEF Core
  <1>6. /\ DOMAIN L = LevelNames \cup DOMAIN l
        /\ \A n \in LevelNames : L[n] = severity
        /\ \A n \in DOMAIN l \ LevelNames : L[n] = l[n]
    BY <1>5 DEF Over
  <1> HIDE DEF L
  <1>7. "level" \in DOMAIN L /\ LabelsOK(L)
    BY <1>4, <1>6 DEF LabelsOK, InStep, ServiceNames, LevelNames
  <1>8. CASE service = Empty
    <2>1. Core(ServiceNames, service) = <<>> /\ DOMAIN Core(ServiceNames, service) = {}
      BY <1>8 DEF Core
    <2>2. DOMAIN r.labels = DOMAIN L /\ \A n \in DOMAIN L : r.labels[n] = L[n]
      BY <1>3, <2>1 DEF Over, L
    <2> QED
      BY <1>3, <1>7, <2>2 DEF RowOK, LabelsOK, InStep
  <1>9. CASE service # Empty
    <2>1. DOMAIN Core(ServiceNames, service) = ServiceNames
          /\ \A n \in ServiceNames : Core(ServiceNames, service)[n] = service
      BY <1>9 DEF Core
    <2>2. /\ DOMAIN r.labels = ServiceNames \cup DOMAIN L
          /\ \A n \in ServiceNames : r.labels[n] = service
          /\ \A n \in DOMAIN L \ ServiceNames : r.labels[n] = L[n]
      BY <1>3, <2>1 DEF Over, L
    <2> QED
      BY <1>3, <1>7, <2>2 DEF RowOK, LabelsOK, InStep, ServiceNames, LevelNames
  <1> QED
    BY <1>8, <1>9

(* A row of the statistics was made from a row of its minute and stream.    *)
LEMMA StatsFromRow ==
    ASSUME NEW p, NEW a, NEW rs, NEW c \in StatsOf(p, a, rs)
    PROVE  \E i \in DOMAIN rs : c.bucket = MinuteOf(rs[i].ts) /\ c.stream = StreamID(rs[i])
  <1> DEFINE row(b, s) == [tag |-> <<p, a>>, bucket |-> b, stream |-> s,
                           count |-> Cardinality(RowsAt(rs, b, s)),
                           bytes |-> BytesOf(rs, RowsAt(rs, b, s))]
  <1>1. PICK i \in DOMAIN rs : c = row(MinuteOf(rs[i].ts), StreamID(rs[i]))
    BY DEF StatsOf, RowsAt
  <1> QED
    BY <1>1

(* The line of a row: the same minute, stream and labels.                   *)
LEMMA LineOfRow ==
    ASSUME NEW p, NEW a, NEW rs, NEW i \in DOMAIN rs
    PROVE  \E e \in EventsOf(p, a, rs) : /\ e.ts = rs[i].ts /\ e.labels = rs[i].labels
                                         /\ StreamID(e) = StreamID(rs[i])
  <1> DEFINE line == [tag |-> <<p, a, i>>, labels |-> rs[i].labels, res |-> rs[i].res,
                      fields |-> rs[i].fields, attrs |-> rs[i].attrs, ts |-> rs[i].ts,
                      line |-> rs[i].line]
  <1>1. line \in EventsOf(p, a, rs)
    BY DEF EventsOf
  <1>2. line.ts = rs[i].ts /\ line.labels = rs[i].labels /\ StreamID(line) = StreamID(rs[i])
    BY DEF StreamID
  <1> QED
    BY ONLY <1>1, <1>2

LEMMA EventsRowOK ==
    ASSUME NEW p, NEW a, NEW rs, \A i \in DOMAIN rs : RowOK(rs[i]), NEW e \in EventsOf(p, a, rs)
    PROVE  RowOK(e)
  BY DEF EventsOf, RowOK

LEMMA IndexOfSound ==
    ASSUME NEW rs, NEW x \in IndexOf(rs)
    PROVE  x \in IndexEntries(x.stream)
  BY DEF IndexOf, IndexEntries

LEMMA ListStep == PushInv /\ ListInv /\ [PushNext]_pushVars => ListInv'
  <1> SUFFICES ASSUME PushInv, ListInv, [PushNext]_pushVars PROVE ListInv'
    OBVIOUS
  <1>1. ASSUME NEW p \in Pushes, NEW body \in Bodies[p], handleLokiPush(p, body) PROVE ListInv'
    <2>1. UNCHANGED <<labelIndex, events, stats>>
      BY <1>1 DEF handleLokiPush, tables
    <2>2. ASSUME NEW q \in Pushes, NEW i \in DOMAIN rows'[q] PROVE RowOK(rows'[q][i])
      <3>1. CASE rows' = rows
        BY <2>2, <3>1 DEF ListInv
      <3>2. CASE body # Malformed /\ \E rs \in Decoded(body) : rows' = [rows EXCEPT ![p] = rs]
        <4>1. PICK rs \in Decoded(body) : rows' = [rows EXCEPT ![p] = rs]
          BY <3>2
        <4>2. CASE q # p
          BY <2>2, <4>1, <4>2 DEF ListInv, PushInv, Shape
        <4>3. CASE q = p
          <5>1. rows'[q] = rs
            BY <4>1, <4>3 DEF PushInv, Shape
          <5>2. i \in DOMAIN body /\ rs[i] \in lokiInsertRow(body[i])
            BY <2>2, <5>1, <4>1 DEF Decoded
          <5>3. /\ body[i].ts \in Int /\ body[i].line.word # Empty
                /\ {"words", "hidden"} \subseteq DOMAIN body[i].line
            BY <3>2, <5>2, PushAssumption
          <5> QED
            BY <5>1, <5>2, <5>3, InsertedRowOK
        <4> QED
          BY <4>2, <4>3
      <3> QED
        BY <1>1, <3>1, <3>2 DEF handleLokiPush
    <2> QED
      BY <2>1, <2>2 DEF ListInv
  <1>2. ASSUME NEW p \in Pushes, pc[p] \in Inserting, Store(p), rows' = rows PROVE ListInv'
    <2>1. \A e \in events' : RowOK(e)
      BY <1>2, EventsRowOK DEF Store, ListInv
    <2>2. \A x \in labelIndex' : x \in IndexEntries(x.stream)
      BY <1>2, IndexOfSound DEF Store, ListInv
    <2>3. ASSUME NEW c \in stats'
          PROVE  \E e \in events' : c.bucket = MinuteOf(e.ts) /\ c.stream = StreamID(e)
      <3>1. CASE c \in stats
        BY <1>2, <3>1 DEF Store, ListInv
      <3>2. CASE pc[p] = "stats" /\ c \in StatsOf(p, attempt[p], rows[p])
        <4>1. EventsOf(p, attempt[p], rows[p]) \subseteq events'
          BY <1>2, <3>2 DEF PushInv, AttemptStored, OfAttempt, Store
        <4>2. PICK i \in DOMAIN rows[p] : c.bucket = MinuteOf(rows[p][i].ts) /\ c.stream = StreamID(rows[p][i])
          BY ONLY <3>2, StatsFromRow
        <4> QED
          BY <4>1, <4>2, LineOfRow
      <3> QED
        BY <1>2, <3>1, <3>2 DEF Store
    <2> QED
      BY <1>2, <2>1, <2>2, <2>3 DEF ListInv
  <1>3. CASE UNCHANGED <<rows, tables>>
    BY <1>3 DEF ListInv, tables
  <1>4. ASSUME NEW p \in Pushes, Insert(p) \/ InsertFails(p) \/ LoseAnswer(p) PROVE ListInv'
    BY <1>2, <1>3, <1>4 DEF Insert, InsertFails, LoseAnswer
  <1>5. CASE UNCHANGED pushVars
    BY <1>3, <1>5 DEF pushVars, tables
  <1> QED
    BY <1>1, <1>4, <1>5 DEF PushNext

LEMMA ListInvariant == PushSpec => []ListInv
  <1>1. PushInit => ListInv
    BY DEF PushInit, ListInv
  <1> QED
    BY <1>1, ListStep, PushInvariant, PTL DEF PushSpec

-----------------------------------------------------------------------------
(* The minute of a time is its own minute.                                  *)
LEMMA MinuteIdempotent ==
    ASSUME NEW t \in Int
    PROVE  MinuteOf(t) \in Int /\ MinuteOf(MinuteOf(t)) = MinuteOf(t)
  <1>1. Minute \in Nat \ {0}
    BY PushAssumption
  <1> QED
    BY <1>1 DEF MinuteOf

(* The first of some names, if it has a value.                              *)
LEMMA FirstOfNames ==
    ASSUME NEW m, NEW names, 1 \in DOMAIN names, DOMAIN names \subseteq Nat \ {0},
           Get(m, names[1]) # Empty
    PROVE  FirstValue(m, names) = Get(m, names[1])
  <1> DEFINE given == {i \in DOMAIN names : Get(m, names[i]) # Empty}
  <1>1. 1 \in given /\ \A i \in given : i \in Nat /\ 1 <= i
    OBVIOUS
  <1> HIDE DEF given
  <1>2. Min(given) = 1
    BY <1>1 DEF Min
  <1>3. FirstValue(m, names) = m[names[Min(given)]]
    BY <1>1 DEF FirstValue, given
  <1> QED
    BY <1>2, <1>3 DEF Get

(* The cases of a stream's label in SQL, one by one.                        *)
LEMMA StreamLabelCases ==
    ASSUME NEW s, NEW n
    PROVE  /\ n \in ServiceNames /\ "service_name" \in DOMAIN s.labels =>
                 StreamLabelValue(s, n) = s.labels["service_name"]
           /\ n \in ServiceNames /\ "service_name" \notin DOMAIN s.labels =>
                 StreamLabelValue(s, n) = Get(s.res, "service.name")
           /\ n \in LevelAliases => StreamLabelValue(s, n) = Get(s.labels, "level")
           /\ n = "trace_id" => StreamLabelValue(s, n) = Get(s.labels, n)
           /\ n \notin ServiceNames \cup LevelAliases \cup {"trace_id"} =>
                 /\ n \in DOMAIN s.labels => StreamLabelValue(s, n) = s.labels[n]
                 /\ n \notin DOMAIN s.labels => StreamLabelValue(s, n) = Get(s.res, n)
  <1>1. "trace_id" \notin ServiceNames \cup LevelAliases /\ ServiceNames \cap LevelAliases = {}
    BY DEF ServiceNames, LevelNames, LevelAliases
  <1>2. CASE n \in ServiceNames
    BY <1>1, <1>2, Zenon DEF StreamLabelValue
  <1>3. CASE n \in LevelAliases
    <2>1. n \notin ServiceNames
      BY <1>1, <1>3
    <2> QED
      BY <1>1, <1>3, <2>1 DEF StreamLabelValue
  <1>4. CASE n \notin ServiceNames /\ n \notin LevelAliases
    BY <1>1, <1>4 DEF StreamLabelValue
  <1> QED
    BY <1>2, <1>3, <1>4

(* What a label of a stream is: in SQL, in the index and as it is shown.    *)
LEMMA StreamLabel ==
    ASSUME NEW r, RowOK(r),
           NEW n, n \in DOMAIN r.labels \cup {a \in DOMAIN r.res : KeptNames(a) = {a}},
           StreamLabelValue(r, n) # Empty
    PROVE  LET s == StreamID(r)  v == StreamLabelValue(r, n)
           IN  /\ StreamLabelValue(s, n) = v
               /\ [name |-> n, value |-> v, stream |-> s] \in IndexEntries(s)
               /\ n \in KeptNames(n)
               /\ Get(snuffleStreamLabels(s), n) = v
               /\ v = Get(s.labels, n) \/ v = Get(s.res, n)
  <1> DEFINE s == StreamID(r)
             v == StreamLabelValue(r, n)
  <1>1. s.labels = r.labels /\ s.res = r.res
    BY DEF StreamID
  <1>2. StreamLabelValue(s, n) = v
    BY <1>1 DEF StreamLabelValue
  <1>3. n # "severity" /\ LabelsOK(s.labels)
    BY <1>1 DEF RowOK, LabelsOK, KeptNames, ServiceNames, LevelNames, LevelAliases
  <1>4. n \in KeptNames(n)
    BY <1>3 DEF KeptNames, LevelAliases
  <1>5. n \notin DOMAIN s.labels => n \in DOMAIN s.res /\ n \notin ServiceNames \cup LevelAliases
    BY <1>1 DEF KeptNames, ServiceNames, LevelNames, LevelAliases
  <1>7. v # Empty
    OBVIOUS
  <1> HIDE DEF s, v
  <1>6. \/ n \in DOMAIN s.labels /\ v = s.labels[n]
        \/ /\ n \notin DOMAIN s.labels /\ n \in DOMAIN s.res /\ v = s.res[n]
           /\ n \notin ServiceNames \cup LevelAliases
    <2>1. CASE n \in ServiceNames
      BY <1>2, <1>3, <1>5, <2>1, StreamLabelCases DEF LabelsOK, InStep, ServiceNames
    <2>2. CASE n \in LevelAliases
      <3>1. n \in LevelNames /\ n \notin ServiceNames /\ "level" \in LevelNames
        BY <1>3, <2>2 DEF ServiceNames, LevelNames, LevelAliases
      <3>2. n \in DOMAIN s.labels /\ v = Get(s.labels, "level")
        BY <1>2, <1>5, <2>2, StreamLabelCases
      <3> QED
        BY <1>3, <3>1, <3>2 DEF LabelsOK, InStep, Get
    <2>3. CASE n \notin ServiceNames \cup LevelAliases
      BY <1>2, <1>5, <1>7, <2>3, StreamLabelCases DEF Get
    <2> QED
      BY <2>1, <2>2, <2>3
  <1>8. [name |-> n, value |-> v, stream |-> s] \in IndexEntries(s)
    BY <1>6, <1>7 DEF IndexEntries
  <1>9. Get(snuffleStreamLabels(s), n) = v
    <2> DEFINE full(m) == Only(m, {x \in DOMAIN m : m[x] # Empty})
               out == Over(full(s.labels), full(s.res))
               sv == FirstValue(out, <<"service_name", "service.name">>)
               lv == FirstValue(out, <<"level", "severity_text", "detected_level">>)
               svc == Core(ServiceNames, sv)
               lvl == Core(LevelNames, lv)
    <2>1. snuffleStreamLabels(s) = Over(svc, Over(lvl, out))
      BY DEF snuffleStreamLabels
    <2>2. \A x \in DOMAIN s.labels : s.labels[x] # Empty => x \in DOMAIN out /\ out[x] = s.labels[x]
      BY DEF Over, Only
    <2>3. n \in DOMAIN out /\ out[n] = v
      BY <1>6, <1>7 DEF Over, Only
    <2> HIDE DEF out
    <2>4. DOMAIN svc \subseteq ServiceNames /\ DOMAIN lvl \subseteq LevelNames
      BY DEF Core
    <2>5. CASE n \in ServiceNames
      <3>1. "service_name" \in DOMAIN s.labels /\ s.labels["service_name"] = v
        BY <1>3, <1>6, <2>5 DEF LabelsOK, InStep, ServiceNames
      <3>2. Get(out, "service_name") = v
        BY <1>7, <2>2, <3>1 DEF Get
      <3>3. sv = v
        BY <1>7, <3>2, FirstOfNames
      <3> HIDE DEF sv
      <3>4. n \in DOMAIN svc /\ svc[n] = v
        BY <1>7, <2>5, <3>3 DEF Core
      <3> HIDE DEF svc
      <3> QED
        BY <2>1, <3>4 DEF Over, Get
    <2>6. CASE n \in LevelNames
      <3>1. "level" \in DOMAIN s.labels /\ s.labels["level"] = v
        BY <1>3, <1>6, <2>6 DEF LabelsOK, InStep, LevelNames, LevelAliases
      <3>2. Get(out, "level") = v
        BY <1>7, <2>2, <3>1 DEF Get
      <3>3. lv = v
        BY <1>7, <3>2, FirstOfNames
      <3> HIDE DEF lv
      <3>4. n \in DOMAIN lvl /\ lvl[n] = v /\ n \notin ServiceNames
        BY <1>7, <2>6, <3>3 DEF Core, ServiceNames, LevelNames
      <3> HIDE DEF svc, lvl
      <3> QED
        BY <2>1, <2>4, <3>4 DEF Over, Get
    <2>7. CASE n \notin ServiceNames /\ n \notin LevelNames
      <3> HIDE DEF svc, lvl
      <3> QED
        BY <2>1, <2>3, <2>4, <2>7 DEF Over, Get
    <2> QED
      BY <2>5, <2>6, <2>7
  <1>10. v = Get(s.labels, n) \/ v = Get(s.res, n)
    BY <1>6 DEF Get
  <1> QED
    BY <1>2, <1>4, <1>8, <1>9, <1>10 DEF s, v

(* The stream of an acknowledged row is in the table the listings read at   *)
(* the time of the row, and active in that minute.                         *)
LEMMA AckedActive ==
    ASSUME PushInv, ListInv, config.layout = "snuffle", NEW p \in Pushes, pc[p] = "acked",
           NEW i \in DOMAIN rows[p]
    PROVE  LET r == rows[p][i]
           IN  /\ StreamID(r) \in StreamsTable(r.ts, r.ts)
               /\ Has("labels") => IndexEntries(StreamID(r)) \subseteq labelIndex
               /\ Has("stats") => StreamID(r) \in ActiveStreams(r.ts, r.ts)
  <1> DEFINE r == rows[p][i]
             s == StreamID(r)
  <1>1. PICK e \in EventsOf(p, attempt[p], rows[p]) : StreamID(e) = s
    BY LineOfRow
  <1>2. e \in events
    BY DEF PushInv, AttemptStored, OfAttempt
  <1>3. s \in streams /\ (Has("labels") => IndexEntries(s) \subseteq labelIndex)
    BY <1>1, <1>2 DEF PushInv, EventJoined
  <1>4. ASSUME Has("stats") PROVE s \in ActiveStreams(r.ts, r.ts)
    <2>1. StatsOf(p, attempt[p], rows[p]) \subseteq stats
      BY <1>4 DEF PushInv, StatsStored
    <2>2. PICK c \in StatsOf(p, attempt[p], rows[p]) : c.bucket = MinuteOf(r.ts) /\ c.stream = s
      <3> DEFINE row(b, x) == [tag |-> <<p, attempt[p]>>, bucket |-> b, stream |-> x,
                               count |-> Cardinality(RowsAt(rows[p], b, x)),
                               bytes |-> BytesOf(rows[p], RowsAt(rows[p], b, x))]
      <3>1. row(MinuteOf(r.ts), s) \in StatsOf(p, attempt[p], rows[p])
        BY DEF StatsOf, RowsAt
      <3> QED
        BY ONLY <3>1
    <2>3. MinuteOf(r.ts) \in Int
      BY MinuteIdempotent DEF ListInv, RowOK
    <2> QED
      BY <2>1, <2>2, <2>3 DEF ActiveStreams
  <1> QED
    BY <1>3, <1>4 DEF StreamsTable

(* Every label of the stream of an acknowledged line is listed at its time: *)
(* the stream by /series, the value by label values and the name by labels *)
(* (handleLokiSeries, handleLokiLabelValues, handleLokiLabels).            *)
THEOREM AckedListed == PushSpec => []AckedStreamListed
  <1>1. ASSUME PushInv, ListInv PROVE AckedStreamListed
    <2> SUFFICES ASSUME config.layout = "snuffle", NEW p \in Pushes, pc[p] = "acked",
                        NEW i \in DOMAIN rows[p], NEW r, r = rows[p][i],
                        NEW n \in DOMAIN r.labels \cup {a \in DOMAIN r.res : KeptNames(a) = {a}},
                        StreamLabelValue(r, n) # Empty,
                        NEW m, m = [name |-> n, op |-> "=", vals |-> {StreamLabelValue(r, n)}]
                 PROVE  /\ snuffleStreamLabels(StreamID(r)) \in Series({m}, r.ts, r.ts)
                        /\ StreamLabelValue(r, n) \in LabelValues(n, r.ts, r.ts)
                        /\ n \in LabelNames(r.ts, r.ts)
      BY DEF AckedStreamListed
    <2> DEFINE s == StreamID(r)
               v == StreamLabelValue(r, n)
    <2>1. /\ s \in StreamsTable(r.ts, r.ts)
          /\ Has("labels") => IndexEntries(s) \subseteq labelIndex
          /\ Has("stats") => s \in ActiveStreams(r.ts, r.ts)
      BY <1>1, AckedActive
    <2>2. /\ StreamLabelValue(s, n) = v
          /\ [name |-> n, value |-> v, stream |-> s] \in IndexEntries(s)
          /\ n \in KeptNames(n)
          /\ Get(snuffleStreamLabels(s), n) = v
          /\ v = Get(s.labels, n) \/ v = Get(s.res, n)
      BY <1>1, StreamLabel DEF ListInv
    <2>3. s.labels = r.labels /\ s.res = r.res /\ v # Empty
      BY DEF StreamID
    <2> HIDE DEF s, v
    <2>4. m.name = n /\ Matches(m, v)
      BY DEF Matches, v
    <2>5. snuffleStreamLabels(s) \in Series({m}, r.ts, r.ts)
      <3>1. MatcherLabelValue(snuffleStreamLabels(s), n) = v
        BY <2>2, <2>3 DEF MatcherLabelValue, Get
      <3> QED
        BY <2>1, <2>2, <2>4, <3>1 DEF Series
    <2>6. v \in LabelValues(n, r.ts, r.ts)
      <3>1. CASE Has("labels") /\ Has("stats")
        BY <2>1, <2>2, <3>1 DEF LabelValues, ValuesFromIndex
      <3>2. CASE ~(Has("labels") /\ Has("stats"))
        BY <2>1, <2>2, <2>3, <3>2 DEF LabelValues, ValuesFromStreams
      <3> QED
        BY <3>1, <3>2
    <2>7. n \in LabelNames(r.ts, r.ts)
      BY <2>1, <2>3 DEF LabelNames
    <2> QED
      BY <2>5, <2>6, <2>7 DEF s, v
  <1> QED
    BY <1>1, PushInvariant, ListInvariant, PTL

(* An entry of the index of a line's stream, found under one of its names,  *)
(* is that label of the line, unless it is an attribute SQL does not see.  *)
LEMMA IndexedLabel ==
    ASSUME NEW e, RowOK(e), NEW x \in IndexEntries(StreamID(e)), NEW n, x.name \in KeptNames(n)
    PROVE  \/ x.value = LabelValue(e, n)
           \/ HiddenAttribute(e, x.name) /\ x.value = e.res[x.name]
  <1> DEFINE a == x.name
  <1>1. /\ x.value # Empty
        /\ \/ a \in DOMAIN e.labels /\ x.value = e.labels[a]
           \/ a \notin DOMAIN e.labels /\ a \in DOMAIN e.res /\ x.value = e.res[a]
    BY DEF IndexEntries, StreamID
  <1>2. LabelsOK(e.labels) /\ "level" \in DOMAIN e.labels
    BY DEF RowOK
  <1> HIDE DEF a
  <1>3. CASE n \in ServiceNames
    <2>1. a \in ServiceNames
      BY <1>3 DEF KeptNames, a
    <2>2. CASE a \in DOMAIN e.labels
      <3>1. "service_name" \in DOMAIN e.labels /\ e.labels["service_name"] = x.value
        BY <1>1, <1>2, <2>1, <2>2 DEF LabelsOK, InStep, ServiceNames
      <3>2. StreamLabelValue(e, n) = x.value
        BY <1>3, <3>1, StreamLabelCases
      <3> QED
        BY <1>1, <1>3, <3>2 DEF LabelValue
    <2>3. CASE a \notin DOMAIN e.labels /\ a = "service.name"
      <3>1. "service_name" \notin DOMAIN e.labels
        BY <1>2, <2>3 DEF LabelsOK, InStep, ServiceNames
      <3>2. StreamLabelValue(e, n) = x.value
        BY <1>1, <1>3, <2>3, <3>1, StreamLabelCases DEF Get
      <3> QED
        BY <1>1, <1>3, <3>2 DEF LabelValue
    <2>4. CASE a \notin DOMAIN e.labels /\ a = "service_name"
      BY <1>1, <2>4 DEF HiddenAttribute, a
    <2> QED
      BY <2>1, <2>2, <2>3, <2>4 DEF ServiceNames
  <1>4. CASE n \in LevelAliases
    <2>1. n \notin ServiceNames
      BY <1>4 DEF ServiceNames, LevelNames, LevelAliases
    <2>2. a \in LevelNames
      BY <1>4, <2>1 DEF KeptNames, a
    <2>3. a \in DOMAIN e.labels /\ x.value = e.labels["level"]
      BY <1>1, <1>2, <2>2 DEF LabelsOK, InStep, LevelNames
    <2>4. StreamLabelValue(e, n) = x.value
      BY <1>2, <1>4, <2>3, StreamLabelCases DEF Get
    <2> QED
      BY <1>1, <1>4, <2>1, <2>4 DEF LabelValue
  <1>5. CASE n \notin ServiceNames /\ n \notin LevelAliases
    <2>1. a = n
      BY <1>5 DEF KeptNames, a
    <2>2. CASE a \in DOMAIN e.labels
      <3>1. StreamLabelValue(e, n) = x.value
        BY <1>1, <1>5, <2>1, <2>2, StreamLabelCases DEF Get
      <3>2. n \notin DOMAIN e.fields \ DOMAIN e.labels
        BY <2>1, <2>2
      <3> QED
        BY <1>5, <3>1, <3>2 DEF LabelValue
    <2>3. CASE a \notin DOMAIN e.labels /\ (a \in DOMAIN e.fields \/ a = "trace_id")
      BY <1>1, <2>3 DEF HiddenAttribute, a
    <2>4. CASE a \notin DOMAIN e.labels /\ a \notin DOMAIN e.fields /\ a # "trace_id"
      <3>1. StreamLabelValue(e, n) = x.value
        BY <1>1, <1>5, <2>1, <2>4, StreamLabelCases DEF Get
      <3> QED
        BY <1>5, <2>1, <2>4, <3>1 DEF LabelValue
    <2> QED
      BY <2>2, <2>3, <2>4
  <1> QED
    BY <1>3, <1>4, <1>5

(* A stream that is active in one minute has a line in it.                  *)
LEMMA ActiveHasLine ==
    ASSUME ListInv, NEW c \in stats, NEW s \in ActiveStreams(c.bucket, c.bucket)
    PROVE  \E e \in events : MinuteOf(e.ts) = c.bucket /\ StreamID(e) = s
  <1>1. PICK d \in stats : /\ s = d.stream
                           /\ d.bucket >= MinuteOf(c.bucket) /\ d.bucket <= MinuteOf(c.bucket)
    BY DEF ActiveStreams
  <1>2. PICK e \in events : c.bucket = MinuteOf(e.ts)
    BY DEF ListInv
  <1>3. PICK f \in events : d.bucket = MinuteOf(f.ts) /\ d.stream = StreamID(f)
    BY DEF ListInv
  <1>4. e.ts \in Int /\ f.ts \in Int
    BY DEF ListInv, RowOK
  <1>5. c.bucket \in Int /\ d.bucket \in Int /\ MinuteOf(c.bucket) = c.bucket
    BY <1>2, <1>3, <1>4, MinuteIdempotent
  <1> QED
    BY <1>1, <1>3, <1>5

(* A listing from the statistics offers only streams, and values of labels, *)
(* of lines that are stored, also while pushes are under way or have       *)
(* failed (insertSnuffleLokiLogRows writes the statistics last).           *)
THEOREM ListedBacked == PushSpec => []ListedHasLines
  <1>1. ASSUME ListInv PROVE ListedHasLines
    <2> SUFFICES ASSUME config.layout = "snuffle", Has("stats"), NEW b \in {c.bucket : c \in stats}
                 PROVE  LET lines == {e \in events : MinuteOf(e.ts) = b}
                        IN  /\ Series({}, b, b) \subseteq {snuffleStreamLabels(StreamID(e)) : e \in lines}
                            /\ Has("labels") => \A n \in LabelNames(b, b) : \A v \in LabelValues(n, b, b) :
                                  \E e \in lines :
                                     \/ v = LabelValue(e, n)
                                     \/ \E a \in KeptNames(n) : HiddenAttribute(e, a) /\ v = e.res[a]
      BY Zenon DEF ListedHasLines
    <2> DEFINE lines == {e \in events : MinuteOf(e.ts) = b}
    <2>1. \A s \in ActiveStreams(b, b) : \E e \in lines : StreamID(e) = s
      BY <1>1, ActiveHasLine
    <2>2. Series({}, b, b) \subseteq {snuffleStreamLabels(StreamID(e)) : e \in lines}
      <3>1. \A l \in Series({}, b, b) : \E s \in ActiveStreams(b, b) : l = snuffleStreamLabels(s)
        BY DEF Series, StreamsTable
      <3> QED
        BY <2>1, <3>1
    <2>3. ASSUME Has("labels"), NEW n \in LabelNames(b, b), NEW v \in LabelValues(n, b, b)
          PROVE  \E e \in lines :
                    \/ v = LabelValue(e, n)
                    \/ \E a \in KeptNames(n) : HiddenAttribute(e, a) /\ v = e.res[a]
      <3>1. PICK x \in labelIndex :
                x.name \in KeptNames(n) /\ x.value = v /\ x.stream \in ActiveStreams(b, b)
        BY <2>3 DEF LabelValues, ValuesFromIndex
      <3>2. PICK e \in lines : StreamID(e) = x.stream
        BY <2>1, <3>1
      <3>3. RowOK(e) /\ x \in IndexEntries(StreamID(e))
        BY <1>1, <3>2 DEF ListInv
      <3>4. v = LabelValue(e, n) \/ (HiddenAttribute(e, x.name) /\ v = e.res[x.name])
        BY <3>1, <3>3, IndexedLabel
      <3> QED
        BY <3>1, <3>4
    <2> QED
      BY <2>2, <2>3
  <1> QED
    BY <1>1, ListInvariant, PTL

-----------------------------------------------------------------------------
(* Sets and numbers.                                                        *)

(* A nonempty set of naturals has a least element.                          *)
LEMMA LeastNatural ==
    ASSUME NEW T \in SUBSET Nat, T # {}
    PROVE  \E i \in T : \A j \in T : i <= j
  <1> DEFINE Less == {ss \in Nat \X Nat : ss[1] < ss[2]}
  <1>1. IsWellFoundedOn(Less, Nat)
    BY NatLessThanWellFounded, Zenon DEF OpToRel
  <1> HIDE DEF Less
  <1>2. \E i \in T : \A j \in T : ~(<<j, i>> \in Less)
    BY <1>1, WFMin
  <1>3. PICK i \in T : \A j \in T : ~(<<j, i>> \in Less)
    BY <1>2
  <1>4. ASSUME NEW j \in T PROVE i <= j
    <2>1. i \in Nat /\ j \in Nat /\ ~(<<j, i>> \in Less)
      BY <1>3
    <2>2. j < i => <<j, i>> \in Less
      BY <2>1 DEF Less
    <2> QED
      BY <2>1, <2>2
  <1> QED
    BY <1>3, <1>4

(* Induction, for a property given as the set of numbers that have it.      *)
LEMMA InductionBySet ==
    ASSUME NEW S, 0 \in S, \A n \in Nat : n \in S => n + 1 \in S
    PROVE  \A n \in Nat : n \in S
  <1> SUFFICES ASSUME NEW T, T = Nat \ S, T # {} PROVE FALSE
    OBVIOUS
  <1>1. T \in SUBSET Nat
    OBVIOUS
  <1>2. PICK i \in T : \A j \in T : i <= j
    BY <1>1, LeastNatural
  <1>3. i \in Nat /\ i \notin S /\ i # 0
    BY <1>2
  <1>4. i - 1 \in Nat /\ i - 1 \notin T
    BY <1>2, <1>3
  <1> QED
    BY <1>3, <1>4

(* The images of finitely many things; as many, if all are different.       *)
LEMMA ImageSize ==
    ASSUME NEW S, IsFiniteSet(S), NEW f, DOMAIN f = S, NEW T, T = {f[x] : x \in S}
    PROVE  /\ IsFiniteSet(T)
           /\ Cardinality(T) <= Cardinality(S)
           /\ (\A x, y \in S : f[x] = f[y] => x = y) => Cardinality(T) = Cardinality(S)
  <1> DEFINE g == [x \in S |-> f[x]]
  <1>1. g \in [S -> T] /\ \A t \in T : \E x \in S : g[x] = t
    OBVIOUS
  <1>2. g \in Surjection(S, T)
    BY <1>1 DEF Surjection
  <1>3. ASSUME \A x, y \in S : f[x] = f[y] => x = y PROVE g \in Injection(S, T)
    <2>1. \A x, y \in S : g[x] = g[y] => x = y
      BY <1>3
    <2>2. DOMAIN g = S
      OBVIOUS
    <2> HIDE DEF g
    <2> QED
      BY <1>1, <2>1, <2>2 DEF Injection, IsInjective
  <1> HIDE DEF g
  <1>4. IsFiniteSet(T) /\ Cardinality(T) <= Cardinality(S)
        /\ (Cardinality(T) = Cardinality(S) <=> g \in Injection(S, T))
    BY <1>2, FS_Surjection
  <1> QED
    BY <1>3, <1>4

-----------------------------------------------------------------------------
(* Queries do not disturb the pushes.                                       *)
LEMMA QueriesReadOnly == [Next]_vars => [PushNext]_pushVars
  <1> SUFFICES ASSUME [Next]_vars PROVE PushNext \/ UNCHANGED pushVars
    BY DEF pushVars
  <1>1. ASSUME NEW q \in Queries, handleLokiQuery(q) PROVE UNCHANGED pushVars
    BY <1>1 DEF handleLokiQuery
  <1>2. CASE ReadLogs
    BY <1>2 DEF ReadLogs
  <1>3. CASE MetricSQL
    BY <1>3 DEF MetricSQL
  <1>4. CASE FetchSelector
    BY <1>4 DEF FetchSelector
  <1>5. CASE Evaluate
    BY <1>5 DEF Evaluate
  <1>6. CASE QueryFails
    BY <1>6 DEF QueryFails
  <1>7. CASE Reply
    BY <1>7 DEF Reply
  <1>8. CASE UNCHANGED vars
    BY <1>8 DEF vars
  <1> QED
    BY <1>1, <1>2, <1>3, <1>4, <1>5, <1>6, <1>7, <1>8 DEF Next, QueryNext

(* The pushes beside a query are those of LokiPush, so that everything      *)
(* proved of it holds here: a query handler writes no table.               *)
THEOREM PushesUndisturbed == Spec => PushSpec
  <1>1. Init => PushInit
    BY DEF Init
  <1> QED
    BY <1>1, QueriesReadOnly, PTL DEF Spec, PushSpec

(* Lines are told apart by their tags.                                      *)
LineInv ==
    /\ IsFiniteSet(events)
    /\ \A e, f \in events : e.tag = f.tag => e = f

LEMMA LineStep == PushInv /\ LineInv /\ [PushNext]_pushVars => LineInv'
  <1> SUFFICES ASSUME PushInv, LineInv, [PushNext]_pushVars PROVE LineInv'
    OBVIOUS
  <1>1. CASE UNCHANGED events
    BY <1>1 DEF LineInv
  <1>2. ASSUME NEW p \in Pushes, pc[p] = "events",
               events' = events \cup EventsOf(p, attempt[p], rows[p])
        PROVE  LineInv'
    <2> DEFINE new == EventsOf(p, attempt[p], rows[p])
    <2>1. IsFiniteSet(new)
      <3>1. IsFiniteSet(DOMAIN rows[p])
        BY DEF PushInv, Shape
      <3> DEFINE f == [i \in DOMAIN rows[p] |->
                    [tag |-> <<p, attempt[p], i>>, labels |-> rows[p][i].labels,
                     res |-> rows[p][i].res, fields |-> rows[p][i].fields,
                     attrs |-> rows[p][i].attrs, ts |-> rows[p][i].ts, line |-> rows[p][i].line]]
      <3>2. DOMAIN f = DOMAIN rows[p] /\ new = {f[i] : i \in DOMAIN rows[p]}
        BY DEF EventsOf
      <3> HIDE DEF f, new
      <3> QED
        BY <3>1, <3>2, ImageSize
    <2>2. IsFiniteSet(events')
      BY <1>2, <2>1, FS_Union DEF LineInv
    <2>3. ASSUME NEW e \in new, NEW f \in new, e.tag = f.tag PROVE e = f
      <3>1. PICK i \in DOMAIN rows[p] : e = [tag |-> <<p, attempt[p], i>>, labels |-> rows[p][i].labels,
                res |-> rows[p][i].res, fields |-> rows[p][i].fields, attrs |-> rows[p][i].attrs,
                ts |-> rows[p][i].ts, line |-> rows[p][i].line]
        BY <2>3 DEF EventsOf
      <3>2. PICK j \in DOMAIN rows[p] : f = [tag |-> <<p, attempt[p], j>>, labels |-> rows[p][j].labels,
                res |-> rows[p][j].res, fields |-> rows[p][j].fields, attrs |-> rows[p][j].attrs,
                ts |-> rows[p][j].ts, line |-> rows[p][j].line]
        BY <2>3 DEF EventsOf
      <3>3. i = j
        BY <2>3, <3>1, <3>2
      <3> QED
        BY <3>1, <3>2, <3>3
    <2>4. ASSUME NEW e \in events, NEW f \in new PROVE e.tag # f.tag
      <3>1. f.tag[1] = p /\ f.tag[2] = attempt[p]
        BY <2>4, EventsStream
      <3>2. e.tag[2] = attempt[e.tag[1]] => pc[e.tag[1]] \in {"stats", "acked", "failed"}
        BY <2>4 DEF PushInv, TagsKept
      <3> QED
        BY <1>2, <3>1, <3>2
    <2> HIDE DEF new
    <2> QED
      BY <1>2, <2>2, <2>3, <2>4 DEF LineInv, new
  <1>3. ASSUME NEW p \in Pushes, pc[p] \in Inserting, Store(p) PROVE LineInv'
    BY <1>1, <1>2, <1>3 DEF Store
  <1>4. ASSUME NEW p \in Pushes, NEW body \in Bodies[p], handleLokiPush(p, body) PROVE UNCHANGED events
    BY <1>4 DEF handleLokiPush, tables
  <1>5. ASSUME NEW p \in Pushes, Insert(p) \/ InsertFails(p) \/ LoseAnswer(p) PROVE LineInv'
    BY <1>1, <1>3, <1>5 DEF Insert, InsertFails, LoseAnswer, tables
  <1>6. CASE UNCHANGED pushVars
    BY <1>1, <1>6 DEF pushVars
  <1> QED
    BY <1>1, <1>4, <1>5, <1>6 DEF PushNext

LEMMA LineInvariant == PushSpec => []LineInv
  <1>1. PushInit => LineInv
    BY FS_EmptySet DEF PushInit, LineInv
  <1> QED
    BY <1>1, LineStep, PushInvariant, PTL DEF PushSpec

-----------------------------------------------------------------------------
(* Pipelines.                                                               *)
RowKeys == {"tag", "labels", "stream", "fields", "line", "ts", "unwrap", "ok"}
RowShape(row) == DOMAIN row = RowKeys /\ row.ok \in BOOLEAN
LineShape(line) == {"words", "hidden"} \subseteq DOMAIN line

(* What every stage leaves alone.                                           *)
SameLine(row, next) == next.tag = row.tag /\ next.ts = row.ts /\ (next.ok => row.ok)

LEMMA GoRowShape ==
    ASSUME NEW r
    PROVE  /\ RowShape(GoRow(r)) /\ GoRow(r).ok
           /\ GoRow(r).tag = r.tag /\ GoRow(r).ts = r.ts /\ GoRow(r).line = r.line
  BY DEF GoRow, RowShape, RowKeys

LEMMA WithFieldsStep ==
    ASSUME NEW row, RowShape(row), NEW m
    PROVE  /\ RowShape(WithFields(row, m)) /\ SameLine(row, WithFields(row, m))
           /\ WithFields(row, m).line = row.line
  BY DEF WithFields, RowShape, RowKeys, SameLine

LEMMA WithErrorStep ==
    ASSUME NEW row, RowShape(row), NEW err
    PROVE  /\ RowShape(WithError(row, err)) /\ SameLine(row, WithError(row, err))
           /\ WithError(row, err).line = row.line
  BY DEF WithError, RowShape, RowKeys, SameLine

(* One stage.                                                               *)
LEMMA StageStep ==
    ASSUME NEW row, RowShape(row), NEW st, st.kind \in StageKinds
    PROVE  /\ RowShape(applyStage(row, st))
           /\ SameLine(row, applyStage(row, st))
           /\ st.kind \notin {"line_format", "decolorize"} => applyStage(row, st).line = row.line
           /\ st.kind = "decolorize" => applyStage(row, st).line = decolorizeLogLine(row.line)
           /\ st.kind = "line_filter" => applyStage(row, st).ok = (row.ok /\ LineMatches(st, row.line))
  <1>1. CASE st.kind = "line_filter"
    <2>1. applyStage(row, st) = [row EXCEPT !.ok = row.ok /\ LineMatches(st, row.line)]
      BY <1>1 DEF applyStage
    <2> QED
      BY <1>1, <2>1 DEF RowShape, RowKeys, SameLine
  <1>2. CASE st.kind = "parser"
    <2>1. applyStage(row, st) = applyParser(row, st)
      BY <1>2 DEF applyStage
    <2> QED
      BY <1>2, <2>1, WithFieldsStep, WithErrorStep DEF applyParser
  <1>3. CASE st.kind = "label_filter"
    <2> DEFINE match == FiltersMatch(st.filters, [i \in DOMAIN st.filters |-> FilterValue(row, st.filters[i].name)])
    <2>1. applyStage(row, st) = [row EXCEPT !.ok = row.ok /\ match]
      BY <1>3 DEF applyStage
    <2> HIDE DEF match
    <2> QED
      BY <1>3, <2>1 DEF RowShape, RowKeys, SameLine
  <1>4. CASE st.kind = "line_format"
    <2>1. applyStage(row, st) = [row EXCEPT !.line = Rendered(row, st.name)]
      BY <1>4 DEF applyStage
    <2> QED
      BY <1>4, <2>1 DEF RowShape, RowKeys, SameLine
  <1>5. CASE st.kind = "label_format"
    <2>1. applyStage(row, st) = [row EXCEPT !.labels = Over(Single(st.name, RowValue(row, st.from)), row.labels)]
      BY <1>5 DEF applyStage
    <2> QED
      BY <1>5, <2>1 DEF RowShape, RowKeys, SameLine
  <1>6. CASE st.kind = "drop"
    <2>1. \E l, f : applyStage(row, st) = [row EXCEPT !.labels = l, !.fields = f]
      BY <1>6, Zenon DEF applyStage
    <2> QED
      BY <1>6, <2>1 DEF RowShape, RowKeys, SameLine
  <1>7. CASE st.kind = "keep"
    <2>1. \E l, f : applyStage(row, st) = [row EXCEPT !.labels = l, !.fields = f]
      BY <1>7, Zenon DEF applyStage
    <2> QED
      BY <1>7, <2>1 DEF RowShape, RowKeys, SameLine
  <1>8. CASE st.kind = "decolorize"
    <2>1. applyStage(row, st) = [row EXCEPT !.line = decolorizeLogLine(row.line)]
      BY <1>8 DEF applyStage
    <2> QED
      BY <1>8, <2>1 DEF RowShape, RowKeys, SameLine
  <1>9. CASE st.kind = "unwrap"
    <2>1. \/ \E u : applyStage(row, st) = [row EXCEPT !.unwrap = u]
          \/ applyStage(row, st) = WithError(row, "SampleExtractionErr")
      BY <1>9 DEF applyStage
    <2>2. ASSUME NEW u, applyStage(row, st) = [row EXCEPT !.unwrap = u]
          PROVE  RowShape(applyStage(row, st)) /\ SameLine(row, applyStage(row, st)) /\ applyStage(row, st).line = row.line
      BY <2>2 DEF RowShape, RowKeys, SameLine
    <2> QED
      BY <1>9, <2>1, <2>2, WithErrorStep
  <1> QED
    BY <1>1, <1>2, <1>3, <1>4, <1>5, <1>6, <1>7, <1>8, <1>9 DEF StageKinds

(* The rows after each stage exist.                                         *)
LEMMA RowAfterSteps ==
    ASSUME NEW row, NEW stages, Len(stages) \in Nat
    PROVE  /\ RowAfter(row, stages)[0] = row
           /\ \A n \in 1 .. Len(stages) :
                RowAfter(row, stages)[n] = applyStage(RowAfter(row, stages)[n - 1], stages[n])
  <1> DEFINE Solves(f, n) == f = [k \in 0 .. n |-> IF k = 0 THEN row
                                                  ELSE applyStage(f[k - 1], stages[k])]
             S == {n \in Nat : \E f : Solves(f, n)}
  <1>1. 0 \in S
    <2>1. Solves([k \in 0 .. 0 |-> row], 0)
      OBVIOUS
    <2> QED
      BY <2>1
  <1>2. ASSUME NEW n \in Nat, n \in S PROVE n + 1 \in S
    <2>1. PICK f : Solves(f, n)
      BY <1>2
    <2> DEFINE g == [k \in 0 .. (n + 1) |-> IF k <= n THEN f[k] ELSE applyStage(f[n], stages[k])]
    <2>2. Solves(g, n + 1)
      <3> SUFFICES ASSUME NEW k \in 0 .. (n + 1)
                   PROVE  g[k] = IF k = 0 THEN row ELSE applyStage(g[k - 1], stages[k])
        OBVIOUS
      <3>1. CASE k <= n
        BY <2>1, <3>1
      <3>2. CASE k = n + 1
        BY <3>2
      <3> QED
        BY <3>1, <3>2
    <2> HIDE DEF g, Solves
    <2>3. n + 1 \in Nat /\ \E f2 : Solves(f2, n + 1)
      BY <2>2
    <2> QED
      BY <2>3
  <1>3. Len(stages) \in S
    <2> HIDE DEF S
    <2> QED
      BY <1>1, <1>2, InductionBySet
  <1>4. Solves(RowAfter(row, stages), Len(stages))
    BY <1>3 DEF RowAfter
  <1>5. RowAfter(row, stages)[0] = row
    BY <1>4
  <1>6. ASSUME NEW n \in 1 .. Len(stages)
        PROVE  RowAfter(row, stages)[n] = applyStage(RowAfter(row, stages)[n - 1], stages[n])
    <2>1. n \in 0 .. Len(stages) /\ n # 0
      OBVIOUS
    <2> QED
      BY <1>4, <2>1
  <1> QED
    BY <1>5, <1>6

Stages(stages) ==
    /\ Len(stages) \in Nat
    /\ DOMAIN stages = 1 .. Len(stages)
    /\ \A i \in DOMAIN stages : stages[i].kind \in StageKinds

(* The text of a line before the first line_format: as it was stored, if    *)
(* there are no colours or nothing removes them.                           *)
Plain(row, next) ==
    /\ LineShape(next.line)
    /\ next.line.words = row.line.words
    /\ next.line.hidden = row.line.hidden

NoFormat(stages, n) == \A k \in 1 .. n : stages[k].kind # "line_format"
Colourless(row, stages) ==
    row.line.hidden # {} => \A i \in DOMAIN stages : stages[i].kind # "decolorize"

(* Stages keep rows apart, drop them for good, and keep the text.           *)
LEMMA StagesKeep ==
    ASSUME NEW row, RowShape(row), LineShape(row.line), NEW stages, Stages(stages),
           Colourless(row, stages)
    PROVE  \A n \in 0 .. Len(stages) :
             /\ RowShape(RowAfter(row, stages)[n])
             /\ SameLine(row, RowAfter(row, stages)[n])
             /\ NoFormat(stages, n) => Plain(row, RowAfter(row, stages)[n])
  <1> DEFINE after == RowAfter(row, stages)
             Good(n) == /\ RowShape(after[n])
                        /\ SameLine(row, after[n])
                        /\ NoFormat(stages, n) => Plain(row, after[n])
             S == {n \in Nat : n <= Len(stages) => Good(n)}
  <1>1. Len(stages) \in Nat
    BY DEF Stages
  <1>2. after[0] = row /\ \A n \in 1 .. Len(stages) : after[n] = applyStage(after[n - 1], stages[n])
    BY <1>1, RowAfterSteps
  <1> HIDE DEF after
  <1>3. 0 \in S
    BY <1>1, <1>2 DEF SameLine, Plain
  <1>4. ASSUME NEW n \in Nat, n \in S PROVE n + 1 \in S
    <2> SUFFICES ASSUME n + 1 <= Len(stages) PROVE Good(n + 1)
      OBVIOUS
    <2> DEFINE st == stages[n + 1]
    <2>1. n + 1 \in 1 .. Len(stages) /\ Good(n)
      BY <1>1, <1>4
    <2>2. after[n + 1] = applyStage(after[n], st)
      BY <1>2, <2>1
    <2>3. st.kind \in StageKinds
      BY <2>1 DEF Stages
    <2>4. /\ RowShape(after[n + 1])
          /\ SameLine(after[n], after[n + 1])
          /\ st.kind \notin {"line_format", "decolorize"} => after[n + 1].line = after[n].line
          /\ st.kind = "decolorize" => after[n + 1].line = decolorizeLogLine(after[n].line)
      BY <2>1, <2>2, <2>3, StageStep
    <2>5. SameLine(row, after[n + 1])
      BY <2>1, <2>4 DEF SameLine
    <2>6. ASSUME NoFormat(stages, n + 1) PROVE Plain(row, after[n + 1])
      <3>1. NoFormat(stages, n) /\ st.kind # "line_format"
        BY <2>1, <2>6 DEF NoFormat
      <3>2. Plain(row, after[n])
        BY <2>1, <3>1
      <3>3. CASE st.kind # "decolorize"
        BY <2>4, <3>1, <3>2, <3>3 DEF Plain
      <3>4. CASE st.kind = "decolorize"
        <4>1. row.line.hidden = {}
          BY <2>1, <3>4 DEF Colourless, Stages
        <4> DEFINE line == after[n].line
        <4>2. {"words", "hidden"} \subseteq DOMAIN line /\ line.hidden = {} /\ line.words = row.line.words
          BY <3>2, <4>1 DEF Plain, LineShape
        <4>3. after[n + 1].line = decolorizeLogLine(line)
          BY <2>4, <3>4
        <4> HIDE DEF line
        <4>4. /\ DOMAIN decolorizeLogLine(line) = DOMAIN line
              /\ decolorizeLogLine(line).hidden = {}
              /\ decolorizeLogLine(line).words = line.words
          BY <4>2 DEF decolorizeLogLine
        <4> QED
          BY <4>1, <4>2, <4>3, <4>4 DEF Plain, LineShape
      <3> QED
        BY <3>3, <3>4
    <2> QED
      BY <2>4, <2>5, <2>6
  <1>5. \A n \in Nat : n \in S
    <2> HIDE DEF S
    <2> QED
      BY <1>3, <1>4, InductionBySet
  <1>6. \A n \in 0 .. Len(stages) : Good(n)
    BY <1>1, <1>5
  <1> QED
    BY <1>6 DEF after

(* A row that passes has passed every stage.                                *)
LEMMA PassesEach ==
    ASSUME NEW row, RowShape(row), LineShape(row.line), NEW stages, Stages(stages),
           Colourless(row, stages), applyStages(row, stages).ok
    PROVE  \A n \in 0 .. Len(stages) : RowAfter(row, stages)[n].ok
  <1> DEFINE after == RowAfter(row, stages)
             S == {d \in Nat : d <= Len(stages) => after[Len(stages) - d].ok}
  <1>1. Len(stages) \in Nat
    BY DEF Stages
  <1>2. \A n \in 1 .. Len(stages) : after[n] = applyStage(after[n - 1], stages[n])
    BY <1>1, RowAfterSteps
  <1>3. \A n \in 0 .. Len(stages) : RowShape(after[n])
    BY StagesKeep
  <1>4. after[Len(stages)].ok
    BY DEF applyStages
  <1> HIDE DEF after
  <1>5. 0 \in S
    BY <1>1, <1>4
  <1>6. ASSUME NEW d \in Nat, d \in S PROVE d + 1 \in S
    <2> SUFFICES ASSUME d + 1 <= Len(stages) PROVE after[Len(stages) - (d + 1)].ok
      OBVIOUS
    <2> DEFINE n == Len(stages) - d
    <2>1. n \in 1 .. Len(stages) /\ n - 1 \in 0 .. Len(stages) /\ n - 1 = Len(stages) - (d + 1)
      BY <1>1
    <2>2. after[n].ok
      BY <1>1, <1>6
    <2> HIDE DEF n
    <2>3. stages[n].kind \in StageKinds
      BY <2>1 DEF Stages
    <2>4. SameLine(after[n - 1], after[n])
      BY <1>2, <1>3, <2>1, <2>3, StageStep
    <2> QED
      BY <2>1, <2>2, <2>4 DEF SameLine
  <1>7. \A d \in Nat : d \in S
    <2> HIDE DEF S
    <2> QED
      BY <1>5, <1>6, InductionBySet
  <1>8. ASSUME NEW n \in 0 .. Len(stages) PROVE after[n].ok
    <2>1. Len(stages) - n \in Nat /\ Len(stages) - n <= Len(stages) /\ Len(stages) - (Len(stages) - n) = n
      BY <1>1
    <2> QED
      BY <1>7, <2>1
  <1> QED
    BY <1>8 DEF after

(* The statement keeps every row that passes.                               *)
LEMMA PassesPushed ==
    ASSUME NEW row, RowShape(row), LineShape(row.line), NEW stages, Stages(stages),
           Colourless(row, stages), applyStages(row, stages).ok,
           NEW f \in PushedLineFilters(stages)
    PROVE  LineMatches(f, row.line)
  <1>1. PICK j \in DOMAIN stages : /\ f = stages[j] /\ stages[j].kind = "line_filter"
                                   /\ \A k \in 1 .. j : stages[k].kind # "line_format"
    BY DEF PushedLineFilters
  <1>2. Len(stages) \in Nat /\ j \in 1 .. Len(stages)
    BY DEF Stages
  <1>3. j - 1 \in 0 .. Len(stages) /\ j \in 0 .. Len(stages)
    BY <1>2
  <1> DEFINE before == RowAfter(row, stages)[j - 1]
  <1>4. RowAfter(row, stages)[j] = applyStage(before, stages[j])
    BY <1>2, RowAfterSteps
  <1>5. NoFormat(stages, j - 1)
    BY <1>1, <1>2 DEF NoFormat
  <1>6. RowShape(before) /\ Plain(row, before)
    BY <1>3, <1>5, StagesKeep
  <1>7. RowAfter(row, stages)[j].ok
    BY <1>3, PassesEach
  <1>8. applyStage(before, stages[j]).ok = (before.ok /\ LineMatches(stages[j], before.line))
    BY <1>1, <1>6, StageStep DEF StageKinds
  <1> HIDE DEF before
  <1>9. LineMatches(stages[j], before.line)
    BY <1>4, <1>7, <1>8
  <1> QED
    BY <1>1, <1>6, <1>9 DEF LineMatches, Plain

(* If all stages are part of the statement, a row it keeps passes.          *)
LEMMA PushedPasses ==
    ASSUME NEW row, RowShape(row), row.ok, NEW stages, Stages(stages),
           \A i \in DOMAIN stages : stages[i].kind = "line_filter",
           \A f \in PushedLineFilters(stages) : LineMatches(f, row.line)
    PROVE  applyStages(row, stages).ok
  <1> DEFINE after == RowAfter(row, stages)
             Good(n) == RowShape(after[n]) /\ after[n].ok /\ after[n].line = row.line
             S == {n \in Nat : n <= Len(stages) => Good(n)}
  <1>1. Len(stages) \in Nat /\ DOMAIN stages = 1 .. Len(stages)
    BY DEF Stages
  <1>2. after[0] = row /\ \A n \in 1 .. Len(stages) : after[n] = applyStage(after[n - 1], stages[n])
    BY <1>1, RowAfterSteps
  <1>3. applyStages(row, stages) = after[Len(stages)]
    BY DEF applyStages
  <1> HIDE DEF after
  <1>4. 0 \in S
    BY <1>1, <1>2
  <1>5. ASSUME NEW n \in Nat, n \in S PROVE n + 1 \in S
    <2> SUFFICES ASSUME n + 1 <= Len(stages) PROVE Good(n + 1)
      OBVIOUS
    <2>1. n + 1 \in 1 .. Len(stages) /\ Good(n)
      BY <1>1, <1>5
    <2>2. after[n + 1] = applyStage(after[n], stages[n + 1])
      BY <1>2, <2>1
    <2>3. stages[n + 1].kind = "line_filter"
      BY <1>1, <2>1
    <2>4. stages[n + 1] \in PushedLineFilters(stages)
      BY <1>1, <2>1 DEF PushedLineFilters
    <2>5. LineMatches(stages[n + 1], after[n].line)
      BY <2>1, <2>4
    <2>6. stages[n + 1].kind \in StageKinds
      BY <2>3 DEF StageKinds
    <2>7. /\ RowShape(after[n + 1])
          /\ after[n + 1].line = after[n].line
          /\ after[n + 1].ok = (after[n].ok /\ LineMatches(stages[n + 1], after[n].line))
      BY <2>1, <2>2, <2>3, <2>6, StageStep
    <2> QED
      BY <2>1, <2>5, <2>7
  <1>6. \A n \in Nat : n \in S
    <2> HIDE DEF S
    <2> QED
      BY <1>4, <1>5, InductionBySet
  <1>7. Good(Len(stages))
    BY <1>1, <1>6
  <1> QED
    BY <1>3, <1>7

-----------------------------------------------------------------------------
(* A log query: which rows its statement reads and what it keeps of them.   *)
Selector(sel) == Stages(sel.stages)

(* The lines a selector is about.                                           *)
About(T, sel, start, end) ==
    {r \in T : /\ r.ts >= start /\ r.ts <= end
               /\ \A m \in sel.matchers : Matches(m, LabelValue(r, m.name))
               /\ applyStages(GoRow(r), sel.stages).ok}

LEMMA AppliedRow ==
    ASSUME NEW r, LineShape(r.line), NEW sel, Selector(sel), Agrees(r, sel)
    PROVE  /\ apply(sel, GoRow(r)).tag = r.tag
           /\ apply(sel, GoRow(r)).ts = r.ts
           /\ apply(sel, GoRow(r)).ok =
                (/\ applyStages(GoRow(r), sel.stages).ok
                 /\ \A m \in sel.matchers : Matches(m, LabelValue(r, m.name)))
  <1> DEFINE row == GoRow(r)
             out == applyStages(row, sel.stages)
             match == \A m \in sel.matchers : Matches(m, RecheckValue(row, m.name))
  <1>1. RowShape(row) /\ row.tag = r.tag /\ row.ts = r.ts /\ row.line = r.line
    BY GoRowShape
  <1>2. LineShape(row.line) /\ Stages(sel.stages) /\ Colourless(row, sel.stages)
    BY <1>1 DEF Selector, Agrees, SameText, Colourless
  <1>3. Len(sel.stages) \in 0 .. Len(sel.stages)
    BY <1>2 DEF Stages
  <1>4. RowShape(out) /\ SameLine(row, out)
    BY <1>1, <1>2, <1>3, StagesKeep DEF applyStages
  <1>5. match = \A m \in sel.matchers : Matches(m, LabelValue(r, m.name))
    BY DEF Agrees, SameLabels
  <1>6. apply(sel, GoRow(r)) = [out EXCEPT !.ok = out.ok /\ match]
    BY DEF apply
  <1> HIDE DEF row, out, match
  <1>7. apply(sel, GoRow(r)).tag = out.tag /\ apply(sel, GoRow(r)).ts = out.ts
        /\ apply(sel, GoRow(r)).ok = (out.ok /\ match)
    BY <1>4, <1>6 DEF RowShape, RowKeys
  <1> QED
    BY <1>1, <1>4, <1>5, <1>7 DEF SameLine, row, out

LEMMA AboutRead ==
    ASSUME NEW T, NEW sel, Selector(sel), NEW start, NEW end,
           \A r \in T : LineShape(r.line) /\ Agrees(r, sel)
    PROVE  /\ About(T, sel, start, end) \subseteq BaseRows(T, sel, start, end)
           /\ FullyPushed(sel) => About(T, sel, start, end) = BaseRows(T, sel, start, end)
           /\ \A r \in BaseRows(T, sel, start, end) :
                r \in About(T, sel, start, end) <=> apply(sel, GoRow(r)).ok
  <1>1. ASSUME NEW r \in T
        PROVE  /\ RowShape(GoRow(r)) /\ GoRow(r).ok /\ GoRow(r).line = r.line
               /\ Stages(sel.stages) /\ Colourless(GoRow(r), sel.stages)
    BY <1>1, GoRowShape DEF Selector, Agrees, SameText, Colourless
  <1>2. ASSUME NEW r \in About(T, sel, start, end) PROVE r \in BaseRows(T, sel, start, end)
    <2>1. r \in T /\ applyStages(GoRow(r), sel.stages).ok /\ LineShape(r.line)
      BY DEF About
    <2>2. \A f \in PushedLineFilters(sel.stages) : LineMatches(f, r.line)
      BY <1>1, <2>1, PassesPushed
    <2> QED
      BY <2>2 DEF About, BaseRows
  <1>3. ASSUME FullyPushed(sel), NEW r \in BaseRows(T, sel, start, end)
        PROVE  r \in About(T, sel, start, end)
    <2>1. r \in T /\ \A f \in PushedLineFilters(sel.stages) : LineMatches(f, r.line)
      BY <1>3 DEF BaseRows
    <2>2. applyStages(GoRow(r), sel.stages).ok
      BY <1>1, <1>3, <2>1, PushedPasses DEF FullyPushed
    <2> QED
      BY <1>3, <2>2 DEF About, BaseRows
  <1>4. ASSUME NEW r \in BaseRows(T, sel, start, end)
        PROVE  r \in About(T, sel, start, end) <=> apply(sel, GoRow(r)).ok
    <2>1. /\ r \in T /\ r.ts >= start /\ r.ts <= end
          /\ \A m \in sel.matchers : Matches(m, LabelValue(r, m.name))
      BY <1>4 DEF BaseRows
    <2>2. apply(sel, GoRow(r)).ok =
                (/\ applyStages(GoRow(r), sel.stages).ok
                 /\ \A m \in sel.matchers : Matches(m, LabelValue(r, m.name)))
      BY <2>1, AppliedRow
    <2> QED
      BY <2>1, <2>2 DEF About
  <1> QED
    BY <1>2, <1>3, <1>4

-----------------------------------------------------------------------------
(* ORDER BY and LIMIT.                                                      *)
LEMMA MinOfTwo ==
    ASSUME NEW a \in Int, NEW b \in Int
    PROVE  Min({a, b}) = IF a <= b THEN a ELSE b
  BY DEF Min

(* What the first n of a set are.                                           *)
LEMMA FirstOfSet ==
    ASSUME NEW S, IsFiniteSet(S), NEW n \in Nat, NEW T \in FirstOf(S, n)
    PROVE  /\ T \in SUBSET S
           /\ IsFiniteSet(T)
           /\ Cardinality(T) = IF Cardinality(S) <= n THEN Cardinality(S) ELSE n
           /\ Cardinality(S) <= n => T = S
           /\ \A a \in T, b \in S \ T : ~Before(b, a)
  <1>1. CASE Cardinality(S) <= n
    BY <1>1 DEF FirstOf
  <1>2. CASE ~(Cardinality(S) <= n)
    <2>1. T \in SUBSET S /\ Cardinality(T) = n /\ \A a \in T, b \in S \ T : ~Before(b, a)
      BY <1>2 DEF FirstOf, kSubset
    <2>2. IsFiniteSet(T)
      BY <2>1, FS_Subset
    <2> QED
      BY <1>2, <2>1, <2>2
  <1> QED
    BY <1>1, <1>2

LEMMA LimitRange ==
    ASSUME query \in Queries, query.kind = "logs"
    PROVE  Limit(query) \in 1 .. MaxRows
  BY LogQueryAssumption DEF Limit

(* The first limit is enough for a selector that SQL applies completely,    *)
(* and for any other it is the maximum.                                    *)
LEMMA CandidateLimit ==
    ASSUME NEW sel, NEW limit \in 1 .. MaxRows
    PROVE  /\ logQLCandidateLimit(sel, limit) \in limit .. MaxRows
           /\ ~FullyPushed(sel) => logQLCandidateLimit(sel, limit) = MaxRows
  <1>1. MaxRows \in Nat /\ Extra \in Nat \ {0} /\ limit \in Nat
    BY LogQueryAssumption
  <1> DEFINE x == Min({Extra, limit})
  <1>2. x \in Nat
    BY <1>1, MinOfTwo
  <1> HIDE DEF x
  <1>3. Min({MaxRows, limit + x}) \in limit .. MaxRows
    <2>1. MaxRows \in Int /\ limit + x \in Int /\ limit <= limit + x
      BY <1>1, <1>2
    <2>2. Min({MaxRows, limit + x}) = IF MaxRows <= limit + x THEN MaxRows ELSE limit + x
      BY <2>1, MinOfTwo
    <2> QED
      BY <1>1, <2>1, <2>2
  <1> QED
    BY <1>1, <1>3 DEF logQLCandidateLimit, x

-----------------------------------------------------------------------------
(* One statement of a log query over a table T.                             *)
Table(T) ==
    /\ IsFiniteSet(T)
    /\ \A r \in T : r.ts \in Int /\ LineShape(r.line)
    /\ \A r, o \in T : r.tag = o.tag => r = o

LEMMA LinesTable ==
    ASSUME LineInv, ListInv
    PROVE  Table(Lines)
  <1>1. Lines \in SUBSET events
    BY DEF Lines
  <1>2. IsFiniteSet(Lines)
    BY <1>1, FS_Subset DEF LineInv
  <1> QED
    BY <1>1, <1>2 DEF Table, LineInv, ListInv, RowOK, LineShape

(* What the handler makes of a row it keeps.                                *)
Made(r) == IF FullyPushed(query.sel) THEN Annotated(GoRow(r)) ELSE apply(query.sel, GoRow(r))

LEMMA AnnotatedRow ==
    ASSUME NEW r
    PROVE  Annotated(GoRow(r)).tag = r.tag /\ Annotated(GoRow(r)).ts = r.ts
  <1>1. RowShape(GoRow(r)) /\ GoRow(r).tag = r.tag /\ GoRow(r).ts = r.ts
    BY GoRowShape
  <1>2. \E l : Annotated(GoRow(r)) = [GoRow(r) EXCEPT !.labels = l]
    BY Zenon DEF Annotated
  <1> QED
    BY <1>1, <1>2 DEF RowShape, RowKeys

(* Rows made of different lines are different.                              *)
LEMMA MadeSize ==
    ASSUME NEW T, Table(T), NEW W \in SUBSET T, NEW f, DOMAIN f = W, \A r \in W : f[r].tag = r.tag
    PROVE  /\ IsFiniteSet({f[r] : r \in W})
           /\ Cardinality({f[r] : r \in W}) = Cardinality(W)
  <1>1. IsFiniteSet(W)
    BY FS_Subset DEF Table
  <1>2. \A r, o \in W : f[r] = f[o] => r = o
    BY DEF Table
  <1> QED
    BY <1>1, <1>2, ImageSize

(* The invariant of a query's handler. Before its one statement a log query *)
(* has its first candidate limit.                                          *)
LogsReady ==
    phase = "logs" =>
        /\ query \in Queries /\ query.kind = "logs"
        /\ cand = logQLCandidateLimit(query.sel, Limit(query))
        /\ fetches = 0

HandlerShape ==
    /\ phase \in {"idle", "logs", "sql", "eval", "answered", "refused"}
    /\ phase = "idle" => query = NoQuery /\ fetches = 0
    /\ phase \in {"sql", "eval"} => query.kind = "metric"

HandlerInv ==
    /\ HandlerShape
    /\ LogsReady
    /\ OneRead
    /\ FirstLinesReturned
    /\ GridAligned

(* The statement reads enough: the first limit is never raised.             *)
LEMMA FirstReadDone ==
    ASSUME HandlerInv, phase = "logs", NEW T, Table(T),
           NEW raw \in FirstOf(BaseRows(T, query.sel, query.start, query.end), cand)
    PROVE  ReadDone(Cardinality(PipelineRows(raw)), Cardinality(raw))
  <1> DEFINE B == BaseRows(T, query.sel, query.start, query.end)
             L == Limit(query)
  <1>1. query \in Queries /\ query.kind = "logs" /\ cand = logQLCandidateLimit(query.sel, L)
    BY DEF HandlerInv, LogsReady
  <1>2. MaxRows \in Nat /\ L \in 1 .. MaxRows
    BY <1>1, LimitRange, LogQueryAssumption
  <1>3. cand \in L .. MaxRows /\ (~FullyPushed(query.sel) => cand = MaxRows)
    BY <1>1, <1>2, CandidateLimit
  <1>4. B \in SUBSET T /\ IsFiniteSet(B)
    BY FS_Subset DEF Table, BaseRows
  <1> HIDE DEF B, L
  <1>5. CASE ~FullyPushed(query.sel)
    BY <1>2, <1>3, <1>5 DEF ReadDone
  <1>6. CASE FullyPushed(query.sel)
    <2>1. raw \in FirstOf(B, cand)
      BY DEF B
    <2>2. cand \in Nat
      BY <1>2, <1>3
    <2>3. raw \in SUBSET B /\ IsFiniteSet(raw)
      BY <1>4, <2>1, <2>2, FirstOfSet
    <2>4. Cardinality(raw) = IF Cardinality(B) <= cand THEN Cardinality(B) ELSE cand
      BY <1>4, <2>1, <2>2, FirstOfSet
    <2> DEFINE f == [r \in raw |-> Annotated(GoRow(r))]
    <2>5. PipelineRows(raw) = {f[r] : r \in raw}
      BY <1>6 DEF PipelineRows
    <2>6. DOMAIN f = raw /\ \A r \in raw : f[r].tag = r.tag
      BY AnnotatedRow
    <2> HIDE DEF f
    <2>7. raw \in SUBSET T
      BY <1>4, <2>3
    <2>8. Cardinality(PipelineRows(raw)) = Cardinality(raw)
      <3>1. Cardinality({f[r] : r \in raw}) = Cardinality(raw)
        BY <2>6, <2>7, MadeSize
      <3> QED
        BY <2>5, <3>1
    <2>9. Cardinality(raw) \in Nat
      BY <2>3, FS_CardinalityType
    <2>10. Cardinality(raw) < cand \/ Cardinality(PipelineRows(raw)) >= L
      BY <1>2, <1>3, <2>8, <2>9
    <2> QED
      BY <2>10 DEF ReadDone, L
  <1> QED
    BY <1>5, <1>6

(* The rows kept are those of the lines that the query is about.            *)
LEMMA KeptRows ==
    ASSUME query \in Queries, query.kind = "logs", NEW T, Table(T),
           \A r \in T : Agrees(r, query.sel),
           NEW raw \in SUBSET BaseRows(T, query.sel, query.start, query.end),
           NEW W, W = raw \cap About(T, query.sel, query.start, query.end)
    PROVE  /\ PipelineRows(raw) = {Made(r) : r \in W}
           /\ \A r \in W : Made(r).tag = r.tag /\ Made(r).ts = r.ts
  <1> DEFINE B == BaseRows(T, query.sel, query.start, query.end)
             A == About(T, query.sel, query.start, query.end)
  <1>1. Selector(query.sel)
    BY LogQueryAssumption DEF Selector, Stages
  <1>2. \A r \in T : LineShape(r.line) /\ Agrees(r, query.sel)
    BY DEF Table
  <1>3. /\ FullyPushed(query.sel) => A = B
        /\ \A r \in B : r \in A <=> apply(query.sel, GoRow(r)).ok
    BY <1>1, <1>2, AboutRead
  <1>4. W = raw \cap A /\ raw \in SUBSET B /\ B \in SUBSET T
    BY DEF BaseRows
  <1> HIDE DEF A, B
  <1>5. CASE FullyPushed(query.sel)
    <2>1. W = raw
      BY <1>3, <1>4, <1>5
    <2>2. PipelineRows(raw) = {Made(r) : r \in W}
      BY <1>5, <2>1 DEF PipelineRows, Made
    <2>3. \A r \in W : Made(r).tag = r.tag /\ Made(r).ts = r.ts
      BY <1>5, AnnotatedRow DEF Made
    <2> QED
      BY <2>2, <2>3
  <1>6. CASE ~FullyPushed(query.sel)
    <2>1. PipelineRows(raw) = {x \in {apply(query.sel, GoRow(r)) : r \in raw} : x.ok}
      BY <1>6 DEF PipelineRows
    <2>2. \A r \in raw : r \in W <=> apply(query.sel, GoRow(r)).ok
      BY <1>3, <1>4
    <2>3. \A r : Made(r) = apply(query.sel, GoRow(r))
      BY <1>6 DEF Made
    <2>4. PipelineRows(raw) = {Made(r) : r \in W}
      BY <1>4, <2>1, <2>2, <2>3
    <2>5. ASSUME NEW r \in W PROVE Made(r).tag = r.tag /\ Made(r).ts = r.ts
      <3>1. r \in T
        BY <1>4, <2>5
      <3>2. apply(query.sel, GoRow(r)).tag = r.tag /\ apply(query.sel, GoRow(r)).ts = r.ts
        BY <1>1, <1>2, <3>1, AppliedRow
      <3> QED
        BY <2>3, <3>2
    <2> QED
      BY <2>4, <2>5
  <1> QED
    BY <1>5, <1>6

(* The answer among the lines that the query is about.                      *)
Answers(T, out) ==
    LET B == BaseRows(T, query.sel, query.start, query.end)
        A == About(T, query.sel, query.start, query.end)
        got == {r \in A : r.tag \in {a.tag : a \in out}}
    IN  /\ {a.tag : a \in out} \subseteq {r.tag : r \in A}
        /\ \A r \in got, o \in A \ got : ~Before(o, r)
        /\ Cardinality(B) < MaxRows => Cardinality(out) = Min({Limit(query), Cardinality(A)})

LEMMA FirstLines ==
    ASSUME HandlerInv, phase = "logs", NEW T, Table(T), \A r \in T : Agrees(r, query.sel),
           NEW raw \in FirstOf(BaseRows(T, query.sel, query.start, query.end), cand),
           NEW out \in FirstOf(PipelineRows(raw), Limit(query))
    PROVE  Answers(T, out)
  <1> DEFINE B == BaseRows(T, query.sel, query.start, query.end)
             A == About(T, query.sel, query.start, query.end)
             got == {r \in A : r.tag \in {a.tag : a \in out}}
             L == Limit(query)
             W == raw \cap A
             kept == PipelineRows(raw)
  <1>1. query \in Queries /\ query.kind = "logs" /\ cand = logQLCandidateLimit(query.sel, L)
    BY DEF HandlerInv, LogsReady
  <1>2. MaxRows \in Nat /\ L \in 1 .. MaxRows
    BY <1>1, LimitRange, LogQueryAssumption
  <1>3. cand \in L .. MaxRows /\ (~FullyPushed(query.sel) => cand = MaxRows)
    BY <1>1, <1>2, CandidateLimit
  <1>4. B \in SUBSET T /\ IsFiniteSet(B)
    BY FS_Subset DEF Table, BaseRows
  <1>5. A \in SUBSET B /\ (FullyPushed(query.sel) => A = B)
    <2>1. Selector(query.sel)
      BY <1>1, LogQueryAssumption DEF Selector, Stages
    <2>2. \A r \in T : LineShape(r.line) /\ Agrees(r, query.sel)
      BY DEF Table
    <2> QED
      BY <2>1, <2>2, AboutRead
  <1>read. raw \in FirstOf(B, cand)
    OBVIOUS
  <1> HIDE DEF B
  <1>6. IsFiniteSet(A) /\ Cardinality(A) \in Nat /\ Cardinality(B) \in Nat
    BY <1>4, <1>5, FS_Subset, FS_CardinalityType
  <1>7. cand \in Nat /\ L \in Nat
    BY <1>2, <1>3
  <1>8. /\ raw \in SUBSET B /\ IsFiniteSet(raw)
        /\ Cardinality(raw) = IF Cardinality(B) <= cand THEN Cardinality(B) ELSE cand
        /\ Cardinality(B) <= cand => raw = B
        /\ \A a \in raw, b \in B \ raw : ~Before(b, a)
    BY <1>4, <1>7, <1>read, FirstOfSet
  <1>9. kept = {Made(r) : r \in W} /\ \A r \in W : Made(r).tag = r.tag /\ Made(r).ts = r.ts
    <2>1. raw \in SUBSET BaseRows(T, query.sel, query.start, query.end)
      BY <1>8 DEF B
    <2>2. W = raw \cap About(T, query.sel, query.start, query.end)
      OBVIOUS
    <2> HIDE DEF W
    <2>3. PipelineRows(raw) = {Made(r) : r \in W} /\ \A r \in W : Made(r).tag = r.tag /\ Made(r).ts = r.ts
      BY <1>1, <2>1, <2>2, KeptRows
    <2> QED
      BY <2>3
  <1> HIDE DEF L, A
  <1>10. IsFiniteSet(kept) /\ Cardinality(kept) = Cardinality(W)
    <2> DEFINE f == [r \in W |-> Made(r)]
    <2>1. DOMAIN f = W /\ \A r \in W : f[r].tag = r.tag
      BY <1>9
    <2>2. kept = {f[r] : r \in W}
      BY <1>9
    <2>3. W \in SUBSET T
      BY <1>4, <1>8
    <2> HIDE DEF f, kept, W
    <2>4. IsFiniteSet({f[r] : r \in W}) /\ Cardinality({f[r] : r \in W}) = Cardinality(W)
      BY <2>1, <2>3, MadeSize
    <2> QED
      BY <2>2, <2>4
  <1> HIDE DEF kept
  <1>11. out \in FirstOf(kept, L)
    BY DEF kept, L
  <1>12. /\ out \in SUBSET kept
         /\ Cardinality(out) = IF Cardinality(kept) <= L THEN Cardinality(kept) ELSE L
         /\ \A a \in out, b \in kept \ out : ~Before(b, a)
    BY <1>7, <1>10, <1>11, FirstOfSet
  <1>13. {a.tag : a \in out} \subseteq {r.tag : r \in A}
    <2> SUFFICES ASSUME NEW a \in out PROVE \E r \in A : a.tag = r.tag
      OBVIOUS
    <2>1. PICK r \in W : a = Made(r)
      BY <1>9, <1>12
    <2> QED
      BY <1>9, <2>1
  <1>14. \A r \in A : r \in got <=> r \in raw /\ Made(r) \in out
    <2> SUFFICES ASSUME NEW r \in A PROVE r \in got <=> r \in raw /\ Made(r) \in out
      OBVIOUS
    <2>1. ASSUME r \in got PROVE r \in raw /\ Made(r) \in out
      <3>1. PICK a \in out : a.tag = r.tag
        BY <2>1
      <3>2. PICK w \in W : a = Made(w)
        BY <1>9, <1>12
      <3>3. w.tag = r.tag /\ w \in T /\ r \in T
        BY <1>4, <1>5, <1>8, <1>9, <3>1, <3>2
      <3>4. w = r
        BY <3>3 DEF Table
      <3> QED
        BY <3>1, <3>2, <3>4
    <2>2. ASSUME r \in raw, Made(r) \in out PROVE r \in got
      <3>1. Made(r).tag = r.tag
        BY <1>9, <2>2
      <3> QED
        BY <2>2, <3>1
    <2> QED
      BY <2>1, <2>2
  <1>15. ASSUME NEW r \in got, NEW o \in A \ got PROVE ~Before(o, r)
    <2>1. r \in A /\ r \in raw /\ Made(r) \in out
      BY <1>14, <1>15
    <2>2. CASE o \in raw
      <3>1. Made(o) \in kept /\ Made(o) \notin out
        BY <1>9, <1>14, <1>15, <2>2
      <3>2. ~Before(Made(o), Made(r))
        BY <1>12, <2>1, <3>1
      <3>3. Made(o).ts = o.ts /\ Made(r).ts = r.ts
        BY <1>9, <1>15, <2>1, <2>2
      <3> QED
        BY <3>2, <3>3 DEF Before
    <2>3. CASE o \notin raw
      BY <1>5, <1>8, <1>15, <2>1, <2>3
    <2> QED
      BY <2>2, <2>3
  <1>16. ASSUME Cardinality(B) < MaxRows PROVE Cardinality(out) = Min({L, Cardinality(A)})
    <2>1. Min({L, Cardinality(A)}) = IF L <= Cardinality(A) THEN L ELSE Cardinality(A)
      BY <1>6, <1>7, MinOfTwo
    <2>2. CASE Cardinality(B) <= cand
      <3>1. W = A
        BY <1>5, <1>8, <2>2
      <3> HIDE DEF W
      <3>2. Cardinality(kept) = Cardinality(A)
        BY <1>10, <3>1
      <3> QED
        BY <1>6, <1>7, <1>12, <2>1, <3>2
    <2>3. CASE ~(Cardinality(B) <= cand)
      <3>1. FullyPushed(query.sel)
        BY <1>2, <1>3, <1>6, <1>16, <2>3
      <3>2. A = B /\ W = raw
        BY <1>5, <1>8, <3>1
      <3> HIDE DEF W
      <3>3. Cardinality(kept) = cand
        <4>1. Cardinality(raw) = cand
          BY <1>8, <2>3
        <4> QED
          BY <1>10, <3>2, <4>1
      <3>4. cand < Cardinality(A)
        BY <1>6, <1>7, <2>3, <3>2
      <3> QED
        BY <1>2, <1>3, <1>6, <1>7, <1>12, <2>1, <3>3, <3>4
    <2> QED
      BY <2>2, <2>3
  <1> QED
    BY <1>13, <1>15, <1>16 DEF Answers, A, B, L

-----------------------------------------------------------------------------
(* The range of a metric query.                                             *)
LEMMA MultipleRemainder ==
    ASSUME NEW n \in Nat \ {0}, NEW q \in Int
    PROVE  (n * q) % n = 0
  OBVIOUS

LEMMA Division ==
    ASSUME NEW n \in Nat \ {0}, NEW t \in Int
    PROVE  /\ t \div n \in Int /\ t % n \in 0 .. (n - 1)
           /\ t = n * (t \div n) + (t % n)
  OBVIOUS

LEMMA CeilOnGrid ==
    ASSUME NEW step \in Nat \ {0}, NEW t \in Int, t <= MaxTime, NEW s \in ceilUnixNanoTime(t, step)
    PROVE  /\ s \in Int /\ s <= MaxTime
           /\ s % step = 0
           /\ s - t \in 0 .. (step - 1)
  <1>1. MaxTime \in Int
    BY LogQueryAssumption
  <1>2. CASE t >= 0
    <2> DEFINE rem == t % step
               q == t \div step
    <2>1. q \in Int /\ rem \in 0 .. (step - 1) /\ t = step * q + rem
      BY Division
    <2>2. s \in IF rem > 0 THEN IF t > MaxTime - (step - rem) THEN {} ELSE {t + (step - rem)} ELSE {t - rem}
      BY <1>2 DEF ceilUnixNanoTime
    <2> HIDE DEF rem, q
    <2>3. CASE rem > 0
      <3>1. s = t + (step - rem) /\ s <= MaxTime
        BY <1>1, <2>1, <2>2, <2>3
      <3>2. s = step * (q + 1) /\ q + 1 \in Int
        BY <2>1, <3>1
      <3>3. s % step = 0
        BY <3>2, MultipleRemainder
      <3> QED
        BY <2>1, <2>3, <3>1, <3>3
    <2>4. CASE rem = 0
      <3>1. s = t /\ s = step * q
        BY <2>1, <2>2, <2>4
      <3>2. s % step = 0
        BY <2>1, <3>1, MultipleRemainder
      <3> QED
        BY <3>1, <3>2
    <2> QED
      BY <2>1, <2>3, <2>4
  <1>3. CASE t < 0
    <2> DEFINE rem == (-t) % step
               q == (-t) \div step
    <2>1. q \in Int /\ rem \in 0 .. (step - 1) /\ -t = step * q + rem
      <3>1. -t \in Int
        OBVIOUS
      <3> QED
        BY <3>1, Division
    <2>2. s \in IF -rem > 0 THEN IF t > MaxTime - (step - (-rem)) THEN {} ELSE {t + (step - (-rem))} ELSE {t - (-rem)}
      BY <1>3 DEF ceilUnixNanoTime
    <2> HIDE DEF rem, q
    <2>3. s = t + rem
      BY <2>1, <2>2
    <2>4. s = step * (-q) /\ -q \in Int
      BY <2>1, <2>3
    <2>5. s % step = 0
      BY <2>4, MultipleRemainder
    <2>6. s <= 0
      <3>1. -t \in Nat /\ -t >= rem
        <4>1. q >= 0
          BY <1>3, <2>1
        <4>2. step * q >= 0
          BY <4>1, <2>1
        <4> QED
          BY <1>3, <2>1, <4>2
      <3> QED
        BY <2>1, <2>3, <3>1
    <2>7. MaxTime >= 0
      BY LogQueryAssumption
    <2> QED
      BY <1>1, <2>1, <2>3, <2>5, <2>6, <2>7
  <1> QED
    BY <1>2, <1>3

(* As many evaluation times as points were counted.                         *)
LEMMA GridSize ==
    ASSUME NEW start \in Int, NEW end \in Int, NEW step \in Nat \ {0},
           ~(logQLRangePoints(start, end, step) > MaxPoints)
    PROVE  Cardinality(Grid(start, end, step)) <= MaxPoints
  <1> DEFINE n == logQLRangePoints(start, end, step)
  <1>1. n \in Nat
    <2>1. CASE end < start
      BY <2>1 DEF logQLRangePoints
    <2>2. CASE ~(end < start)
      <3>1. end - start \in Nat
        BY <2>2
      <3>2. (end - start) \div step \in Nat
        BY <3>1
      <3> QED
        BY <2>2, <3>2 DEF logQLRangePoints
    <2> QED
      BY <2>1, <2>2
  <1>2. n <= MaxPoints
    BY <1>1, LogQueryAssumption
  <1>3. Grid(start, end, step) = {start + i * step : i \in 0 .. (n - 1)}
    BY DEF Grid
  <1> HIDE DEF n
  <1> DEFINE f == [i \in 0 .. (n - 1) |-> start + i * step]
  <1>4. DOMAIN f = 0 .. (n - 1) /\ Grid(start, end, step) = {f[i] : i \in 0 .. (n - 1)}
    BY <1>3
  <1>5. IsFiniteSet(0 .. (n - 1)) /\ Cardinality(0 .. (n - 1)) = n
    BY <1>1, FS_Interval
  <1> HIDE DEF f
  <1>6. IsFiniteSet(Grid(start, end, step)) /\ Cardinality(Grid(start, end, step)) <= Cardinality(0 .. (n - 1))
    <2> DEFINE G == Grid(start, end, step)
               I == 0 .. (n - 1)
    <2>1. G = {f[i] : i \in I} /\ DOMAIN f = I /\ IsFiniteSet(I)
      BY <1>4, <1>5
    <2> HIDE DEF G, I
    <2>2. IsFiniteSet(G) /\ Cardinality(G) <= Cardinality(I)
      BY <2>1, ImageSize
    <2> QED
      BY <2>2 DEF G, I
  <1>7. Cardinality(Grid(start, end, step)) \in Nat
    BY <1>6, FS_CardinalityType
  <1> QED
    BY <1>1, <1>2, <1>5, <1>6, <1>7, LogQueryAssumption

(* The aligned form of a query.                                             *)
LEMMA AlignedQuery ==
    ASSUME NEW q \in Queries, q.kind = "metric", NEW a \in Aligned(q)
    PROVE  /\ a.kind = "metric" /\ a.instant = q.instant
           /\ ~a.instant =>
                /\ a.step \in Nat \ {0} /\ a.start \in Int /\ a.end \in Int
                /\ a.start % a.step = 0 /\ a.end % a.step = 0
                /\ a.start - a.asked[1] \in 0 .. (a.step - 1)
                /\ a.end - a.asked[2] \in 0 .. (a.step - 1)
                /\ a.end <= MaxTime
  <1> DEFINE M == {Between(q, s, e) : s \in ceilUnixNanoTime(q.start, q.step), e \in ceilUnixNanoTime(q.end, q.step)}
  <1>0. Aligned(q) = IF q.instant THEN {q} ELSE M
    BY DEF Aligned
  <1>1. CASE q.instant
    <2> HIDE DEF M
    <2>1. Aligned(q) = {q}
      BY <1>0, <1>1, Zenon
    <2>2. a = q
      BY <2>1
    <2> QED
      BY <1>1, <2>2
  <1>2. CASE ~q.instant
    <2>1. PICK s \in ceilUnixNanoTime(q.start, q.step), e \in ceilUnixNanoTime(q.end, q.step) :
             a = [q EXCEPT !.start = s, !.end = e]
      <3>1. a \in M
        <4> HIDE DEF M
        <4> QED
          BY <1>0, <1>2
      <3>2. \E s \in ceilUnixNanoTime(q.start, q.step), e \in ceilUnixNanoTime(q.end, q.step) : a = Between(q, s, e)
        BY <3>1
      <3> QED
        BY <3>2 DEF Between
    <2>2. /\ {"kind", "expr", "instant", "start", "end", "step"} \subseteq DOMAIN q
          /\ "asked" \in DOMAIN q /\ q.asked = <<q.start, q.end>>
          /\ q.step \in Nat \ {0}
          /\ q.start \in Int /\ q.end \in Int /\ q.start <= MaxTime /\ q.end <= MaxTime
      BY <1>2, LogQueryAssumption
    <2> DEFINE b == [q EXCEPT !.start = s]
    <2>3. a = [b EXCEPT !.end = e]
      BY <2>1
    <2>4. DOMAIN b = DOMAIN q /\ b.start = s /\ \A x \in DOMAIN q \ {"start"} : b[x] = q[x]
      BY <2>2
    <2> HIDE DEF b
    <2>5. a.end = e /\ \A x \in DOMAIN q \ {"end"} : a[x] = b[x]
      BY <2>2, <2>3, <2>4
    <2>6. /\ a.kind = q.kind /\ a.instant = q.instant /\ a.step = q.step /\ a.asked = q.asked
          /\ a.start = s /\ a.end = e
      BY <2>2, <2>4, <2>5
    <2>7. s \in Int /\ s <= MaxTime /\ s % q.step = 0 /\ s - q.start \in 0 .. (q.step - 1)
      BY <2>2, CeilOnGrid
    <2>8. e \in Int /\ e <= MaxTime /\ e % q.step = 0 /\ e - q.end \in 0 .. (q.step - 1)
      BY <2>2, CeilOnGrid
    <2>9. a.asked[1] = q.start /\ a.asked[2] = q.end
      BY <2>2, <2>6
    <2> QED
      BY <2>2, <2>6, <2>7, <2>8, <2>9
  <1> QED
    BY <1>1, <1>2

-----------------------------------------------------------------------------
(* The invariant is inductive, one lemma per action.                        *)
LEMMA HandlerInit == Init => HandlerInv
  BY DEF Init, QueryInit, HandlerInv, HandlerShape, LogsReady, OneRead, FirstLinesReturned,
         GridAligned, NoQuery

(* A query that is refused has read nothing.                                *)
LEMMA RefuseInv ==
    ASSUME HandlerInv, phase = "idle", NEW q, Refuse(q)
    PROVE  HandlerInv'
  <1>1. query' = q /\ phase' = "refused" /\ fetches' = 0
    BY DEF Refuse, HandlerInv, HandlerShape
  <1>2. HandlerShape' /\ LogsReady'
    BY <1>1 DEF HandlerShape, LogsReady
  <1>3. OneRead'
    BY <1>1 DEF OneRead
  <1>4. FirstLinesReturned' /\ GridAligned'
    BY <1>1 DEF FirstLinesReturned, GridAligned
  <1> QED
    BY <1>2, <1>3, <1>4 DEF HandlerInv

LEMMA HandleQueryInv ==
    ASSUME HandlerInv, NEW q \in Queries, handleLokiQuery(q)
    PROVE  HandlerInv'
  <1>1. phase = "idle" /\ fetches = 0
    BY DEF handleLokiQuery, HandlerInv, HandlerShape
  <1>2. CASE Refuse(q)
    BY <1>1, <1>2, RefuseInv
  <1>3. CASE /\ q.kind = "logs" /\ query' = q /\ phase' = "logs"
             /\ cand' = logQLCandidateLimit(q.sel, Limit(q)) /\ fetches' = fetches
    <2>1. HandlerShape' /\ LogsReady'
      BY <1>1, <1>3 DEF HandlerShape, LogsReady
    <2>2. OneRead' /\ FirstLinesReturned' /\ GridAligned'
      BY <1>1, <1>3 DEF OneRead, FirstLinesReturned, GridAligned
    <2> QED
      BY <2>1, <2>2 DEF HandlerInv
  <1>4. ASSUME q.kind = "metric", NEW a \in Aligned(q),
               ~(logQLRangePoints(a.start, a.end, a.step) > MaxPoints),
               query' = a, phase' \in {"sql", "eval"}, fetches' = fetches
        PROVE  HandlerInv'
    <2>1. /\ a.kind = "metric" /\ a.instant = q.instant
          /\ ~a.instant =>
                /\ a.step \in Nat \ {0} /\ a.start \in Int /\ a.end \in Int
                /\ a.start % a.step = 0 /\ a.end % a.step = 0
                /\ a.start - a.asked[1] \in 0 .. (a.step - 1)
                /\ a.end - a.asked[2] \in 0 .. (a.step - 1)
                /\ a.end <= MaxTime
      BY <1>4, AlignedQuery
    <2>2. ~a.instant => Cardinality(Grid(a.start, a.end, a.step)) <= MaxPoints
      BY <1>4, <2>1, GridSize
    <2>3. HandlerShape' /\ LogsReady'
      BY <1>4, <2>1 DEF HandlerShape, LogsReady
    <2>4. OneRead' /\ FirstLinesReturned'
      BY <1>4, <2>1 DEF OneRead, FirstLinesReturned
    <2>5. GridAligned'
      BY <1>4, <2>1, <2>2 DEF GridAligned
    <2> QED
      BY <2>3, <2>4, <2>5 DEF HandlerInv
  <1> QED
    BY <1>2, <1>3, <1>4 DEF handleLokiQuery

LEMMA ReadLogsInv ==
    ASSUME HandlerInv, Table(Lines), ReadLogs
    PROVE  HandlerInv'
  <1> DEFINE T == Lines
             B == BaseRows(T, query.sel, query.start, query.end)
             A == About(T, query.sel, query.start, query.end)
  <1>1. phase = "logs" /\ query' = query /\ seen' = T /\ fetches' = fetches + 1
    BY DEF ReadLogs
  <1>2. fetches = 0 /\ query.kind = "logs" /\ query \in Queries
    BY <1>1 DEF HandlerInv, LogsReady
  <1>3. PICK raw \in FirstOf(B, cand) :
          IF ReadDone(Cardinality(PipelineRows(raw)), Cardinality(raw))
          THEN /\ \E out \in FirstOf(PipelineRows(raw), Limit(query)) : answer' = out
               /\ phase' = "answered"
               /\ UNCHANGED cand
          ELSE /\ cand' = Min({MaxRows, 2 * cand})
               /\ UNCHANGED <<phase, answer>>
    BY DEF ReadLogs
  <1>4. ReadDone(Cardinality(PipelineRows(raw)), Cardinality(raw))
    BY <1>1, FirstReadDone
  <1>5. phase' = "answered" /\ answer' \in FirstOf(PipelineRows(raw), Limit(query))
    BY <1>3, <1>4
  <1> HIDE DEF T, B, A
  <1>6. HandlerShape' /\ LogsReady' /\ OneRead' /\ GridAligned'
    BY <1>1, <1>2, <1>5 DEF HandlerShape, LogsReady, OneRead, GridAligned
  <1>7. FirstLinesReturned'
    <2>1. ASSUME \A r \in T : Agrees(r, query.sel) PROVE Answers(T, answer')
      <3>1. Table(T) /\ raw \in FirstOf(BaseRows(T, query.sel, query.start, query.end), cand)
        BY <1>3 DEF T, B
      <3>2. HandlerInv /\ phase = "logs"
        BY <1>1
      <3> QED
        BY <1>5, <2>1, <3>1, <3>2, FirstLines
    <2>2. Wanted' = A
      BY <1>1 DEF Wanted, About, A
    <2>3. BaseRows(seen', query'.sel, query'.start, query'.end) = B
      BY <1>1 DEF B
    <2>4. Limit(query') = Limit(query)
      BY <1>1
    <2>5. \A r, o : Before(o, r)' <=> Before(o, r)
      BY <1>1 DEF Before
    <2>6. ASSUME \A r \in seen' : Agrees(r, query'.sel) PROVE Answers(T, answer')
      BY <1>1, <2>1, <2>6
    <2> QED
      BY <2>2, <2>3, <2>4, <2>5, <2>6 DEF FirstLinesReturned, Answers, A, B
  <1> QED
    BY <1>6, <1>7 DEF HandlerInv

(* Metric queries, errors and answers.                                      *)
LEMMA MetricInv ==
    ASSUME HandlerInv, MetricSQL \/ FetchSelector \/ Evaluate
    PROVE  HandlerInv'
  <1>1. phase \in {"sql", "eval"} /\ query' = query
    BY DEF MetricSQL, FetchSelector, Evaluate
  <1>2. query.kind = "metric"
    BY <1>1 DEF HandlerInv, HandlerShape
  <1>3. phase' \in {"sql", "eval", "answered", "refused"}
    BY <1>1 DEF MetricSQL, FetchSelector, Evaluate
  <1>4. GridAligned'
    <2>1. GridAligned /\ phase # "refused"
      BY <1>1 DEF HandlerInv
    <2> QED
      BY <1>1, <2>1 DEF GridAligned
  <1> QED
    BY <1>1, <1>2, <1>3, <1>4 DEF HandlerInv, HandlerShape, LogsReady, OneRead, FirstLinesReturned

LEMMA EndInv ==
    ASSUME HandlerInv, QueryFails \/ Reply
    PROVE  HandlerInv'
  <1>1. CASE QueryFails
    BY <1>1 DEF QueryFails, HandlerInv, HandlerShape, LogsReady, OneRead, FirstLinesReturned, GridAligned
  <1>2. CASE Reply
    BY <1>2 DEF Reply, NoQuery, HandlerInv, HandlerShape, LogsReady, OneRead, FirstLinesReturned, GridAligned
  <1> QED
    BY <1>1, <1>2

LEMMA HandlerIdle ==
    ASSUME HandlerInv, UNCHANGED queryVars
    PROVE  HandlerInv'
  <1>1. HandlerShape' /\ LogsReady' /\ OneRead'
    BY DEF queryVars, HandlerInv, HandlerShape, LogsReady, OneRead
  <1>2. FirstLinesReturned'
    BY DEF queryVars, HandlerInv, FirstLinesReturned, Wanted, Before
  <1>3. GridAligned'
    BY DEF queryVars, HandlerInv, GridAligned
  <1> QED
    BY <1>1, <1>2, <1>3 DEF HandlerInv

LEMMA HandlerStep == HandlerInv /\ LineInv /\ ListInv /\ [Next]_vars => HandlerInv'
  <1> SUFFICES ASSUME HandlerInv, LineInv, ListInv, [Next]_vars PROVE HandlerInv'
    OBVIOUS
  <1>1. ASSUME NEW q \in Queries, handleLokiQuery(q) PROVE HandlerInv'
    BY <1>1, HandleQueryInv
  <1>2. CASE ReadLogs
    BY <1>2, LinesTable, ReadLogsInv
  <1>3. CASE MetricSQL \/ FetchSelector \/ Evaluate
    BY <1>3, MetricInv
  <1>4. CASE QueryFails \/ Reply
    BY <1>4, EndInv
  <1>5. CASE UNCHANGED queryVars
    BY <1>5, HandlerIdle
  <1>6. CASE UNCHANGED vars
    BY <1>5, <1>6 DEF vars
  <1> QED
    BY <1>1, <1>2, <1>3, <1>4, <1>5, <1>6 DEF Next, QueryNext

LEMMA HandlerInvariant == Spec => []HandlerInv
  <1>1. Spec => []LineInv /\ []ListInv
    BY PushesUndisturbed, LineInvariant, ListInvariant, PTL
  <1> QED
    BY <1>1, HandlerInit, HandlerStep, PTL DEF Spec

-----------------------------------------------------------------------------
(* A log query reads the table once (queryLogQLRows): the loop that doubles *)
(* the limit never goes round.                                             *)
THEOREM ReadsOnce == Spec => []OneRead
  <1>1. HandlerInv => OneRead
    BY DEF HandlerInv
  <1> QED
    BY <1>1, HandlerInvariant, PTL

(* A log query returns the first lines that pass its whole pipeline, for    *)
(* every selector and any lines on which SQL and Go agree about labels and *)
(* text (queryLogQLRows, logQLBaseFilters, logQLSelector.apply).           *)
THEOREM LinesAreFirst == Spec => []FirstLinesReturned
  <1>1. HandlerInv => FirstLinesReturned
    BY DEF HandlerInv
  <1> QED
    BY <1>1, HandlerInvariant, PTL

(* The evaluation times of a metric query are multiples of its step, start  *)
(* less than a step after what was asked, stay below the largest timestamp *)
(* and are at most maxRangePushdownPoints (alignLogQLMetricRange).         *)
THEOREM GridIsAligned == Spec => []GridAligned
  <1>1. HandlerInv => GridAligned
    BY DEF HandlerInv
  <1> QED
    BY <1>1, HandlerInvariant, PTL
=============================================================================
