--------------------------- MODULE WriteBatchProofs ---------------------------
(***************************************************************************)
(* Proofs about WriteBatch for any time series, any number of them in a    *)
(* request and any interval: the one-pass builder and the general one make *)
(* the same batch, whose series records and rows fit together.             *)
(***************************************************************************)
EXTENDS WriteBatch, FastSeriesIndexProofs, SequenceTheorems

-----------------------------------------------------------------------------
(* Extremes and buckets.                                                    *)

(* A finite nonempty set of integers has a least and a greatest element.    *)
LEMMA Extremes ==
    ASSUME NEW T \in SUBSET Int, T # {}, IsFiniteSet(T)
    PROVE  /\ Min(T) \in T /\ \A y \in T : Min(T) <= y
           /\ Max(T) \in T /\ \A y \in T : y <= Max(T)
  <1> DEFINE Bounded(U) == \E lo, hi \in U : \A y \in U : lo <= y /\ y <= hi
             S == {n \in Nat : \A U \in SUBSET Int :
                     U # {} /\ IsFiniteSet(U) /\ Cardinality(U) = n => Bounded(U)}
  <1>1. 0 \in S
    BY FS_EmptySet
  <1>2. ASSUME NEW n \in Nat, n \in S PROVE n + 1 \in S
    <2> SUFFICES ASSUME NEW U \in SUBSET Int, U # {}, IsFiniteSet(U), Cardinality(U) = n + 1
                 PROVE  Bounded(U)
      OBVIOUS
    <2>1. PICK x \in U : TRUE
      OBVIOUS
    <2>2. IsFiniteSet(U \ {x}) /\ Cardinality(U \ {x}) = n
      <3>1. IsFiniteSet(U \ {x}) /\ Cardinality(U \ {x}) = Cardinality(U) - 1
        BY <2>1, FS_RemoveElement
      <3> QED
        BY <3>1
    <2>3. CASE U \ {x} = {}
      <3>1. \A y \in U : y = x
        BY <2>3
      <3>2. x \in Int
        OBVIOUS
      <3> QED
        BY <3>1, <3>2
    <2>4. CASE U \ {x} # {}
      <3>1. U \ {x} \in SUBSET Int
        OBVIOUS
      <3>2. PICK lo \in U \ {x}, hi \in U \ {x} : \A y \in U \ {x} : lo <= y /\ y <= hi
        BY <1>2, <2>2, <2>4, <3>1
      <3> DEFINE a == IF x <= lo THEN x ELSE lo
                 b == IF hi <= x THEN x ELSE hi
      <3>3. x \in Int /\ lo \in Int /\ hi \in Int /\ a \in U /\ b \in U
        OBVIOUS
      <3>4. ASSUME NEW y \in U PROVE a <= y /\ y <= b
        <4>1. y \in Int
          OBVIOUS
        <4> QED
          BY <3>2, <3>3, <4>1
      <3> QED
        BY <3>3, <3>4
    <2> QED
      BY <2>3, <2>4
  <1> HIDE DEF S
  <1>3. Cardinality(T) \in S
    BY <1>1, <1>2, SetInduction, FS_CardinalityType
  <1>4. Bounded(T)
    BY <1>3 DEF S
  <1>5. PICK lo \in T, hi \in T : \A y \in T : lo <= y /\ y <= hi
    BY <1>4
  <1> QED
    BY <1>5 DEF Min, Max

LEMMA SameMin ==
    ASSUME NEW T \in SUBSET Int, NEW x \in T, \A y \in T : x <= y
    PROVE  Min(T) = x
  <1>1. ASSUME NEW z \in T, \A y \in T : z <= y PROVE z = x
    BY <1>1
  <1> QED
    BY <1>1 DEF Min

LEMMA SameMax ==
    ASSUME NEW T \in SUBSET Int, NEW x \in T, \A y \in T : y <= x
    PROVE  Max(T) = x
  <1>1. ASSUME NEW z \in T, \A y \in T : y <= z PROVE z = x
    BY <1>1
  <1> QED
    BY <1>1 DEF Max

(* The times of finitely many things are finitely many.                     *)
LEMMA FiniteImage ==
    ASSUME NEW n \in Nat, NEW f, DOMAIN f = 1 .. n
    PROVE  IsFiniteSet({f[i] : i \in 1 .. n})
  <1> DEFINE T == {f[i] : i \in 1 .. n}
             g == [i \in 1 .. n |-> f[i]]
  <1>1. g \in [1 .. n -> T] /\ \A t \in T : \E i \in 1 .. n : g[i] = t
    OBVIOUS
  <1>2. g \in Surjection(1 .. n, T)
    BY <1>1 DEF Surjection
  <1> QED
    BY <1>2, FS_NatSurjection DEF ExistsSurjection

(* A bucket starts at or before its times, on the grid.                     *)
LEMMA BucketOnGrid ==
    ASSUME NEW t \in Int
    PROVE  Bucket(t) \in Int /\ OnGrid(Bucket(t), t)
  <1>1. Interval \in Int
    BY BatchAssumption
  <1>2. CASE Interval <= 0
    BY <1>1, <1>2 DEF Bucket, OnGrid
  <1>3. CASE Interval > 0 /\ t >= 0
    <2>1. Interval \in Nat /\ t % Interval \in 0 .. (Interval - 1) /\ t \div Interval \in Int
          /\ t = Interval * (t \div Interval) + (t % Interval)
      BY <1>1, <1>3
    <2>2. Bucket(t) = t - (t % Interval)
      BY <1>1, <1>3, <2>1 DEF Bucket
    <2>3. Bucket(t) = Interval * (t \div Interval) + 0 /\ 0 \in 0 .. (Interval - 1)
      BY <1>1, <1>3, <2>1, <2>2
    <2>4. Bucket(t) % Interval = 0
      BY <1>3, <2>1, <2>3, RemainderUnique
    <2> QED
      BY <1>1, <1>3, <2>1, <2>2, <2>4 DEF OnGrid
  <1>4. CASE Interval > 0 /\ t < 0
    <2> DEFINE r == (-t) % Interval
               q == (-t) \div Interval
    <2>1. Interval \in Nat /\ r \in 0 .. (Interval - 1) /\ q \in Int
          /\ -t = Interval * q + r
      BY <1>1, <1>4
    <2>2. Bucket(t) = IF r = 0 THEN t ELSE t + r - Interval
      BY <1>1, <1>4, <2>1 DEF Bucket
    <2> HIDE DEF r, q
    <2>3. CASE r = 0
      <3>1. Bucket(t) = Interval * (-q) + 0 /\ 0 \in 0 .. (Interval - 1) /\ -q \in Int
        BY <1>1, <1>4, <2>1, <2>2, <2>3
      <3>2. Bucket(t) % Interval = 0
        BY <1>4, <2>1, <3>1, RemainderUnique
      <3> QED
        BY <1>1, <1>4, <2>1, <2>2, <2>3, <3>2 DEF OnGrid
    <2>4. CASE r # 0
      <3>1. Bucket(t) = Interval * (-q - 1) + 0 /\ 0 \in 0 .. (Interval - 1) /\ -q - 1 \in Int
        BY <1>1, <1>4, <2>1, <2>2, <2>4
      <3>2. Bucket(t) % Interval = 0
        BY <1>4, <2>1, <3>1, RemainderUnique
      <3> QED
        BY <1>1, <1>4, <2>1, <2>2, <2>4, <3>2 DEF OnGrid
    <2> QED
      BY <2>3, <2>4
  <1> QED
    BY <1>1, <1>2, <1>3, <1>4

-----------------------------------------------------------------------------
(* The recursive definitions have solutions.                                *)

(* The rows after each sample.                                              *)
LEMMA SampleRowsSteps ==
    ASSUME NEW rows, NEW ts, Len(ts.samples) \in Nat
    PROVE  /\ SampleRows(rows, ts)[0] = rows
           /\ \A k \in 1 .. Len(ts.samples) :
                SampleRows(rows, ts)[k] = IF Keeps(ts.samples[k]) THEN AddSample(SampleRows(rows, ts)[k - 1], ts.id, ts.samples[k]) ELSE SampleRows(rows, ts)[k - 1]
  <1> DEFINE Step(k, b) == IF Keeps(ts.samples[k]) THEN AddSample(b, ts.id, ts.samples[k]) ELSE b
             Solves(f, n) == f = [k \in 0 .. n |-> IF k = 0 THEN rows
                                                  ELSE Step(k, f[k - 1])]
             S == {n \in Nat : \E f : Solves(f, n)}
  <1> HIDE DEF Step
  <1>1. 0 \in S
    <2>1. Solves([k \in 0 .. 0 |-> rows], 0)
      OBVIOUS
    <2> QED
      BY <2>1
  <1>2. ASSUME NEW n \in Nat, n \in S PROVE n + 1 \in S
    <2>1. PICK f : Solves(f, n)
      BY <1>2
    <2> DEFINE g == [k \in 0 .. (n + 1) |-> IF k <= n THEN f[k] ELSE Step(k, f[n])]
    <2>2. Solves(g, n + 1)
      <3> SUFFICES ASSUME NEW k \in 0 .. (n + 1)
                   PROVE  g[k] = IF k = 0 THEN rows ELSE Step(k, g[k - 1])
        OBVIOUS
      <3>1. CASE k <= n
        BY <2>1, <3>1
      <3>2. CASE k = n + 1
        BY <3>2
      <3> QED
        BY <3>1, <3>2
    <2> HIDE DEF g, Solves
    <2>3. n + 1 \in Nat /\ \E f2 : Solves(f2, n + 1)
      BY <2>2
    <2> QED
      BY <2>3
  <1>3. Len(ts.samples) \in S
    <2> HIDE DEF S
    <2> QED
      BY <1>1, <1>2, SetInduction
  <1>4. Solves(SampleRows(rows, ts), Len(ts.samples))
    BY <1>3 DEF SampleRows, Step
  <1>5. SampleRows(rows, ts)[0] = rows
    BY <1>4
  <1>6. ASSUME NEW k \in 1 .. Len(ts.samples)
        PROVE  SampleRows(rows, ts)[k] = Step(k, SampleRows(rows, ts)[k - 1])
    <2>1. k \in 0 .. Len(ts.samples) /\ k # 0
      OBVIOUS
    <2> QED
      BY <1>4, <2>1
  <1> QED
    BY <1>5, <1>6 DEF Step

(* The rows after each exemplar.                                            *)
LEMMA ExemplarRowsSteps ==
    ASSUME NEW rows, NEW ts, Len(ts.exems) \in Nat
    PROVE  /\ ExemplarRows(rows, ts)[0] = rows
           /\ \A k \in 1 .. Len(ts.exems) :
                ExemplarRows(rows, ts)[k] = IF KeepsExemplar(ts.exems[k]) THEN Append(ExemplarRows(rows, ts)[k - 1], [id |-> ts.id, t |-> ts.exems[k].t]) ELSE ExemplarRows(rows, ts)[k - 1]
  <1> DEFINE Step(k, b) == IF KeepsExemplar(ts.exems[k]) THEN Append(b, [id |-> ts.id, t |-> ts.exems[k].t]) ELSE b
             Solves(f, n) == f = [k \in 0 .. n |-> IF k = 0 THEN rows
                                                  ELSE Step(k, f[k - 1])]
             S == {n \in Nat : \E f : Solves(f, n)}
  <1> HIDE DEF Step
  <1>1. 0 \in S
    <2>1. Solves([k \in 0 .. 0 |-> rows], 0)
      OBVIOUS
    <2> QED
      BY <2>1
  <1>2. ASSUME NEW n \in Nat, n \in S PROVE n + 1 \in S
    <2>1. PICK f : Solves(f, n)
      BY <1>2
    <2> DEFINE g == [k \in 0 .. (n + 1) |-> IF k <= n THEN f[k] ELSE Step(k, f[n])]
    <2>2. Solves(g, n + 1)
      <3> SUFFICES ASSUME NEW k \in 0 .. (n + 1)
                   PROVE  g[k] = IF k = 0 THEN rows ELSE Step(k, g[k - 1])
        OBVIOUS
      <3>1. CASE k <= n
        BY <2>1, <3>1
      <3>2. CASE k = n + 1
        BY <3>2
      <3> QED
        BY <3>1, <3>2
    <2> HIDE DEF g, Solves
    <2>3. n + 1 \in Nat /\ \E f2 : Solves(f2, n + 1)
      BY <2>2
    <2> QED
      BY <2>3
  <1>3. Len(ts.exems) \in S
    <2> HIDE DEF S
    <2> QED
      BY <1>1, <1>2, SetInduction
  <1>4. Solves(ExemplarRows(rows, ts), Len(ts.exems))
    BY <1>3 DEF ExemplarRows, Step
  <1>5. ExemplarRows(rows, ts)[0] = rows
    BY <1>4
  <1>6. ASSUME NEW k \in 1 .. Len(ts.exems)
        PROVE  ExemplarRows(rows, ts)[k] = Step(k, ExemplarRows(rows, ts)[k - 1])
    <2>1. k \in 0 .. Len(ts.exems) /\ k # 0
      OBVIOUS
    <2> QED
      BY <1>4, <2>1
  <1> QED
    BY <1>5, <1>6 DEF Step

(* The batch after each time series.                                        *)
LEMMA SlowBatchesSteps ==
    ASSUME NEW list, Len(list) \in Nat
    PROVE  /\ SlowBatches(list)[0] = EmptyBatch
           /\ \A k \in 1 .. Len(list) :
                SlowBatches(list)[k] = IF SlowOutcome(list[k]) = "add" THEN AddTimeSeries(SlowBatches(list)[k - 1], list[k]) ELSE SlowBatches(list)[k - 1]
  <1> DEFINE Step(k, b) == IF SlowOutcome(list[k]) = "add" THEN AddTimeSeries(b, list[k]) ELSE b
             Solves(f, n) == f = [k \in 0 .. n |-> IF k = 0 THEN EmptyBatch
                                                  ELSE Step(k, f[k - 1])]
             S == {n \in Nat : \E f : Solves(f, n)}
  <1> HIDE DEF Step
  <1>1. 0 \in S
    <2>1. Solves([k \in 0 .. 0 |-> EmptyBatch], 0)
      OBVIOUS
    <2> QED
      BY <2>1
  <1>2. ASSUME NEW n \in Nat, n \in S PROVE n + 1 \in S
    <2>1. PICK f : Solves(f, n)
      BY <1>2
    <2> DEFINE g == [k \in 0 .. (n + 1) |-> IF k <= n THEN f[k] ELSE Step(k, f[n])]
    <2>2. Solves(g, n + 1)
      <3> SUFFICES ASSUME NEW k \in 0 .. (n + 1)
                   PROVE  g[k] = IF k = 0 THEN EmptyBatch ELSE Step(k, g[k - 1])
        OBVIOUS
      <3>1. CASE k <= n
        BY <2>1, <3>1
      <3>2. CASE k = n + 1
        BY <3>2
      <3> QED
        BY <3>1, <3>2
    <2> HIDE DEF g, Solves
    <2>3. n + 1 \in Nat /\ \E f2 : Solves(f2, n + 1)
      BY <2>2
    <2> QED
      BY <2>3
  <1>3. Len(list) \in S
    <2> HIDE DEF S
    <2> QED
      BY <1>1, <1>2, SetInduction
  <1>4. Solves(SlowBatches(list), Len(list))
    BY <1>3 DEF SlowBatches, Step
  <1>5. SlowBatches(list)[0] = EmptyBatch
    BY <1>4
  <1>6. ASSUME NEW k \in 1 .. Len(list)
        PROVE  SlowBatches(list)[k] = Step(k, SlowBatches(list)[k - 1])
    <2>1. k \in 0 .. Len(list) /\ k # 0
      OBVIOUS
    <2> QED
      BY <1>4, <2>1
  <1> QED
    BY <1>5, <1>6 DEF Step

-----------------------------------------------------------------------------
(* The rows of a time series.                                               *)

Sample == [t : Int, v : STRING]
SampleRow == [id : Nat, t : Int, v : STRING]
TimeRow == [id : Nat, t : Int]

(* The series and times of some rows, and rows of which no two neighbours   *)
(* share both.                                                             *)
Keyed(rows) == {<<rows[i].id, rows[i].t>> : i \in DOMAIN rows}
Apart(rows) == \A i \in 2 .. Len(rows) :
                  rows[i].id = rows[i - 1].id => rows[i].t # rows[i - 1].t

LEMMA TimeSeriesType ==
    ASSUME NEW ts \in TimeSeries
    PROVE  /\ ts.id \in Nat
           /\ ts.labels \in LabelShapes
           /\ ts.samples \in Seq(Sample) /\ Len(ts.samples) \in Nat
           /\ ts.hists \in Seq(Int) /\ Len(ts.hists) \in Nat
           /\ ts.exems \in Seq(Sample) /\ Len(ts.exems) \in Nat
  BY BatchAssumption DEF Sample

LEMMA KeyedAppend ==
    ASSUME NEW R, NEW rows \in Seq(R), NEW row \in R
    PROVE  /\ Append(rows, row) \in Seq(R)
           /\ Keyed(Append(rows, row)) = Keyed(rows) \cup {<<row.id, row.t>>}
  <1> DEFINE r == Append(rows, row)
             n == Len(rows)
  <1>1. n \in Nat /\ DOMAIN rows = 1 .. n
    BY LenProperties
  <1>2. r \in Seq(R) /\ Len(r) = n + 1 /\ (\A i \in 1 .. n : r[i] = rows[i]) /\ r[n + 1] = row
    BY AppendProperties
  <1>3. DOMAIN r = 1 .. (n + 1)
    BY <1>2, LenProperties
  <1> HIDE DEF r, n
  <1>4. ASSUME NEW k \in Keyed(r) PROVE k \in Keyed(rows) \cup {<<row.id, row.t>>}
    <2>1. PICK i \in 1 .. (n + 1) : k = <<r[i].id, r[i].t>>
      BY <1>3, <1>4 DEF Keyed
    <2>2. CASE i = n + 1
      BY <1>2, <2>1, <2>2
    <2>3. CASE i \in 1 .. n
      BY <1>1, <1>2, <2>1, <2>3 DEF Keyed
    <2> QED
      BY <1>1, <2>2, <2>3
  <1>5. ASSUME NEW k \in Keyed(rows) PROVE k \in Keyed(r)
    <2>1. PICK i \in 1 .. n : k = <<rows[i].id, rows[i].t>>
      BY <1>1, <1>5 DEF Keyed
    <2>2. i \in DOMAIN r /\ r[i] = rows[i]
      BY <1>1, <1>2, <1>3, <2>1
    <2> QED
      BY <2>1, <2>2 DEF Keyed
  <1>6. <<row.id, row.t>> \in Keyed(r)
    <2>1. n + 1 \in DOMAIN r
      BY <1>1, <1>3
    <2> QED
      BY <1>2, <2>1 DEF Keyed
  <1> QED
    BY <1>2, <1>4, <1>5, <1>6 DEF r

(* A row that replaces the last one, which has its series and time.         *)
LEMMA KeyedReplace ==
    ASSUME NEW rows \in Seq(SampleRow), NEW row \in SampleRow, rows # <<>>,
           rows[Len(rows)].id = row.id, rows[Len(rows)].t = row.t
    PROVE  /\ [rows EXCEPT ![Len(rows)] = row] \in Seq(SampleRow)
           /\ Keyed([rows EXCEPT ![Len(rows)] = row]) = Keyed(rows) \cup {<<row.id, row.t>>}
           /\ Apart(rows) => Apart([rows EXCEPT ![Len(rows)] = row])
           /\ \A i \in DOMAIN [rows EXCEPT ![Len(rows)] = row] :
                [rows EXCEPT ![Len(rows)] = row][i] \in Range(rows) \cup {row}
  <1> DEFINE n == Len(rows)
             r == [rows EXCEPT ![n] = row]
  <1>1. n \in Nat /\ DOMAIN rows = 1 .. n /\ n >= 1
    BY EmptySeq, LenProperties
  <1>2. r \in Seq(SampleRow) /\ Len(r) = n
    BY <1>1, ExceptSeq
  <1>3. DOMAIN r = 1 .. n /\ \A i \in 1 .. n : r[i] = IF i = n THEN row ELSE rows[i]
    BY <1>1
  <1>4. \A i \in 1 .. n : r[i].id = rows[i].id /\ r[i].t = rows[i].t
    BY <1>3
  <1> HIDE DEF r, n
  <1>5. Keyed(r) = Keyed(rows)
    BY <1>1, <1>3, <1>4 DEF Keyed
  <1>6. <<row.id, row.t>> \in Keyed(rows)
    <2>1. n \in DOMAIN rows
      BY <1>1
    <2> QED
      BY <2>1 DEF Keyed, n
  <1>7. ASSUME Apart(rows) PROVE Apart(r)
    <2> SUFFICES ASSUME NEW i \in 2 .. n, r[i].id = r[i - 1].id PROVE r[i].t # r[i - 1].t
      BY <1>2 DEF Apart
    <2>1. i \in 1 .. n /\ i - 1 \in 1 .. n
      BY <1>1
    <2> QED
      BY <1>4, <1>7, <2>1 DEF Apart, n
  <1>8. ASSUME NEW i \in DOMAIN r PROVE r[i] \in Range(rows) \cup {row}
    BY <1>1, <1>3 DEF Range
  <1> QED
    BY <1>2, <1>5, <1>6, <1>7, <1>8 DEF r, n

(* What samples of a series leave among the rows: those that were there,    *)
(* rows of the samples, no two neighbours in one bucket.                   *)
RowsFrom(r, rows, id, xs) ==
    /\ r \in Seq(SampleRow)
    /\ Keyed(r) = Keyed(rows) \cup {<<id, Bucket(x.t)>> : x \in xs}
    /\ Apart(rows) => Apart(r)
    /\ \A i \in DOMAIN r :
         \/ r[i] \in Range(rows)
         \/ \E x \in xs : r[i] = [id |-> id, t |-> Bucket(x.t), v |-> x.v]

(* One sample.                                                              *)
LEMMA AddSampleRow ==
    ASSUME NEW rows \in Seq(SampleRow), NEW id \in Nat, NEW x \in Sample
    PROVE  RowsFrom(AddSample(rows, id, x), rows, id, {x})
  <1> DEFINE r == AddSample(rows, id, x)
             row == [id |-> id, t |-> Bucket(x.t), v |-> x.v]
             n == Len(rows)
  <1>1. x.t \in Int /\ x.v \in STRING /\ Bucket(x.t) \in Int
    BY BucketOnGrid DEF Sample
  <1>2. row \in SampleRow /\ row.id = id /\ row.t = Bucket(x.t)
    BY <1>1 DEF SampleRow
  <1>3. n \in Nat /\ DOMAIN rows = 1 .. n /\ (rows # <<>> => n >= 1)
        /\ \A i \in 1 .. n : rows[i] \in SampleRow
    BY EmptySeq, LenProperties
  <1>s. {<<id, Bucket(y.t)>> : y \in {x}} = {<<row.id, row.t>>}
    BY <1>2
  <1>4. CASE rows # <<>> /\ rows[n].id = id /\ rows[n].t = Bucket(x.t)
    <2>1. r = [rows EXCEPT ![n] = row]
      <3>1. rows[n] \in SampleRow
        BY <1>3, <1>4
      <3>2. [rows[n] EXCEPT !.v = x.v] = row
        BY <1>4, <3>1 DEF SampleRow
      <3>3. r = [rows EXCEPT ![n] = [rows[n] EXCEPT !.v = x.v]]
        BY <1>4 DEF AddSample, Last
      <3> QED
        BY <3>2, <3>3
    <2> HIDE DEF row
    <2>2. /\ r \in Seq(SampleRow)
          /\ Keyed(r) = Keyed(rows) \cup {<<row.id, row.t>>}
          /\ Apart(rows) => Apart(r)
          /\ \A i \in DOMAIN r : r[i] \in Range(rows) \cup {row}
      <3>1. rows # <<>> /\ rows[Len(rows)].id = row.id /\ rows[Len(rows)].t = row.t
        BY <1>2, <1>4
      <3> HIDE DEF n, r
      <3>2. r = [rows EXCEPT ![Len(rows)] = row]
        BY <2>1 DEF n
      <3> QED
        BY <1>2, <3>1, <3>2, KeyedReplace
    <2> HIDE DEF r
    <2>3. \A i \in DOMAIN r : r[i] \in Range(rows) \/ \E y \in {x} : r[i] = [id |-> id, t |-> Bucket(y.t), v |-> y.v]
      BY <2>2 DEF row
    <2>4. Keyed(r) = Keyed(rows) \cup {<<id, Bucket(y.t)>> : y \in {x}}
      BY <2>2, <1>s
    <2> QED
      BY <2>2, <2>3, <2>4 DEF RowsFrom, r
  <1>5. CASE ~(rows # <<>> /\ rows[n].id = id /\ rows[n].t = Bucket(x.t))
    <2>1. r = Append(rows, row)
      BY <1>5 DEF AddSample, Last
    <2> HIDE DEF r, row
    <2>2. r \in Seq(SampleRow) /\ Len(r) = n + 1
          /\ (\A i \in 1 .. n : r[i] = rows[i]) /\ r[n + 1] = row
      BY <1>2, <2>1, AppendProperties
    <2>3. DOMAIN r = 1 .. (n + 1)
      BY <2>2, LenProperties
    <2>4. Keyed(r) = Keyed(rows) \cup {<<id, Bucket(y.t)>> : y \in {x}}
      BY <1>2, <1>s, <2>1, KeyedAppend
    <2>5. ASSUME Apart(rows) PROVE Apart(r)
      <3> SUFFICES ASSUME NEW i \in 2 .. (n + 1), r[i].id = r[i - 1].id PROVE r[i].t # r[i - 1].t
        BY <2>2 DEF Apart
      <3>1. CASE i = n + 1
        <4>1. n \in 1 .. n /\ rows # <<>>
          <5>1. n \in 1 .. n
            BY <1>3, <3>1
          <5> QED
            BY <1>3, <5>1
        <4>2. r[i] = row /\ r[i - 1] = rows[n]
          BY <1>3, <2>2, <3>1, <4>1
        <4> QED
          BY <1>2, <1>5, <4>1, <4>2
      <3>2. CASE i \in 2 .. n
        <4>1. i \in 1 .. n /\ i - 1 \in 1 .. n
          BY <1>3, <3>2
        <4>2. r[i] = rows[i] /\ r[i - 1] = rows[i - 1]
          BY <2>2, <4>1
        <4> QED
          BY <2>5, <3>2, <4>2 DEF Apart
      <3> QED
        BY <1>3, <3>1, <3>2
    <2>6. ASSUME NEW i \in DOMAIN r
          PROVE  r[i] \in Range(rows) \/ \E y \in {x} : r[i] = [id |-> id, t |-> Bucket(y.t), v |-> y.v]
      <3>1. CASE i = n + 1
        BY <2>2, <3>1 DEF row
      <3>2. CASE i \in 1 .. n
        BY <1>3, <2>2, <3>2 DEF Range
      <3> QED
        BY <1>3, <2>3, <3>1, <3>2
    <2> QED
      BY <2>2, <2>4, <2>5, <2>6 DEF RowsFrom, r
  <1> QED
    BY <1>4, <1>5

LEMMA NoRowsAdded ==
    ASSUME NEW rows \in Seq(SampleRow), NEW id
    PROVE  RowsFrom(rows, rows, id, {})
  <1>1. {<<id, Bucket(x.t)>> : x \in {}} = {}
    OBVIOUS
  <1>2. \A i \in DOMAIN rows : rows[i] \in Range(rows)
    BY DEF Range
  <1> QED
    BY <1>1, <1>2 DEF RowsFrom

LEMMA MoreRowsAdded ==
    ASSUME NEW r, NEW s, NEW rows, NEW id, NEW xs, NEW x,
           RowsFrom(s, rows, id, xs), RowsFrom(r, s, id, {x})
    PROVE  RowsFrom(r, rows, id, xs \cup {x})
  <1>1. Keyed(r) = Keyed(rows) \cup {<<id, Bucket(y.t)>> : y \in xs \cup {x}}
    <2>1. Keyed(s) = Keyed(rows) \cup {<<id, Bucket(y.t)>> : y \in xs}
      BY DEF RowsFrom
    <2>2. Keyed(r) = Keyed(s) \cup {<<id, Bucket(y.t)>> : y \in {x}}
      BY DEF RowsFrom
    <2> QED
      BY <2>1, <2>2
  <1>2. ASSUME NEW i \in DOMAIN r
        PROVE  \/ r[i] \in Range(rows)
               \/ \E y \in xs \cup {x} : r[i] = [id |-> id, t |-> Bucket(y.t), v |-> y.v]
    <2>1. CASE \E y \in {x} : r[i] = [id |-> id, t |-> Bucket(y.t), v |-> y.v]
      BY <2>1
    <2>2. CASE r[i] \in Range(s)
      <3>1. PICK j \in DOMAIN s : r[i] = s[j]
        BY <2>2 DEF Range
      <3>2. \/ s[j] \in Range(rows)
            \/ \E y \in xs : s[j] = [id |-> id, t |-> Bucket(y.t), v |-> y.v]
        BY <3>1 DEF RowsFrom
      <3> QED
        BY <3>1, <3>2
    <2>3. r[i] \in Range(s) \/ \E y \in {x} : r[i] = [id |-> id, t |-> Bucket(y.t), v |-> y.v]
      BY DEF RowsFrom
    <2> QED
      BY <2>1, <2>2, <2>3
  <1>3. r \in Seq(SampleRow) /\ (Apart(rows) => Apart(r))
    BY DEF RowsFrom
  <1> QED
    BY <1>1, <1>2, <1>3 DEF RowsFrom

(* The elements of a sequence at its first positions.                       *)
Firsts(seq, n) == {seq[i] : i \in 1 .. n}

LEMMA FirstsSteps ==
    ASSUME NEW R, NEW seq \in Seq(R)
    PROVE  /\ Firsts(seq, 0) = {}
           /\ Firsts(seq, Len(seq)) = Range(seq)
           /\ \A k \in 1 .. Len(seq) : /\ Firsts(seq, k) = Firsts(seq, k - 1) \cup {seq[k]}
                                       /\ seq[k] \in R
  <1>1. Len(seq) \in Nat /\ DOMAIN seq = 1 .. Len(seq)
    BY LenProperties
  <1>2. Firsts(seq, 0) = {}
    BY DEF Firsts
  <1>3. Firsts(seq, Len(seq)) = Range(seq)
    BY <1>1 DEF Firsts, Range
  <1>4. ASSUME NEW k \in 1 .. Len(seq)
        PROVE  Firsts(seq, k) = Firsts(seq, k - 1) \cup {seq[k]} /\ seq[k] \in R
    <2>1. 1 .. k = (1 .. (k - 1)) \cup {k}
      BY <1>1
    <2> QED
      BY <1>1, <2>1 DEF Firsts
  <1> QED
    BY <1>2, <1>3, <1>4

(* The samples of a time series.                                            *)
LEMMA AddSamplesRows ==
    ASSUME NEW rows \in Seq(SampleRow), NEW ts \in TimeSeries
    PROVE  RowsFrom(AddSamples(rows, ts), rows, ts.id, Kept(ts))
  <1> DEFINE n == Len(ts.samples)
             after == SampleRows(rows, ts)
             Had(k) == {x \in Firsts(ts.samples, k) : Keeps(x)}
             S == {k \in Nat : k <= n => RowsFrom(after[k], rows, ts.id, Had(k))}
  <1>1. n \in Nat /\ ts.id \in Nat /\ ts.samples \in Seq(Sample)
    BY TimeSeriesType
  <1>2. after[0] = rows
    BY <1>1, SampleRowsSteps
  <1>3. \A k \in 1 .. n :
          after[k] = IF Keeps(ts.samples[k]) THEN AddSample(after[k - 1], ts.id, ts.samples[k])
                     ELSE after[k - 1]
    BY <1>1, SampleRowsSteps
  <1>4. \A k \in 1 .. n : /\ Firsts(ts.samples, k) = Firsts(ts.samples, k - 1) \cup {ts.samples[k]}
                          /\ ts.samples[k] \in Sample
    BY <1>1, FirstsSteps
  <1>5. Firsts(ts.samples, 0) = {} /\ Firsts(ts.samples, n) = Range(ts.samples)
    BY <1>1, FirstsSteps
  <1> HIDE DEF n, after
  <1>6. 0 \in S
    <2>1. Had(0) = {}
      BY <1>5
    <2> QED
      BY <1>2, <2>1, NoRowsAdded
  <1>7. ASSUME NEW k \in Nat, k \in S PROVE k + 1 \in S
    <2> SUFFICES ASSUME k + 1 <= n PROVE RowsFrom(after[k + 1], rows, ts.id, Had(k + 1))
      OBVIOUS
    <2> DEFINE x == ts.samples[k + 1]
    <2>1. k + 1 \in 1 .. n /\ (k + 1) - 1 = k /\ k <= n
      BY <1>1
    <2>2. RowsFrom(after[k], rows, ts.id, Had(k))
      BY <1>7, <2>1
    <2>3. Firsts(ts.samples, k + 1) = Firsts(ts.samples, k) \cup {x} /\ x \in Sample
      BY <1>4, <2>1
    <2>4. after[k + 1] = IF Keeps(x) THEN AddSample(after[k], ts.id, x) ELSE after[k]
      BY <1>3, <2>1
    <2> HIDE DEF x
    <2>5. CASE Keeps(x)
      <3>1. Had(k + 1) = Had(k) \cup {x}
        BY <2>3, <2>5
      <3>2. after[k] \in Seq(SampleRow)
        BY <2>2 DEF RowsFrom
      <3>3. RowsFrom(after[k + 1], after[k], ts.id, {x})
        BY <1>1, <2>3, <2>4, <2>5, <3>2, AddSampleRow
      <3> HIDE DEF Had
      <3>4. RowsFrom(after[k + 1], rows, ts.id, Had(k) \cup {x})
        BY <2>2, <3>3, MoreRowsAdded
      <3> QED
        BY <3>1, <3>4
    <2>6. CASE ~Keeps(x)
      <3>1. Had(k + 1) = Had(k)
        BY <2>3, <2>6
      <3>2. after[k + 1] = after[k]
        BY <2>4, <2>6
      <3> HIDE DEF Had
      <3> QED
        BY <2>2, <3>1, <3>2
    <2> QED
      BY <2>5, <2>6
  <1>8. n \in S
    <2> HIDE DEF S
    <2> QED
      BY <1>1, <1>6, <1>7, SetInduction
  <1>9. RowsFrom(after[n], rows, ts.id, Had(n))
    BY <1>1, <1>8
  <1>10. Had(n) = Kept(ts)
    BY <1>5 DEF Kept
  <1> QED
    BY <1>9, <1>10 DEF AddSamples, n, after

(* The exemplars of a time series.                                          *)
LEMMA AddExemplarRows ==
    ASSUME NEW rows \in Seq(TimeRow), NEW ts \in TimeSeries
    PROVE  /\ AddExemplars(rows, ts) \in Seq(TimeRow)
           /\ Keyed(AddExemplars(rows, ts)) = Keyed(rows) \cup {<<ts.id, x.t>> : x \in KeptExemplars(ts)}
  <1> DEFINE n == Len(ts.exems)
             after == ExemplarRows(rows, ts)
             Had(k) == {x \in Firsts(ts.exems, k) : KeepsExemplar(x)}
             Right(r, xs) == r \in Seq(TimeRow) /\ Keyed(r) = Keyed(rows) \cup {<<ts.id, x.t>> : x \in xs}
             S == {k \in Nat : k <= n => Right(after[k], Had(k))}
  <1>1. n \in Nat /\ ts.id \in Nat /\ ts.exems \in Seq(Sample)
    BY TimeSeriesType
  <1>2. after[0] = rows
    BY <1>1, ExemplarRowsSteps
  <1>3. \A k \in 1 .. n :
          after[k] = IF KeepsExemplar(ts.exems[k])
                     THEN Append(after[k - 1], [id |-> ts.id, t |-> ts.exems[k].t])
                     ELSE after[k - 1]
    BY <1>1, ExemplarRowsSteps
  <1>4. \A k \in 1 .. n : /\ Firsts(ts.exems, k) = Firsts(ts.exems, k - 1) \cup {ts.exems[k]}
                          /\ ts.exems[k] \in Sample
    BY <1>1, FirstsSteps
  <1>5. Firsts(ts.exems, 0) = {} /\ Firsts(ts.exems, n) = Range(ts.exems)
    BY <1>1, FirstsSteps
  <1> HIDE DEF n, after
  <1>6. 0 \in S
    <2>1. Had(0) = {}
      BY <1>5
    <2>2. Right(after[0], {})
      BY <1>2
    <2> QED
      BY <2>1, <2>2
  <1>7. ASSUME NEW k \in Nat, k \in S PROVE k + 1 \in S
    <2> SUFFICES ASSUME k + 1 <= n PROVE Right(after[k + 1], Had(k + 1))
      OBVIOUS
    <2> DEFINE x == ts.exems[k + 1]
               row == [id |-> ts.id, t |-> x.t]
    <2>1. k + 1 \in 1 .. n /\ (k + 1) - 1 = k /\ k <= n
      BY <1>1
    <2>2. Right(after[k], Had(k))
      BY <1>7, <2>1
    <2>3. Firsts(ts.exems, k + 1) = Firsts(ts.exems, k) \cup {x} /\ x \in Sample
      BY <1>4, <2>1
    <2>4. after[k + 1] = IF KeepsExemplar(x) THEN Append(after[k], row) ELSE after[k]
      BY <1>3, <2>1
    <2>5. row \in TimeRow /\ row.id = ts.id /\ row.t = x.t
      BY <1>1, <2>3 DEF TimeRow, Sample
    <2> HIDE DEF x, row
    <2>6. CASE KeepsExemplar(x)
      <3>1. Had(k + 1) = Had(k) \cup {x}
        BY <2>3, <2>6
      <3> HIDE DEF Had
      <3>2. after[k] \in Seq(TimeRow)
        BY <2>2
      <3>3. after[k + 1] = Append(after[k], row)
        BY <2>4, <2>6
      <3> HIDE DEF Right
      <3>4. after[k + 1] \in Seq(TimeRow)
            /\ Keyed(after[k + 1]) = Keyed(after[k]) \cup {<<row.id, row.t>>}
        BY <2>5, <3>2, <3>3, KeyedAppend
      <3>5. Right(after[k + 1], Had(k) \cup {x})
        BY <2>2, <2>5, <3>4 DEF Right
      <3> QED
        BY <3>1, <3>5
    <2>7. CASE ~KeepsExemplar(x)
      <3>1. Had(k + 1) = Had(k)
        BY <2>3, <2>7
      <3> HIDE DEF Had, Right
      <3> QED
        BY <2>2, <2>4, <2>7, <3>1
    <2> QED
      BY <2>6, <2>7
  <1>8. n \in S
    <2> HIDE DEF S
    <2> QED
      BY <1>1, <1>6, <1>7, SetInduction
  <1>9. Right(after[n], Had(n))
    BY <1>1, <1>8
  <1>10. Had(n) = KeptExemplars(ts)
    BY <1>5 DEF KeptExemplars
  <1> QED
    BY <1>9, <1>10 DEF AddExemplars, n, after

LEMMA KeyedConcat ==
    ASSUME NEW R, NEW a \in Seq(R), NEW b \in Seq(R)
    PROVE  a \o b \in Seq(R) /\ Keyed(a \o b) = Keyed(a) \cup Keyed(b)
  <1> DEFINE r == a \o b
             m == Len(a)
             n == Len(b)
  <1>1. m \in Nat /\ n \in Nat /\ DOMAIN a = 1 .. m /\ DOMAIN b = 1 .. n
    BY LenProperties
  <1>2. r \in Seq(R) /\ Len(r) = m + n
        /\ \A i \in 1 .. (m + n) : r[i] = IF i <= m THEN a[i] ELSE b[i - m]
    BY ConcatProperties
  <1>3. DOMAIN r = 1 .. (m + n)
    BY <1>2, LenProperties
  <1> HIDE DEF r, m, n
  <1>4. ASSUME NEW k \in Keyed(r) PROVE k \in Keyed(a) \cup Keyed(b)
    <2>1. PICK i \in 1 .. (m + n) : k = <<r[i].id, r[i].t>>
      BY <1>3, <1>4 DEF Keyed
    <2>2. CASE i <= m
      <3>1. i \in DOMAIN a /\ r[i] = a[i]
        BY <1>1, <1>2, <2>1, <2>2
      <3> QED
        BY <2>1, <3>1 DEF Keyed
    <2>3. CASE i > m
      <3>1. i - m \in DOMAIN b /\ r[i] = b[i - m]
        BY <1>1, <1>2, <2>1, <2>3
      <3> QED
        BY <2>1, <3>1 DEF Keyed
    <2> QED
      BY <1>1, <2>2, <2>3
  <1>5. ASSUME NEW k \in Keyed(a) PROVE k \in Keyed(r)
    <2>1. PICK i \in 1 .. m : k = <<a[i].id, a[i].t>>
      BY <1>1, <1>5 DEF Keyed
    <2>2. i \in DOMAIN r /\ r[i] = a[i]
      BY <1>1, <1>2, <1>3, <2>1
    <2> QED
      BY <2>1, <2>2 DEF Keyed
  <1>6. ASSUME NEW k \in Keyed(b) PROVE k \in Keyed(r)
    <2>1. PICK i \in 1 .. n : k = <<b[i].id, b[i].t>>
      BY <1>1, <1>6 DEF Keyed
    <2>2. i + m \in DOMAIN r /\ r[i + m] = b[i]
      <3>1. i + m \in 1 .. (m + n) /\ ~(i + m <= m) /\ (i + m) - m = i
        BY <1>1
      <3> QED
        BY <1>2, <1>3, <3>1
    <2> QED
      BY <2>1, <2>2 DEF Keyed
  <1> QED
    BY <1>2, <1>4, <1>5, <1>6 DEF r

(* The histograms of a time series.                                         *)
HistogramRows(ts) == [i \in DOMAIN ts.hists |-> [id |-> ts.id, t |-> Bucket(ts.hists[i])]]

LEMMA HistogramRowsKeyed ==
    ASSUME NEW ts \in TimeSeries
    PROVE  /\ HistogramRows(ts) \in Seq(TimeRow)
           /\ Keyed(HistogramRows(ts)) = {<<ts.id, Bucket(t)>> : t \in Range(ts.hists)}
  <1> DEFINE n == Len(ts.hists)
             h == HistogramRows(ts)
  <1>1. n \in Nat /\ ts.id \in Nat /\ DOMAIN ts.hists = 1 .. n
        /\ \A i \in 1 .. n : ts.hists[i] \in Int
    BY TimeSeriesType, LenProperties
  <1>2. ASSUME NEW i \in 1 .. n PROVE Bucket(ts.hists[i]) \in Int
    BY <1>1, BucketOnGrid
  <1>3. DOMAIN h = 1 .. n /\ \A i \in 1 .. n : h[i] = [id |-> ts.id, t |-> Bucket(ts.hists[i])]
    BY <1>1 DEF HistogramRows
  <1>4. h \in [1 .. n -> TimeRow]
    BY <1>1, <1>2 DEF HistogramRows, TimeRow
  <1>5. h \in Seq(TimeRow)
    BY <1>1, <1>4, SeqDef
  <1> HIDE DEF h
  <1>6. ASSUME NEW i \in 1 .. n PROVE h[i].id = ts.id /\ h[i].t = Bucket(ts.hists[i])
    <2> DEFINE row == [id |-> ts.id, t |-> Bucket(ts.hists[i])]
    <2>1. row.id = ts.id /\ row.t = Bucket(ts.hists[i])
      OBVIOUS
    <2>2. h[i] = row
      BY <1>3
    <2> HIDE DEF row
    <2> QED
      BY <2>1, <2>2
  <1>7. Keyed(h) = {<<ts.id, Bucket(ts.hists[i])>> : i \in 1 .. n}
    BY <1>3, <1>6 DEF Keyed
  <1>8. {<<ts.id, Bucket(t)>> : t \in Range(ts.hists)} = {<<ts.id, Bucket(ts.hists[i])>> : i \in 1 .. n}
    BY <1>1 DEF Range
  <1> QED
    BY <1>5, <1>7, <1>8 DEF h

-----------------------------------------------------------------------------
(* The series records.                                                      *)

Record == [id : Nat, min : Int, max : Int]

LEMMA ObservedType ==
    ASSUME NEW ts \in TimeSeries
    PROVE  Observed(ts) \in SUBSET Int /\ IsFiniteSet(Observed(ts))
  <1> DEFINE A == {Bucket(x.t) : x \in Kept(ts)}
             B == {Bucket(t) : t \in Range(ts.hists)}
             C == {x.t : x \in KeptExemplars(ts)}
             a == [i \in 1 .. Len(ts.samples) |-> Bucket(ts.samples[i].t)]
             b == [i \in 1 .. Len(ts.hists) |-> Bucket(ts.hists[i])]
             c == [i \in 1 .. Len(ts.exems) |-> ts.exems[i].t]
  <1>1. /\ Len(ts.samples) \in Nat /\ DOMAIN ts.samples = 1 .. Len(ts.samples)
        /\ Len(ts.hists) \in Nat /\ DOMAIN ts.hists = 1 .. Len(ts.hists)
        /\ Len(ts.exems) \in Nat /\ DOMAIN ts.exems = 1 .. Len(ts.exems)
    BY TimeSeriesType, LenProperties
  <1>2. \A x \in Range(ts.samples) : x.t \in Int
    <2> SUFFICES ASSUME NEW x \in Range(ts.samples) PROVE x.t \in Int
      OBVIOUS
    <2>1. PICK i \in DOMAIN ts.samples : x = ts.samples[i]
      BY DEF Range
    <2>2. x \in Sample
      BY <1>1, <2>1, TimeSeriesType
    <2> QED
      BY <2>2 DEF Sample
  <1>3. \A t \in Range(ts.hists) : t \in Int
    BY TimeSeriesType DEF Range
  <1>4. \A x \in Range(ts.exems) : x.t \in Int
    <2> SUFFICES ASSUME NEW x \in Range(ts.exems) PROVE x.t \in Int
      OBVIOUS
    <2>1. PICK i \in DOMAIN ts.exems : x = ts.exems[i]
      BY DEF Range
    <2>2. x \in Sample
      BY <1>1, <2>1, TimeSeriesType
    <2> QED
      BY <2>2 DEF Sample
  <1>5. A \in SUBSET Int
    <2>1. ASSUME NEW x \in Kept(ts) PROVE Bucket(x.t) \in Int
      BY <1>2, BucketOnGrid DEF Kept
    <2> QED
      BY <2>1
  <1>6. B \in SUBSET Int
    <2>1. ASSUME NEW t \in Range(ts.hists) PROVE Bucket(t) \in Int
      BY <1>3, BucketOnGrid
    <2> QED
      BY <2>1
  <1>7. C \in SUBSET Int
    BY <1>4 DEF KeptExemplars
  <1>8. IsFiniteSet(A)
    <2>1. IsFiniteSet({a[i] : i \in 1 .. Len(ts.samples)})
      BY <1>1, FiniteImage
    <2>2. A \subseteq {a[i] : i \in 1 .. Len(ts.samples)}
      BY <1>1 DEF Kept, Range
    <2> HIDE DEF A, a
    <2> QED
      BY <2>1, <2>2, FS_Subset
  <1>9. IsFiniteSet(B)
    <2>1. IsFiniteSet({b[i] : i \in 1 .. Len(ts.hists)})
      BY <1>1, FiniteImage
    <2>2. B \subseteq {b[i] : i \in 1 .. Len(ts.hists)}
      BY <1>1 DEF Range
    <2> HIDE DEF B, b
    <2> QED
      BY <2>1, <2>2, FS_Subset
  <1>10. IsFiniteSet(C)
    <2>1. IsFiniteSet({c[i] : i \in 1 .. Len(ts.exems)})
      BY <1>1, FiniteImage
    <2>2. C \subseteq {c[i] : i \in 1 .. Len(ts.exems)}
      BY <1>1 DEF KeptExemplars, Range
    <2> HIDE DEF C, c
    <2> QED
      BY <2>1, <2>2, FS_Subset
  <1>11. Observed(ts) = (A \cup B) \cup C
    BY DEF Observed
  <1> HIDE DEF A, B, C
  <1>12. IsFiniteSet((A \cup B) \cup C)
    BY <1>8, <1>9, <1>10, FS_Union
  <1> QED
    BY <1>5, <1>6, <1>7, <1>11, <1>12

(* No id has two records.                                                   *)
Distinct(records) == \A i, j \in DOMAIN records : records[i].id = records[j].id => i = j

(* Records of exactly the series that have rows, with the extremes of the   *)
(* rows' times; keys are the rows' pairs of series and time.               *)
Fits(records, keys) ==
    /\ \A id \in Nat : (\E i \in DOMAIN records : records[i].id = id)
                          <=> (\E t \in Int : <<id, t>> \in keys)
    /\ \A i \in DOMAIN records :
         /\ <<records[i].id, records[i].min>> \in keys
         /\ <<records[i].id, records[i].max>> \in keys
         /\ \A t \in Int : <<records[i].id, t>> \in keys
                             => records[i].min <= t /\ t <= records[i].max

(* A record for a new series.                                               *)
LEMMA RecordAppended ==
    ASSUME NEW records \in Seq(Record), NEW keys, NEW row \in Record,
           NEW T \in SUBSET Int, row.min \in T, row.max \in T,
           \A t \in T : row.min <= t /\ t <= row.max,
           Distinct(records), Fits(records, keys),
           \A i \in DOMAIN records : records[i].id # row.id
    PROVE  /\ Append(records, row) \in Seq(Record)
           /\ Distinct(Append(records, row))
           /\ Fits(Append(records, row), keys \cup {<<row.id, t>> : t \in T})
  <1> DEFINE id == row.id
             lo == row.min
             hi == row.max
             r == Append(records, row)
             n == Len(records)
             all == keys \cup {<<id, t>> : t \in T}
  <1>1. n \in Nat /\ DOMAIN records = 1 .. n /\ \A i \in 1 .. n : records[i] \in Record
    BY LenProperties
  <1>2. row.id = id /\ row.min = lo /\ row.max = hi /\ id \in Nat /\ lo \in Int /\ hi \in Int
    BY DEF Record
  <1>3. r \in Seq(Record) /\ Len(r) = n + 1 /\ (\A i \in 1 .. n : r[i] = records[i]) /\ r[n + 1] = row
    BY <1>2, AppendProperties
  <1>4. DOMAIN r = 1 .. (n + 1)
    BY <1>3, LenProperties
  <1> HIDE DEF r, n
  <1>5. \A i \in DOMAIN r : i = n + 1 \/ i \in DOMAIN records
    BY <1>1, <1>4
  <1>6. \A i \in DOMAIN records : i \in DOMAIN r /\ i # n + 1 /\ r[i] = records[i] /\ records[i].id \in Nat
    BY <1>1, <1>3, <1>4 DEF Record
  <1>7. n + 1 \in DOMAIN r
    BY <1>1, <1>4
  <1>8. Distinct(r)
    <2> SUFFICES ASSUME NEW i \in DOMAIN r, NEW j \in DOMAIN r, r[i].id = r[j].id PROVE i = j
      BY DEF Distinct
    <2>1. CASE i = n + 1 /\ j \in DOMAIN records
      BY <1>2, <1>3, <1>6, <2>1
    <2>2. CASE j = n + 1 /\ i \in DOMAIN records
      BY <1>2, <1>3, <1>6, <2>2
    <2>3. CASE i \in DOMAIN records /\ j \in DOMAIN records
      BY <1>6, <2>3 DEF Distinct
    <2> QED
      BY <1>5, <2>1, <2>2, <2>3
  <1>9. ASSUME NEW t \in Int PROVE <<id, t>> \notin keys
    BY <1>2 DEF Fits
  <1>10. ASSUME NEW k \in Nat, NEW t \in Int
         PROVE  <<k, t>> \in all <=> (<<k, t>> \in keys \/ (k = id /\ t \in T))
    OBVIOUS
  <1> HIDE DEF all
  <1>11. ASSUME NEW k \in Nat
         PROVE  (\E i \in DOMAIN r : r[i].id = k) <=> (\E t \in Int : <<k, t>> \in all)
    <2>1. CASE k = id
      BY <1>2, <1>3, <1>7, <1>10, <2>1
    <2>2. CASE k # id
      <3>1. (\E i \in DOMAIN r : r[i].id = k) <=> (\E i \in DOMAIN records : records[i].id = k)
        BY <1>2, <1>3, <1>5, <1>6, <2>2
      <3>2. (\E i \in DOMAIN records : records[i].id = k) <=> (\E t \in Int : <<k, t>> \in keys)
        BY DEF Fits
      <3> QED
        BY <1>10, <2>2, <3>1, <3>2
    <2> QED
      BY <2>1, <2>2
  <1>12. ASSUME NEW i \in DOMAIN r
         PROVE  /\ <<r[i].id, r[i].min>> \in all
                /\ <<r[i].id, r[i].max>> \in all
                /\ \A t \in Int : <<r[i].id, t>> \in all => r[i].min <= t /\ t <= r[i].max
    <2>1. CASE i = n + 1
      BY <1>2, <1>3, <1>9, <1>10, <2>1
    <2>2. CASE i \in DOMAIN records
      <3>1. r[i] = records[i] /\ r[i] \in Record /\ r[i].id \in Nat /\ r[i].id # id /\ r[i].min \in Int /\ r[i].max \in Int
        BY <1>1, <1>6, <2>2 DEF Record
      <3>2. /\ <<r[i].id, r[i].min>> \in keys
            /\ <<r[i].id, r[i].max>> \in keys
            /\ \A t \in Int : <<r[i].id, t>> \in keys => r[i].min <= t /\ t <= r[i].max
        BY <2>2, <3>1 DEF Fits
      <3> QED
        BY <1>10, <3>1, <3>2
    <2> QED
      BY <1>5, <2>1, <2>2
  <1>13. Fits(r, all)
    BY <1>11, <1>12 DEF Fits
  <1> QED
    BY <1>3, <1>8, <1>13 DEF r, all

LEMMA OfTwo ==
    ASSUME NEW a \in Int, NEW b \in Int
    PROVE  /\ Min({a, b}) \in {a, b} /\ Min({a, b}) <= a /\ Min({a, b}) <= b
           /\ Max({a, b}) \in {a, b} /\ a <= Max({a, b}) /\ b <= Max({a, b})
  <1>1. CASE a <= b
    <2>1. Min({a, b}) = a /\ Max({a, b}) = b
      BY <1>1, SameMin, SameMax
    <2> QED
      BY <1>1, <2>1
  <1>2. CASE b <= a
    <2>1. Min({a, b}) = b /\ Max({a, b}) = a
      BY <1>2, SameMin, SameMax
    <2> QED
      BY <1>2, <2>1
  <1> QED
    BY <1>1, <1>2

(* The record of a series that comes again.                                 *)
LEMMA RecordWidened ==
    ASSUME NEW records \in Seq(Record), NEW keys, NEW at \in DOMAIN records, NEW row \in Record,
           NEW T \in SUBSET Int, NEW lo \in T, NEW hi \in T, \A t \in T : lo <= t /\ t <= hi,
           row.id = records[at].id,
           row.min = Min({records[at].min, lo}), row.max = Max({records[at].max, hi}),
           Distinct(records), Fits(records, keys)
    PROVE  /\ [records EXCEPT ![at] = row] \in Seq(Record)
           /\ Distinct([records EXCEPT ![at] = row])
           /\ Fits([records EXCEPT ![at] = row], keys \cup {<<row.id, t>> : t \in T})
  <1> DEFINE r == [records EXCEPT ![at] = row]
             n == Len(records)
             all == keys \cup {<<row.id, t>> : t \in T}
             old == records[at]
  <1>1. n \in Nat /\ DOMAIN records = 1 .. n /\ \A i \in 1 .. n : records[i] \in Record
    BY LenProperties
  <1>2. r \in Seq(Record)
    BY <1>1, ExceptSeq
  <1>3. DOMAIN r = DOMAIN records /\ r[at] = row /\ \A i \in DOMAIN records : i # at => r[i] = records[i]
    OBVIOUS
  <1>4. old \in Record /\ old.id = row.id /\ old.min \in Int /\ old.max \in Int /\ row.id \in Nat
        /\ row.min \in Int /\ row.max \in Int /\ lo \in Int /\ hi \in Int
    BY <1>1 DEF Record
  <1>5. /\ row.min \in {old.min, lo} /\ row.min <= old.min /\ row.min <= lo
        /\ row.max \in {old.max, hi} /\ old.max <= row.max /\ hi <= row.max
    <2>1. /\ Min({old.min, lo}) \in {old.min, lo} /\ Min({old.min, lo}) <= old.min
          /\ Min({old.min, lo}) <= lo
      BY <1>4, OfTwo
    <2>2. /\ Max({old.max, hi}) \in {old.max, hi} /\ old.max <= Max({old.max, hi})
          /\ hi <= Max({old.max, hi})
      BY <1>4, OfTwo
    <2> QED
      BY <2>1, <2>2
  <1> HIDE DEF r, n
  <1>6. \A i \in DOMAIN records : r[i].id = records[i].id
    BY <1>3, <1>4
  <1>7. Distinct(r)
    BY <1>3, <1>6 DEF Distinct
  <1>8. /\ <<row.id, old.min>> \in keys
        /\ <<row.id, old.max>> \in keys
        /\ \A t \in Int : <<row.id, t>> \in keys => old.min <= t /\ t <= old.max
    BY <1>4 DEF Fits
  <1>9. ASSUME NEW k \in Nat, NEW t \in Int
        PROVE  <<k, t>> \in all <=> (<<k, t>> \in keys \/ (k = row.id /\ t \in T))
    OBVIOUS
  <1> HIDE DEF all, old
  <1>10. ASSUME NEW k \in Nat
         PROVE  (\E i \in DOMAIN r : r[i].id = k) <=> (\E t \in Int : <<k, t>> \in all)
    <2>1. (\E i \in DOMAIN r : r[i].id = k) <=> (\E i \in DOMAIN records : records[i].id = k)
      BY <1>3, <1>6
    <2>2. (\E i \in DOMAIN records : records[i].id = k) <=> (\E t \in Int : <<k, t>> \in keys)
      BY DEF Fits
    <2>3. CASE k = row.id
      BY <1>4, <1>8, <1>9, <2>1, <2>2, <2>3
    <2>4. CASE k # row.id
      BY <1>9, <2>1, <2>2, <2>4
    <2> QED
      BY <2>3, <2>4
  <1>11. ASSUME NEW i \in DOMAIN r
         PROVE  /\ <<r[i].id, r[i].min>> \in all
                /\ <<r[i].id, r[i].max>> \in all
                /\ \A t \in Int : <<r[i].id, t>> \in all => r[i].min <= t /\ t <= r[i].max
    <2>1. CASE i = at
      <3>1. r[i] = row
        BY <1>3, <2>1
      <3>2. <<row.id, row.min>> \in all /\ <<row.id, row.max>> \in all
        BY <1>4, <1>5, <1>8, <1>9
      <3>3. ASSUME NEW t \in Int, <<row.id, t>> \in all PROVE row.min <= t /\ t <= row.max
        <4>1. CASE <<row.id, t>> \in keys
          BY <1>4, <1>5, <1>8, <4>1
        <4>2. CASE t \in T
          BY <1>4, <1>5, <4>2
        <4> QED
          BY <1>4, <1>9, <3>3, <4>1, <4>2
      <3> QED
        BY <3>1, <3>2, <3>3
    <2>2. CASE i # at
      <3>1. i \in DOMAIN records /\ r[i] = records[i] /\ r[i] \in Record /\ r[i].id \in Nat
            /\ r[i].min \in Int /\ r[i].max \in Int
        BY <1>1, <1>3, <2>2 DEF Record
      <3>2. r[i].id # row.id
        BY <1>6, <2>2, <3>1 DEF Distinct
      <3>3. /\ <<r[i].id, r[i].min>> \in keys
            /\ <<r[i].id, r[i].max>> \in keys
            /\ \A t \in Int : <<r[i].id, t>> \in keys => r[i].min <= t /\ t <= r[i].max
        BY <3>1 DEF Fits
      <3> QED
        BY <1>9, <3>1, <3>2, <3>3
    <2> QED
      BY <2>1, <2>2
  <1>12. Fits(r, all)
    BY <1>10, <1>11 DEF Fits
  <1> QED
    BY <1>2, <1>7, <1>12 DEF r, all

(* Where a series is among the records, 0 if nowhere.                       *)
Place(records, id) ==
    IF Positions(records, id) = {} THEN 0 ELSE Min(Positions(records, id))

LEMMA PlaceOf ==
    ASSUME NEW records \in Seq(Record), NEW id \in Nat, Distinct(records)
    PROVE  /\ Place(records, id) \in Nat
           /\ Place(records, id) = 0 => \A i \in DOMAIN records : records[i].id # id
           /\ Place(records, id) # 0 => /\ Place(records, id) \in DOMAIN records
                                        /\ records[Place(records, id)].id = id
           /\ \A i \in DOMAIN records : records[i].id = id => Place(records, id) = i
  <1>1. DOMAIN records = 1 .. Len(records) /\ Len(records) \in Nat
    BY LenProperties
  <1>2. ASSUME NEW i \in DOMAIN records, records[i].id = id PROVE Place(records, id) = i
    <2>1. Positions(records, id) = {i}
      BY <1>2 DEF Positions, Distinct
    <2>2. Min({i}) = i
      <3>1. {i} \in SUBSET Int /\ i \in {i} /\ \A y \in {i} : i <= y
        BY <1>1
      <3> QED
        BY <3>1, SameMin
    <2> QED
      BY <2>1, <2>2 DEF Place
  <1>3. CASE \E i \in DOMAIN records : records[i].id = id
    BY <1>1, <1>2, <1>3
  <1>4. CASE ~\E i \in DOMAIN records : records[i].id = id
    <2>1. Place(records, id) = 0
      BY <1>4 DEF Place, Positions
    <2> QED
      BY <1>4, <2>1
  <1> QED
    BY <1>3, <1>4

LEMMA WidenFits ==
    ASSUME NEW records \in Seq(Record), NEW keys, NEW ts \in TimeSeries, Observed(ts) # {},
           Distinct(records), Fits(records, keys)
    PROVE  /\ Widen(records, Place(records, ts.id), ts) \in Seq(Record)
           /\ Distinct(Widen(records, Place(records, ts.id), ts))
           /\ Fits(Widen(records, Place(records, ts.id), ts), keys \cup {<<ts.id, t>> : t \in Observed(ts)})
  <1> DEFINE at == Place(records, ts.id)
             T == Observed(ts)
             lo == Min(T)
             hi == Max(T)
  <1>1. ts.id \in Nat
    BY TimeSeriesType
  <1>2. /\ T \in SUBSET Int
        /\ lo \in T /\ hi \in T /\ lo \in Int /\ hi \in Int
        /\ \A t \in T : lo <= t /\ t <= hi
    BY ObservedType, Extremes
  <1>3. /\ at = 0 => \A i \in DOMAIN records : records[i].id # ts.id
        /\ at # 0 => at \in DOMAIN records /\ records[at].id = ts.id
    BY <1>1, PlaceOf
  <1> HIDE DEF at
  <1>4. CASE at = 0
    <2> DEFINE row == [id |-> ts.id, min |-> lo, max |-> hi]
    <2>1. Widen(records, at, ts) = Append(records, row)
      BY <1>4 DEF Widen
    <2>2. row \in Record /\ row.id = ts.id /\ row.min = lo /\ row.max = hi
      BY <1>1, <1>2 DEF Record
    <2> HIDE DEF T, lo, hi, row
    <2>3. \A i \in DOMAIN records : records[i].id # row.id
      BY <1>3, <1>4, <2>2
    <2>4. row.min \in T /\ row.max \in T /\ \A t \in T : row.min <= t /\ t <= row.max
      BY <1>2, <2>2
    <2>5. /\ Append(records, row) \in Seq(Record)
          /\ Distinct(Append(records, row))
          /\ Fits(Append(records, row), keys \cup {<<row.id, t>> : t \in T})
      BY <1>2, <2>2, <2>3, <2>4, RecordAppended
    <2> QED
      BY <2>1, <2>2, <2>5 DEF at, T
  <1>5. CASE at # 0
    <2> DEFINE old == records[at]
               row == [id |-> ts.id, min |-> Min({old.min, lo}), max |-> Max({old.max, hi})]
    <2>1. at \in DOMAIN records /\ old.id = ts.id
      BY <1>3, <1>5
    <2>2. old \in Record /\ old.min \in Int /\ old.max \in Int
      <3>1. old \in Record
        BY <2>1, LenProperties
      <3> QED
        BY <3>1 DEF Record
    <2>3. row \in Record /\ row.id = old.id /\ row.min = Min({old.min, lo}) /\ row.max = Max({old.max, hi})
      BY <1>1, <1>2, <2>1, <2>2, OfTwo DEF Record
    <2>4. Widen(records, at, ts) = [records EXCEPT ![at].min = Min({@, lo}), ![at].max = Max({@, hi})]
      BY <1>5 DEF Widen
    <2>5. [records EXCEPT ![at].min = Min({@, lo}), ![at].max = Max({@, hi})] = [records EXCEPT ![at] = row]
      BY <2>1, <2>2, <2>3 DEF Record
    <2>6. Widen(records, at, ts) = [records EXCEPT ![at] = row]
      BY <2>4, <2>5
    <2> HIDE DEF T, lo, hi, row
    <2>7. /\ [records EXCEPT ![at] = row] \in Seq(Record)
          /\ Distinct([records EXCEPT ![at] = row])
          /\ Fits([records EXCEPT ![at] = row], keys \cup {<<row.id, t>> : t \in T})
      BY <1>2, <2>1, <2>3, RecordWidened
    <2> QED
      BY <2>1, <2>3, <2>6, <2>7 DEF at, T
  <1> QED
    BY <1>4, <1>5

-----------------------------------------------------------------------------
(* The batches.                                                             *)

Batch == [series : Seq(Record), samples : Seq(SampleRow), hists : Seq(TimeRow), exems : Seq(TimeRow)]

Keys(b) == Keyed(b.samples) \cup Keyed(b.hists) \cup Keyed(b.exems)

(* What a batch made of the first n time series of a request is.            *)
RecordsOK(b) == Distinct(b.series) /\ Fits(b.series, Keys(b))

SamplesOK(b, list, n) ==
    /\ Apart(b.samples)
    /\ \A i \in DOMAIN b.samples :
         \E j \in 1 .. n : \E x \in Kept(list[j]) :
            b.samples[i] = [id |-> list[j].id, t |-> Bucket(x.t), v |-> x.v]

SourcesOK(b, list, n) ==
    \A i \in DOMAIN b.series :
       \E j \in 1 .. n : list[j].id = b.series[i].id /\ SlowOutcome(list[j]) = "add"

LEMMA EmptyBatchOK ==
    ASSUME NEW list
    PROVE  /\ EmptyBatch \in Batch /\ RecordsOK(EmptyBatch)
           /\ SamplesOK(EmptyBatch, list, 0) /\ SourcesOK(EmptyBatch, list, 0)
  <1>1. EmptyBatch \in Batch
    BY DEF EmptyBatch, Batch
  <1>2. /\ EmptyBatch.series = <<>> /\ EmptyBatch.samples = <<>>
        /\ EmptyBatch.hists = <<>> /\ EmptyBatch.exems = <<>>
    BY DEF EmptyBatch
  <1>3. DOMAIN << >> = {} /\ Len(<< >>) = 0
    BY EmptySeq
  <1>4. Keys(EmptyBatch) = {}
    BY <1>2, <1>3 DEF Keys, Keyed
  <1>5. RecordsOK(EmptyBatch)
    BY <1>2, <1>3, <1>4 DEF RecordsOK, Distinct, Fits
  <1>6. Apart(<<>>)
    BY <1>3 DEF Apart
  <1> QED
    BY <1>1, <1>2, <1>3, <1>5, <1>6 DEF SamplesOK, SourcesOK

LEMMA AddTimeSeriesOK ==
    ASSUME NEW b \in Batch, NEW ts \in TimeSeries, Observed(ts) # {}, RecordsOK(b)
    PROVE  /\ AddTimeSeries(b, ts) \in Batch
           /\ RecordsOK(AddTimeSeries(b, ts))
           /\ RowsFrom(AddTimeSeries(b, ts).samples, b.samples, ts.id, Kept(ts))
           /\ AddTimeSeries(b, ts).series = Widen(b.series, Place(b.series, ts.id), ts)
  <1> DEFINE c == AddTimeSeries(b, ts)
             w == Widen(b.series, Place(b.series, ts.id), ts)
             T == Observed(ts)
  <1>1. /\ b.series \in Seq(Record) /\ b.samples \in Seq(SampleRow)
        /\ b.hists \in Seq(TimeRow) /\ b.exems \in Seq(TimeRow)
    BY DEF Batch
  <1>2. c = [series |-> w, samples |-> AddSamples(b.samples, ts),
             hists |-> b.hists \o HistogramRows(ts), exems |-> AddExemplars(b.exems, ts)]
    BY DEF AddTimeSeries, Place, HistogramRows
  <1>3. /\ c.series = w /\ c.samples = AddSamples(b.samples, ts)
        /\ c.hists = b.hists \o HistogramRows(ts) /\ c.exems = AddExemplars(b.exems, ts)
    BY <1>2
  <1>4. RowsFrom(c.samples, b.samples, ts.id, Kept(ts))
    BY <1>1, <1>3, AddSamplesRows
  <1>5. /\ c.samples \in Seq(SampleRow)
        /\ Keyed(c.samples) = Keyed(b.samples) \cup {<<ts.id, Bucket(x.t)>> : x \in Kept(ts)}
    BY <1>4 DEF RowsFrom
  <1>6. /\ c.hists \in Seq(TimeRow)
        /\ Keyed(c.hists) = Keyed(b.hists) \cup {<<ts.id, Bucket(t)>> : t \in Range(ts.hists)}
    BY <1>1, <1>3, HistogramRowsKeyed, KeyedConcat
  <1>7. /\ c.exems \in Seq(TimeRow)
        /\ Keyed(c.exems) = Keyed(b.exems) \cup {<<ts.id, x.t>> : x \in KeptExemplars(ts)}
    BY <1>1, <1>3, AddExemplarRows
  <1>8. Keys(c) = Keys(b) \cup {<<ts.id, t>> : t \in T}
    <2>1. {<<ts.id, t>> : t \in T} = {<<ts.id, Bucket(x.t)>> : x \in Kept(ts)}
             \cup {<<ts.id, Bucket(t)>> : t \in Range(ts.hists)}
             \cup {<<ts.id, x.t>> : x \in KeptExemplars(ts)}
      BY DEF Observed
    <2> HIDE DEF T
    <2> QED
      BY <1>5, <1>6, <1>7, <2>1 DEF Keys
  <1> HIDE DEF c, T, w
  <1>9. w \in Seq(Record) /\ Distinct(w) /\ Fits(w, Keys(b) \cup {<<ts.id, t>> : t \in T})
    BY <1>1, WidenFits DEF w, RecordsOK, T
  <1>10. c \in Batch
    <2>1. c = [series |-> c.series, samples |-> c.samples, hists |-> c.hists, exems |-> c.exems]
      BY <1>2, <1>3
    <2>2. c.series \in Seq(Record)
      BY <1>3, <1>9
    <2> QED
      BY <1>5, <1>6, <1>7, <2>1, <2>2 DEF Batch
  <1>11. RecordsOK(c)
    BY <1>3, <1>8, <1>9 DEF RecordsOK
  <1> QED
    BY <1>3, <1>4, <1>10, <1>11 DEF c, w

(* The samples and records of one more time series.                         *)
LEMMA RowsOfOneMore ==
    ASSUME NEW b, NEW c, NEW list, NEW n \in Nat, NEW ts, ts = list[n + 1],
           SamplesOK(b, list, n), RowsFrom(c.samples, b.samples, ts.id, Kept(ts))
    PROVE  SamplesOK(c, list, n + 1)
  <1>1. Apart(c.samples)
    BY DEF SamplesOK, RowsFrom
  <1>2. ASSUME NEW i \in DOMAIN c.samples
        PROVE  \E j \in 1 .. (n + 1) : \E x \in Kept(list[j]) :
                  c.samples[i] = [id |-> list[j].id, t |-> Bucket(x.t), v |-> x.v]
    <2>1. CASE c.samples[i] \in Range(b.samples)
      <3>1. PICK k \in DOMAIN b.samples : c.samples[i] = b.samples[k]
        BY <2>1 DEF Range
      <3>2. PICK j \in 1 .. n : \E x \in Kept(list[j]) :
               b.samples[k] = [id |-> list[j].id, t |-> Bucket(x.t), v |-> x.v]
        BY DEF SamplesOK
      <3>3. j \in 1 .. (n + 1)
        OBVIOUS
      <3> QED
        BY <3>1, <3>2, <3>3
    <2>2. CASE \E x \in Kept(ts) : c.samples[i] = [id |-> ts.id, t |-> Bucket(x.t), v |-> x.v]
      <3>1. n + 1 \in 1 .. (n + 1)
        OBVIOUS
      <3> QED
        BY <2>2, <3>1
    <2> QED
      BY <2>1, <2>2 DEF RowsFrom
  <1> QED
    BY <1>1, <1>2 DEF SamplesOK

(* Widening keeps the ids of the records, but for a new one at the end.      *)
LEMMA WidenedIds ==
    ASSUME NEW records \in Seq(Record), Distinct(records), NEW ts \in TimeSeries
    PROVE  LET at == Place(records, ts.id)
               w == Widen(records, at, ts)
           IN  IF at = 0
               THEN /\ DOMAIN w = 1 .. (Len(records) + 1)
                    /\ w[Len(records) + 1].id = ts.id
                    /\ \A i \in DOMAIN records : w[i].id = records[i].id
               ELSE /\ DOMAIN w = DOMAIN records
                    /\ \A i \in DOMAIN records : w[i].id = records[i].id
  <1> DEFINE at == Place(records, ts.id)
             w == Widen(records, at, ts)
             m == Len(records)
             row == [id |-> ts.id, min |-> Min(Observed(ts)), max |-> Max(Observed(ts))]
  <1>1. ts.id \in Nat
    BY TimeSeriesType
  <1>2. at # 0 => at \in DOMAIN records
    BY <1>1, PlaceOf
  <1>3. m \in Nat /\ DOMAIN records = 1 .. m /\ \A i \in 1 .. m : records[i] \in Record
    BY LenProperties
  <1> HIDE DEF at
  <1>4. CASE at = 0
    <2>1. w = Append(records, row)
      BY <1>4 DEF Widen
    <2>2. row.id = ts.id
      OBVIOUS
    <2> HIDE DEF row, w
    <2>3. DOMAIN w = 1 .. (m + 1) /\ w[m + 1] = row /\ \A k \in 1 .. m : w[k] = records[k]
      BY <1>3, <2>1
    <2> QED
      BY <1>3, <1>4, <2>2, <2>3 DEF at, w
  <1>5. CASE at # 0
    <2>1. w = [records EXCEPT ![at].min = Min({@, row.min}), ![at].max = Max({@, row.max})]
      BY <1>5 DEF Widen
    <2> HIDE DEF w
    <2>2. DOMAIN w = DOMAIN records
      BY <2>1
    <2>3. ASSUME NEW i \in DOMAIN records PROVE w[i].id = records[i].id
      <3>1. records[i] \in Record
        BY <1>3
      <3>2. i # at => w[i] = records[i]
        BY <2>1
      <3>3. i = at => w[i].id = records[i].id
        BY <2>1, <3>1 DEF Record
      <3> QED
        BY <3>2, <3>3
    <2> QED
      BY <1>5, <2>2, <2>3 DEF at, w
  <1> QED
    BY <1>4, <1>5

LEMMA SourcesOfOneMore ==
    ASSUME NEW b, NEW c, NEW list, NEW n \in Nat, NEW ts \in TimeSeries, ts = list[n + 1],
           b.series \in Seq(Record), Distinct(b.series),
           SlowOutcome(ts) = "add",
           SourcesOK(b, list, n), c.series = Widen(b.series, Place(b.series, ts.id), ts)
    PROVE  SourcesOK(c, list, n + 1)
  <1> DEFINE r == b.series
  <1>1. Len(r) \in Nat /\ DOMAIN r = 1 .. Len(r)
    BY LenProperties
  <1>2. ASSUME NEW i \in DOMAIN c.series
        PROVE  c.series[i].id = ts.id \/ (i \in DOMAIN r /\ c.series[i].id = r[i].id)
    <2>1. CASE Place(r, ts.id) = 0
      <3>1. /\ DOMAIN c.series = 1 .. (Len(r) + 1)
            /\ c.series[Len(r) + 1].id = ts.id
            /\ \A k \in DOMAIN r : c.series[k].id = r[k].id
        BY <2>1, WidenedIds
      <3> QED
        BY <1>1, <3>1
    <2>2. CASE Place(r, ts.id) # 0
      BY <2>2, WidenedIds
    <2> QED
      BY <2>1, <2>2
  <1> SUFFICES ASSUME NEW i \in DOMAIN c.series
               PROVE  \E j \in 1 .. (n + 1) : list[j].id = c.series[i].id /\ SlowOutcome(list[j]) = "add"
    BY DEF SourcesOK
  <1>5. CASE c.series[i].id = ts.id
    <2>1. n + 1 \in 1 .. (n + 1)
      OBVIOUS
    <2> QED
      BY <1>5, <2>1
  <1>6. CASE i \in DOMAIN r /\ c.series[i].id = r[i].id
    <2>1. PICK j \in 1 .. n : list[j].id = r[i].id /\ SlowOutcome(list[j]) = "add"
      BY <1>6 DEF SourcesOK
    <2>2. j \in 1 .. (n + 1)
      OBVIOUS
    <2> QED
      BY <1>6, <2>1, <2>2
  <1> QED
    BY <1>2, <1>5, <1>6

LEMMA AddedOnlyWithTimes ==
    ASSUME NEW ts, SlowOutcome(ts) = "add"
    PROVE  Observed(ts) # {}
  BY DEF SlowOutcome

(* Every batch of buildRemoteWriteBatch, also the unfinished ones.          *)
LEMMA SlowBatchesOK ==
    ASSUME NEW list \in Seq(TimeSeries), NEW n \in 0 .. Len(list)
    PROVE  /\ SlowBatches(list)[n] \in Batch
           /\ RecordsOK(SlowBatches(list)[n])
           /\ SamplesOK(SlowBatches(list)[n], list, n)
           /\ SourcesOK(SlowBatches(list)[n], list, n)
  <1> DEFINE after == SlowBatches(list)
             Right(k) == /\ after[k] \in Batch /\ RecordsOK(after[k])
                         /\ SamplesOK(after[k], list, k) /\ SourcesOK(after[k], list, k)
             S == {k \in Nat : k <= Len(list) => Right(k)}
  <1>1. Len(list) \in Nat /\ \A k \in 1 .. Len(list) : list[k] \in TimeSeries
    BY LenProperties
  <1>2. after[0] = EmptyBatch
    BY <1>1, SlowBatchesSteps
  <1>3. \A k \in 1 .. Len(list) :
          after[k] = IF SlowOutcome(list[k]) = "add" THEN AddTimeSeries(after[k - 1], list[k])
                     ELSE after[k - 1]
    BY <1>1, SlowBatchesSteps
  <1> HIDE DEF after
  <1>4. 0 \in S
    BY <1>2, EmptyBatchOK
  <1>5. ASSUME NEW k \in Nat, k \in S PROVE k + 1 \in S
    <2> SUFFICES ASSUME k + 1 <= Len(list) PROVE Right(k + 1)
      OBVIOUS
    <2> DEFINE ts == list[k + 1]
    <2>1. k + 1 \in 1 .. Len(list) /\ (k + 1) - 1 = k /\ k <= Len(list)
      BY <1>1
    <2>2. Right(k)
      BY <1>5, <2>1
    <2>3. ts \in TimeSeries
      BY <1>1, <2>1
    <2>4. after[k + 1] = IF SlowOutcome(ts) = "add" THEN AddTimeSeries(after[k], ts) ELSE after[k]
      BY <1>3, <2>1
    <2>5. CASE SlowOutcome(ts) = "add"
      <3>1. after[k + 1] = AddTimeSeries(after[k], ts)
        BY <2>4, <2>5
      <3>2. Observed(ts) # {}
        BY <2>5, AddedOnlyWithTimes
      <3> HIDE DEF ts
      <3>3. /\ after[k + 1] \in Batch /\ RecordsOK(after[k + 1])
            /\ RowsFrom(after[k + 1].samples, after[k].samples, ts.id, Kept(ts))
            /\ after[k + 1].series = Widen(after[k].series, Place(after[k].series, ts.id), ts)
        BY <2>2, <2>3, <3>1, <3>2, AddTimeSeriesOK
      <3>4. ts = list[k + 1] /\ after[k].series \in Seq(Record) /\ Distinct(after[k].series)
        BY <2>2 DEF ts, Batch, RecordsOK
      <3>5. SamplesOK(after[k + 1], list, k + 1)
        BY <2>2, <3>3, <3>4, RowsOfOneMore
      <3>6. SourcesOK(after[k + 1], list, k + 1)
        BY <2>2, <2>3, <2>5, <3>3, <3>4, SourcesOfOneMore
      <3> QED
        BY <3>3, <3>5, <3>6
    <2>6. CASE SlowOutcome(ts) # "add"
      <3>1. after[k + 1] = after[k]
        BY <2>4, <2>6
      <3>2. \A j \in 1 .. k : j \in 1 .. (k + 1)
        OBVIOUS
      <3>3. SamplesOK(after[k], list, k + 1)
        BY <2>2, <3>2 DEF SamplesOK
      <3>4. SourcesOK(after[k], list, k + 1)
        BY <2>2, <3>2 DEF SourcesOK
      <3> QED
        BY <2>2, <3>1, <3>3, <3>4
    <2> QED
      BY <2>5, <2>6
  <1>6. n \in S
    <2> HIDE DEF S
    <2> QED
      BY <1>1, <1>4, <1>5, SetInduction
  <1> QED
    BY <1>1, <1>6 DEF after

-----------------------------------------------------------------------------
(* The fast builder takes the steps of the slow one.                        *)

LEMMA SameOutcome ==
    ASSUME NEW ts \in TimeSeries, FastOutcome(ts) \in {"add", "skip"}
    PROVE  /\ SlowOutcome(ts) = FastOutcome(ts)
           /\ ts.hists = <<>> /\ ts.exems = <<>>
           /\ ts.labels \in BadLabels => ts.samples = <<>>
  <1>1. ts.hists = <<>> /\ ts.exems = <<>>
    BY DEF FastOutcome
  <1>2. ts.labels \in BadLabels => ts.samples = <<>>
    BY DEF FastOutcome
  <1>3. ~\E i \in DOMAIN ts.exems : ts.exems[i].v = Malformed
    BY <1>1, EmptySeq
  <1>4. Observed(ts) = {Bucket(x.t) : x \in Kept(ts)}
    <2>1. Range(ts.hists) = {} /\ KeptExemplars(ts) = {}
      BY <1>1, EmptySeq DEF KeptExemplars, Range
    <2> QED
      BY <2>1 DEF Observed
  <1>5. Observed(ts) = {} <=> Kept(ts) = {}
    BY <1>4
  <1>6. ts.samples = <<>> => SlowOutcome(ts) = "skip" /\ FastOutcome(ts) = "skip"
    BY <1>1 DEF SlowOutcome, FastOutcome
  <1>7. ts.samples # <<>> => SlowOutcome(ts) = FastOutcome(ts)
    BY <1>1, <1>2, <1>3, <1>5 DEF SlowOutcome, FastOutcome
  <1> QED
    BY <1>1, <1>2, <1>6, <1>7

LEMMA FastAddsTheSame ==
    ASSUME NEW b \in Batch, NEW ts \in TimeSeries, FastOutcome(ts) = "add"
    PROVE  [b EXCEPT !.samples = AddSamples(@, ts),
                     !.series = Widen(@, Place(b.series, ts.id), ts)]
             = AddTimeSeries(b, ts)
  <1>1. ts.hists = <<>> /\ ts.exems = <<>>
    BY SameOutcome
  <1>2. HistogramRows(ts) = <<>>
    <2>1. DOMAIN HistogramRows(ts) = {}
      BY <1>1, EmptySeq DEF HistogramRows
    <2>2. HistogramRows(ts) \in Seq(TimeRow)
      BY HistogramRowsKeyed
    <2>3. Len(HistogramRows(ts)) \in Nat /\ DOMAIN HistogramRows(ts) = 1 .. Len(HistogramRows(ts))
      BY <2>2, LenProperties
    <2>4. Len(HistogramRows(ts)) = 0
      BY <2>1, <2>3
    <2> QED
      BY <2>2, <2>4, EmptySeq
  <1>3. b.hists \in Seq(TimeRow) /\ b.hists \o HistogramRows(ts) = b.hists
    BY <1>2, ConcatEmptySeq DEF Batch
  <1>4. AddExemplars(b.exems, ts) = b.exems
    <2>1. Len(ts.exems) = 0
      BY <1>1, EmptySeq
    <2>2. ExemplarRows(b.exems, ts)[0] = b.exems
      BY TimeSeriesType, ExemplarRowsSteps
    <2> QED
      BY <2>1, <2>2 DEF AddExemplars
  <1> DEFINE w == Widen(b.series, Place(b.series, ts.id), ts)
             a == AddSamples(b.samples, ts)
  <1>5. AddTimeSeries(b, ts) = [series |-> w, samples |-> a, hists |-> b.hists, exems |-> b.exems]
    BY <1>3, <1>4 DEF AddTimeSeries, Place, HistogramRows
  <1>6. [b EXCEPT !.samples = a, !.series = w]
          = [series |-> w, samples |-> a, hists |-> b.hists, exems |-> b.exems]
    <2> DEFINE r == b.series
               s == b.samples
               h == b.hists
               e == b.exems
    <2>1. b = [series |-> r, samples |-> s, hists |-> h, exems |-> e]
      BY Zenon DEF Batch
    <2> HIDE DEF w, a, r, s, h, e
    <2>2. [[series |-> r, samples |-> s, hists |-> h, exems |-> e] EXCEPT !.samples = a]
            = [series |-> r, samples |-> a, hists |-> h, exems |-> e]
      OBVIOUS
    <2>3. [[series |-> r, samples |-> a, hists |-> h, exems |-> e] EXCEPT !.series = w]
            = [series |-> w, samples |-> a, hists |-> h, exems |-> e]
      OBVIOUS
    <2>4. [b EXCEPT !.samples = a, !.series = w] = [[b EXCEPT !.samples = a] EXCEPT !.series = w]
      OBVIOUS
    <2> QED
      BY <2>1, <2>2, <2>3, <2>4 DEF h, e
  <1>7. [b EXCEPT !.samples = AddSamples(@, ts), !.series = Widen(@, Place(b.series, ts.id), ts)]
          = [b EXCEPT !.samples = a, !.series = w]
    BY DEF Batch
  <1> QED
    BY <1>5, <1>6, <1>7

(* What the index answers when it maps the records' ids to their places.    *)
Answer(records, id) ==
    IF Place(records, id) = 0 THEN <<0, FALSE>> ELSE <<Place(records, id), TRUE>>

Maps(m, records) == \A id \in Nat : Get(m, id) = Answer(records, id)

LEMMA PlaceAfterWiden ==
    ASSUME NEW records \in Seq(Record), Distinct(records), NEW ts \in TimeSeries, NEW w \in Seq(Record),
           w = Widen(records, Place(records, ts.id), ts), Distinct(w), NEW id \in Nat
    PROVE  Place(w, id) = IF Place(records, ts.id) = 0 /\ id = ts.id THEN Len(records) + 1
                          ELSE Place(records, id)
  <1>1. Len(records) \in Nat /\ DOMAIN records = 1 .. Len(records) /\ ts.id \in Nat
    BY LenProperties, TimeSeriesType
  <1>2. CASE Place(records, ts.id) = 0
    <2>1. /\ DOMAIN w = 1 .. (Len(records) + 1)
          /\ w[Len(records) + 1].id = ts.id
          /\ \A i \in DOMAIN records : w[i].id = records[i].id
      BY <1>2, WidenedIds
    <2>2. CASE id = ts.id
      <3>1. Len(records) + 1 \in DOMAIN w
        BY <1>1, <2>1
      <3>2. Place(w, id) = Len(records) + 1
        BY <2>1, <2>2, <3>1, PlaceOf
      <3> QED
        BY <1>2, <2>2, <3>2
    <2>3. CASE id # ts.id
      <3>1. CASE Place(records, id) # 0
        <4> DEFINE i == Place(records, id)
        <4>1. i \in DOMAIN records /\ records[i].id = id
          BY <3>1, PlaceOf
        <4>2. i \in DOMAIN w /\ w[i].id = id
          BY <1>1, <2>1, <4>1
        <4>3. Place(w, id) = i
          BY <4>2, PlaceOf
        <4> QED
          BY <2>3, <4>3
      <3>2. CASE Place(records, id) = 0
        <4>1. \A i \in DOMAIN records : records[i].id # id
          BY <3>2, PlaceOf
        <4>2. \A i \in DOMAIN w : w[i].id # id
          BY <1>1, <2>1, <2>3, <4>1
        <4>3. Place(w, id) = 0
          BY <4>2, PlaceOf
        <4> QED
          BY <2>3, <3>2, <4>3
      <3> QED
        BY <3>1, <3>2
    <2> QED
      BY <2>2, <2>3
  <1>3. CASE Place(records, ts.id) # 0
    <2>1. DOMAIN w = DOMAIN records /\ \A i \in DOMAIN records : w[i].id = records[i].id
      BY <1>3, WidenedIds
    <2>2. Positions(w, id) = Positions(records, id)
      BY <2>1 DEF Positions
    <2> QED
      BY <1>3, <2>2 DEF Place
  <1> QED
    BY <1>2, <1>3

LEMMA MapsNothing ==
    Maps(NewIndex, <<>>)
  <1>1. \A id \in Nat : Place(<<>>, id) = 0
    BY EmptySeq DEF Place, Positions
  <1> QED
    BY <1>1, NewIndexOK DEF Maps, Answer

(* addFastSeriesRecord keeps the index a map of the records.                *)
LEMMA MapsAfterWiden ==
    ASSUME NEW m, IndexOK(m), NEW records \in Seq(Record), Distinct(records), Maps(m, records),
           NEW ts \in TimeSeries, NEW w \in Seq(Record), Distinct(w),
           w = Widen(records, Place(records, ts.id), ts)
    PROVE  LET next == IF Place(records, ts.id) # 0 THEN m
                       ELSE SetIndex(m, ts.id, Len(records) + 1)
           IN  IndexOK(next) /\ Maps(next, w)
  <1>1. ts.id \in Nat /\ Len(records) + 1 \in Nat /\ Len(records) + 1 # 0
    BY LenProperties, TimeSeriesType
  <1>2. \A id \in Nat : Place(w, id) = IF Place(records, ts.id) = 0 /\ id = ts.id
                                       THEN Len(records) + 1 ELSE Place(records, id)
    BY PlaceAfterWiden
  <1>3. CASE Place(records, ts.id) # 0
    <2>1. \A id \in Nat : Place(w, id) = Place(records, id)
      BY <1>2, <1>3
    <2>2. ASSUME NEW id \in Nat PROVE Get(m, id) = Answer(w, id)
      <3>1. Answer(w, id) = Answer(records, id)
        BY <2>1 DEF Answer
      <3> QED
        BY <3>1 DEF Maps
    <2> QED
      BY <1>3, <2>2 DEF Maps
  <1>4. CASE Place(records, ts.id) = 0
    <2> DEFINE next == SetIndex(m, ts.id, Len(records) + 1)
    <2>1. IndexOK(next)
      BY <1>1, SetKeepsIndex
    <2>2. Get(next, ts.id) = <<Len(records) + 1, TRUE>>
      BY <1>1, GetAfterSet
    <2>3. \A id \in Nat \ {ts.id} : Get(next, id) = Get(m, id)
      BY <1>1, GetOfOthers
    <2> HIDE DEF next
    <2>4. Answer(w, ts.id) = <<Len(records) + 1, TRUE>>
      <3>1. Place(w, ts.id) = Len(records) + 1
        BY <1>1, <1>2, <1>4
      <3> QED
        BY <1>1, <3>1 DEF Answer
    <2>5. ASSUME NEW id \in Nat, id # ts.id PROVE Get(next, id) = Answer(w, id)
      <3>1. Place(w, id) = Place(records, id)
        BY <1>2, <2>5
      <3>2. Answer(w, id) = Answer(records, id)
        BY <3>1 DEF Answer
      <3>3. Get(m, id) = Answer(records, id)
        BY DEF Maps
      <3>4. Get(next, id) = Get(m, id)
        BY <2>3, <2>5
      <3> QED
        BY <3>2, <3>3, <3>4
    <2>6. Get(next, ts.id) = Answer(w, ts.id)
      BY <2>2, <2>4
    <2>7. Maps(next, w)
      BY <2>5, <2>6 DEF Maps
    <2> QED
      BY <1>4, <2>1, <2>7 DEF next
  <1> QED
    BY <1>3, <1>4

-----------------------------------------------------------------------------
(* The inductive invariant: as long as the fast builder has the body, its   *)
(* batch is the slow builder's over the time series read so far, and the   *)
(* index maps the ids of that batch.                                       *)

States == {"fast", "slow", "rejected", "built_fast", "built_slow", "labeled", "unavailable"}
FastStates == {"fast", "built_fast", "labeled", "unavailable"}

RequestOK == req \in Seq(TimeSeries) /\ pos \in 1 .. (Len(req) + 1) /\ state \in States

FastOK ==
    state \in FastStates =>
        /\ \A i \in 1 .. (pos - 1) : FastOutcome(req[i]) \in {"add", "skip"}
        /\ batch = SlowBatches(req)[pos - 1]
        /\ IndexOK(index)
        /\ Maps(index, batch.series)
        /\ state # "fast" => pos = Len(req) + 1

SlowOK == state = "built_slow" => ~SlowFails(req) /\ batch = SlowBatch(req)

BatchInv == RequestOK /\ FastOK /\ SlowOK /\ RejectionJustified /\ LabelsFound

LEMMA RequestLength ==
    ASSUME req \in Seq(TimeSeries)
    PROVE  /\ Len(req) \in Nat /\ DOMAIN req = 1 .. Len(req)
           /\ \A i \in 1 .. Len(req) : req[i] \in TimeSeries
  BY LenProperties

LEMMA BatchInit ==
    ASSUME Init
    PROVE  BatchInv
  <1>1. req \in Seq(TimeSeries)
    <2>1. PICK n \in 0 .. MaxSeries : req \in [1 .. n -> TimeSeries]
      BY DEF Init
    <2>2. n \in Nat
      BY BatchAssumption
    <2> QED
      BY <2>1, <2>2, SeqDef
  <1>2. Len(req) \in Nat
    BY <1>1, RequestLength
  <1>3. state = "fast" /\ pos = 1 /\ index = NewIndex /\ batch = EmptyBatch
    BY DEF Init
  <1>4. RequestOK
    BY <1>1, <1>2, <1>3 DEF RequestOK, States
  <1>5. batch = SlowBatches(req)[pos - 1]
    <2>1. pos - 1 = 0
      BY <1>3
    <2>2. SlowBatches(req)[0] = EmptyBatch
      BY <1>2, SlowBatchesSteps
    <2> QED
      BY <1>3, <2>1, <2>2
  <1>6. batch.series = <<>>
    BY <1>3 DEF EmptyBatch
  <1>7. FastOK
    BY <1>3, <1>5, <1>6, NewIndexOK, MapsNothing DEF FastOK
  <1> QED
    BY <1>3, <1>4, <1>7 DEF BatchInv, SlowOK, RejectionJustified, LabelsFound

(* One time series of the fast builder.                                     *)
LEMMA BatchParse ==
    ASSUME BatchInv, ParseFastTimeSeries
    PROVE  BatchInv'
  <1> DEFINE ts == req[pos]
             n == pos - 1
             found == Get(index, ts.id)
  <1>1. /\ state = "fast" /\ req' = req /\ pos <= Len(req)
        /\ req \in Seq(TimeSeries) /\ pos \in 1 .. (Len(req) + 1)
    BY DEF ParseFastTimeSeries, BatchInv, RequestOK
  <1>2. Len(req) \in Nat /\ DOMAIN req = 1 .. Len(req) /\ pos \in 1 .. Len(req)
        /\ ts \in TimeSeries /\ ts.id \in Nat
    BY <1>1, RequestLength, TimeSeriesType
  <1>3. n \in 0 .. Len(req) /\ n + 1 = pos /\ pos \in Nat
    BY <1>1, <1>2
  <1>4. /\ \A i \in 1 .. n : FastOutcome(req[i]) \in {"add", "skip"}
        /\ batch = SlowBatches(req)[n]
        /\ IndexOK(index)
        /\ Maps(index, batch.series)
    BY <1>1 DEF BatchInv, FastOK, FastStates
  <1>5. batch \in Batch /\ RecordsOK(batch)
    BY <1>1, <1>3, <1>4, SlowBatchesOK
  <1>6. batch.series \in Seq(Record) /\ Distinct(batch.series)
    BY <1>5 DEF Batch, RecordsOK
  <1>7. SlowBatches(req)[pos] = IF SlowOutcome(ts) = "add" THEN AddTimeSeries(batch, ts) ELSE batch
    BY <1>2, <1>4, SlowBatchesSteps
  <1>8. CASE FastOutcome(ts) \in {"add", "skip"}
    <2>1. pos' = pos + 1 /\ state' = "fast"
      BY <1>1, <1>8 DEF ParseFastTimeSeries
    <2>2. SlowOutcome(ts) = FastOutcome(ts)
      BY <1>2, <1>8, SameOutcome
    <2>3. RequestOK'
      BY <1>1, <1>2, <2>1 DEF RequestOK, States
    <2>4. ASSUME NEW i \in 1 .. (pos' - 1) PROVE FastOutcome(req[i]) \in {"add", "skip"}
      <3>1. i = pos \/ i \in 1 .. n
        BY <1>3, <2>1
      <3> QED
        BY <1>4, <1>8, <3>1
    <2>5. pos' - 1 = pos
      BY <1>3, <2>1
    <2>6. CASE FastOutcome(ts) = "add"
      <3> DEFINE at == Place(batch.series, ts.id)
      <3>1. found = Answer(batch.series, ts.id)
        BY <1>2, <1>4 DEF Maps
      <3>2. (IF found[2] THEN found[1] ELSE 0) = at /\ (found[2] <=> at # 0)
        <4>1. CASE at = 0
          BY <3>1, <4>1 DEF Answer
        <4>2. CASE at # 0
          BY <3>1, <4>2 DEF Answer
        <4> QED
          BY <4>1, <4>2
      <3>3. /\ batch' = [batch EXCEPT
                  !.samples = AddSamples(@, ts),
                  !.series = Widen(@, IF found[2] THEN found[1] ELSE 0, ts)]
            /\ index' = IF found[2] THEN index ELSE SetIndex(index, ts.id, Len(batch.series) + 1)
        BY <2>6 DEF ParseFastTimeSeries
      <3>4. batch' = [batch EXCEPT !.samples = AddSamples(@, ts), !.series = Widen(@, at, ts)]
        BY <3>2, <3>3
      <3>5. batch' = AddTimeSeries(batch, ts)
        BY <1>2, <1>5, <2>6, <3>4, FastAddsTheSame
      <3>6. batch' = SlowBatches(req)[pos]
        BY <1>7, <2>2, <2>6, <3>5
      <3>7. Observed(ts) # {}
        BY <2>2, <2>6, AddedOnlyWithTimes
      <3>8. /\ batch' \in Batch /\ RecordsOK(batch')
            /\ batch'.series = Widen(batch.series, at, ts)
        BY <1>2, <1>5, <3>5, <3>7, AddTimeSeriesOK
      <3>9. batch'.series \in Seq(Record) /\ Distinct(batch'.series)
        BY <3>8 DEF Batch, RecordsOK
      <3>10. index' = IF at # 0 THEN index ELSE SetIndex(index, ts.id, Len(batch.series) + 1)
        BY <3>2, <3>3
      <3>11. IndexOK(index') /\ Maps(index', batch'.series)
        BY <1>2, <1>4, <1>6, <3>8, <3>9, <3>10, MapsAfterWiden
      <3>12. FastOK'
        BY <1>1, <2>1, <2>4, <2>5, <3>6, <3>11 DEF FastOK
      <3> QED
        BY <2>1, <2>3, <3>12 DEF BatchInv, SlowOK, RejectionJustified, LabelsFound
    <2>7. CASE FastOutcome(ts) = "skip"
      <3>1. batch' = batch /\ index' = index
        BY <2>7 DEF ParseFastTimeSeries
      <3>2. batch' = SlowBatches(req)[pos]
        BY <1>7, <2>2, <2>7, <3>1
      <3>3. FastOK'
        BY <1>1, <1>4, <2>1, <2>4, <2>5, <3>1, <3>2 DEF FastOK
      <3> QED
        BY <2>1, <2>3, <3>3 DEF BatchInv, SlowOK, RejectionJustified, LabelsFound
    <2> QED
      BY <1>8, <2>6, <2>7
  <1>9. CASE FastOutcome(ts) = "fallback"
    <2>1. state' = "slow" /\ pos' = pos
      BY <1>9 DEF ParseFastTimeSeries
    <2>2. RequestOK'
      BY <1>1, <2>1 DEF RequestOK, States
    <2> QED
      BY <2>1, <2>2 DEF BatchInv, FastOK, FastStates, SlowOK, RejectionJustified, LabelsFound
  <1>10. CASE FastOutcome(ts) = "error"
    <2>1. state' = "rejected" /\ pos' = pos
      BY <1>10 DEF ParseFastTimeSeries
    <2>2. RequestOK'
      BY <1>1, <2>1 DEF RequestOK, States
    <2>3. ts.labels \in BadLabels
      BY <1>10 DEF FastOutcome, BadLabels
    <2>4. ts.samples # <<>> => SlowOutcome(ts) = "error"
      BY <2>3 DEF SlowOutcome
    <2>5. RejectionJustified'
      <3>1. CASE ts.samples # <<>>
        BY <1>1, <1>2, <2>4, <3>1 DEF RejectionJustified, SlowFails
      <3>2. CASE ts.samples = <<>>
        BY <1>1, <1>2, <2>3, <3>2 DEF RejectionJustified
      <3> QED
        BY <3>1, <3>2
    <2> QED
      BY <2>1, <2>2, <2>5 DEF BatchInv, FastOK, FastStates, SlowOK, LabelsFound
  <1>11. FastOutcome(ts) \in {"add", "skip", "fallback", "error"}
    BY DEF FastOutcome
  <1> QED
    BY <1>8, <1>9, <1>10, <1>11

LEMMA BatchFinish ==
    ASSUME BatchInv, FinishFast
    PROVE  BatchInv'
  <1>1. /\ state = "fast" /\ pos > Len(req) /\ req' = req /\ pos' = pos /\ batch' = batch
        /\ index' = index /\ state' \in {"slow", "built_fast"}
    BY DEF FinishFast
  <1>2. req \in Seq(TimeSeries) /\ pos \in 1 .. (Len(req) + 1)
    BY DEF BatchInv, RequestOK
  <1>3. Len(req) \in Nat
    BY <1>2, RequestLength
  <1>4. pos = Len(req) + 1
    BY <1>1, <1>2, <1>3
  <1>5. RequestOK'
    BY <1>1, <1>2 DEF RequestOK, States
  <1>6. FastOK'
    BY <1>1, <1>4 DEF BatchInv, FastOK, FastStates
  <1> QED
    BY <1>1, <1>5, <1>6 DEF BatchInv, SlowOK, RejectionJustified, LabelsFound

LEMMA BatchSlow ==
    ASSUME BatchInv, BuildSlow
    PROVE  BatchInv'
  <1>1. /\ req' = req /\ pos' = pos
        /\ \/ SlowFails(req) /\ state' = "rejected"
           \/ ~SlowFails(req) /\ state' = "built_slow" /\ batch' = SlowBatch(req)
    BY DEF BuildSlow
  <1>2. RequestOK'
    BY <1>1 DEF BatchInv, RequestOK, States
  <1>3. FastOK' /\ LabelsFound'
    BY <1>1 DEF FastOK, FastStates, LabelsFound
  <1>4. SlowOK'
    BY <1>1 DEF SlowOK
  <1>5. RejectionJustified'
    BY <1>1 DEF RejectionJustified
  <1> QED
    BY <1>2, <1>3, <1>4, <1>5 DEF BatchInv

(* The second pass finds the labels of every series of the batch unless a   *)
(* time series without samples has bad ones.                               *)
LEMMA BatchPopulate ==
    ASSUME BatchInv, NEW needed \in SUBSET SeriesIds, PopulateLabels(needed)
    PROVE  BatchInv'
  <1> DEFINE good(n) == {j \in 1 .. n : req[j].labels \notin BadLabels}
             found(n) == needed \subseteq {req[i].id : i \in good(n)}
             bad(n) == \E j \in 1 .. n : req[j].labels \in BadLabels
             ends == {n \in 0 .. Len(req) : found(n) \/ bad(n)}
  <1>1. /\ state = "built_fast" /\ req' = req /\ pos' = pos /\ batch' = batch /\ index' = index
        /\ state' \in {"labeled", "unavailable"}
    BY DEF PopulateLabels
  <1>2. state' = "unavailable" => ends = {} \/ bad(Min(ends))
    <2>1. state' = IF ends # {} /\ ~bad(Min(ends)) THEN "labeled" ELSE "unavailable"
      BY DEF PopulateLabels
    <2> HIDE DEF ends, bad
    <2> QED
      BY <2>1
  <1>3. req \in Seq(TimeSeries) /\ pos = Len(req) + 1 /\ batch = SlowBatches(req)[pos - 1]
        /\ \A i \in 1 .. (pos - 1) : FastOutcome(req[i]) \in {"add", "skip"}
    BY <1>1 DEF BatchInv, RequestOK, FastOK, FastStates
  <1>4. Len(req) \in Nat /\ DOMAIN req = 1 .. Len(req) /\ pos - 1 = Len(req)
        /\ \A i \in 1 .. Len(req) : req[i] \in TimeSeries
    BY <1>3, RequestLength
  <1>5. \A i \in 1 .. Len(req) : FastOutcome(req[i]) \in {"add", "skip"}
    BY <1>3, <1>4
  <1>6. ASSUME state' = "unavailable" PROVE \E i \in 1 .. Len(req) : req[i].labels \in BadLabels
    <2> SUFFICES ASSUME \A i \in 1 .. Len(req) : req[i].labels \notin BadLabels PROVE FALSE
      OBVIOUS
    <2>1. good(Len(req)) = 1 .. Len(req)
      OBVIOUS
    <2>2. Len(req) \in 0 .. Len(req)
      BY <1>4
    <2>3. SourcesOK(batch, req, Len(req))
      BY <1>3, <1>4, <2>2, SlowBatchesOK
    <2>4. found(Len(req))
      <3> SUFFICES ASSUME NEW id \in needed PROVE \E i \in 1 .. Len(req) : id = req[i].id
        BY <2>1
      <3>1. PICK k \in DOMAIN batch.series : id = batch.series[k].id
        BY DEF SeriesIds
      <3> QED
        BY <2>3, <3>1 DEF SourcesOK
    <2>5. Len(req) \in ends
      BY <2>2, <2>4
    <2>6. ends \in SUBSET Int /\ IsFiniteSet(ends)
      <3>1. IsFiniteSet(0 .. Len(req))
        BY <1>4, FS_Interval
      <3>2. ends \subseteq 0 .. Len(req) /\ ends \in SUBSET Int
        OBVIOUS
      <3> HIDE DEF ends
      <3> QED
        BY <3>1, <3>2, FS_Subset
    <2>7. Min(ends) \in ends
      <3> HIDE DEF ends
      <3> QED
        BY <2>5, <2>6, Extremes
    <2>8. Min(ends) \in 0 .. Len(req)
      BY <2>7
    <2>9. bad(Min(ends))
      BY <1>2, <1>6, <2>5
    <2> HIDE DEF ends
    <2>10. PICK j \in 1 .. Min(ends) : req[j].labels \in BadLabels
      BY <2>9
    <2>11. j \in 1 .. Len(req)
      BY <1>4, <2>8
    <2> QED
      BY <2>10, <2>11
  <1>7. LabelsFound'
    <2> SUFFICES ASSUME state' = "unavailable"
                 PROVE  \E i \in DOMAIN req : req[i].samples = <<>> /\ req[i].labels \in BadLabels
      BY <1>1 DEF LabelsFound
    <2>1. PICK i \in 1 .. Len(req) : req[i].labels \in BadLabels
      BY <1>6
    <2>2. req[i].samples = <<>>
      BY <1>4, <1>5, <2>1, SameOutcome
    <2> QED
      BY <1>4, <2>1, <2>2
  <1>8. RequestOK'
    BY <1>1 DEF BatchInv, RequestOK, States
  <1>9. FastOK'
    BY <1>1, <1>3 DEF BatchInv, FastOK, FastStates
  <1> QED
    BY <1>1, <1>7, <1>8, <1>9 DEF BatchInv, SlowOK, RejectionJustified

LEMMA BatchUnchanged ==
    ASSUME BatchInv, UNCHANGED vars
    PROVE  BatchInv'
  BY DEF BatchInv, RequestOK, FastOK, SlowOK, RejectionJustified, LabelsFound, vars

LEMMA BatchInductive == Spec => []BatchInv
  <1>1. Init => BatchInv
    BY BatchInit
  <1>2. BatchInv /\ [Next]_vars => BatchInv'
    BY BatchParse, BatchFinish, BatchSlow, BatchPopulate, BatchUnchanged DEF Next
  <1> QED
    BY <1>1, <1>2, PTL DEF Spec

-----------------------------------------------------------------------------
(* The theorems.                                                            *)

(* The one-pass builder rejects a body that the general one would take only *)
(* for the labels of a time series without samples.                        *)
THEOREM RejectionsAreJustified == Spec => []RejectionJustified
  <1>1. BatchInv => RejectionJustified
    BY DEF BatchInv
  <1> QED
    BY <1>1, BatchInductive, PTL

(* The second pass over the body finds the labels of every new series.      *)
THEOREM LabelsAreFound == Spec => []LabelsFound
  <1>1. BatchInv => LabelsFound
    BY DEF BatchInv
  <1> QED
    BY <1>1, BatchInductive, PTL

(* A body the one-pass builder takes becomes the general builder's batch,   *)
(* and the general builder would not have refused it.                      *)
THEOREM FastIsSlow == Spec => []FastMatchesSlow
  <1>1. ASSUME BatchInv PROVE FastMatchesSlow
    <2> SUFFICES ASSUME state \in {"built_fast", "labeled", "unavailable"}
                 PROVE  ~SlowFails(req) /\ batch = SlowBatch(req)
      BY DEF FastMatchesSlow
    <2>1. /\ req \in Seq(TimeSeries) /\ pos = Len(req) + 1 /\ batch = SlowBatches(req)[pos - 1]
          /\ \A i \in 1 .. (pos - 1) : FastOutcome(req[i]) \in {"add", "skip"}
      BY <1>1 DEF BatchInv, RequestOK, FastOK, FastStates
    <2>2. Len(req) \in Nat /\ DOMAIN req = 1 .. Len(req) /\ pos - 1 = Len(req)
          /\ \A i \in 1 .. Len(req) : req[i] \in TimeSeries
      BY <2>1, RequestLength
    <2>3. ASSUME NEW i \in DOMAIN req PROVE SlowOutcome(req[i]) # "error"
      <3>1. req[i] \in TimeSeries /\ FastOutcome(req[i]) \in {"add", "skip"}
        BY <2>1, <2>2
      <3>2. SlowOutcome(req[i]) = FastOutcome(req[i])
        BY <3>1, SameOutcome
      <3> QED
        BY <3>1, <3>2
    <2> QED
      BY <2>1, <2>2, <2>3 DEF SlowFails, SlowBatch
  <1> QED
    BY <1>1, BatchInductive, PTL

(* The hash table answers like a map from the ids of the batch to their     *)
(* places, and has room for every probe to end.                            *)
THEOREM IndexMaps == Spec => []IndexIsMap
  <1>1. ASSUME BatchInv PROVE IndexIsMap
    <2> SUFFICES ASSUME state \in {"fast", "built_fast"}
                 PROVE  /\ HasRoom(index)
                        /\ \A ts \in TimeSeries :
                             Get(index, ts.id) =
                               IF ts.id \in SeriesIds
                               THEN <<CHOOSE i \in DOMAIN batch.series :
                                        batch.series[i].id = ts.id, TRUE>>
                               ELSE <<0, FALSE>>
      BY DEF IndexIsMap
    <2>1. /\ req \in Seq(TimeSeries) /\ pos \in 1 .. (Len(req) + 1)
          /\ batch = SlowBatches(req)[pos - 1]
          /\ IndexOK(index) /\ Maps(index, batch.series)
      BY <1>1 DEF BatchInv, RequestOK, FastOK, FastStates
    <2>2. Len(req) \in Nat /\ pos - 1 \in 0 .. Len(req)
      BY <2>1, RequestLength
    <2>3. batch \in Batch /\ RecordsOK(batch)
      BY <2>1, <2>2, SlowBatchesOK
    <2>4. batch.series \in Seq(Record) /\ Distinct(batch.series)
      BY <2>3 DEF Batch, RecordsOK
    <2>5. ASSUME NEW ts \in TimeSeries
          PROVE  Get(index, ts.id) = IF ts.id \in SeriesIds
                                     THEN <<CHOOSE i \in DOMAIN batch.series :
                                              batch.series[i].id = ts.id, TRUE>>
                                     ELSE <<0, FALSE>>
      <3> DEFINE at == Place(batch.series, ts.id)
      <3>1. ts.id \in Nat
        BY TimeSeriesType
      <3>2. Get(index, ts.id) = Answer(batch.series, ts.id)
        BY <2>1, <3>1 DEF Maps
      <3>3. /\ at = 0 => \A i \in DOMAIN batch.series : batch.series[i].id # ts.id
            /\ at # 0 => at \in DOMAIN batch.series /\ batch.series[at].id = ts.id
            /\ \A i \in DOMAIN batch.series : batch.series[i].id = ts.id => at = i
        BY <2>4, <3>1, PlaceOf
      <3> HIDE DEF at
      <3>4. CASE at = 0
        <4>1. ts.id \notin SeriesIds
          BY <3>3, <3>4 DEF SeriesIds
        <4>2. Get(index, ts.id) = <<0, FALSE>>
          BY <3>2, <3>4 DEF Answer, at
        <4> QED
          BY <4>1, <4>2
      <3>5. CASE at # 0
        <4>1. ts.id \in SeriesIds
          BY <3>3, <3>5 DEF SeriesIds
        <4>2. (CHOOSE i \in DOMAIN batch.series : batch.series[i].id = ts.id) = at
          BY <3>3, <3>5
        <4>3. Get(index, ts.id) = <<at, TRUE>>
          BY <3>2, <3>5 DEF Answer, at
        <4> QED
          BY <4>1, <4>2, <4>3
      <3> QED
        BY <3>4, <3>5
    <2> QED
      BY <2>1, <2>5, IndexHasRoom
  <1> QED
    BY <1>1, BatchInductive, PTL

(* A finished batch is the general builder's, whichever builder made it.    *)
LEMMA BuiltBatch ==
    ASSUME BatchInv, Built
    PROVE  /\ batch \in Batch /\ RecordsOK(batch) /\ SamplesOK(batch, req, Len(req))
           /\ req \in Seq(TimeSeries) /\ Len(req) \in Nat /\ DOMAIN req = 1 .. Len(req)
           /\ \A i \in 1 .. Len(req) : req[i] \in TimeSeries
  <1>1. req \in Seq(TimeSeries)
    BY DEF BatchInv, RequestOK
  <1>2. Len(req) \in Nat /\ Len(req) \in 0 .. Len(req) /\ DOMAIN req = 1 .. Len(req)
        /\ \A i \in 1 .. Len(req) : req[i] \in TimeSeries
    BY <1>1, RequestLength
  <1>3. batch = SlowBatches(req)[Len(req)]
    <2>1. CASE state = "built_slow"
      BY <2>1 DEF BatchInv, SlowOK, SlowBatch
    <2>2. CASE state \in FastStates
      <3>1. pos = Len(req) + 1 /\ batch = SlowBatches(req)[pos - 1]
        BY <2>2 DEF BatchInv, FastOK, Built
      <3>2. pos - 1 = Len(req)
        BY <1>2, <3>1
      <3> QED
        BY <3>1, <3>2
    <2> QED
      BY <2>1, <2>2 DEF Built, FastStates
  <1> QED
    BY <1>1, <1>2, <1>3, SlowBatchesOK

(* Sample rows lie on the grid, less than an interval before their time,    *)
(* and neighbours of one series are in different buckets.                  *)
THEOREM RowsAreOnGrid == Spec => []RowsOnGrid
  <1>1. ASSUME BatchInv PROVE RowsOnGrid
    <2> SUFFICES ASSUME Built
                 PROVE  /\ \A i \in DOMAIN batch.samples :
                             \E j \in DOMAIN req :
                                /\ req[j].id = batch.samples[i].id
                                /\ \E x \in Range(req[j].samples) :
                                     x.v = batch.samples[i].v /\ OnGrid(batch.samples[i].t, x.t)
                        /\ \A i \in 2 .. Len(batch.samples) :
                             batch.samples[i].id = batch.samples[i-1].id
                               => batch.samples[i].t # batch.samples[i-1].t
      BY DEF RowsOnGrid
    <2>1. /\ SamplesOK(batch, req, Len(req)) /\ Len(req) \in Nat /\ DOMAIN req = 1 .. Len(req)
          /\ \A i \in 1 .. Len(req) : req[i] \in TimeSeries
      BY <1>1, BuiltBatch
    <2>2. Apart(batch.samples)
      BY <2>1 DEF SamplesOK
    <2>3. ASSUME NEW i \in DOMAIN batch.samples
          PROVE  \E j \in DOMAIN req :
                    /\ req[j].id = batch.samples[i].id
                    /\ \E x \in Range(req[j].samples) :
                         x.v = batch.samples[i].v /\ OnGrid(batch.samples[i].t, x.t)
      <3>1. PICK j \in 1 .. Len(req) : \E x \in Kept(req[j]) :
               batch.samples[i] = [id |-> req[j].id, t |-> Bucket(x.t), v |-> x.v]
        BY <2>1 DEF SamplesOK
      <3>2. PICK x \in Kept(req[j]) :
               batch.samples[i] = [id |-> req[j].id, t |-> Bucket(x.t), v |-> x.v]
        BY <3>1
      <3>3. PICK k \in DOMAIN req[j].samples : x = req[j].samples[k]
        BY DEF Kept, Range
      <3>4. req[j] \in TimeSeries /\ x \in Range(req[j].samples)
        BY <2>1 DEF Kept
      <3>5. req[j].samples \in Seq(Sample)
        BY <3>4, TimeSeriesType
      <3>6. x \in Sample
        BY <3>3, <3>5, LenProperties
      <3>7. x.t \in Int
        BY <3>6 DEF Sample
      <3>8. OnGrid(Bucket(x.t), x.t)
        BY <3>7, BucketOnGrid
      <3>9. batch.samples[i].id = req[j].id /\ batch.samples[i].t = Bucket(x.t) /\ batch.samples[i].v = x.v
        BY <3>2
      <3> QED
        BY <2>1, <3>4, <3>8, <3>9
    <2> QED
      BY <2>2, <2>3 DEF Apart
  <1> QED
    BY <1>1, BatchInductive, PTL

(* The times of a series among some rows, by their keys.                    *)
LEMMA TimesByKeys ==
    ASSUME NEW all, NEW id, NEW t
    PROVE  /\ t \in {all[i].t : i \in {j \in DOMAIN all : all[j].id = id}} <=> <<id, t>> \in Keyed(all)
           /\ <<id, t>> \in Keyed(all) => id \in {all[i].id : i \in DOMAIN all}
  <1>1. <<id, t>> \in Keyed(all) <=> \E i \in DOMAIN all : all[i].id = id /\ all[i].t = t
    BY DEF Keyed
  <1> QED
    BY <1>1

(* Every row's series has exactly one record, which spans exactly its rows. *)
THEOREM RecordsCover == Spec => []RecordsCoverRows
  <1>1. ASSUME BatchInv PROVE RecordsCoverRows
    <2> DEFINE all == batch.samples \o batch.hists \o batch.exems
               times(id) == {all[i].t : i \in {j \in DOMAIN all : all[j].id = id}}
               AnyRow == SampleRow \cup TimeRow
    <2> SUFFICES ASSUME Built
                 PROVE  /\ SeriesIds = {all[i].id : i \in DOMAIN all}
                        /\ \A i, j \in DOMAIN batch.series :
                             batch.series[i].id = batch.series[j].id => i = j
                        /\ \A i \in DOMAIN batch.series :
                             /\ batch.series[i].min = Min(times(batch.series[i].id))
                             /\ batch.series[i].max = Max(times(batch.series[i].id))
      BY DEF RecordsCoverRows
    <2>1. batch \in Batch /\ RecordsOK(batch)
      BY <1>1, BuiltBatch
    <2>2. /\ batch.series \in Seq(Record) /\ Distinct(batch.series)
          /\ Fits(batch.series, Keys(batch))
      BY <2>1 DEF Batch, RecordsOK
    <2>3. /\ batch.samples \in Seq(SampleRow) /\ batch.hists \in Seq(TimeRow)
          /\ batch.exems \in Seq(TimeRow)
      BY <2>1 DEF Batch
    <2>4. /\ batch.samples \in Seq(AnyRow) /\ batch.hists \in Seq(AnyRow)
          /\ batch.exems \in Seq(AnyRow)
      BY <2>3
    <2> HIDE DEF AnyRow
    <2>5. Keyed(all) = Keys(batch) /\ all \in Seq(AnyRow)
      <3> DEFINE front == batch.samples \o batch.hists
      <3>1. front \in Seq(AnyRow) /\ Keyed(front) = Keyed(batch.samples) \cup Keyed(batch.hists)
        BY <2>4, KeyedConcat
      <3>2. all = front \o batch.exems
        OBVIOUS
      <3> HIDE DEF front, all
      <3>3. front \o batch.exems \in Seq(AnyRow)
            /\ Keyed(front \o batch.exems) = Keyed(front) \cup Keyed(batch.exems)
        BY <2>4, <3>1, KeyedConcat
      <3> QED
        BY <3>1, <3>2, <3>3 DEF Keys
    <2>6. \A i \in DOMAIN all : all[i].id \in Nat /\ all[i].t \in Int
      <3>1. \A i \in DOMAIN all : all[i] \in AnyRow
        BY <2>5, LenProperties
      <3> QED
        BY <3>1 DEF AnyRow, SampleRow, TimeRow
    <2> HIDE DEF all
    <2>7. ASSUME NEW id \in Nat, NEW t \in Int
          PROVE  t \in times(id) <=> <<id, t>> \in Keys(batch)
      <3>1. t \in times(id) <=> <<id, t>> \in Keyed(all)
        BY TimesByKeys
      <3> QED
        BY <2>5, <3>1
    <2>8. ASSUME NEW id PROVE times(id) \in SUBSET Int
      BY <2>6
    <2>9. SeriesIds = {all[i].id : i \in DOMAIN all}
      <3>1. \A i \in DOMAIN batch.series : batch.series[i].id \in Nat
        <4>1. \A i \in DOMAIN batch.series : batch.series[i] \in Record
          BY <2>2, LenProperties
        <4> QED
          BY <4>1 DEF Record
      <3>2. ASSUME NEW id \in SeriesIds PROVE id \in {all[i].id : i \in DOMAIN all}
        <4>1. PICK i \in DOMAIN batch.series : batch.series[i].id = id
          BY <3>2 DEF SeriesIds
        <4>2. PICK t \in Int : <<id, t>> \in Keys(batch)
          BY <2>2, <3>1, <4>1 DEF Fits
        <4>3. <<id, t>> \in Keyed(all)
          BY <2>5, <4>2
        <4> QED
          BY <4>3, TimesByKeys
      <3>3. ASSUME NEW i \in DOMAIN all PROVE all[i].id \in SeriesIds
        <4> DEFINE id == all[i].id
                   t == all[i].t
        <4>1. id \in Nat /\ t \in Int
          BY <2>6
        <4>2. <<id, t>> \in Keys(batch)
          <5>1. <<id, t>> \in Keyed(all)
            BY DEF Keyed
          <5> QED
            BY <2>5, <5>1
        <4> HIDE DEF id, t
        <4>3. \E k \in DOMAIN batch.series : batch.series[k].id = id
          BY <2>2, <4>1, <4>2 DEF Fits
        <4> QED
          BY <4>3 DEF id, SeriesIds
      <3> QED
        BY <3>2, <3>3
    <2>10. ASSUME NEW i \in DOMAIN batch.series
           PROVE  /\ batch.series[i].min = Min(times(batch.series[i].id))
                  /\ batch.series[i].max = Max(times(batch.series[i].id))
      <3> DEFINE r == batch.series[i]
                 T == times(r.id)
      <3>1. r \in Record
        BY <2>2, LenProperties
      <3>2. r.id \in Nat /\ r.min \in Int /\ r.max \in Int
        BY <3>1 DEF Record
      <3>3. /\ <<r.id, r.min>> \in Keys(batch) /\ <<r.id, r.max>> \in Keys(batch)
            /\ \A t \in Int : <<r.id, t>> \in Keys(batch) => r.min <= t /\ t <= r.max
        BY <2>2 DEF Fits
      <3>4. T \in SUBSET Int
        BY <2>8
      <3>5. \A t \in Int : t \in T <=> <<r.id, t>> \in Keys(batch)
        BY <2>7, <3>2
      <3> HIDE DEF T, r
      <3>6. r.min \in T /\ r.max \in T /\ \A t \in T : r.min <= t /\ t <= r.max
        BY <3>2, <3>3, <3>4, <3>5
      <3>7. Min(T) = r.min
        BY <3>4, <3>6, SameMin
      <3>8. Max(T) = r.max
        BY <3>4, <3>6, SameMax
      <3> QED
        BY <3>7, <3>8 DEF T, r
    <2> QED
      BY <2>2, <2>9, <2>10 DEF Distinct
  <1> QED
    BY <1>1, BatchInductive, PTL
=============================================================================
