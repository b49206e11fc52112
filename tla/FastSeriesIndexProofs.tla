------------------------ MODULE FastSeriesIndexProofs ------------------------
(***************************************************************************)
(* The hash table of the fast builder behaves like a map, for tables of    *)
(* any size and any keys: a probe always ends, and setting a key changes   *)
(* what get answers for that key and for no other, whether or not the      *)
(* table has to grow for it.                                               *)
(***************************************************************************)
EXTENDS FastSeriesIndex, FiniteSetTheorems, WellFoundedInduction, TLAPS

-----------------------------------------------------------------------------
(* Positions: least elements, induction and remainders.                     *)

(* A nonempty set of naturals has a least element.                          *)
LEMMA LeastOf ==
    ASSUME NEW T \in SUBSET Nat, T # {}
    PROVE  /\ Min(T) \in T
           /\ \A j \in T : Min(T) <= j
  <1> DEFINE Less == {ss \in Nat \X Nat : ss[1] < ss[2]}
  <1>1. IsWellFoundedOn(Less, Nat)
    BY NatLessThanWellFounded, Zenon DEF OpToRel
  <1> HIDE DEF Less
  <1>2. \E i \in T : \A j \in T : ~(<<j, i>> \in Less)
    BY <1>1, WFMin
  <1>3. PICK i \in T : \A j \in T : ~(<<j, i>> \in Less)
    BY <1>2
  <1>4. ASSUME NEW j \in T PROVE i <= j
    <2>1. i \in Nat /\ j \in Nat /\ ~(<<j, i>> \in Less)
      BY <1>3
    <2>2. j < i => <<j, i>> \in Less
      BY <2>1 DEF Less
    <2> QED
      BY <2>1, <2>2
  <1> QED
    BY <1>3, <1>4 DEF Min

(* Induction, for a property given as the set of numbers that have it.      *)
LEMMA SetInduction ==
    ASSUME NEW S, 0 \in S, \A n \in Nat : n \in S => n + 1 \in S
    PROVE  \A n \in Nat : n \in S
  <1> SUFFICES ASSUME NEW T, T = Nat \ S, T # {} PROVE FALSE
    OBVIOUS
  <1>1. T \in SUBSET Nat
    OBVIOUS
  <1>2. Min(T) \in T /\ \A j \in T : Min(T) <= j
    BY <1>1, LeastOf
  <1>3. Min(T) \in Nat /\ Min(T) \notin S /\ Min(T) # 0
    BY <1>2
  <1>4. Min(T) - 1 \in Nat /\ Min(T) - 1 \notin T
    BY <1>2, <1>3
  <1> QED
    BY <1>3, <1>4

LEMMA RemainderUnique ==
    ASSUME NEW n \in Nat, n > 0, NEW q \in Int, NEW r \in 0 .. (n - 1)
    PROVE  (n * q + r) % n = r
  OBVIOUS

(* A probe passes through every slot.                                       *)
LEMMA EverySlotProbed ==
    ASSUME NEW n \in Nat, n > 0, NEW key \in Nat, NEW s \in 0 .. (n - 1)
    PROVE  \E d \in 0 .. (n - 1) : (key + d) % n = s
  <1> DEFINE d == (s - key) % n
             q == -((s - key) \div n)
  <1>1. d \in 0 .. (n - 1) /\ q \in Int
    OBVIOUS
  <1>2. s - key = n * ((s - key) \div n) + d
    OBVIOUS
  <1>3. key + d = n * q + s
    BY <1>1, <1>2
  <1> HIDE DEF d, q
  <1>4. (key + d) % n = s
    BY <1>1, <1>3, RemainderUnique
  <1> QED
    BY <1>1, <1>4

LEMMA ProbeInTable ==
    ASSUME NEW n \in Nat, n > 0, NEW key \in Nat, NEW d \in Nat
    PROVE  (key + d) % n \in 0 .. (n - 1)
  OBVIOUS

-----------------------------------------------------------------------------
(* Tables.                                                                  *)

Table(n) == [keys : [0 .. (n - 1) -> Nat], values : [0 .. (n - 1) -> Nat],
             count : Nat, zeroUsed : BOOLEAN, zeroValue : Nat]

Occupied(m) == {s \in DOMAIN m.keys : m.keys[s] # 0}

(* Every key is where its own probe looks for it, the count is right and    *)
(* the table is less than seven tenths full.                               *)
InPlace(m) == \A s \in DOMAIN m.keys : m.keys[s] # 0 => Slot(m, m.keys[s]) = s
Counted(m) == m.count = Cardinality(Occupied(m)) + (IF m.zeroUsed THEN 1 ELSE 0)
Light(m) == 10 * Cardinality(Occupied(m)) < 7 * Size(m)

IndexOK(m) ==
    /\ \E n \in Nat : n >= 2 /\ m \in Table(n)
    /\ InPlace(m)
    /\ Counted(m)
    /\ Light(m)

LEMMA TableSize ==
    ASSUME NEW n \in Nat, NEW m \in Table(n)
    PROVE  /\ Size(m) = n
           /\ DOMAIN m.keys = 0 .. (n - 1)
           /\ IsFiniteSet(Occupied(m))
           /\ Cardinality(Occupied(m)) \in Nat
  <1>1. DOMAIN m.keys = 0 .. (n - 1)
    BY DEF Table
  <1>2. IsFiniteSet(0 .. (n - 1)) /\ Cardinality(0 .. (n - 1)) = n
    BY FS_Interval
  <1>3. Occupied(m) \subseteq 0 .. (n - 1)
    BY <1>1 DEF Occupied
  <1> QED
    BY <1>1, <1>2, <1>3, FS_Subset, FS_CardinalityType DEF Size

(* A table that is not full of keys has an empty slot.                      *)
LEMMA NotFull ==
    ASSUME NEW n \in Nat, NEW m \in Table(n), Cardinality(Occupied(m)) < n
    PROVE  HasRoom(m)
  <1> SUFFICES ASSUME ~HasRoom(m) PROVE FALSE
    OBVIOUS
  <1>1. Occupied(m) = 0 .. (n - 1)
    BY TableSize DEF HasRoom, Occupied
  <1>2. Cardinality(Occupied(m)) = n
    BY <1>1, FS_Interval
  <1> QED
    BY <1>2

(* Where a probe ends.                                                      *)
LEMMA ProbeEnds ==
    ASSUME NEW n \in Nat, n > 0, NEW m \in Table(n), HasRoom(m), NEW key \in Nat
    PROVE  \E d \in 0 .. (n - 1) :
              /\ Slot(m, key) = (key + d) % n
              /\ m.keys[(key + d) % n] \in {0, key}
              /\ \A e \in 0 .. (n - 1) :
                    e < d => m.keys[(key + e) % n] \notin {0, key}
  <1>1. Size(m) = n /\ DOMAIN m.keys = 0 .. (n - 1)
    BY TableSize
  <1>2. Stops(m, key) = {d \in 0 .. (n - 1) : m.keys[(key + d) % n] \in {0, key}}
    BY <1>1 DEF Stops
  <1>3. PICK s \in 0 .. (n - 1) : m.keys[s] = 0
    BY <1>1 DEF HasRoom
  <1>4. PICK d \in 0 .. (n - 1) : (key + d) % n = s
    BY EverySlotProbed
  <1>5. Stops(m, key) \in SUBSET Nat /\ Stops(m, key) # {}
    <2>1. d \in Stops(m, key)
      BY <1>2, <1>3, <1>4
    <2>2. Stops(m, key) \subseteq 0 .. (n - 1)
      BY <1>2
    <2> QED
      BY <2>1, <2>2
  <1>6. /\ Min(Stops(m, key)) \in Stops(m, key)
        /\ \A j \in Stops(m, key) : Min(Stops(m, key)) <= j
    BY <1>5, LeastOf
  <1> DEFINE f == Min(Stops(m, key))
  <1>7. f \in 0 .. (n - 1) /\ m.keys[(key + f) % n] \in {0, key}
    BY <1>2, <1>6
  <1>8. Slot(m, key) = (key + f) % n
    BY <1>1 DEF Slot
  <1>9. ASSUME NEW e \in 0 .. (n - 1), e < f
        PROVE  m.keys[(key + e) % n] \notin {0, key}
    <2> SUFFICES ASSUME m.keys[(key + e) % n] \in {0, key} PROVE FALSE
      OBVIOUS
    <2>1. e \in Stops(m, key)
      BY <1>2
    <2>2. f <= e
      BY <1>6, <2>1
    <2> QED
      BY <1>7, <1>9, <2>2
  <1> HIDE DEF f
  <1> QED
    BY <1>7, <1>8, <1>9

(* A probe ends at the first slot that stops it.                            *)
LEMMA ProbeEndsHere ==
    ASSUME NEW n \in Nat, n > 0, NEW m \in Table(n), NEW key \in Nat,
           NEW d \in 0 .. (n - 1), m.keys[(key + d) % n] \in {0, key},
           \A e \in 0 .. (n - 1) : e < d => m.keys[(key + e) % n] \notin {0, key}
    PROVE  Slot(m, key) = (key + d) % n
  <1>1. Size(m) = n
    BY TableSize
  <1>2. Stops(m, key) = {e \in 0 .. (n - 1) : m.keys[(key + e) % n] \in {0, key}}
    BY <1>1 DEF Stops
  <1>3. d \in Stops(m, key) /\ Stops(m, key) \in SUBSET Nat
    BY <1>2
  <1>4. /\ Min(Stops(m, key)) \in Stops(m, key)
        /\ \A j \in Stops(m, key) : Min(Stops(m, key)) <= j
    BY <1>3, LeastOf
  <1> DEFINE f == Min(Stops(m, key))
  <1>5. f = d
    <2>1. f <= d /\ f \in 0 .. (n - 1) /\ m.keys[(key + f) % n] \in {0, key}
      BY <1>2, <1>3, <1>4
    <2> HIDE DEF f
    <2>2. ~(f < d)
      BY <2>1
    <2>3. f \in Int /\ d \in Int /\ f <= d
      BY <2>1
    <2> QED
      BY <2>2, <2>3
  <1> QED
    BY <1>1, <1>5 DEF Slot

(* The slot a probe ends at is one of the table, with the key or empty.     *)
LEMMA SlotInTable ==
    ASSUME NEW n \in Nat, n > 0, NEW m \in Table(n), HasRoom(m), NEW key \in Nat
    PROVE  Slot(m, key) \in 0 .. (n - 1) /\ m.keys[Slot(m, key)] \in {0, key}
  BY ProbeEnds, ProbeInTable

(* What get answers is determined by what the table holds.                  *)
LEMMA GetByContent ==
    ASSUME NEW n \in Nat, n > 0, NEW m \in Table(n), HasRoom(m), InPlace(m),
           NEW key \in Nat \ {0}
    PROVE  /\ \A s \in 0 .. (n - 1) :
                m.keys[s] = key => Get(m, key) = <<m.values[s], TRUE>>
           /\ (\A s \in 0 .. (n - 1) : m.keys[s] # key) => Get(m, key) = <<0, FALSE>>
  <1>1. DOMAIN m.keys = 0 .. (n - 1)
    BY TableSize
  <1>2. ASSUME NEW s \in 0 .. (n - 1), m.keys[s] = key
        PROVE  Get(m, key) = <<m.values[s], TRUE>>
    BY <1>1, <1>2 DEF InPlace, Get
  <1>3. ASSUME \A s \in 0 .. (n - 1) : m.keys[s] # key
        PROVE  Get(m, key) = <<0, FALSE>>
    BY <1>3, SlotInTable DEF Get
  <1> QED
    BY <1>2, <1>3

-----------------------------------------------------------------------------
(* Putting a key into a table.                                              *)

LEMMA PutFields ==
    ASSUME NEW n \in Nat, n > 0, NEW m \in Table(n), HasRoom(m),
           NEW key \in Nat \ {0}, NEW value \in Nat
    PROVE  /\ Put(m, key, value) \in Table(n)
           /\ \A s \in 0 .. (n - 1) :
                /\ Put(m, key, value).keys[s] = IF s = Slot(m, key) THEN key ELSE m.keys[s]
                /\ Put(m, key, value).values[s] = IF s = Slot(m, key) THEN value ELSE m.values[s]
           /\ Put(m, key, value).count = IF m.keys[Slot(m, key)] = key THEN m.count ELSE m.count + 1
           /\ Put(m, key, value).zeroUsed = m.zeroUsed
           /\ Put(m, key, value).zeroValue = m.zeroValue
  <1> DEFINE p == Put(m, key, value)
             s == Slot(m, key)
             counted == IF m.keys[s] = key THEN m.count ELSE m.count + 1
  <1>1. s \in 0 .. (n - 1)
    BY SlotInTable
  <1>2. /\ m.keys \in [0 .. (n - 1) -> Nat] /\ m.values \in [0 .. (n - 1) -> Nat]
        /\ m.count \in Nat /\ m.zeroValue \in Nat /\ m.zeroUsed \in BOOLEAN
    BY DEF Table
  <1>3. p = [keys |-> [m.keys EXCEPT ![s] = key], values |-> [m.values EXCEPT ![s] = value],
             count |-> counted, zeroUsed |-> m.zeroUsed, zeroValue |-> m.zeroValue]
    <2>1. m = [keys |-> m.keys, values |-> m.values, count |-> m.count,
               zeroUsed |-> m.zeroUsed, zeroValue |-> m.zeroValue]
      BY Zenon DEF Table
    <2>2. p = [m EXCEPT !.keys = [m.keys EXCEPT ![s] = key],
                        !.values = [m.values EXCEPT ![s] = value],
                        !.count = counted]
      BY <2>1 DEF Put
    <2> HIDE DEF p, s, counted
    <2> QED
      BY <2>1, <2>2
  <1>4. counted \in Nat
    BY <1>2
  <1> HIDE DEF p, s, counted
  <1>5. p \in Table(n)
    BY <1>1, <1>2, <1>3, <1>4 DEF Table
  <1>6. /\ p.count = counted
        /\ p.zeroUsed = m.zeroUsed
        /\ p.zeroValue = m.zeroValue
    BY <1>3
  <1>7. ASSUME NEW x \in 0 .. (n - 1)
        PROVE  /\ p.keys[x] = IF x = s THEN key ELSE m.keys[x]
               /\ p.values[x] = IF x = s THEN value ELSE m.values[x]
    BY <1>2, <1>3
  <1> QED
    BY <1>5, <1>6, <1>7 DEF p, s, counted

(* A key that is put takes at most one more slot, and the count follows.    *)
LEMMA PutOccupies ==
    ASSUME NEW n \in Nat, n > 0, NEW m \in Table(n), HasRoom(m), Counted(m),
           NEW key \in Nat \ {0}, NEW value \in Nat
    PROVE  /\ Counted(Put(m, key, value))
           /\ Cardinality(Occupied(Put(m, key, value))) <= Cardinality(Occupied(m)) + 1
  <1> DEFINE p == Put(m, key, value)
             s == Slot(m, key)
  <1>1. p \in Table(n) /\ s \in 0 .. (n - 1) /\ m.keys[s] \in {0, key}
    BY PutFields, SlotInTable
  <1>2. DOMAIN p.keys = 0 .. (n - 1) /\ DOMAIN m.keys = 0 .. (n - 1)
    BY <1>1, TableSize
  <1>3. Occupied(p) = Occupied(m) \cup {s}
    BY <1>1, <1>2, PutFields DEF Occupied
  <1>4. IsFiniteSet(Occupied(m)) /\ Cardinality(Occupied(m)) \in Nat
    BY TableSize
  <1>5. /\ p.zeroUsed = m.zeroUsed
        /\ p.count = IF m.keys[s] = key THEN m.count ELSE m.count + 1
    BY PutFields
  <1>m. m.count \in Nat
    BY DEF Table
  <1> HIDE DEF p, s
  <1>6. CASE m.keys[s] = key
    <2>1. Occupied(p) = Occupied(m)
      BY <1>1, <1>2, <1>3, <1>6 DEF Occupied
    <2> QED
      BY <1>4, <1>5, <1>6, <1>m, <2>1 DEF Counted, p
  <1>7. CASE m.keys[s] = 0
    <2>1. s \notin Occupied(m)
      BY <1>7 DEF Occupied
    <2>2. Cardinality(Occupied(p)) = Cardinality(Occupied(m)) + 1
      BY <1>3, <1>4, <2>1, FS_AddElement
    <2>3. p.count = m.count + 1
      BY <1>5, <1>7
    <2> QED
      BY <1>4, <1>5, <1>m, <2>2, <2>3 DEF Counted, p
  <1> QED
    BY <1>1, <1>6, <1>7

(* Every key keeps its place when another one is put.                       *)
LEMMA PutInPlace ==
    ASSUME NEW n \in Nat, n > 0, NEW m \in Table(n), HasRoom(m), InPlace(m),
           NEW key \in Nat \ {0}, NEW value \in Nat
    PROVE  InPlace(Put(m, key, value))
  <1> DEFINE p == Put(m, key, value)
             s == Slot(m, key)
  <1>1. p \in Table(n) /\ s \in 0 .. (n - 1) /\ m.keys[s] \in {0, key}
    BY PutFields, SlotInTable
  <1>2. \A x \in 0 .. (n - 1) : p.keys[x] = IF x = s THEN key ELSE m.keys[x]
    BY PutFields
  <1>3. DOMAIN p.keys = 0 .. (n - 1) /\ DOMAIN m.keys = 0 .. (n - 1)
    BY <1>1, TableSize
  <1> HIDE DEF p
  <1>4. Slot(p, key) = s
    <2>1. PICK d \in 0 .. (n - 1) :
            /\ s = (key + d) % n
            /\ \A e \in 0 .. (n - 1) : e < d => m.keys[(key + e) % n] \notin {0, key}
      BY ProbeEnds
    <2> HIDE DEF s
    <2>2. ASSUME NEW e \in 0 .. (n - 1), e < d
          PROVE  p.keys[(key + e) % n] \notin {0, key}
      <3>1. m.keys[(key + e) % n] \notin {0, key}
        BY <2>1, <2>2
      <3>2. (key + e) % n \in 0 .. (n - 1)
        BY ProbeInTable
      <3> QED
        BY <1>1, <1>2, <3>1, <3>2
    <2>3. p.keys[(key + d) % n] = key
      BY <1>1, <1>2, <2>1
    <2> QED
      BY <1>1, <2>1, <2>2, <2>3, ProbeEndsHere
  <1>5. ASSUME NEW x \in 0 .. (n - 1), x # s, m.keys[x] # 0, m.keys[x] # key
        PROVE  Slot(p, m.keys[x]) = x
    <2> DEFINE k == m.keys[x]
    <2>1. k \in Nat \ {0} /\ Slot(m, k) = x
      BY <1>3, <1>5 DEF Table, InPlace
    <2> HIDE DEF k, s
    <2>2. PICK d \in 0 .. (n - 1) :
            /\ x = (k + d) % n
            /\ \A e \in 0 .. (n - 1) : e < d => m.keys[(k + e) % n] \notin {0, k}
      BY <2>1, ProbeEnds
    <2>3. ASSUME NEW e \in 0 .. (n - 1), e < d
          PROVE  p.keys[(k + e) % n] \notin {0, k}
      <3>1. m.keys[(k + e) % n] \notin {0, k}
        BY <2>2, <2>3
      <3>2. (k + e) % n \in 0 .. (n - 1)
        BY <2>1, ProbeInTable
      <3>3. key # k
        BY <1>5 DEF k
      <3> QED
        BY <1>2, <3>1, <3>2, <3>3
    <2>4. p.keys[(k + d) % n] = k
      BY <1>2, <1>5, <2>2 DEF k
    <2>5. Slot(p, k) = x
      BY <1>1, <2>1, <2>2, <2>3, <2>4, ProbeEndsHere
    <2> QED
      BY <2>5 DEF k
  <1>6. ASSUME NEW x \in 0 .. (n - 1), p.keys[x] # 0
        PROVE  Slot(p, p.keys[x]) = x
    <2>1. CASE x = s
      BY <1>2, <1>4, <2>1
    <2>2. CASE x # s
      <3>1. p.keys[x] = m.keys[x]
        BY <1>2, <2>2
      <3>2. m.keys[x] # key
        BY <1>3, <2>2 DEF InPlace
      <3> QED
        BY <1>5, <1>6, <2>2, <3>1, <3>2
    <2> QED
      BY <2>1, <2>2
  <1> QED
    BY <1>3, <1>6 DEF InPlace, p

(* Putting a key: what is in the table then.                                *)
LEMMA PutContent ==
    ASSUME NEW n \in Nat, n > 0, NEW m \in Table(n), HasRoom(m), InPlace(m),
           NEW key \in Nat \ {0}, NEW value \in Nat,
           Counted(m), Cardinality(Occupied(m)) + 1 < n
    PROVE  /\ Slot(m, key) \in 0 .. (n - 1) /\ m.keys[Slot(m, key)] \in {0, key}
           /\ Put(m, key, value) \in Table(n)
           /\ InPlace(Put(m, key, value)) /\ HasRoom(Put(m, key, value))
  <1> DEFINE p == Put(m, key, value)
             s == Slot(m, key)
  <1>1. p \in Table(n) /\ s \in 0 .. (n - 1) /\ m.keys[s] \in {0, key}
    BY PutFields, SlotInTable
  <1>2. InPlace(p) /\ HasRoom(p)
    <2>1. InPlace(p)
      BY PutInPlace
    <2>2. /\ Cardinality(Occupied(p)) <= Cardinality(Occupied(m)) + 1
          /\ Cardinality(Occupied(m)) \in Nat /\ Cardinality(Occupied(p)) \in Nat
      BY <1>1, PutOccupies, TableSize
    <2>3. Cardinality(Occupied(p)) < n
      BY <2>2
    <2> QED
      BY <1>1, <2>1, <2>3, NotFull
  <1> QED
    BY <1>1, <1>2

(* Get answers with the value that was put for the key ...                  *)
LEMMA PutGet ==
    ASSUME NEW n \in Nat, n > 0, NEW m \in Table(n), HasRoom(m), InPlace(m),
           NEW key \in Nat \ {0}, NEW value \in Nat,
           Counted(m), Cardinality(Occupied(m)) + 1 < n
    PROVE  Get(Put(m, key, value), key) = <<value, TRUE>>
  <1> DEFINE p == Put(m, key, value)
             s == Slot(m, key)
  <1>1. s \in 0 .. (n - 1) /\ p \in Table(n) /\ InPlace(p) /\ HasRoom(p)
    BY PutContent
  <1>2. p.keys[s] = key /\ p.values[s] = value
    BY <1>1, PutFields
  <1> HIDE DEF p, s
  <1>3. Get(p, key) = <<value, TRUE>>
    BY <1>1, <1>2, GetByContent
  <1> QED
    BY <1>3 DEF p

(* ... and as before for every other key.                                   *)
LEMMA PutGetOther ==
    ASSUME NEW n \in Nat, n > 0, NEW m \in Table(n), HasRoom(m), InPlace(m),
           NEW key \in Nat \ {0}, NEW value \in Nat,
           Counted(m), Cardinality(Occupied(m)) + 1 < n
    PROVE  \A other \in Nat \ {key} : Get(Put(m, key, value), other) = Get(m, other)
  <1> SUFFICES ASSUME NEW other \in Nat \ {key}
               PROVE  Get(Put(m, key, value), other) = Get(m, other)
    OBVIOUS
  <1> DEFINE p == Put(m, key, value)
             s == Slot(m, key)
  <1>1. s \in 0 .. (n - 1) /\ m.keys[s] \in {0, key}
    BY PutContent
  <1>2. \A x \in 0 .. (n - 1) : /\ p.keys[x] = IF x = s THEN key ELSE m.keys[x]
                                /\ p.values[x] = IF x = s THEN value ELSE m.values[x]
    BY PutFields
  <1>3. p \in Table(n) /\ InPlace(p) /\ HasRoom(p)
    BY PutContent
  <1>4. p.zeroUsed = m.zeroUsed /\ p.zeroValue = m.zeroValue
    BY PutFields
  <1> HIDE DEF p, s
  <1>5. CASE other = 0
    BY <1>4, <1>5 DEF Get, p
  <1>6. CASE other # 0
    <2>1. CASE \E x \in 0 .. (n - 1) : m.keys[x] = other
      <3>1. PICK x \in 0 .. (n - 1) : m.keys[x] = other
        BY <2>1
      <3>2. x # s
        BY <1>1, <1>6, <3>1
      <3>3. p.keys[x] = other /\ p.values[x] = m.values[x]
        BY <1>2, <3>1, <3>2
      <3>4. Get(m, other) = <<m.values[x], TRUE>>
        BY <1>6, <3>1, GetByContent
      <3>5. Get(p, other) = <<p.values[x], TRUE>>
        BY <1>3, <1>6, <3>3, GetByContent
      <3> QED
        BY <1>6, <3>3, <3>4, <3>5 DEF p
    <2>2. CASE \A x \in 0 .. (n - 1) : m.keys[x] # other
      <3>1. \A x \in 0 .. (n - 1) : p.keys[x] # other
        BY <1>2, <1>6, <2>2
      <3>2. Get(m, other) = <<0, FALSE>>
        <4>1. other \in Nat \ {0}
          BY <1>6
        <4> QED
          BY <2>2, <4>1, GetByContent
      <3>3. Get(p, other) = <<0, FALSE>>
        BY <1>3, <1>6, <3>1, GetByContent
      <3> QED
        BY <1>6, <3>2, <3>3 DEF p
    <2> QED
      BY <2>1, <2>2
  <1> QED
    BY <1>5, <1>6

-----------------------------------------------------------------------------
(* Growing.                                                                 *)

(* The recursive definition of the refilled tables has a solution.          *)
LEMMA RefilledSteps ==
    ASSUME NEW m, Size(m) \in Nat
    PROVE  /\ Refilled(m)[0] = Blank(m)
           /\ \A s \in 0 .. (Size(m) - 1) :
                Refilled(m)[s + 1] =
                   IF m.keys[s] = 0 THEN Refilled(m)[s]
                   ELSE Put(Refilled(m)[s], m.keys[s], m.values[s])
  <1> DEFINE Step(s, t) == IF m.keys[s - 1] = 0 THEN t
                           ELSE Put(t, m.keys[s - 1], m.values[s - 1])
             Solves(f, k) == f = [s \in 0 .. k |-> IF s = 0 THEN Blank(m)
                                                  ELSE Step(s, f[s - 1])]
             S == {k \in Nat : \E f : Solves(f, k)}
  <1> HIDE DEF Step
  <1>1. 0 \in S
    <2>1. Solves([s \in 0 .. 0 |-> Blank(m)], 0)
      OBVIOUS
    <2> QED
      BY <2>1
  <1>2. ASSUME NEW k \in Nat, k \in S PROVE k + 1 \in S
    <2>1. PICK f : Solves(f, k)
      BY <1>2
    <2> DEFINE g == [s \in 0 .. (k + 1) |-> IF s <= k THEN f[s] ELSE Step(s, f[k])]
    <2>2. Solves(g, k + 1)
      <3> SUFFICES ASSUME NEW s \in 0 .. (k + 1)
                   PROVE  g[s] = IF s = 0 THEN Blank(m) ELSE Step(s, g[s - 1])
        OBVIOUS
      <3>1. CASE s <= k
        BY <2>1, <3>1
      <3>2. CASE s = k + 1
        BY <3>2
      <3> QED
        BY <3>1, <3>2
    <2> HIDE DEF g, Solves
    <2>3. k + 1 \in Nat /\ \E f2 : Solves(f2, k + 1)
      BY <2>2
    <2> QED
      BY <2>3
  <1>3. Size(m) \in S
    <2> HIDE DEF S
    <2> QED
      BY <1>1, <1>2, SetInduction
  <1>4. Solves(Refilled(m), Size(m))
    BY <1>3 DEF Refilled, Step
  <1>5. Refilled(m)[0] = Blank(m)
    BY <1>4
  <1>6. ASSUME NEW s \in 0 .. (Size(m) - 1)
        PROVE  Refilled(m)[s + 1] = Step(s + 1, Refilled(m)[s])
    <2>1. s + 1 \in 0 .. Size(m) /\ s + 1 # 0 /\ (s + 1) - 1 = s
      OBVIOUS
    <2> QED
      BY <1>4, <2>1
  <1>7. \A s \in 0 .. (Size(m) - 1) : (s + 1) - 1 = s
    OBVIOUS
  <1> QED
    BY <1>5, <1>6, <1>7 DEF Step

(* The table t, refilled from m up to slot k: it holds the keys of the slots*)
(* before k with their values, and takes no more slots than they did.      *)
TakenBefore(m, k) == {s \in 0 .. (k - 1) : m.keys[s] # 0}

RefilledUpTo(m, n, k, t) ==
    /\ t \in Table(2 * n)
    /\ InPlace(t)
    /\ Counted(t)
    /\ Cardinality(Occupied(t)) <= Cardinality(TakenBefore(m, k))
    /\ t.zeroUsed = m.zeroUsed
    /\ t.zeroValue = m.zeroValue
    /\ \A s \in 0 .. (k - 1) :
         m.keys[s] # 0 => Get(t, m.keys[s]) = <<m.values[s], TRUE>>
    /\ \A key \in Nat \ {0} :
         (\A s \in 0 .. (k - 1) : m.keys[s] # key) => Get(t, key) = <<0, FALSE>>

LEMMA TakenFinite ==
    ASSUME NEW n \in Nat, NEW k \in 0 .. n, NEW m
    PROVE  /\ IsFiniteSet(TakenBefore(m, k))
           /\ Cardinality(TakenBefore(m, k)) \in Nat
           /\ Cardinality(TakenBefore(m, k)) <= k
  <1>1. 0 \in Int /\ k \in Nat /\ k - 1 \in Int
    OBVIOUS
  <1>2. IsFiniteSet(0 .. (k - 1))
    BY <1>1, FS_Interval
  <1>3. Cardinality(0 .. (k - 1)) = k
    BY <1>1, FS_Interval
  <1>4. TakenBefore(m, k) \subseteq 0 .. (k - 1)
    BY DEF TakenBefore
  <1> QED
    BY <1>1, <1>2, <1>3, <1>4, FS_Subset, FS_CardinalityType

(* The blank table of twice the size.                                       *)
LEMMA BlankRefilled ==
    ASSUME NEW n \in Nat, n >= 2, NEW m \in Table(n)
    PROVE  RefilledUpTo(m, n, 0, Blank(m))
  <1> DEFINE t == Blank(m)
  <1>1. Size(m) = n /\ 2 * n \in Nat /\ 2 * n > 0
    BY TableSize
  <1>2. t = [keys |-> [s \in 0 .. (2 * n - 1) |-> 0], values |-> [s \in 0 .. (2 * n - 1) |-> 0],
             count |-> IF m.zeroUsed THEN 1 ELSE 0,
             zeroUsed |-> m.zeroUsed, zeroValue |-> m.zeroValue]
    <2>1. m = [keys |-> m.keys, values |-> m.values, count |-> m.count,
               zeroUsed |-> m.zeroUsed, zeroValue |-> m.zeroValue]
      BY Zenon DEF Table
    <2>2. t = [m EXCEPT !.keys = [s \in 0 .. (2 * n - 1) |-> 0],
                        !.values = [s \in 0 .. (2 * n - 1) |-> 0],
                        !.count = IF m.zeroUsed THEN 1 ELSE 0]
      BY <1>1 DEF Blank
    <2> HIDE DEF t
    <2> QED
      BY <2>1, <2>2
  <1>3. m.zeroUsed \in BOOLEAN /\ m.zeroValue \in Nat
    BY DEF Table
  <1> HIDE DEF t
  <1>4. t \in Table(2 * n)
    BY <1>2, <1>3 DEF Table
  <1>5. Occupied(t) = {} /\ InPlace(t)
    BY <1>2 DEF Occupied, InPlace
  <1>6. Cardinality(Occupied(t)) = 0
    BY <1>5, FS_EmptySet
  <1>7. Counted(t)
    BY <1>2, <1>6 DEF Counted
  <1>8. t.zeroUsed = m.zeroUsed /\ t.zeroValue = m.zeroValue
    BY <1>2
  <1>9. HasRoom(t) /\ \A x \in 0 .. (2 * n - 1) : t.keys[x] = 0
    BY <1>1, <1>2 DEF HasRoom
  <1>10. ASSUME NEW key \in Nat \ {0} PROVE Get(t, key) = <<0, FALSE>>
    <2>1. \A x \in 0 .. (2 * n - 1) : t.keys[x] # key
      BY <1>9
    <2> QED
      BY <1>1, <1>4, <1>5, <1>9, <2>1, GetByContent
  <1>11. Cardinality(TakenBefore(m, 0)) = 0
    <2>1. TakenBefore(m, 0) = {}
      BY DEF TakenBefore
    <2> QED
      BY <2>1, FS_EmptySet
  <1>12. 0 .. (0 - 1) = {}
    OBVIOUS
  <1>13. Cardinality(Occupied(t)) <= Cardinality(TakenBefore(m, 0))
    BY <1>6, <1>11
  <1>14. RefilledUpTo(m, n, 0, t)
    BY <1>4, <1>5, <1>7, <1>8, <1>10, <1>12, <1>13 DEF RefilledUpTo
  <1> QED
    BY <1>14 DEF t

(* One more slot is taken over.                                             *)
LEMMA RefillStep ==
    ASSUME NEW n \in Nat, n >= 2, NEW m \in Table(n), InPlace(m),
           NEW k \in 0 .. (n - 1), NEW t, RefilledUpTo(m, n, k, t)
    PROVE  RefilledUpTo(m, n, k + 1,
                        IF m.keys[k] = 0 THEN t ELSE Put(t, m.keys[k], m.values[k]))
  <1> DEFINE big == 2 * n
  <1>1. big \in Nat /\ big > 0 /\ DOMAIN m.keys = 0 .. (n - 1)
    BY TableSize
  <1>2. \A s \in 0 .. (n - 1) : m.keys[s] \in Nat /\ m.values[s] \in Nat
    BY DEF Table
  <1>3. 0 .. ((k + 1) - 1) = (0 .. (k - 1)) \cup {k} /\ k \notin 0 .. (k - 1)
    OBVIOUS
  <1>4. CASE m.keys[k] = 0
    <2>1. TakenBefore(m, k + 1) = TakenBefore(m, k)
      BY <1>3, <1>4 DEF TakenBefore
    <2> QED
      BY <1>3, <1>4, <2>1 DEF RefilledUpTo
  <1>5. CASE m.keys[k] # 0
    <2> DEFINE u == Put(t, m.keys[k], m.values[k])
    <2>1. TakenBefore(m, k + 1) = TakenBefore(m, k) \cup {k} /\ k \notin TakenBefore(m, k)
      BY <1>3, <1>5 DEF TakenBefore
    <2>2. /\ IsFiniteSet(TakenBefore(m, k))
          /\ Cardinality(TakenBefore(m, k)) <= k
          /\ Cardinality(TakenBefore(m, k)) \in Nat
      <3>1. k \in 0 .. n
        OBVIOUS
      <3> QED
        BY <3>1, TakenFinite
    <2>3. Cardinality(TakenBefore(m, k + 1)) = Cardinality(TakenBefore(m, k)) + 1
      BY <2>1, <2>2, FS_AddElement
    <2>4. /\ t \in Table(big) /\ InPlace(t) /\ Counted(t)
          /\ Cardinality(Occupied(t)) <= Cardinality(TakenBefore(m, k))
          /\ t.zeroUsed = m.zeroUsed /\ t.zeroValue = m.zeroValue
      BY DEF RefilledUpTo
    <2>n. n < big
      OBVIOUS
    <2> HIDE DEF big
    <2>5. Cardinality(Occupied(t)) \in Nat
      BY <1>1, <2>4, TableSize
    <2>6. Cardinality(Occupied(t)) < big /\ Cardinality(Occupied(t)) + 1 < big
      BY <1>1, <2>2, <2>4, <2>5, <2>n
    <2>7. HasRoom(t)
      BY <1>1, <2>4, <2>6, NotFull
    <2>8. m.keys[k] \in Nat \ {0} /\ m.values[k] \in Nat
      BY <1>2, <1>5
    <2>p. Put(t, m.keys[k], m.values[k]) = u
      OBVIOUS
    <2>9. /\ u \in Table(big) /\ InPlace(u) /\ Counted(u)
          /\ u.zeroUsed = m.zeroUsed /\ u.zeroValue = m.zeroValue
          /\ Cardinality(Occupied(u)) <= Cardinality(Occupied(t)) + 1
      BY <1>1, <2>4, <2>7, <2>8, PutFields, PutInPlace, PutOccupies
    <2>10. Cardinality(Occupied(u)) \in Nat
      BY <1>1, <2>9, TableSize
    <2>11. Cardinality(Occupied(u)) <= Cardinality(TakenBefore(m, k + 1))
      BY <2>2, <2>3, <2>4, <2>5, <2>9, <2>10
    <2>12. HasRoom(u)
      <3>1. Cardinality(Occupied(u)) < big
        BY <1>1, <2>5, <2>6, <2>9, <2>10
      <3> QED
        BY <1>1, <2>9, <3>1, NotFull
    <2>13. Get(u, m.keys[k]) = <<m.values[k], TRUE>>
      BY <1>1, <2>4, <2>6, <2>7, <2>8, PutGet
    <2>g. ASSUME NEW key \in Nat \ {m.keys[k]} PROVE Get(u, key) = Get(t, key)
      BY <1>1, <2>4, <2>6, <2>7, <2>8, PutGetOther
    <2> HIDE DEF u
    <2>14. ASSUME NEW s \in 0 .. ((k + 1) - 1), m.keys[s] # 0
           PROVE  Get(u, m.keys[s]) = <<m.values[s], TRUE>>
      <3>1. m.keys[s] \in Nat /\ s \in 0 .. (n - 1)
        BY <1>2, <1>3
      <3>2. CASE s = k
        BY <2>13, <3>2
      <3>3. CASE s # k
        <4>1. s \in 0 .. (k - 1)
          BY <1>3, <3>3
        <4>2. m.keys[s] # m.keys[k]
          BY <1>1, <1>5, <2>14, <3>1, <3>3 DEF InPlace
        <4>3. Get(t, m.keys[s]) = <<m.values[s], TRUE>>
          BY <2>14, <4>1 DEF RefilledUpTo
        <4> QED
          BY <2>g, <3>1, <4>2, <4>3
      <3> QED
        BY <3>2, <3>3
    <2>15. ASSUME NEW key \in Nat \ {0},
                  \A s \in 0 .. ((k + 1) - 1) : m.keys[s] # key
           PROVE  Get(u, key) = <<0, FALSE>>
      <3>1. Get(t, key) = <<0, FALSE>>
        BY <1>3, <2>15 DEF RefilledUpTo
      <3>2. key # m.keys[k] /\ key \in Nat
        BY <1>3, <2>15
      <3> QED
        BY <2>g, <3>1, <3>2
    <2>16. RefilledUpTo(m, n, k + 1, u)
      BY <2>9, <2>11, <2>14, <2>15 DEF RefilledUpTo, big
    <2> QED
      BY <1>5, <2>16 DEF u
  <1> QED
    BY <1>4, <1>5

LEMMA RefillInductive ==
    ASSUME NEW n \in Nat, n >= 2, NEW m \in Table(n), InPlace(m)
    PROVE  \A k \in 0 .. n : RefilledUpTo(m, n, k, Refilled(m)[k])
  <1> DEFINE S == {k \in Nat : k <= n => RefilledUpTo(m, n, k, Refilled(m)[k])}
  <1>1. Size(m) = n
    BY TableSize
  <1>2. 0 \in S
    BY <1>1, RefilledSteps, BlankRefilled
  <1>3. ASSUME NEW k \in Nat, k \in S PROVE k + 1 \in S
    <2> SUFFICES ASSUME k + 1 <= n
                 PROVE  RefilledUpTo(m, n, k + 1, Refilled(m)[k + 1])
      OBVIOUS
    <2>1. k \in 0 .. (n - 1) /\ RefilledUpTo(m, n, k, Refilled(m)[k])
      BY <1>3
    <2>2. Refilled(m)[k + 1] = IF m.keys[k] = 0 THEN Refilled(m)[k]
                               ELSE Put(Refilled(m)[k], m.keys[k], m.values[k])
      BY <1>1, <2>1, RefilledSteps
    <2> QED
      BY <2>1, <2>2, RefillStep
  <1> HIDE DEF S
  <1>4. \A k \in Nat : k \in S
    BY <1>2, <1>3, SetInduction
  <1> QED
    BY <1>4 DEF S

(* The table that grew answers like the one before it and takes no more     *)
(* slots.                                                                  *)
LEMMA GrowKeeps ==
    ASSUME NEW n \in Nat, n >= 2, NEW m \in Table(n), InPlace(m), HasRoom(m)
    PROVE  /\ Grow(m) \in Table(2 * n)
           /\ InPlace(Grow(m)) /\ Counted(Grow(m))
           /\ Cardinality(Occupied(Grow(m))) <= Cardinality(Occupied(m))
           /\ \A key \in Nat : Get(Grow(m), key) = Get(m, key)
  <1> DEFINE g == Grow(m)
  <1>1. Size(m) = n /\ DOMAIN m.keys = 0 .. (n - 1) /\ n > 0
    BY TableSize
  <1>2. RefilledUpTo(m, n, n, g)
    BY <1>1, RefillInductive DEF Grow
  <1> HIDE DEF g
  <1>3. TakenBefore(m, n) = Occupied(m)
    BY <1>1 DEF TakenBefore, Occupied
  <1>4. /\ g \in Table(2 * n) /\ InPlace(g) /\ Counted(g)
        /\ Cardinality(Occupied(g)) <= Cardinality(Occupied(m))
    BY <1>2, <1>3 DEF RefilledUpTo
  <1>5. Get(g, 0) = Get(m, 0)
    BY <1>2 DEF RefilledUpTo, Get
  <1>6. ASSUME NEW key \in Nat \ {0} PROVE Get(g, key) = Get(m, key)
    <2>1. CASE \E s \in 0 .. (n - 1) : m.keys[s] = key
      <3>1. PICK s \in 0 .. (n - 1) : m.keys[s] = key
        BY <2>1
      <3>2. Get(g, key) = <<m.values[s], TRUE>>
        BY <1>2, <3>1 DEF RefilledUpTo
      <3>3. Get(m, key) = <<m.values[s], TRUE>>
        BY <1>1, <3>1, GetByContent
      <3> QED
        BY <3>2, <3>3
    <2>2. CASE \A s \in 0 .. (n - 1) : m.keys[s] # key
      <3>1. Get(g, key) = <<0, FALSE>>
        BY <1>2, <2>2 DEF RefilledUpTo
      <3>2. Get(m, key) = <<0, FALSE>>
        BY <1>1, <2>2, GetByContent
      <3> QED
        BY <3>1, <3>2
    <2> QED
      BY <2>1, <2>2
  <1> QED
    BY <1>4, <1>5, <1>6 DEF g

(* grow calls set, which could grow again: it never does.                   *)
LEMMA RefillNeverGrows ==
    ASSUME NEW n \in Nat, n >= 2, NEW m \in Table(n), InPlace(m), Light(m),
           NEW k \in 0 .. (n - 1), m.keys[k] # 0
    PROVE  ~MustGrow(Refilled(m)[k])
  <1> DEFINE t == Refilled(m)[k]
  <1>1. k \in 0 .. n /\ k \in Nat
    OBVIOUS
  <1>2. RefilledUpTo(m, n, k, t)
    BY <1>1, RefillInductive
  <1> HIDE DEF t
  <1>3. 2 * n \in Nat /\ t \in Table(2 * n) /\ Counted(t)
        /\ Cardinality(Occupied(t)) <= Cardinality(TakenBefore(m, k))
    BY <1>2 DEF RefilledUpTo
  <1>4. Size(t) = 2 * n /\ Cardinality(Occupied(t)) \in Nat
    BY <1>3, TableSize
  <1>5. Size(m) = n /\ DOMAIN m.keys = 0 .. (n - 1)
        /\ IsFiniteSet(Occupied(m)) /\ Cardinality(Occupied(m)) \in Nat
    BY TableSize
  <1>6. Cardinality(TakenBefore(m, k)) + 1 <= Cardinality(Occupied(m))
        /\ Cardinality(TakenBefore(m, k)) \in Nat
    <2>1. TakenBefore(m, k) \cup {k} \subseteq Occupied(m) /\ k \notin TakenBefore(m, k)
      BY <1>5 DEF TakenBefore, Occupied
    <2>2. IsFiniteSet(TakenBefore(m, k)) /\ Cardinality(TakenBefore(m, k)) \in Nat
      BY <1>1, TakenFinite
    <2>3. Cardinality(TakenBefore(m, k) \cup {k}) = Cardinality(TakenBefore(m, k)) + 1
      BY <2>1, <2>2, FS_AddElement
    <2>4. Cardinality(TakenBefore(m, k) \cup {k}) <= Cardinality(Occupied(m))
      BY <1>5, <2>1, FS_Subset
    <2> QED
      BY <2>2, <2>3, <2>4
  <1>7. t.count <= Cardinality(Occupied(t)) + 1 /\ t.count \in Nat
    <2>1. t.count \in Nat
      BY <1>3 DEF Table
    <2> QED
      BY <1>3, <1>4, <2>1 DEF Counted
  <1>8. 10 * Cardinality(Occupied(m)) < 7 * n
    BY <1>5 DEF Light
  <1>9. (t.count + 1) * 10 < (2 * n) * 7
    BY <1>3, <1>4, <1>5, <1>6, <1>7, <1>8
  <1> QED
    BY <1>4, <1>7, <1>9 DEF MustGrow, t

-----------------------------------------------------------------------------
(* The index as a map.                                                      *)

LEMMA IndexHasRoom ==
    ASSUME NEW m, IndexOK(m)
    PROVE  HasRoom(m)
  <1>1. PICK n \in Nat : n >= 2 /\ m \in Table(n)
    BY DEF IndexOK
  <1>2. Size(m) = n /\ Cardinality(Occupied(m)) \in Nat
    BY <1>1, TableSize
  <1>3. Cardinality(Occupied(m)) < n
    BY <1>2 DEF IndexOK, Light
  <1> QED
    BY <1>1, <1>3, NotFull

(* The empty index, which has no key.                                       *)
LEMMA NewIndexOK ==
    /\ IndexOK(NewIndex)
    /\ \A key \in Nat : Get(NewIndex, key) = <<0, FALSE>>
  <1>1. InitSize \in Nat /\ InitSize >= 2
    BY InitSizeAssumption
  <1>2. NewIndex \in Table(InitSize)
    BY <1>1 DEF NewIndex, Table
  <1>3. Occupied(NewIndex) = {} /\ InPlace(NewIndex)
    BY DEF NewIndex, Occupied, InPlace
  <1>4. Cardinality(Occupied(NewIndex)) = 0
    BY <1>3, FS_EmptySet
  <1>5. Counted(NewIndex)
    BY <1>4 DEF Counted, NewIndex
  <1>6. Light(NewIndex)
    BY <1>1, <1>2, <1>4, TableSize DEF Light
  <1>7. IndexOK(NewIndex)
    BY <1>1, <1>2, <1>3, <1>5, <1>6 DEF IndexOK
  <1>8. ASSUME NEW key \in Nat \ {0} PROVE Get(NewIndex, key) = <<0, FALSE>>
    <2>1. \A s \in 0 .. (InitSize - 1) : NewIndex.keys[s] # key
      BY DEF NewIndex
    <2>2. HasRoom(NewIndex) /\ InitSize > 0
      BY <1>1, <1>7, IndexHasRoom
    <2> QED
      BY <1>1, <1>2, <1>3, <2>1, <2>2, GetByContent
  <1>9. Get(NewIndex, 0) = <<0, FALSE>>
    BY DEF Get, NewIndex
  <1> QED
    BY <1>7, <1>8, <1>9

(* The table that set puts its key into: it has grown if it had to, answers *)
(* as before and has two empty slots.                                      *)
LEMMA SetTarget ==
    ASSUME NEW m, IndexOK(m)
    PROVE  LET g == IF MustGrow(m) THEN Grow(m) ELSE m
           IN  /\ \E n \in Nat : /\ n >= 2
                                  /\ g \in Table(n)
                                  /\ Cardinality(Occupied(g)) + 1 < n
                                  /\ 10 * (Cardinality(Occupied(g)) + 1) < 7 * n
               /\ InPlace(g) /\ Counted(g) /\ HasRoom(g)
               /\ \A key \in Nat : Get(g, key) = Get(m, key)
  <1> DEFINE g == IF MustGrow(m) THEN Grow(m) ELSE m
             load == Cardinality(Occupied(m))
  <1>1. PICK n \in Nat : n >= 2 /\ m \in Table(n)
    BY DEF IndexOK
  <1>2. Size(m) = n /\ load \in Nat /\ 10 * load < 7 * n
    BY <1>1, TableSize DEF IndexOK, Light
  <1>3. m.count \in Nat /\ load <= m.count
    <2>1. m.count \in Nat
      BY <1>1 DEF Table
    <2> QED
      BY <1>2, <2>1 DEF IndexOK, Counted
  <1>4. InPlace(m) /\ Counted(m) /\ HasRoom(m)
    BY IndexHasRoom DEF IndexOK
  <1>5. CASE MustGrow(m)
    <2> DEFINE big == 2 * n
    <2>1. big \in Nat /\ big >= 2
      BY <1>1
    <2>2. /\ g \in Table(big) /\ InPlace(g) /\ Counted(g)
          /\ Cardinality(Occupied(g)) <= load
          /\ \A key \in Nat : Get(g, key) = Get(m, key)
      BY <1>1, <1>4, <1>5, GrowKeeps
    <2> HIDE DEF g
    <2>3. Cardinality(Occupied(g)) \in Nat
      BY <2>1, <2>2, TableSize
    <2>4. 10 * (Cardinality(Occupied(g)) + 1) < 7 * big /\ Cardinality(Occupied(g)) + 1 < big
      BY <1>1, <1>2, <2>2, <2>3
    <2> HIDE DEF big
    <2>5. HasRoom(g)
      <3>1. Cardinality(Occupied(g)) < big
        BY <2>1, <2>3, <2>4
      <3> QED
        BY <2>1, <2>2, <3>1, NotFull
    <2> QED
      BY <2>1, <2>2, <2>4, <2>5 DEF g
  <1>6. CASE ~MustGrow(m)
    <2>1. g = m
      BY <1>6
    <2>2. 10 * (load + 1) < 7 * n
      BY <1>2, <1>3, <1>6 DEF MustGrow
    <2>3. load + 1 < n
      BY <1>1, <1>2, <2>2
    <2> HIDE DEF g
    <2> QED
      BY <1>1, <1>4, <2>1, <2>2, <2>3 DEF g
  <1> QED
    BY <1>5, <1>6

(* Set with a key other than zero.                                          *)
LEMMA SetNonzero ==
    ASSUME NEW m, IndexOK(m), NEW key \in Nat \ {0}, NEW value \in Nat
    PROVE  /\ IndexOK(SetIndex(m, key, value))
           /\ Get(SetIndex(m, key, value), key) = <<value, TRUE>>
  <1> DEFINE g == IF MustGrow(m) THEN Grow(m) ELSE m
             p == Put(g, key, value)
  <1>1. PICK n \in Nat : /\ n >= 2
                         /\ g \in Table(n)
                         /\ Cardinality(Occupied(g)) + 1 < n
                         /\ 10 * (Cardinality(Occupied(g)) + 1) < 7 * n
    BY SetTarget
  <1>2. InPlace(g) /\ Counted(g) /\ HasRoom(g)
    BY SetTarget
  <1>3. SetIndex(m, key, value) = p
    BY DEF SetIndex
  <1> HIDE DEF g
  <1>4. p \in Table(n) /\ InPlace(p) /\ Counted(p)
        /\ Cardinality(Occupied(p)) <= Cardinality(Occupied(g)) + 1
    BY <1>1, <1>2, PutFields, PutInPlace, PutOccupies
  <1>5. Get(p, key) = <<value, TRUE>>
    <2>1. n > 0 /\ g \in Table(n) /\ Cardinality(Occupied(g)) + 1 < n
      BY <1>1
    <2> QED
      BY ONLY n \in Nat, <2>1, <1>2, key \in Nat \ {0}, value \in Nat, PutGet
  <1> HIDE DEF p
  <1>6. Size(p) = n /\ Cardinality(Occupied(p)) \in Nat /\ Cardinality(Occupied(g)) \in Nat
    BY <1>1, <1>4, TableSize
  <1>7. Light(p)
    BY <1>1, <1>4, <1>6 DEF Light
  <1> QED
    BY <1>1, <1>3, <1>4, <1>5, <1>7 DEF IndexOK

LEMMA SetNonzeroOther ==
    ASSUME NEW m, IndexOK(m), NEW key \in Nat \ {0}, NEW value \in Nat
    PROVE  \A other \in Nat \ {key} : Get(SetIndex(m, key, value), other) = Get(m, other)
  <1> DEFINE g == IF MustGrow(m) THEN Grow(m) ELSE m
  <1>1. PICK n \in Nat : /\ n >= 2
                         /\ g \in Table(n)
                         /\ Cardinality(Occupied(g)) + 1 < n
    BY SetTarget
  <1>2. InPlace(g) /\ Counted(g) /\ HasRoom(g)
    BY SetTarget
  <1>3. \A other \in Nat : Get(g, other) = Get(m, other)
    BY SetTarget
  <1>4. SetIndex(m, key, value) = Put(g, key, value)
    BY DEF SetIndex
  <1> HIDE DEF g
  <1>5. \A other \in Nat \ {key} : Get(Put(g, key, value), other) = Get(g, other)
    BY <1>1, <1>2, PutGetOther
  <1> QED
    BY <1>3, <1>4, <1>5

(* Set with the key zero, which is kept beside the table and never makes it *)
(* grow.                                                                   *)
LEMMA SetZero ==
    ASSUME NEW m, IndexOK(m), NEW value \in Nat
    PROVE  /\ IndexOK(SetIndex(m, 0, value))
           /\ Get(SetIndex(m, 0, value), 0) = <<value, TRUE>>
  <1> DEFINE p == SetIndex(m, 0, value)
  <1>1. PICK n \in Nat : n >= 2 /\ m \in Table(n)
    BY DEF IndexOK
  <1>2. m = [keys |-> m.keys, values |-> m.values, count |-> m.count,
             zeroUsed |-> m.zeroUsed, zeroValue |-> m.zeroValue]
    BY <1>1, Zenon DEF Table
  <1>3. p = [keys |-> m.keys, values |-> m.values,
             count |-> IF m.zeroUsed THEN m.count ELSE m.count + 1,
             zeroUsed |-> TRUE, zeroValue |-> value]
    BY <1>2 DEF SetIndex
  <1> HIDE DEF p
  <1>4. p.keys = m.keys /\ p.zeroUsed = TRUE /\ p.zeroValue = value
        /\ p.count = IF m.zeroUsed THEN m.count ELSE m.count + 1
    BY <1>3
  <1>5. p \in Table(n)
    <2>1. /\ m.keys \in [0 .. (n - 1) -> Nat] /\ m.values \in [0 .. (n - 1) -> Nat]
          /\ m.count \in Nat
      BY <1>1 DEF Table
    <2>2. (IF m.zeroUsed THEN m.count ELSE m.count + 1) \in Nat
      BY <2>1
    <2> QED
      BY <1>3, <2>1, <2>2 DEF Table
  <1>6. Occupied(p) = Occupied(m) /\ Size(p) = Size(m)
    BY <1>4 DEF Occupied, Size
  <1>7. InPlace(p)
    BY <1>4, <1>6 DEF InPlace, Slot, Stops, IndexOK
  <1>8. Counted(p)
    <2>1. m.count = Cardinality(Occupied(m)) + (IF m.zeroUsed THEN 1 ELSE 0)
      BY DEF IndexOK, Counted
    <2>2. Cardinality(Occupied(m)) \in Nat
      BY <1>1, TableSize
    <2>3. p.count = Cardinality(Occupied(m)) + 1
      BY <1>4, <2>1, <2>2
    <2> QED
      BY <1>4, <1>6, <2>3 DEF Counted
  <1>9. Light(p)
    BY <1>6 DEF IndexOK, Light
  <1>10. Get(p, 0) = <<value, TRUE>>
    BY <1>4 DEF Get
  <1> QED
    BY <1>1, <1>5, <1>7, <1>8, <1>9, <1>10 DEF IndexOK, p

LEMMA SetZeroOther ==
    ASSUME NEW m, IndexOK(m), NEW value \in Nat
    PROVE  \A other \in Nat \ {0} : Get(SetIndex(m, 0, value), other) = Get(m, other)
  <1> DEFINE p == SetIndex(m, 0, value)
  <1>1. PICK n \in Nat : n >= 2 /\ m \in Table(n)
    BY DEF IndexOK
  <1>2. m = [keys |-> m.keys, values |-> m.values, count |-> m.count,
             zeroUsed |-> m.zeroUsed, zeroValue |-> m.zeroValue]
    BY <1>1, Zenon DEF Table
  <1>3. p.keys = m.keys /\ p.values = m.values
    BY <1>2 DEF SetIndex
  <1> HIDE DEF p
  <1>4. \A other : Slot(p, other) = Slot(m, other)
    BY <1>3 DEF Slot, Stops, Size
  <1>5. ASSUME NEW other \in Nat \ {0} PROVE Get(p, other) = Get(m, other)
    <2>1. other # 0 /\ Slot(p, other) = Slot(m, other)
      BY <1>4
    <2> QED
      BY <1>3, <2>1, Zenon DEF Get
  <1> QED
    BY <1>5 DEF p

(* The index stays an index, whatever is set in it: in particular every     *)
(* later probe ends (remote_fast.go:63-88).                                *)
THEOREM SetKeepsIndex ==
    ASSUME NEW m, IndexOK(m), NEW key \in Nat, NEW value \in Nat
    PROVE  IndexOK(SetIndex(m, key, value)) /\ HasRoom(SetIndex(m, key, value))
  <1>1. IndexOK(SetIndex(m, key, value))
    <2>1. CASE key = 0
      BY <2>1, SetZero
    <2>2. CASE key # 0
      <3>1. key \in Nat \ {0}
        BY <2>2
      <3> QED
        BY <3>1, SetNonzero
    <2> QED
      BY <2>1, <2>2
  <1> QED
    BY <1>1, IndexHasRoom

(* get finds what set stored last (remote_fast.go:46-88).                   *)
THEOREM GetAfterSet ==
    ASSUME NEW m, IndexOK(m), NEW key \in Nat, NEW value \in Nat
    PROVE  Get(SetIndex(m, key, value), key) = <<value, TRUE>>
  <1>1. CASE key = 0
    BY <1>1, SetZero
  <1>2. CASE key # 0
    <2>1. key \in Nat \ {0}
      BY <1>2
    <2> QED
      BY <2>1, SetNonzero
  <1> QED
    BY <1>1, <1>2

(* set changes no other key's answer, through collisions, wrap-around and   *)
(* growth (remote_fast.go:46-114).                                         *)
THEOREM GetOfOthers ==
    ASSUME NEW m, IndexOK(m), NEW key \in Nat, NEW value \in Nat
    PROVE  \A other \in Nat \ {key} : Get(SetIndex(m, key, value), other) = Get(m, other)
  <1>1. CASE key = 0
    BY <1>1, SetZeroOther
  <1>2. CASE key # 0
    <2>1. key \in Nat \ {0}
      BY <1>2
    <2> QED
      BY <2>1, SetNonzeroOther
  <1> QED
    BY <1>1, <1>2
=============================================================================
