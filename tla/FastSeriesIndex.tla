--------------------------- MODULE FastSeriesIndex ---------------------------
(***************************************************************************)
(* remoteWriteFastSeriesIndex (remote_fast.go): the open-addressing hash   *)
(* table from series id to position in the batch's series records. Slot 0  *)
(* of the key space is taken by "empty", so the id 0 is kept beside the    *)
(* table. A probe stops at an empty slot, so there must always be one.     *)
(***************************************************************************)
EXTENDS Integers, FiniteSets, FiniteSetsExt, SequencesExt

CONSTANT InitSize    \* the smallest table; 16 in the code

ASSUME InitSizeAssumption == InitSize \in {2, 4, 8, 16}

(* newRemoteWriteFastSeriesIndex for a small request.                       *)
NewIndex == [keys |-> [s \in 0..InitSize-1 |-> 0],
             values |-> [s \in 0..InitSize-1 |-> 0],
             count |-> 0, zeroUsed |-> FALSE, zeroValue |-> 0]

Size(m) == Cardinality(DOMAIN m.keys)

(* The slots at which the probe for a key stops: the key's own or an empty  *)
(* one. It takes the first of them, counted from the key's home slot.      *)
Stops(m, key) == {d \in 0..Size(m)-1 : m.keys[(key + d) % Size(m)] \in {0, key}}
Slot(m, key) == (key + Min(Stops(m, key))) % Size(m)

(* get: <<value, ok>>                                                       *)
Get(m, key) ==
    IF key = 0 THEN <<m.zeroValue, m.zeroUsed>>
    ELSE IF m.keys[Slot(m, key)] = key THEN <<m.values[Slot(m, key)], TRUE>>
    ELSE <<0, FALSE>>

(* The second half of set: the probe and the write.                         *)
Put(m, key, value) ==
    LET s == Slot(m, key)
    IN  [m EXCEPT !.keys[s] = key, !.values[s] = value,
                  !.count = IF m.keys[s] = key THEN @ ELSE @ + 1]

(* MUTANT of Grow: the entries stay where the smaller table had them.       *)
GrowInPlace(m) ==
    LET n == Size(m)
    IN  [m EXCEPT
           !.keys = [s \in 0..2*n-1 |-> IF s < n THEN m.keys[s] ELSE 0],
           !.values = [s \in 0..2*n-1 |-> IF s < n THEN m.values[s] ELSE 0]]

(* grow: a table of twice the size, refilled in slot order. The code refills*)
(* with set; a table just doubled is never full enough to grow in that.    *)
Blank(m) == [m EXCEPT !.keys = [s \in 0..2*Size(m)-1 |-> 0],
                      !.values = [s \in 0..2*Size(m)-1 |-> 0],
                      !.count = IF m.zeroUsed THEN 1 ELSE 0]
Refilled(m) ==
    LET after[s \in 0..Size(m)] ==
            IF s = 0 THEN Blank(m)
            ELSE IF m.keys[s - 1] = 0 THEN after[s - 1]
            ELSE Put(after[s - 1], m.keys[s - 1], m.values[s - 1])
    IN  after
Grow(m) == Refilled(m)[Size(m)]

MustGrow(m) == (m.count + 1) * 10 >= Size(m) * 7

(* set                                                                      *)
SetIndex(m, key, value) ==
    IF key = 0
    THEN [m EXCEPT !.count = IF m.zeroUsed THEN @ ELSE @ + 1,
                   !.zeroUsed = TRUE, !.zeroValue = value]
    ELSE Put(IF MustGrow(m) THEN Grow(m) ELSE m, key, value)

(* A table on which every probe ends.                                       *)
HasRoom(m) == \E s \in DOMAIN m.keys : m.keys[s] = 0
=============================================================================
