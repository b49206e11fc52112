-------------------------- MODULE MCHistogramRange --------------------------
(* Instances of HistogramRange for TLC. Times are whole seconds.            *)
EXTENDS HistogramRange

Sec(s) == s * 1000

(* A row with one bound (two buckets) or with two bounds.                   *)
R1(id, s, a, b) == [id |-> id, t |-> Sec(s), bounds |-> <<5>>, counts |-> <<a, b>>,
                    count |-> a + b, temporality |-> "cumulative"]
R2(id, s, a, b, c) == [R1(id, s, a, b) EXCEPT !.bounds = <<5, 9>>, !.counts = <<a, b, c>>,
                                              !.count = a + b + c]
Delta(r) == [r EXCEPT !.temporality = "delta"]

(* The times of a source: regular, irregular, with a gap longer than the    *)
(* lookback, with a repeated timestamp.                                     *)
Timings == { <<0, 10, 20, 30, 40, 50, 60>>, <<2, 5, 31, 33, 58>>, <<5, 6, 7, 8, 9, 10, 30, 50>>,
             <<4, 16, 28, 39, 52>>, <<19, 55>>, <<11, 31, 31, 51>>, <<30>>, <<>> }

(* The counts of a source's rows: growing, with a reset, with a small drop. *)
Growing(i) == 3 * i
Reset(i) == IF i < 3 THEN 8 + i ELSE i
Drop(i) == IF i = 3 THEN 16 ELSE 16 + i

SourceA(times, Counts(_)) == [i \in DOMAIN times |-> R1(1, times[i], Counts(times[i] \div 10), 1)]
Cumulatives == {SourceA(ts, Growing) : ts \in Timings} \cup {SourceA(ts, Reset) : ts \in Timings}
                 \cup {SourceA(ts, Drop) : ts \in Timings}

(* A second source with the same bounds, other bounds, bounds that change,  *)
(* bounds that fall or are not finite, counts that do not add up, a missing *)
(* count and a temporality of its own.                                      *)
SourceB ==
    { <<>>,
      <<R1(2, 12, 1, 1), R1(2, 32, 2, 3), R1(2, 52, 5, 4)>>,
      <<R2(2, 7, 1, 1, 0), R2(2, 27, 2, 1, 1), R2(2, 47, 4, 2, 1)>>,
      <<R2(2, 12, 1, 1, 0), R1(2, 32, 2, 3), R1(2, 52, 5, 4)>>,
      <<[R2(2, 12, 1, 1, 0) EXCEPT !.bounds = <<9, 5>>]>>,
      <<[R2(2, 12, 1, 1, 2) EXCEPT !.bounds = <<5, 99>>]>>,
      <<[R1(2, 12, 1, 1) EXCEPT !.count = 3]>>,
      <<[R1(2, 12, 1, 1) EXCEPT !.counts = <<2>>]>>,
      <<R1(2, 31, 1, 1), [R1(2, 31, 2, 1) EXCEPT !.count = 3], R1(2, 51, 4, 4)>>,
      <<Delta(R1(2, 12, 1, 1)), Delta(R1(2, 32, 2, 3)), Delta(R1(2, 32, 1, 0)), Delta(R1(2, 57, 5, 4))>> }

(* Source 3 has the labels of source 2.                                     *)
SourceC ==
    { <<>>,
      <<R1(3, 22, 4, 0), R1(3, 42, 2, 3)>>,
      <<Delta(R1(3, 22, 4, 0)), Delta(R1(3, 47, 2, 3))>> }

MCLabelsOf == [id \in 1..3 |-> IF id = 1 THEN 1 ELSE 2]

MCStores ==
    {a \o b : a \in Cumulatives, b \in SourceB} \cup
    {b \o c : b \in SourceB, c \in SourceC}

Plan(name, window, step, lookback, start, steps) ==
    [name |-> name, window |-> Sec(window), step |-> Sec(step), lookback |-> Sec(lookback),
     offset |-> 0, instant |-> FALSE, start |-> Sec(start), steps |-> steps, compact |-> TRUE]

(* Windows shorter and longer than the step and the lookback.               *)
MCPlans == { Plan("rate", 20, 10, 25, 30, 4), Plan("irate", 25, 15, 20, 20, 3),
             Plan("increase", 10, 20, 15, 11, 3), Plan("delta", 15, 15, 30, 31, 2),
             Plan("idelta", 1, 10, 25, 30, 3) }

(* An implicit window, as rate without one is rewritten.                    *)
ImplicitPlans == { Plan("rate", 0, 10, 25, 40, 2) }

=============================================================================
