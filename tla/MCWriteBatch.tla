----------------------------- MODULE MCWriteBatch -----------------------------
(* Time series whose ids collide in a small table (3 and 7), wrap around in *)
(* it, or are zero.                                                        *)
EXTENDS WriteBatch

S(t, v) == [t |-> t, v |-> v]
TS(id, lbl, smp) == [id |-> id, labels |-> lbl, samples |-> smp,
                     hists |-> <<>>, exems |-> <<>>]

Plain == {TS(id, "sorted", <<S(12, "x")>>) : id \in {0, 3, 7}}

Shapes ==
    { TS(3, "sorted", <<S(4, "z"), S(9, "nan"), S(-3, "x"), S(-4, "y")>>),
      TS(7, "sorted", <<S(11, "stale"), S(13, "y")>>),
      TS(7, "unsorted", <<S(3, "x")>>),
      TS(3, "sorted", <<S(9, "nan")>>),
      TS(3, "dup", <<S(1, "x")>>),
      TS(3, "noname", <<S(1, "x")>>),
      TS(3, "sorted", <<>>),
      TS(3, "unsorted", <<>>),
      TS(0, "none", <<>>),
      TS(0, "dup", <<>>),
      [TS(3, "sorted", <<S(21, "x")>>) EXCEPT !.hists = <<27, -7>>],
      [TS(0, "sorted", <<>>) EXCEPT !.exems = <<S(33, "x"), S(5, "stale")>>],
      [TS(7, "sorted", <<>>) EXCEPT !.exems = <<S(33, "nan")>>],
      [TS(7, "noname", <<>>) EXCEPT !.exems = <<S(33, "nan")>>],
      [TS(7, "sorted", <<>>) EXCEPT !.exems = <<S(33, "malformed")>>] }

AllTimeSeries == Plain \cup Shapes
=============================================================================
