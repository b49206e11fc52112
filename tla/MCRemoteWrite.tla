---------------------------- MODULE MCRemoteWrite ----------------------------
(* Instances of RemoteWrite for TLC.                                        *)
EXTENDS RemoteWrite, TLC

CONSTANTS p1, p2, w1, w2, s1, t1, t2, i1, i2

B(t, smp, hst, exm, md) ==
    [team |-> t, samples |-> smp, histograms |-> hst, exemplars |-> exm,
     metadata |-> md, valid |-> TRUE]

(* Overlapping batches of two tenants that share a series id.               *)
MixedBatches ==
    { B(t1, {i1, i2}, {}, {}, TRUE),
      B(t1, {i1}, {i2}, {}, FALSE),
      B(t2, {i1}, {}, {i1}, FALSE) }

(* Batches whose only rows are of one kind, the empty batch and a body that *)
(* does not decode.                                                        *)
EdgeBatches ==
    { B(t1, {}, {}, {}, FALSE),
      B(t1, {}, {}, {}, TRUE),
      B(t1, {}, {i1}, {i1}, FALSE),
      [B(t1, {}, {}, {}, FALSE) EXCEPT !.valid = FALSE] }

(* Two batches that need each other's series: they meet at seriesMu.        *)
ContendedBatches ==
    { B(t1, {i1, i2}, {}, {}, FALSE),
      B(t1, {i1}, {}, {}, TRUE) }

AllBatches == MixedBatches \cup EdgeBatches

=============================================================================
