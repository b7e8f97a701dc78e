----------------------------- MODULE MCOrderRefund -----------------------------
(* An instance of OrderRefund: two lines whose discount makes the total of the  *)
(* order less than the sum of its lines.                                        *)
EXTENDS OrderRefund, TLC

CONSTANTS l1, l2

MCSubtotal == [l \in Lines |-> 2]
MCSymmetry == Permutations(Clerks)
=============================================================================
