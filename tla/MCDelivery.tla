----------------------------- MODULE MCDelivery -----------------------------
(* Model values for Delivery: two messages in one conversation and one in  *)
(* another.  Deliveries and worker tasks are interchangeable.              *)
EXTENDS Delivery, TLC
CONSTANTS c1, c2, m1, m2, m3, k1, k2, k3, k4, s1, s2
MCHome == [m \in MsgId |-> IF m = m3 THEN c2 ELSE c1]
Symmetry == Permutations({k1, k2, k3, k4}) \cup Permutations({s1, s2})
=============================================================================
