-------------------------- MODULE MCInteractions --------------------------
(* Model values for Interactions.  Users, messages and callbacks are       *)
(* interchangeable; interactions are not, NewestPending orders them.       *)
EXTENDS Interactions, TLC
CONSTANTS u1, u2, m1, m2, m3, k1, k2
Symmetry == Permutations({u1, u2}) \cup Permutations({k1, k2}) \cup Permutations({m1, m2, m3})
=============================================================================
