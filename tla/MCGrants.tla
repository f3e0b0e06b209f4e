------------------------------ MODULE MCGrants ------------------------------
(* Model values for Grants: one user whose session worker and card         *)
(* callback run tools, and another one who may open her link.              *)
EXTENDS Grants, TLC
CONSTANTS ann, bob, worker, click, r1, r2, n1, n2, read, write
MCOf == [s \in Strand |-> ann]
Symmetry == Permutations({n1, n2})
=============================================================================
