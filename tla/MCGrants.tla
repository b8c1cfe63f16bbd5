------------------------------ MODULE MCGrants ------------------------------
(* Grants on small instances.                                              *)
EXTENDS Grants, TLC

Symmetry == Permutations(Requests)
=============================================================================
