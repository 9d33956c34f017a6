--------------------------- MODULE MCNgamsServer ---------------------------
(* Instances of NgamsServer for TLC. *)
EXTENDS NgamsServer, TLC

Symmetry == Permutations(Requests)
AllFailures == FailureKinds
=============================================================================
