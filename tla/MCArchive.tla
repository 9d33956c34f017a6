----------------------------- MODULE MCArchive -----------------------------
(* Instances of Archive for TLC. *)
EXTENDS Archive, TLC

RequestSymmetry == Permutations(Requests)
Symmetry == RequestSymmetry \cup Permutations(Sets)
AllFaults == FaultKinds
HiddenRows == {"hidden"}
=============================================================================
