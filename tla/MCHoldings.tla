----------------------------- MODULE MCHoldings -----------------------------
(* Four volumes, three of them with a copy, for TLC. *)
EXTENDS Holdings, TLC

CONSTANTS d1, d2, d3, d4, r1, r2

Symmetry == Permutations({d1, d2}) \cup Permutations({r1, r2})
HeldCopies == {d1, d2, d3} \X {1}
=============================================================================
