----------------------------- MODULE MCMirroring -----------------------------
(* Two files and two targets, for TLC. *)
EXTENDS Mirroring, TLC

CONSTANTS a, b

Symmetry == Permutations({a, b})
=============================================================================
