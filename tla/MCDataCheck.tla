----------------------------- MODULE MCDataCheck -----------------------------
(* Two volumes, three places for files and two sub-threads, for TLC. *)
EXTENDS DataCheck, TLC

CONSTANTS d1, d2, f1, f2, f3

Places == (f1 :> d1) @@ (f2 :> d1) @@ (f3 :> d2)
=============================================================================
