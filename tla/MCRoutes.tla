------------------------------- MODULE MCRoutes -------------------------------
(***************************************************************************)
(* A TLC instance of Routes; see the cfg.                                  *)
(***************************************************************************)
EXTENDS Routes, TLC

CONSTANTS u1, u2, d1, d2, p1, p2

Symmetry == Permutations({u1, u2}) \cup Permutations({d1, d2}) \cup Permutations({p1, p2})
=============================================================================
