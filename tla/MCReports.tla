------------------------------- MODULE MCReports -------------------------------
(***************************************************************************)
(* Reports on small instances.                                             *)
(***************************************************************************)
EXTENDS Reports, TLC

Symmetry ==
    Permutations(Owners) \cup Permutations(FileNames) \cup Permutations(Ids) \cup
    Permutations(Calls)
=============================================================================
