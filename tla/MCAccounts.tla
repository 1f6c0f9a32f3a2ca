------------------------------ MODULE MCAccounts ------------------------------
(***************************************************************************)
(* Accounts on small instances: an address in two writings and two more.   *)
(***************************************************************************)
EXTENDS Accounts, TLC

CONSTANTS bob, Bob, eve, kim

MCLower == [n \in Names |-> IF n = Bob THEN bob ELSE n]

Symmetry == Permutations(Ids) \cup Permutations(Calls) \cup Permutations(Words)
=============================================================================
