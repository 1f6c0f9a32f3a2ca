---------------------------- MODULE MCEnrollment ----------------------------
(***************************************************************************)
(* Enrollment on small instances.  d1 has a row in `devices`, d2 does not. *)
(* Requests and nonces are interchangeable, the devices are not.           *)
(***************************************************************************)
EXTENDS Enrollment, TLC

CONSTANTS d1, d2

MCDevices == {d1, d2}
MCRegistered == {d1}

Symmetry == Permutations(Requests) \cup Permutations(Nonces)
=============================================================================
