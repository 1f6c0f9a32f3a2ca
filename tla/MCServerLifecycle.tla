------------------------- MODULE MCServerLifecycle -------------------------
(***************************************************************************)
(* ServerLifecycle with the numbers of the code; see the cfgs.             *)
(***************************************************************************)
EXTENDS ServerLifecycle
=============================================================================
