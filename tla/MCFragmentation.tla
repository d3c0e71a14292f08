-------------------------- MODULE MCFragmentation --------------------------
(***************************************************************************)
(* Model-checking instance of Fragmentation.                               *)
(***************************************************************************)
EXTENDS Fragmentation
=============================================================================
