---------------------------- MODULE MCMACSwitch ----------------------------
(***************************************************************************)
(* Model-checking instance of MACSwitch.                                   *)
(***************************************************************************)
EXTENDS MACSwitch

\* Sockets and addresses are interchangeable.
Symmetry == Permutations(Sockets) \cup Permutations(Macs)
=============================================================================
