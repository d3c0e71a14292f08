------------------------------ MODULE MCSocket ------------------------------
(***************************************************************************)
(* Model-checking instance of Socket: the kinds of socket the server and   *)
(* the client make, with closes ordered from outside.                      *)
(***************************************************************************)
EXTENDS Socket
=============================================================================
