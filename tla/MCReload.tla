------------------------------ MODULE MCReload ------------------------------
(* Constants of the run of Reload. *)
EXTENDS Reload, TLC

CONSTANT c1

\* One connection and two reloads, two connections and one reload.
ReloadSetups ==
    {[own |-> mode, conns |-> set, versions |-> IF set = Conns THEN 2 ELSE 3] :
        mode \in BOOLEAN, set \in {{c1}, Conns}}

Symmetry == Permutations(MTUs)
=============================================================================
