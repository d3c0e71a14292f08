------------------------------ MODULE MCServer ------------------------------
(***************************************************************************)
(* Model-checking instance of Server: a few connections and users, the     *)
(* smallest subnets that have every kind of address.                       *)
(***************************************************************************)
EXTENDS Server, TLC

\* One TUN interface and the IP switch: three connections compete for the two
\* slots of a /30 subnet, or for the addresses a /31 does not have.
Shared ==
    [addresses : {2, 4}, own : {FALSE}, max : {1},
     conns : {3}, reloads : {0}, deletes : {0}, stops : {FALSE}]

\* One interface per connection; an API DELETE and the shutdown may come at any time.
OwnInterfaces ==
    [addresses : {4}, own : {TRUE}, max : {1},
     conns : {2}, reloads : {0}, deletes : {1}, stops : {TRUE}]

\* The limit changes, comes into force or is lifted with a reload, between the moments at
\* which handlers read it and use it.
NewLimit ==
    [addresses : {4}, own : {TRUE}, max : {0, 2},
     conns : {2}, reloads : {1}, deletes : {0}, stops : {FALSE}]

AllSetups == Shared \cup OwnInterfaces \cup NewLimit

\* Connections and users are interchangeable.
Symmetry == Permutations(Conns) \cup Permutations(Users)
=============================================================================
