---------------------------- MODULE AddressLease ----------------------------
(***************************************************************************)
(* What the server promises about addresses, without sockets, tables or    *)
(* deferred calls: a client is granted an address nobody else has, may use *)
(* it (a socket, an interface) as long as it has it, and returns it only   *)
(* when it no longer uses it.                                              *)
(***************************************************************************)
EXTENDS Naturals

CONSTANT Clients

VARIABLES
    lease,   \* the address each client has, 0 if none
    active   \* the clients that use their address

vars == <<lease, active>>

Init ==
    /\ lease = [c \in Clients |-> 0]
    /\ active = {}

Grant(c) ==
    /\ lease[c] = 0
    /\ lease'[c] # 0
    /\ \A d \in Clients : lease[d] # lease'[c]
    /\ lease' = [lease EXCEPT ![c] = lease'[c]]
    /\ UNCHANGED active

Use(c) ==
    /\ lease[c] # 0
    /\ active' = active \cup {c}
    /\ UNCHANGED lease

StopUsing(c) ==
    /\ active' = active \ {c}
    /\ UNCHANGED lease

Return(c) ==
    /\ c \notin active
    /\ lease' = [lease EXCEPT ![c] = 0]
    /\ UNCHANGED active

Next == \E c \in Clients : Grant(c) \/ Use(c) \/ StopUsing(c) \/ Return(c)

Spec == Init /\ [][Next]_vars

----------------------------------------------------------------------------
\* No two clients use the same address.
ExclusiveUse ==
    \A c, d \in active : lease[c] = lease[d] => c = d
=============================================================================
