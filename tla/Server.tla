------------------------------- MODULE Server -------------------------------
(***************************************************************************)
(* The server's connection handler (Server.serveSocket): one goroutine per *)
(* HTTP connection takes an address slot, builds a Socket, admits it under *)
(* the per-user limit, serves it and undoes all of that through its        *)
(* deferred calls, in reverse order.  The handlers share the slot table,   *)
(* the socket table, the per-user lists, the closers and, when the server  *)
(* has a single TUN interface, the IP switch's table.  Around them act     *)
(* the peers (which disconnect), the sockets' own goroutines, the web API, *)
(* configuration reloads and the shutdown.                                 *)
(*                                                                         *)
(* A step is a critical section of the code (slotMutex, socketsLock,       *)
(* closerLock, closeLock, ipLock) or the code between two of them.  A      *)
(* connection identifier is a fresh UUID and is never used again.          *)
(***************************************************************************)
EXTENDS Integers, Sequences, FiniteSets, SequencesExt

CONSTANTS
    Conns,                      \* connections (client IDs)
    Users,                      \* user names of authenticated connections
    NoUser,                     \* authUsername == ""
    NoConn,                     \* no socket: a nil *Socket
    UintMod,                    \* the modulus of uint64 arithmetic
    Limits,                     \* the values max-connections-per-user may have
    Setups                      \* the ways the server may be set up and used

ASSUME ConnsAssumption == NoConn \notin Conns
ASSUME UsersAssumption == NoUser \notin Users
ASSUME NetAssumption == UintMod \in Nat \ {0}
ASSUME LimitsAssumption == Limits \subseteq Nat

\* A set-up: what the configuration fixes for good (the size of the VPN subnet, in
\* addresses, and interface.one-interface-per-connection), the first value of
\* max-connections-per-user, and the bounds on what happens: connections, reloads,
\* API DELETE requests, and whether Server.Close is called.
ASSUME SetupsAssumption ==
    \A s \in Setups :
        /\ s.addresses \in Nat \ {0} /\ s.own \in BOOLEAN /\ s.max \in Limits
        /\ s.conns \in Nat /\ s.reloads \in Nat /\ s.deletes \in Nat
        /\ s.stops \in BOOLEAN

VARIABLES
    setup,                 \* the set-up this server runs with, fixed
    pc,                    \* stage of the handler of each connection
    user,                  \* authUsername of each connection
    slot,                  \* its address slot, 0 before one is taken
    limit,                 \* the handler's local maxConns
    usedSlots,             \* Server.usedSlots
    sockets,               \* Server.sockets: the listed connections
    authenticatedSockets,  \* Server.authenticatedSockets
    closers,               \* the connections in Server.closers
    config,                \* MaxConnectionsPerUser and its mode
    reloads,               \* configuration reloads so far
    stopped,               \* Server.Close was called
    versioned,             \* sockets that processed the peer's version command
    closing,               \* sockets with isClosing set
    erroring,              \* CloseError goroutines that will close the adapter
    open,                  \* open adapters
    ifaces,                \* open per-connection interfaces
    ipTable,               \* IPSwitch.ipTable, by address slot
    deleting,              \* API DELETE requests between lookup and Close
    deletes,               \* API DELETE requests so far
    lateRoutes             \* history: sockets already closing when registered

handlerVars == <<pc, user, slot, limit>>
tableVars == <<usedSlots, sockets, authenticatedSockets, closers>>
configVars == <<setup, config, reloads, stopped>>
socketVars == <<closing, erroring, open, ifaces, ipTable>>
otherVars == <<versioned, deleting, deletes, lateRoutes>>
vars == <<handlerVars, tableVars, configVars, socketVars, otherVars>>

Stages == {"idle", "upgraded", "closable", "slotted", "ifaced", "made",
           "listed", "assigned", "configured", "serving", "waiting",
           "unlist", "closeSocket", "closeIface", "releaseSlot",
           "closeAdapter", "done"}

\* MaxConnectionsPerUserKillOldest and MaxConnectionsPerUserPreventNew.
Modes == {"killOldest", "preventNew"}

----------------------------------------------------------------------------
(* The address plan *)

OneInterfacePerConnection == setup.own

\* VPNNet.GetClientSlots: the number of addresses less 3, in uint64.
GetClientSlots == (setup.addresses - 3) % UintMod

maxSlot == (GetClientSlots + 1) % UintMod

\* The slots for which VPNNet.GetIPAt(slot + 1) succeeds: cidr.Host refuses an
\* index outside the subnet.
Addresses == 1..(setup.addresses - 2)

HasAddress(s) == s \in Addresses

\* The slot the scan of usedSlots stops at.
FirstFree(s) == s \notin usedSlots /\ \A t \in 1..(s - 1) : t \in usedSlots

\* As many slots as the scan can look at before it finds a free one.
Candidates == 1..(Cardinality(usedSlots) + 1)

----------------------------------------------------------------------------
(* The IP switch's table *)

\* Mutant: the entry is deleted whoever it belongs to.
UnregisterAnySocket(table, c) ==
    [s \in DOMAIN table |-> IF s = slot[c] THEN NoConn ELSE table[s]]

\* UnregisterSocket deletes the entry only if it is the socket's own.
UnregisterSocket(table, c) ==
    [s \in DOMAIN table |-> IF s = slot[c] /\ table[s] = c THEN NoConn ELSE table[s]]

OldSocket(c) == ipTable[slot[c]]

\* RegisterSocket replaces whatever is there.  Whoever held the address is closed
\* with an "IP conflict" once the new entry is in place: its own UnregisterSocket
\* must leave that entry alone.
RegisterSocket(c) ==
    LET registered == [ipTable EXCEPT ![slot[c]] = c]
    IN  IF OldSocket(c) = NoConn THEN registered
        ELSE UnregisterSocket(registered, OldSocket(c))

----------------------------------------------------------------------------
(* Closing a socket *)

\* Mutant: a closed socket stays registered.
CloseKeepsRoute(c) ==
    IF c \in closing
    THEN UNCHANGED socketVars
    ELSE /\ closing' = closing \cup {c}
         /\ open' = open \ {c}
         /\ ifaces' = ifaces \ {c}
         /\ UNCHANGED <<erroring, ipTable>>

\* Socket.Close: nothing if it is closing already, else close(true).
Close(c) ==
    IF c \in closing
    THEN UNCHANGED socketVars
    ELSE /\ closing' = closing \cup {c}
         /\ open' = open \ {c}
         /\ ifaces' = ifaces \ {c}
         /\ ipTable' = UnregisterSocket(ipTable, c)
         /\ UNCHANGED erroring

\* Socket.CloseError: close(false) whether or not the socket is closing.  The
\* first time the adapter is closed later, by a goroutine that first tries to
\* send the error; a socket that is already closing has it closed here.
CloseError(c) ==
    /\ closing' = closing \cup {c}
    /\ ifaces' = ifaces \ {c}
    /\ ipTable' = UnregisterSocket(ipTable, c)
    /\ IF c \in closing
       THEN open' = open \ {c} /\ UNCHANGED erroring
       ELSE erroring' = erroring \cup {c} /\ UNCHANGED open

Goto(c, stage) == pc' = [pc EXCEPT ![c] = stage]

----------------------------------------------------------------------------
Init ==
    /\ pc = [c \in Conns |-> "idle"]
    /\ user = [c \in Conns |-> NoUser]
    /\ slot = [c \in Conns |-> 0]
    /\ limit = [c \in Conns |-> 0]
    /\ usedSlots = {}
    /\ sockets = {}
    /\ authenticatedSockets = [u \in Users |-> <<>>]
    /\ closers = {}
    /\ setup \in Setups
    /\ config \in [max : {setup.max}, mode : Modes]
    /\ reloads = 0
    /\ stopped = FALSE
    /\ versioned = {}
    /\ closing = {}
    /\ erroring = {}
    /\ open = {}
    /\ ifaces = {}
    /\ ipTable = [s \in Addresses |-> NoConn]
    /\ deleting = {}
    /\ deletes = 0
    /\ lateRoutes = {}

----------------------------------------------------------------------------
(* The handler, top to bottom *)

\* As many connections as the set-up has were made.
NoMoreConnections == Cardinality({c \in Conns : pc[c] # "idle"}) >= setup.conns

\* The request is authenticated (as a user, or anonymously) and upgraded; a
\* refused or plain HTTP request leaves no trace.  From here on the deferred
\* adapter.Close is due.
Upgrade(c) ==
    /\ pc[c] = "idle"
    /\ ~stopped
    /\ ~NoMoreConnections
    /\ \E u \in Users \cup {NoUser} : user' = [user EXCEPT ![c] = u]
    /\ open' = open \cup {c}
    /\ Goto(c, "upgraded")
    /\ UNCHANGED <<slot, limit, tableVars, configVars, otherVars,
                   closing, erroring, ifaces, ipTable>>

AddCloser(c) ==
    /\ pc[c] = "upgraded"
    /\ closers' = closers \cup {c}
    /\ Goto(c, "closable")
    /\ UNCHANGED <<user, slot, limit, usedSlots, sockets, authenticatedSockets,
                   configVars, socketVars, otherVars>>

\* The scan starts at slot 1, and compares with maxSlot only after it has
\* moved on.
AllocateSlot(c) ==
    /\ pc[c] = "closable"
    /\ \E s \in Candidates :
          /\ FirstFree(s)
          /\ s = 1 \/ s <= maxSlot
          /\ slot' = [slot EXCEPT ![c] = s]
          /\ usedSlots' = usedSlots \cup {s}
    /\ Goto(c, "slotted")
    /\ UNCHANGED <<user, limit, sockets, authenticatedSockets, closers,
                   configVars, socketVars, otherVars>>

SlotsExhausted(c) ==
    /\ pc[c] = "closable"
    /\ \E s \in Candidates : FirstFree(s) /\ s > 1 /\ s > maxSlot
    /\ Goto(c, "closeAdapter")
    /\ UNCHANGED <<user, slot, limit, tableVars, configVars, socketVars, otherVars>>

\* GetIPAt fails.
AddressFails(c) ==
    /\ pc[c] = "slotted"
    /\ ~HasAddress(slot[c])
    /\ Goto(c, "releaseSlot")
    /\ UNCHANGED <<user, slot, limit, tableVars, configVars, socketVars, otherVars>>

\* A per-connection interface is created, or cannot be.
CreateInterface(c) ==
    /\ pc[c] = "slotted"
    /\ HasAddress(slot[c])
    /\ OneInterfacePerConnection
    /\ \/ ifaces' = ifaces \cup {c} /\ Goto(c, "ifaced")
       \/ UNCHANGED ifaces /\ Goto(c, "releaseSlot")
    /\ UNCHANGED <<user, slot, limit, tableVars, configVars, otherVars,
                   closing, erroring, open, ipTable>>

\* Mutant: the early return forgets the slot.
ConfigureInterfaceLeaks(c) ==
    /\ pc[c] = "ifaced"
    /\ Goto(c, "closeAdapter")
    /\ UNCHANGED <<user, slot, limit, tableVars, configVars, socketVars, otherVars>>

\* Mutant: the early return forgets the interface.
ConfigureInterfaceStaysOpen(c) ==
    /\ pc[c] = "ifaced"
    /\ Goto(c, "releaseSlot")
    /\ UNCHANGED <<user, slot, limit, tableVars, configVars, socketVars, otherVars>>

\* Setting the interface's addresses or its MTU fails.
ConfigureInterfaceFails(c) ==
    /\ pc[c] = "ifaced"
    /\ Goto(c, "closeIface")
    /\ UNCHANGED <<user, slot, limit, tableVars, configVars, socketVars, otherVars>>

\* Mutant: the limit is off by one.
MakeSocketOffByOne(c) ==
    /\ \/ pc[c] = "ifaced"
       \/ pc[c] = "slotted" /\ HasAddress(slot[c]) /\ ~OneInterfacePerConnection
    /\ limit' = [limit EXCEPT ![c] = config.max + 1]
    /\ Goto(c, "made")
    /\ UNCHANGED <<user, slot, tableVars, configVars, socketVars, otherVars>>

\* MakeSocket, and the read of MaxConnectionsPerUser outside the lock.
MakeSocket(c) ==
    /\ \/ pc[c] = "ifaced"
       \/ pc[c] = "slotted" /\ HasAddress(slot[c]) /\ ~OneInterfacePerConnection
    /\ limit' = [limit EXCEPT ![c] = config.max]
    /\ Goto(c, "made")
    /\ UNCHANGED <<user, slot, tableVars, configVars, socketVars, otherVars>>

----------------------------------------------------------------------------
(* Admission, one critical section of socketsLock *)

Limited(c) == user[c] # NoUser /\ limit[c] > 0

\* Mutant: one connection too many.
OverLimit(c) == Limited(c) /\ Len(authenticatedSockets[user[c]]) > limit[c]

AtLimit(c) == Limited(c) /\ Len(authenticatedSockets[user[c]]) >= limit[c]

List(c) ==
    /\ sockets' = sockets \cup {c}
    /\ Goto(c, "listed")

AdmitFree(c) ==
    /\ pc[c] = "made"
    /\ ~AtLimit(c)
    /\ List(c)
    /\ authenticatedSockets' =
          IF Limited(c)
          THEN [authenticatedSockets EXCEPT ![user[c]] = Append(@, c)]
          ELSE authenticatedSockets
    /\ UNCHANGED <<user, slot, limit, usedSlots, closers, configVars,
                   socketVars, otherVars>>

\* kill-oldest: the head of the user's list leaves it and is closed.
AdmitKillOldest(c) ==
    /\ pc[c] = "made"
    /\ AtLimit(c)
    /\ config.mode = "killOldest"
    /\ List(c)
    /\ CloseError(Head(authenticatedSockets[user[c]]))
    /\ authenticatedSockets' =
          [authenticatedSockets EXCEPT ![user[c]] = Append(Tail(@), c)]
    /\ UNCHANGED <<user, slot, limit, usedSlots, closers, configVars, otherVars>>

\* Mutant: the refusal returns without giving the slot back.
RefuseNewLeaks(c) ==
    /\ pc[c] = "made"
    /\ AtLimit(c)
    /\ config.mode = "preventNew"
    /\ CloseError(c)
    /\ Goto(c, "closeAdapter")
    /\ UNCHANGED <<user, slot, limit, tableVars, configVars, otherVars>>

\* prevent-new: the new socket is closed and never listed.
RefuseNew(c) ==
    /\ pc[c] = "made"
    /\ AtLimit(c)
    /\ config.mode = "preventNew"
    /\ CloseError(c)
    /\ Goto(c, "closeSocket")
    /\ UNCHANGED <<user, slot, limit, tableVars, configVars, otherVars>>

----------------------------------------------------------------------------
(* Serving *)

\* AssignedIP is set only after the socket has been listed, so that a close in
\* between finds nothing to unregister.
AssignIP(c) ==
    /\ pc[c] = "listed"
    /\ Goto(c, "assigned")
    /\ UNCHANGED <<user, slot, limit, tableVars, configVars, socketVars, otherVars>>

\* ConfigureSocket (which in this repository cannot fail), SetPacketHandler
\* and SetMTU.
ConfigureSocket(c) ==
    /\ pc[c] = "assigned"
    /\ Goto(c, "configured")
    /\ UNCHANGED <<user, slot, limit, tableVars, configVars, socketVars, otherVars>>

\* Socket.Serve: the socket enters the IP switch, whether or not it is closing,
\* and CloseError closes whoever held the address.
Serve(c) ==
    /\ pc[c] = "configured"
    /\ Goto(c, "serving")
    /\ IF OneInterfacePerConnection
       THEN UNCHANGED <<socketVars, lateRoutes>>
       ELSE LET old == OldSocket(c) IN
            /\ ipTable' = RegisterSocket(c)
            /\ lateRoutes' = IF c \in closing THEN lateRoutes \cup {c} ELSE lateRoutes
            /\ closing' = closing \cup ({old} \ {NoConn})
            /\ erroring' = erroring \cup ({old} \ (closing \cup {NoConn}))
            /\ open' = open \ ({old} \cap closing)
            /\ UNCHANGED ifaces
    /\ UNCHANGED <<user, slot, limit, tableVars, configVars, versioned, deleting,
                   deletes>>

\* The adapter's goroutine processes the peer's version command.
ReceiveVersion(c) ==
    /\ pc[c] \in {"serving", "waiting"}
    /\ c \in open
    /\ c \notin versioned
    /\ versioned' = versioned \cup {c}
    /\ UNCHANGED <<handlerVars, tableVars, configVars, socketVars, deleting,
                   deletes, lateRoutes>>

\* WaitReady returns (a version arrived or the socket is closing) and the init
\* command is written.
SendInit(c) ==
    /\ pc[c] = "serving"
    /\ c \in versioned
    /\ c \in open
    /\ Goto(c, "waiting")
    /\ UNCHANGED <<user, slot, limit, tableVars, configVars, socketVars, otherVars>>

\* The init command cannot be sent: the peer's version is unknown, or the write
\* fails.
InitFails(c) ==
    /\ pc[c] = "serving"
    /\ c \in versioned \cup closing
    /\ CloseError(c)
    /\ Goto(c, "unlist")
    /\ UNCHANGED <<user, slot, limit, tableVars, configVars, otherVars>>

\* Socket.Wait returns: the adapter's goroutine has called wg.Done, and so has the
\* reader of a per-connection interface, which may have failed while it is open.
WaitReturns(c) ==
    /\ pc[c] = "waiting"
    /\ c \notin open
    /\ Goto(c, "unlist")
    /\ UNCHANGED <<user, slot, limit, tableVars, configVars, socketVars, otherVars>>

----------------------------------------------------------------------------
(* The deferred calls, last registered first *)

\* The list without the socket.  The code filters the whole list; a socket is
\* appended to it once, so that removes one entry at most.
Without(list, c) ==
    IF \E i \in DOMAIN list : list[i] = c
    THEN RemoveAt(list, CHOOSE i \in DOMAIN list : list[i] = c)
    ELSE list

\* Mutant: the slot is given back before the socket is closed.
UnlistAndRelease(c) ==
    /\ pc[c] = "unlist"
    /\ sockets' = sockets \ {c}
    /\ authenticatedSockets' =
          IF user[c] = NoUser THEN authenticatedSockets
          ELSE [authenticatedSockets EXCEPT ![user[c]] = Without(@, c)]
    /\ usedSlots' = usedSlots \ {slot[c]}
    /\ Goto(c, "closeSocket")
    /\ UNCHANGED <<user, slot, limit, closers, configVars, socketVars, otherVars>>

\* Mutant: the socket stays in its user's list.
UnlistKeepsUser(c) ==
    /\ pc[c] = "unlist"
    /\ sockets' = sockets \ {c}
    /\ Goto(c, "closeSocket")
    /\ UNCHANGED <<user, slot, limit, usedSlots, authenticatedSockets, closers,
                   configVars, socketVars, otherVars>>

\* The socket leaves the table and its user's list.
Unlist(c) ==
    /\ pc[c] = "unlist"
    /\ sockets' = sockets \ {c}
    /\ authenticatedSockets' =
          IF user[c] = NoUser THEN authenticatedSockets
          ELSE [authenticatedSockets EXCEPT ![user[c]] = Without(@, c)]
    /\ Goto(c, "closeSocket")
    /\ UNCHANGED <<user, slot, limit, usedSlots, closers, configVars,
                   socketVars, otherVars>>

CloseSocket(c) ==
    /\ pc[c] = "closeSocket"
    /\ Close(c)
    /\ Goto(c, "closeIface")
    /\ UNCHANGED <<user, slot, limit, tableVars, configVars, otherVars>>

CloseInterface(c) ==
    /\ pc[c] = "closeIface"
    /\ ifaces' = ifaces \ {c}
    /\ Goto(c, "releaseSlot")
    /\ UNCHANGED <<user, slot, limit, tableVars, configVars, otherVars,
                   closing, erroring, open, ipTable>>

ReleaseSlot(c) ==
    /\ pc[c] = "releaseSlot"
    /\ usedSlots' = usedSlots \ {slot[c]}
    /\ Goto(c, "closeAdapter")
    /\ UNCHANGED <<user, slot, limit, sockets, authenticatedSockets, closers,
                   configVars, socketVars, otherVars>>

CloseAdapter(c) ==
    /\ pc[c] = "closeAdapter"
    /\ open' = open \ {c}
    /\ Goto(c, "done")
    /\ UNCHANGED <<user, slot, limit, tableVars, configVars, otherVars,
                   closing, erroring, ifaces, ipTable>>

----------------------------------------------------------------------------
(* The socket's own goroutines, the peer, the API, the administrator *)

\* The peer disconnects, or the adapter's read loop ends with an error.
AdapterEnds(c) ==
    /\ c \in open
    /\ open' = open \ {c}
    /\ UNCHANGED <<handlerVars, tableVars, configVars, otherVars,
                   closing, erroring, ifaces, ipTable>>

\* A goroutine of the socket ends (adapter, ping timer, interface reader) and
\* calls Close after wg.Done, possibly after the handler's Wait has returned.
GoroutineCloses(c) ==
    /\ pc[c] \in {"serving", "waiting", "unlist", "closeSocket"}
    /\ c \notin closing
    /\ Close(c)
    /\ UNCHANGED <<handlerVars, tableVars, configVars, otherVars>>

\* The goroutine CloseError started closes the adapter.
ErrorCloses(c) ==
    /\ c \in erroring
    /\ erroring' = erroring \ {c}
    /\ open' = open \ {c}
    /\ UNCHANGED <<handlerVars, tableVars, configVars, otherVars,
                   closing, ifaces, ipTable>>

\* DELETE /api/clients/{id}: the lookup under socketsLock ...
ApiLookup(c) ==
    /\ c \in sockets \ deleting
    /\ deletes < setup.deletes
    /\ deletes' = deletes + 1
    /\ deleting' = deleting \cup {c}
    /\ UNCHANGED <<handlerVars, tableVars, configVars, socketVars, versioned,
                   lateRoutes>>

\* ... and the Close outside it.
ApiClose(c) ==
    /\ c \in deleting
    /\ deleting' = deleting \ {c}
    /\ Close(c)
    /\ UNCHANGED <<handlerVars, tableVars, configVars, versioned, deletes,
                   lateRoutes>>

\* SIGHUP: reloadConfig stores new values in the server, without a lock.  It ignores a
\* change of the subnet or of one-interface-per-connection, and an unknown mode; a
\* file that is refused before this point changes nothing the handlers look at.
Reload ==
    /\ reloads < setup.reloads
    /\ reloads' = reloads + 1
    /\ \E max \in Limits, mode \in Modes :
          config' = [max |-> max, mode |-> mode]
    /\ UNCHANGED <<handlerVars, tableVars, setup, stopped, socketVars, otherVars>>

\* Server.closeAll.
closeAll ==
    /\ open' = open \ closers
    /\ closers' = {}

\* Server.Close: every closer, the HTTP listeners among them, is closed.
ServerClose ==
    /\ setup.stops
    /\ ~stopped
    /\ stopped' = TRUE
    /\ closeAll
    /\ UNCHANGED <<handlerVars, usedSlots, sockets, authenticatedSockets, setup,
                   config, reloads, otherVars, closing, erroring, ifaces, ipTable>>

\* Server.Serve wakes up on the serve error and closes what was added since.
ServeReturns ==
    /\ stopped
    /\ closers # {}
    /\ closeAll
    /\ UNCHANGED <<handlerVars, usedSlots, sockets, authenticatedSockets,
                   configVars, otherVars, closing, erroring, ifaces, ipTable>>

\* Every connection has been served and undone.
Finished ==
    /\ \A c \in Conns : pc[c] = "done" \/ (pc[c] = "idle" /\ (stopped \/ NoMoreConnections))
    /\ UNCHANGED vars

----------------------------------------------------------------------------
Handler(c) ==
    \/ Upgrade(c) \/ AddCloser(c)
    \/ AllocateSlot(c) \/ SlotsExhausted(c) \/ AddressFails(c)
    \/ CreateInterface(c) \/ ConfigureInterfaceFails(c) \/ MakeSocket(c)
    \/ AdmitFree(c) \/ AdmitKillOldest(c) \/ RefuseNew(c)
    \/ AssignIP(c) \/ ConfigureSocket(c) \/ Serve(c)
    \/ SendInit(c) \/ InitFails(c) \/ WaitReturns(c)
    \/ Unlist(c) \/ CloseSocket(c) \/ CloseInterface(c)
    \/ ReleaseSlot(c) \/ CloseAdapter(c)

Environment(c) ==
    \/ ReceiveVersion(c) \/ AdapterEnds(c) \/ GoroutineCloses(c)
    \/ ErrorCloses(c) \/ ApiLookup(c) \/ ApiClose(c)

Next ==
    \/ \E c \in Conns : Handler(c) \/ Environment(c)
    \/ Reload \/ ServerClose \/ ServeReturns
    \/ Finished

Spec == Init /\ [][Next]_vars

----------------------------------------------------------------------------
(* Properties *)

\* Stages in which the slot is taken and not yet given back.
Holding == {"slotted", "ifaced", "made", "listed", "assigned", "configured",
            "serving", "waiting", "unlist", "closeSocket", "closeIface",
            "releaseSlot"}

Holders == {c \in Conns : pc[c] \in Holding}

\* Sockets that exist and have not been closed.
LiveSockets ==
    {c \in Conns \ closing :
        pc[c] \in {"made", "listed", "assigned", "configured", "serving",
                   "waiting", "unlist", "closeSocket"}}

\* The types: in particular per-user lists are lists of sockets, and the IP switch
\* is keyed by addresses of the subnet.
TypeOK ==
    /\ pc \in [Conns -> Stages]
    /\ user \in [Conns -> Users \cup {NoUser}]
    /\ slot \in [Conns -> Nat]
    /\ limit \in [Conns -> Limits \cup {0}]
    /\ usedSlots \subseteq Nat
    /\ sockets \subseteq Conns
    /\ authenticatedSockets \in [Users -> Seq(Conns)]
    /\ closers \subseteq Conns
    /\ setup \in Setups
    /\ config \in [max : Limits, mode : Modes]
    /\ reloads \in 0..setup.reloads
    /\ stopped \in BOOLEAN
    /\ versioned \subseteq Conns
    /\ closing \subseteq Conns
    /\ erroring \subseteq Conns
    /\ open \subseteq Conns
    /\ ifaces \subseteq Conns
    /\ ipTable \in [Addresses -> Conns \cup {NoConn}]
    /\ deleting \subseteq Conns
    /\ deletes \in 0..setup.deletes
    /\ lateRoutes \subseteq Conns

\* No two live sockets, and no two per-connection interfaces, have the same
\* address: usedSlots hands a slot out again only after the deferred calls of
\* its last holder have closed that holder's socket and interface
\* (serveSocket, order of the deferred calls).
NoSharedAddress ==
    /\ \A c, d \in LiveSockets : slot[c] = slot[d] => c = d
    /\ \A c, d \in ifaces : slot[c] = slot[d] => c = d

\* usedSlots holds the slots of the handlers between allocation and release,
\* and nothing else: no early return leaks a slot or frees one twice.
SlotsAccounted == usedSlots = {slot[c] : c \in Holders}

\* Every live socket that is being served is the one the IP switch finds under
\* its address, whatever stale entry was there before it (IPSwitch.RegisterSocket,
\* UnregisterSocket's comparison with the socket).
RouteToOwner ==
    ~OneInterfacePerConnection =>
        \A c \in Conns :
            pc[c] \in {"serving", "waiting"} /\ c \notin closing
                => ipTable[slot[c]] = c

\* The "IP conflict" of RegisterSocket only ever hits a socket that is closed
\* already: a newcomer never disconnects a working client.
ConflictOnlyWithClosed ==
    \A c \in Conns :
        pc[c] = "configured" => OldSocket(c) \in closing \cup {NoConn}

\* A closed socket leaves the IP switch's table, except one that was closed
\* between its listing and its registration: Serve registers it all the same,
\* and nothing but a CloseError or the next holder of the address removes it.
ClosedUnrouted ==
    \A s \in DOMAIN ipTable :
        ipTable[s] \in closing => ipTable[s] \in lateRoutes

\* The address each connection holds: its slot, from the allocation to the release.
Lease == [c \in Conns |-> IF c \in Holders THEN slot[c] ELSE 0]

Addressing ==
    INSTANCE AddressLease
    WITH Clients <- Conns, lease <- Lease, active <- LiveSockets \cup ifaces

\* The handlers implement the lease of addresses: whatever order the deferred calls,
\* the peer, the API, kill-oldest and the shutdown act in, a slot goes from "free"
\* to one connection and back, and only when neither a live socket nor an interface
\* of that connection is left.
ImplementsLease == Addressing!Spec

\* The listed connections of a user that were admitted under a limit.
Counted(u) == {c \in sockets : user[c] = u /\ limit[c] > 0}

\* The per-user list holds every live connection of the user that was admitted under
\* a limit once, no connection of another user, and none that has been unlisted: what
\* the limit counts is what is connected, whatever a reload does to the limit and the
\* mode between the read of one and of the other (admission and the deferred removal
\* in serveSocket).
UserListsCurrent ==
    \A u \in Users :
        LET list == authenticatedSockets[u] IN
        /\ IsInjective(list)
        /\ ToSet(list) \subseteq Counted(u)
        /\ Counted(u) \ closing \subseteq ToSet(list)

LiveConnections(u) == {c \in sockets \ closing : user[c] = u}

\* The connections of a user that have been admitted or refused.
PastAdmission(u) ==
    {c \in Conns : user[c] = u /\ pc[c] \in {"listed", "assigned", "configured", "serving",
         "waiting", "unlist", "closeSocket", "closeIface", "releaseSlot", "closeAdapter", "done"}}

\* A user never has more live connections than the configured maximum; once that has
\* been reloaded, the connections that count are no more than the largest maximum that
\* a connection of the user has read, however old it was when it was used (admission in
\* serveSocket, which closes one connection for each that it admits).
UserLimit ==
    \A u \in Users :
        /\ reloads = 0 /\ config.max > 0 => Cardinality(LiveConnections(u)) <= config.max
        /\ Counted(u) \subseteq closing
             \/ \E c \in PastAdmission(u) : Cardinality(Counted(u) \ closing) <= limit[c]
=============================================================================
