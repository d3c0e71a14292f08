------------------------------ MODULE Serving ------------------------------
(***************************************************************************)
(* A running server as its goroutines and the locks they share: the reader *)
(* of the main interface, for which the IP switch forwards packets; of     *)
(* every connection the handler, the adapter's reader, the pinger and the  *)
(* goroutine that sends an error; a reload that changes the MTU, a DELETE  *)
(* of the web API, the HTTP listener, Server.Serve and the handler of the  *)
(* shutdown signal.                                                        *)
(*                                                                         *)
(* What a goroutine has still to do is a sequence of instructions in the   *)
(* order of the code; a call is replaced by the instructions of its body.  *)
(* A critical section in which nothing can block is one instruction, which *)
(* needs its lock to be free; where something can block the lock is taken, *)
(* and "unlock" follows.  The adapters are WebSockets, fragmentation is    *)
(* off, and a write to a peer that does not read keeps writeLock until the *)
(* peer reads again or the operating system gives up.  The handshake of a  *)
(* connection is one step here; Socket has it in detail.                   *)
(***************************************************************************)
EXTENDS Naturals, FiniteSets, Sequences, SequencesExt

CONSTANTS
    Conns,       \* connections, all of the same user
    Nobody,      \* the holder of a free lock
    MaxPerUser,  \* max-connections-per-user, with the mode kill-oldest
    Setups       \* the cases to look at: the connections there are, in order, those that
                 \* may come, what may happen from outside, each at most once, the number
                 \* of packets, and how often a peer stops reading or leaves

ASSUME LimitAssumption == MaxPerUser \in Nat \ {0}
ASSUME ConnsAssumption == IsFiniteSet(Conns) /\ Conns \cap {"mainIface", "http"} = {}
ASSUME SetupsAssumption ==
    \A setup \in Setups :
        /\ setup.there \in Seq(Conns) /\ IsInjective(setup.there)
        /\ Len(setup.there) <= MaxPerUser
        /\ setup.coming \subseteq Conns \ Range(setup.there)
        /\ setup.events \subseteq {"reload", "delete", "ifaceFails", "signal"}
        /\ setup.packets \in Nat /\ setup.faults \in Nat

VARIABLES
    todo,       \* what each goroutine has still to do
    holder,     \* who holds each lock
    sockets,    \* Server.sockets, as a set
    userSocks,  \* authenticatedSockets of the user
    closers,    \* Server.closers, in order
    routes,     \* the sockets in the switch's table
    closing,    \* sockets with isClosing set
    open,       \* what is open: adapters, "mainIface", "http"
    stalled,    \* connections whose peer does not read
    serveError, \* Server.serveError, "nil" if there is none
    notified,   \* serveErrorChannel is closed
    exit,       \* the process: "running", or ended "clean" or in a "panic"
    coming,     \* connections that may still come
    events,     \* events that may still happen
    packets,    \* packets that may still be sent
    faults      \* times a peer may still stop reading or leave

tableVars == <<sockets, userSocks, closers, routes>>
connVars == <<closing, open, stalled>>
serveVars == <<serveError, notified, exit>>
bounds == <<coming, events, packets, faults>>
vars == <<todo, holder, tableVars, connVars, serveVars, bounds>>

----------------------------------------------------------------------------
(* Goroutines, locks, instructions *)

ofServer(name) == <<name, "server">>
handler(c) == <<"handler", c>>
reader(c) == <<"reader", c>>
pinger(c) == <<"pinger", c>>
errorSender(c) == <<"errorSender", c>>

Procs ==
    {ofServer(name) : name \in {"main", "http", "serve", "signal", "reload", "delete"}}
        \cup ({"handler", "reader", "pinger", "errorSender"} \X Conns)

ASSUME NobodyAssumption == Nobody \notin Procs

socketsLock == <<"socketsLock", "server">>
closerLock == <<"closerLock", "server">>
closeLock(c) == <<"closeLock", c>>
writeLock(c) == <<"writeLock", c>>

Locks == {socketsLock, closerLock} \cup ({"closeLock", "writeLock"} \X Conns)

Do(what, arg) == [do |-> what, arg |-> arg]

\* The instructions that need a lock.
Needs(lock, i) ==
    CASE lock = closerLock -> i.do \in {"addCloser", "closeAll"}
      [] lock = socketsLock -> i.do \in {"admit", "unlist", "setMTU", "lookUp"}
      [] lock[1] = "closeLock" -> i.do \in {"close", "closeError"} /\ i.arg = lock[2]
      [] lock[1] = "writeLock" -> i.do \in {"write", "closeAdapter"} /\ i.arg = lock[2]

\* Server.setServeError: the test and the assignment are not one step.
setServeError(err) == <<Do("testError", err), Do("setError", err)>>

\* Server.Close.
ServerClose == <<Do("closeAll", "server")>> \o setServeError("none")

\* serveSocket, from the upgrade on, with its deferred calls, the last of which (the
\* adapter's Close) finds the adapter closed.
serveSocket(c) ==
    <<Do("addCloser", c), Do("admit", c), Do("serve", c), Do("write", c), Do("wait", c),
      Do("unlist", c), Do("close", c)>>

----------------------------------------------------------------------------
InitWith(there) ==
    /\ todo = [p \in Procs |->
          CASE p = ofServer("main") ->
                  <<Do("readIface", "server")>> \o setServeError("main iface closed")
            [] p = ofServer("http") ->
                  <<Do("accept", "server")>> \o setServeError("http: Server closed")
            [] p = ofServer("serve") ->
                  <<Do("awaitError", "server"), Do("closeAll", "server"), Do("return", "server")>>
            [] p[1] = "handler" /\ p[2] \in Range(there) -> SubSeq(serveSocket(p[2]), 5, 7)
            [] p[1] = "reader" /\ p[2] \in Range(there) -> <<Do("readPeer", p[2])>>
            [] OTHER -> <<>>]
    /\ holder = [l \in Locks |-> Nobody]
    /\ sockets = Range(there)
    /\ userSocks = there
    /\ closers = <<"mainIface", "http">> \o there
    /\ routes = Range(there)
    /\ closing = {}
    /\ open = {"mainIface", "http"} \cup Range(there)
    /\ stalled = {}
    /\ serveError = "nil"
    /\ notified = FALSE
    /\ exit = "running"

Init ==
    \E setup \in Setups :
        /\ InitWith(setup.there)
        /\ coming = setup.coming /\ events = setup.events
        /\ packets = setup.packets /\ faults = setup.faults

\* p's next instruction is this one, and the lock it needs is free.
At(p, what) == exit = "running" /\ todo[p] # <<>> /\ Head(todo[p]).do = what
Arg(p) == Head(todo[p]).arg
Free(lock) == holder[lock] = Nobody

\* p has done its instruction and these are next.
Then(p, steps) == todo' = [todo EXCEPT ![p] = steps \o Tail(@)]

\* p has done its instruction, with the lock held until these are done too.
Holding(p, lock, steps) ==
    IF steps = <<>> THEN Then(p, <<>>) /\ UNCHANGED holder
    ELSE /\ Then(p, steps \o <<Do("unlock", lock)>>)
         /\ holder' = [holder EXCEPT ![lock] = p]

Unlock(p) ==
    /\ At(p, "unlock")
    /\ holder' = [holder EXCEPT ![Arg(p)] = Nobody]
    /\ Then(p, <<>>)
    /\ UNCHANGED <<tableVars, connVars, serveVars, bounds>>

----------------------------------------------------------------------------
(* Writing to a peer *)

\* A write that fails calls CloseError; so does the handler, whose write is the init
\* command and which returns without Wait.  A pong that fails ends the reader's loop, which
\* will find the connection closed.
WriteReturns(p) ==
    /\ At(p, "write")
    /\ LET c == Arg(p) IN
       /\ holder[writeLock(c)] \in {Nobody, p}
       /\ c \notin stalled
       /\ holder' = [holder EXCEPT ![writeLock(c)] = Nobody]
       /\ IF c \in open THEN Then(p, <<>>)
          ELSE IF p = handler(c)
          THEN todo' = [todo EXCEPT ![p] = <<Do("closeError", c), Do("closeError", c)>>
                                              \o SubSeq(@, 3, Len(@))]
          ELSE \/ Then(p, <<Do("closeError", c)>>)
               \/ p = reader(c) /\ Then(p, <<>>)
    /\ UNCHANGED <<tableVars, connVars, serveVars, bounds>>

\* The peer does not read: the write waits and keeps the lock.
WriteWaits(p) ==
    /\ At(p, "write")
    /\ Free(writeLock(Arg(p)))
    /\ Arg(p) \in stalled
    /\ holder' = [holder EXCEPT ![writeLock(Arg(p))] = p]
    /\ UNCHANGED <<todo, tableVars, connVars, serveVars, bounds>>

----------------------------------------------------------------------------
(* Closing *)

\* WebSocketAdapter.Close, which waits for writeLock.
CloseAdapter(p) ==
    /\ At(p, "closeAdapter")
    /\ Free(writeLock(Arg(p)))
    /\ open' = open \ {Arg(p)}
    /\ stalled' = stalled \ {Arg(p)}
    /\ Then(p, <<>>)
    /\ UNCHANGED <<holder, tableVars, closing, serveVars, bounds>>

\* The other closers of the server.
CloseOther(p) ==
    /\ At(p, "closeOther")
    /\ open' = open \ {Arg(p)}
    /\ Then(p, <<>>)
    /\ UNCHANGED <<holder, tableVars, closing, stalled, serveVars, bounds>>

\* Mutant: the socket is taken out of the server's table here.
CloseUnlists(c) == <<Do("closeAdapter", c), Do("unlist", c)>>

\* close(true): what else it does blocks nobody.
CloseBody(c) == <<Do("closeAdapter", c)>>

\* Socket.Close: nothing if the socket is closing already.  The switch forgets the socket
\* after the adapter is closed, but WritePacket drops every packet from here on.
Close(p) ==
    /\ At(p, "close")
    /\ Free(closeLock(Arg(p)))
    /\ closing' = closing \cup {Arg(p)}
    /\ routes' = routes \ {Arg(p)}
    /\ Holding(p, closeLock(Arg(p)), IF Arg(p) \in closing THEN <<>> ELSE CloseBody(Arg(p)))
    /\ UNCHANGED <<sockets, userSocks, closers, open, stalled, serveVars, bounds>>

\* Socket.CloseError: the first time a goroutine sends the error and closes the adapter;
\* a socket that is closing already has it closed here, with closeLock held.
CloseError(p) ==
    /\ At(p, "closeError")
    /\ LET c == Arg(p) IN
       /\ Free(closeLock(c))
       /\ closing' = closing \cup {c}
       /\ routes' = routes \ {c}
       /\ IF c \in closing THEN Holding(p, closeLock(c), <<Do("closeAdapter", c)>>)
          ELSE /\ todo' = [todo EXCEPT ![p] = Tail(@),
                              ![errorSender(c)] = <<Do("write", c), Do("closeAdapter", c)>>]
               /\ UNCHANGED holder
    /\ UNCHANGED <<sockets, userSocks, closers, open, stalled, serveVars, bounds>>

----------------------------------------------------------------------------
(* The handler of a connection *)

\* The listener accepts a connection, which is authenticated and upgraded.
Accept(c) ==
    /\ exit = "running"
    /\ "http" \in open
    /\ c \in coming
    /\ coming' = coming \ {c}
    /\ open' = open \cup {c}
    /\ todo' = [todo EXCEPT ![handler(c)] = serveSocket(c)]
    /\ UNCHANGED <<holder, tableVars, closing, stalled, serveVars,
                   events, packets, faults>>

AddCloser(p) ==
    /\ At(p, "addCloser")
    /\ Free(closerLock)
    /\ closers' = Append(closers, Arg(p))
    /\ Then(p, <<>>)
    /\ UNCHANGED <<holder, sockets, userSocks, routes, connVars, serveVars, bounds>>

\* Admission: the oldest connection of the user is closed with socketsLock held.
Admit(p) ==
    /\ At(p, "admit")
    /\ Free(socketsLock)
    /\ sockets' = sockets \cup {Arg(p)}
    /\ IF Len(userSocks) >= MaxPerUser
       THEN /\ userSocks' = Append(Tail(userSocks), Arg(p))
            /\ Holding(p, socketsLock, <<Do("closeError", Head(userSocks))>>)
       ELSE /\ userSocks' = Append(userSocks, Arg(p))
            /\ Holding(p, socketsLock, <<>>)
    /\ UNCHANGED <<closers, routes, connVars, serveVars, bounds>>

\* Socket.Serve and the version commands: registration and the adapter's reader.
\* A socket that was closed in the meantime is registered too, but gets no packets.
Serve(p) ==
    /\ At(p, "serve")
    /\ LET c == Arg(p) IN
       /\ routes' = IF c \in closing THEN routes ELSE routes \cup {c}
       /\ todo' = [todo EXCEPT ![p] = Tail(@),
                               ![reader(c)] = <<Do("readPeer", c)>>]
    /\ UNCHANGED <<holder, sockets, userSocks, closers, connVars, serveVars, bounds>>

\* A goroutine of the socket ends with closeDone: wg.Done, then Close, which does nothing
\* for a socket that is closing.
closeDone(p) == Then(p, IF Arg(p) \in closing THEN <<>> ELSE <<Do("close", Arg(p))>>)

\* Socket.Wait; the pinger, which it waits for too, ends by itself.
WaitReturns(p) ==
    /\ At(p, "wait")
    /\ \A i \in DOMAIN todo[reader(Arg(p))] : todo[reader(Arg(p))][i].do # "readPeer"
    /\ Then(p, <<>>)
    /\ UNCHANGED <<holder, tableVars, connVars, serveVars, bounds>>

\* A connection is in the list once.
Unlist(p) ==
    /\ At(p, "unlist")
    /\ Free(socketsLock)
    /\ sockets' = sockets \ {Arg(p)}
    /\ userSocks' = RemoveFirst(userSocks, Arg(p))
    /\ Then(p, <<>>)
    /\ UNCHANGED <<holder, closers, routes, connVars, serveVars, bounds>>

----------------------------------------------------------------------------
(* Traffic *)

\* IPSwitch.HandlePacket: a packet goes to one socket of the table, or to all of them but
\* its sender, one after the other.
HandlePacket(targets) ==
    LET list == SetToSeq(targets) IN [i \in DOMAIN list |-> Do("write", list[i])]

\* serveMainIface: a packet from the main interface ...
ReadIface ==
    LET p == ofServer("main") IN
    /\ At(p, "readIface")
    /\ "mainIface" \in open
    /\ packets > 0
    /\ packets' = packets - 1
    /\ \E targets \in {{c} : c \in routes} \cup {routes} :
          todo' = [todo EXCEPT ![p] = HandlePacket(targets) \o @]
    /\ UNCHANGED <<holder, tableVars, connVars, serveVars, coming, events, faults>>

\* ... until the read fails.
ReadIfaceFails(p) ==
    /\ At(p, "readIface")
    /\ "mainIface" \notin open
    /\ Then(p, <<>>)
    /\ UNCHANGED <<holder, tableVars, connVars, serveVars, bounds>>

\* The adapter's loop: packets are forwarded to other clients (allow-client-to-client),
\* commands and pings are answered ...
ReadPeer(c) ==
    /\ At(reader(c), "readPeer")
    /\ c \in open
    /\ packets > 0
    /\ packets' = packets - 1
    /\ \E d \in routes \cup {c} : todo' = [todo EXCEPT ![reader(c)] = HandlePacket({d}) \o @]
    /\ UNCHANGED <<holder, tableVars, connVars, serveVars, coming, events, faults>>

\* ... until the connection is closed, here or by the peer.
ReadPeerFails(p) ==
    /\ At(p, "readPeer")
    /\ Arg(p) \notin open
    /\ closeDone(p)
    /\ UNCHANGED <<holder, tableVars, connVars, serveVars, bounds>>

\* The pinger gives up a peer that does not read and so does not answer.  Otherwise it
\* ends when closeChan is closed, and its Close does nothing.
PingTimeout(c) ==
    /\ exit = "running"
    /\ c \in stalled \ closing
    /\ todo[reader(c)] # <<>>
    /\ todo[pinger(c)] = <<>>
    /\ todo' = [todo EXCEPT ![pinger(c)] = <<Do("close", c)>>]
    /\ UNCHANGED <<holder, tableVars, connVars, serveVars, bounds>>

\* A peer stops reading; it goes on later, or the operating system gives up.
Stall(c) ==
    /\ exit = "running"
    /\ c \in (Conns \cap open) \ stalled
    /\ faults > 0
    /\ faults' = faults - 1
    /\ stalled' = stalled \cup {c}
    /\ UNCHANGED <<todo, holder, tableVars, closing, open, serveVars,
                   coming, events, packets>>

StallEnds(c) ==
    /\ exit = "running"
    /\ c \in stalled
    /\ stalled' = stalled \ {c}
    /\ open' \in {open, open \ {c}}
    /\ UNCHANGED <<todo, holder, tableVars, closing, serveVars, bounds>>

\* A peer closes the connection.
PeerLeaves(c) ==
    /\ exit = "running"
    /\ c \in (Conns \cap open) \ stalled
    /\ faults > 0
    /\ faults' = faults - 1
    /\ open' = open \ {c}
    /\ UNCHANGED <<todo, holder, tableVars, closing, stalled, serveVars,
                   coming, events, packets>>

----------------------------------------------------------------------------
(* Requests and failures from outside *)

Happens(event) ==
    /\ exit = "running"
    /\ event \in events
    /\ events' = events \ {event}
    /\ UNCHANGED <<holder, tableVars, closing, stalled, serveVars,
                   coming, packets, faults>>

\* A reload of the configuration changes the MTU ...
Reload ==
    /\ Happens("reload")
    /\ todo' = [todo EXCEPT ![ofServer("reload")] = <<Do("setMTU", "server")>>]
    /\ UNCHANGED open

\* Mutant: the lock is not given back.
SetMTUKeepsLock(p) ==
    /\ At(p, "setMTU")
    /\ Free(socketsLock)
    /\ LET list == SetToSeq(sockets) IN Then(p, [i \in DOMAIN list |-> Do("write", list[i])])
    /\ holder' = [holder EXCEPT ![socketsLock] = p]
    /\ UNCHANGED <<tableVars, connVars, serveVars, bounds>>

\* ... and Server.SetMTU sends it to every listed socket, with socketsLock held.
SetMTU(p) ==
    /\ At(p, "setMTU")
    /\ Free(socketsLock)
    /\ LET list == SetToSeq(sockets)
       IN  Holding(p, socketsLock, [i \in DOMAIN list |-> Do("write", list[i])])
    /\ UNCHANGED <<tableVars, connVars, serveVars, bounds>>

\* DELETE /api/clients/<id>: look-up under socketsLock, Close without it.
Delete(c) ==
    /\ Happens("delete")
    /\ todo' = [todo EXCEPT ![ofServer("delete")] = <<Do("lookUp", c)>>]
    /\ UNCHANGED open

LookUp(p) ==
    /\ At(p, "lookUp")
    /\ Free(socketsLock)
    /\ Then(p, IF Arg(p) \in sockets THEN <<Do("close", Arg(p))>> ELSE <<>>)
    /\ UNCHANGED <<holder, tableVars, connVars, serveVars, bounds>>

\* The main interface goes away.
IfaceFails ==
    /\ Happens("ifaceFails")
    /\ open' = open \ {"mainIface"}
    /\ UNCHANGED todo

\* SIGINT or SIGTERM: Server.Close, then os.Exit(0).
Signal ==
    /\ Happens("signal")
    /\ todo' = [todo EXCEPT ![ofServer("signal")] = ServerClose \o <<Do("exit", "clean")>>]
    /\ UNCHANGED open

----------------------------------------------------------------------------
(* The end *)

\* http.Server's ListenAndServe returns when it is closed.
AcceptFails(p) ==
    /\ At(p, "accept")
    /\ "http" \notin open
    /\ Then(p, <<>>)
    /\ UNCHANGED <<holder, tableVars, connVars, serveVars, bounds>>

\* Server.closeAll, with closerLock held.
CloseAll(p) ==
    /\ At(p, "closeAll")
    /\ Free(closerLock)
    /\ closers' = <<>>
    /\ Holding(p, closerLock,
               [i \in DOMAIN closers |->
                   Do(IF closers[i] \in Conns THEN "closeAdapter" ELSE "closeOther", closers[i])])
    /\ UNCHANGED <<sockets, userSocks, routes, connVars, serveVars, bounds>>

TestError(p) ==
    /\ At(p, "testError")
    /\ todo' = [todo EXCEPT ![p] = IF serveError # "nil" THEN SubSeq(@, 3, Len(@)) ELSE Tail(@)]
    /\ UNCHANGED <<holder, tableVars, connVars, serveVars, bounds>>

\* Mutant: the channel is not closed.
SetErrorSilently(p) ==
    /\ At(p, "setError")
    /\ serveError' = Arg(p)
    /\ Then(p, <<>>)
    /\ UNCHANGED <<holder, tableVars, connVars, notified, exit, bounds>>

\* The process ends, and its goroutines with it.
End(code) ==
    /\ exit' = code
    /\ todo' = [p \in Procs |-> <<>>]
    /\ holder' = [l \in Locks |-> Nobody]

\* The second close of a channel is a panic.
SetError(p) ==
    /\ At(p, "setError")
    /\ serveError' = Arg(p)
    /\ notified' = TRUE
    /\ IF notified THEN End("panic") ELSE Then(p, <<>>) /\ UNCHANGED <<exit, holder>>
    /\ UNCHANGED <<tableVars, connVars, bounds>>

AwaitError(p) ==
    /\ At(p, "awaitError")
    /\ notified
    /\ Then(p, <<>>)
    /\ UNCHANGED <<holder, tableVars, connVars, serveVars, bounds>>

\* Serve returns: Main ends, or panics with the error; its deferred Close runs first (and
\* finds serveError set).
Return(p) ==
    /\ At(p, "return")
    /\ Then(p, <<Do("closeAll", "server"),
                 Do("exit", IF serveError = "none" THEN "clean" ELSE "panic")>>)
    /\ UNCHANGED <<holder, tableVars, connVars, serveVars, bounds>>

Exit(p) ==
    /\ At(p, "exit")
    /\ End(Arg(p))
    /\ UNCHANGED <<tableVars, connVars, serveError, notified, bounds>>

\* The process has ended, or nobody has anything to do but wait.
Idle == {"readIface", "accept", "awaitError", "readPeer", "wait"}

Finished ==
    /\ \A p \in Procs : todo[p] # <<>> => Head(todo[p]).do \in Idle
    /\ UNCHANGED vars

----------------------------------------------------------------------------
\* What a goroutine does when it can.
Step(p) ==
    /\ todo[p] # <<>>
    /\ \/ Unlock(p) \/ WriteReturns(p) \/ WriteWaits(p)
       \/ CloseAdapter(p) \/ CloseOther(p) \/ Close(p) \/ CloseError(p)
       \/ AddCloser(p) \/ Admit(p) \/ Serve(p) \/ WaitReturns(p) \/ Unlist(p)
       \/ ReadIfaceFails(p) \/ ReadPeerFails(p) \/ SetMTU(p) \/ LookUp(p)
       \/ AcceptFails(p) \/ CloseAll(p) \/ TestError(p) \/ SetError(p) \/ AwaitError(p)
       \/ Return(p) \/ Exit(p)

Outside ==
    \/ ReadIface \/ Reload \/ IfaceFails \/ Signal
    \/ \E c \in Conns :
          \/ Accept(c) \/ ReadPeer(c) \/ PingTimeout(c)
          \/ Stall(c) \/ StallEnds(c) \/ PeerLeaves(c) \/ Delete(c)

Next == (\E p \in Procs : Step(p)) \/ Outside \/ Finished

\* As long as some goroutine can go on, one does (there are no loops but those bounded by the
\* packets, so this is all of them in the end); and a peer that does not read does so again
\* or is given up by the operating system.
Fairness ==
    /\ WF_vars(\E p \in Procs : Step(p))
    /\ WF_vars(\E c \in Conns : StallEnds(c))

Spec == Init /\ [][Next]_vars /\ Fairness

----------------------------------------------------------------------------
(* Properties *)

WellFormed(i) ==
    CASE i.do \in {"readIface", "accept", "awaitError", "closeAll", "return", "setMTU"} ->
            i.arg = "server"
      [] i.do \in {"testError", "setError"} ->
            i.arg \in {"none", "main iface closed", "http: Server closed"}
      [] i.do = "closeOther" -> i.arg \in {"mainIface", "http"}
      [] i.do = "exit" -> i.arg \in {"clean", "panic"}
      [] i.do = "unlock" -> i.arg \in Locks
      [] OTHER -> i.arg \in Conns

\* The types; and a lock is held exactly by the goroutine that is going to release it: with
\* an "unlock", or at the end of a write.
TypeOK ==
    /\ DOMAIN todo = Procs
    /\ \A p \in Procs : \A i \in DOMAIN todo[p] : WellFormed(todo[p][i])
    /\ holder \in [Locks -> Procs \cup {Nobody}]
    /\ sockets \subseteq Conns /\ routes \subseteq Conns
    /\ \A i \in DOMAIN userSocks : userSocks[i] \in Conns
    /\ \A i \in DOMAIN closers : closers[i] \in Conns \cup {"mainIface", "http"}
    /\ closing \subseteq Conns
    /\ open \subseteq Conns \cup {"mainIface", "http"}
    /\ stalled \subseteq Conns \cap open
    /\ serveError \in {"nil", "none", "main iface closed", "http: Server closed"}
    /\ notified \in BOOLEAN
    /\ exit \in {"running", "clean", "panic"}
    /\ coming \subseteq Conns /\ \E setup \in Setups : events \subseteq setup.events
    /\ packets \in Nat /\ faults \in Nat
    /\ \A p \in {q \in Procs : todo[q] # <<>>} :
          LET releases == {todo[p][i].arg : i \in {j \in DOMAIN todo[p] : todo[p][j].do = "unlock"}}
          IN  \A l \in Locks : holder[l] = p <=>
                  \/ l \in releases
                  \/ holder[l] = p /\ l[1] = "writeLock" /\ Head(todo[p]) = Do("write", l[2])
    /\ \A l \in Locks : holder[l] = Nobody \/ todo[holder[l]] # <<>>

\* p waits for the lock.
Waiting(p, lock) == todo[p] # <<>> /\ Needs(lock, Head(todo[p])) /\ holder[lock] # p

Rank(lock) ==
    CASE lock = socketsLock -> 1 [] lock = closerLock -> 1
      [] lock[1] = "closeLock" -> 2 [] lock[1] = "writeLock" -> 3

\* The locks are taken in one order, by all goroutines and through all calls of Close,
\* CloseError and closeAll inside one another: whoever waits for a lock holds only locks of a
\* lower rank (Server.socketsLock, Server.closerLock, Socket.closeLock,
\* WebSocketAdapter.writeLock).
LockOrder ==
    \A p \in Procs : \A l, wanted \in Locks :
        (holder[l] = p /\ Waiting(p, wanted)) => Rank(l) < Rank(wanted)

\* No goroutines wait for each other in a circle: not everyone in a set of them waits for
\* a lock that another one of the set has (the same locks and calls).
NoCircle ==
    \A waiting \in SUBSET {p \in Procs : \E l \in Locks : Waiting(p, l)} :
        (\A p \in waiting : \E l \in Locks : Waiting(p, l) /\ holder[l] \in waiting)
            => waiting = {}

\* Whoever has socketsLock gives it back, although admission closes an old connection and
\* SetMTU writes to every client while they have it; a client that does not read delays
\* that until it is given up (serveSocket, Server.SetMTU).
SocketsLockComesFree ==
    holder[socketsLock] # Nobody ~> (holder[socketsLock] = Nobody \/ exit # "running")

\* Once one of the listeners or the interface has failed, or the server was told to stop,
\* the process ends (Server.Serve, setServeError, closeAll, Server.Close).
ServerStops ==
    (serveError # "nil" \/ todo[ofServer("signal")] # <<>>) ~> exit # "running"
=============================================================================
