------------------------------- MODULE Socket -------------------------------
(***************************************************************************)
(* The life of one Socket (shared/sockets): what the goroutine that serves *)
(* it does (Serve, WaitReady, the init command, Wait and the deferred      *)
(* Close), together with the goroutines it starts: the adapter's read      *)
(* loop, the ping timer, the reader of a managed interface, the welcome    *)
(* message, and the one CloseError starts.  Any of them, and the           *)
(* administrator, may close the socket at any time.                        *)
(*                                                                         *)
(* Close and CloseError run under closeLock.  close() is two steps here:   *)
(* what it does before it unregisters the socket (EnterClose,              *)
(* EnterCloseError) and the rest (FinishClose), so that the goroutines     *)
(* that do not take closeLock are seen to run in between.                  *)
(***************************************************************************)
EXTENDS Sequences, Naturals

CONSTANT MaxAdmin  \* bound on closes ordered from outside (API, admission, signal)

ASSUME AdminAssumption == MaxAdmin \in Nat

\* The sockets MakeSocket is called for: the server's, which own their interface
\* (ifaceManaged) or share it, and the client's.  A WebTransport adapter has to
\* open a stream before it is ready.
Kinds == {k \in [role : {"server", "client"}, managed : BOOLEAN, webTransport : BOOLEAN] :
             k.role = "client" => k.managed}

\* The goroutines counted by the socket's wait group, and all that may close it.
Counted == {"adapter", "ping", "reader"}
Callers == Counted \cup {"handler", "welcome", "errorer", "admin"}

VARIABLES
    kind,           \* which of these sockets this one is
    pc,             \* where each goroutine is
    lock,           \* the call in progress under closeLock, or Free
    isClosing, isReady, closeChanOpen, upEventSent,  \* fields of Socket
    versionKnown,   \* remoteProtocolVersion is determined
    adapter,        \* "open" or "closed"
    adapterReady,   \* WebTransportAdapter.isReady
    iface,          \* "none", "open" or "closed": a managed interface
    registered,     \* the packet handler knows the socket
    lateRegister,   \* history: it was registered when already closing
    events,         \* the up and down events pushed so far
    welcomed,       \* the version command has been written
    initSent,       \* the server's init command has been written
    adminCalls

flags == <<isClosing, isReady, closeChanOpen, upEventSent>>
world == <<adapter, iface, registered, lateRegister, events>>
rest == <<kind, adminCalls>>
talk == <<versionKnown, adapterReady, welcomed, initSent>>
vars == <<pc, lock, flags, world, talk, rest>>

Role == kind.role
Managed == kind.managed
WebTransport == kind.webTransport

Free == [by |-> "nobody", next |-> "gone", error |-> FALSE, first |-> FALSE]

Move(t, stage) == pc' = [pc EXCEPT ![t] = stage]

----------------------------------------------------------------------------
Init ==
    /\ kind \in Kinds
    /\ pc = [t \in Callers |->
                IF t = "handler" THEN (IF Role = "server" THEN "register" ELSE "start")
                ELSE IF t = "admin" THEN "run" ELSE "off"]
    /\ lock = Free
    /\ isClosing = FALSE
    /\ isReady = FALSE
    /\ closeChanOpen = TRUE
    /\ upEventSent = FALSE
    /\ versionKnown = FALSE
    /\ adapter = "open"
    /\ adapterReady = ~WebTransport
    /\ iface = IF Managed /\ Role = "server" THEN "open" ELSE "none"
    /\ registered = FALSE
    /\ lateRegister = FALSE
    /\ events = <<>>
    /\ welcomed = FALSE
    /\ initSent = FALSE
    /\ adminCalls = 0

----------------------------------------------------------------------------
(* Closing *)

\* close(): the managed interface is closed if there is one by now.
ClosedIface == IF iface = "open" THEN "closed" ELSE iface

\* Socket.Close by t, which then goes to next.
EnterClose(t, next) ==
    /\ lock = Free
    /\ IF isClosing
       THEN /\ Move(t, next)
            /\ UNCHANGED <<lock, isClosing, closeChanOpen, adapter, iface>>
       ELSE /\ lock' = [by |-> t, next |-> next, error |-> FALSE, first |-> TRUE]
            /\ isClosing' = TRUE
            /\ adapter' = "closed"
            /\ iface' = ClosedIface
            /\ closeChanOpen' = FALSE
            /\ UNCHANGED pc
    /\ UNCHANGED <<isReady, upEventSent, registered, lateRegister, events, talk, kind>>

\* Mutant: like Close, nothing happens if the socket is closing already.
EnterCloseErrorOnce(t, next) ==
    /\ lock = Free
    /\ IF isClosing
       THEN /\ Move(t, next)
            /\ UNCHANGED <<lock, isClosing, closeChanOpen, iface>>
       ELSE /\ lock' = [by |-> t, next |-> next, error |-> TRUE, first |-> TRUE]
            /\ isClosing' = TRUE
            /\ iface' = ClosedIface
            /\ closeChanOpen' = FALSE
            /\ UNCHANGED pc
    /\ UNCHANGED <<adapter, isReady, upEventSent, registered, lateRegister,
                   events, talk, kind>>

\* Socket.CloseError by t: close(false) runs again on a socket that is closing.
EnterCloseError(t, next) ==
    /\ lock = Free
    /\ lock' = [by |-> t, next |-> next, error |-> TRUE, first |-> ~isClosing]
    /\ isClosing' = TRUE
    /\ iface' = ClosedIface
    /\ closeChanOpen' = FALSE
    /\ UNCHANGED <<pc, adapter, isReady, upEventSent, registered, lateRegister,
                   events, talk, kind>>

\* The rest of close(): unregister, setReady (whose Broadcast wakes the handler
\* if it sleeps), the down event.  Then CloseError closes the adapter, or starts
\* the goroutine that will.
FinishClose ==
    /\ lock # Free
    /\ registered' = FALSE
    /\ isReady' = TRUE
    /\ upEventSent' = FALSE
    /\ events' = IF upEventSent THEN Append(events, "down") ELSE events
    /\ adapter' = IF lock.error /\ ~lock.first THEN "closed" ELSE adapter
    /\ pc' = [t \in Callers |->
                 IF t = lock.by THEN lock.next
                 ELSE IF t = "errorer" /\ lock.error /\ lock.first THEN "send"
                 ELSE IF t = "handler" /\ pc[t] = "asleep" THEN "waitReady"
                 ELSE pc[t]]
    /\ lock' = Free
    /\ UNCHANGED <<isClosing, closeChanOpen, iface, lateRegister, talk, rest>>

----------------------------------------------------------------------------
(* The serving goroutine *)

\* Mutant: a socket with an interface of its own is registered too.
RegisterAlways ==
    /\ pc["handler"] = "register"
    /\ registered' = TRUE
    /\ lateRegister' = isClosing
    /\ Move("handler", "start")
    /\ UNCHANGED <<lock, flags, adapter, iface, events, talk, rest>>

\* Serve: packetHandler.RegisterSocket (a server with a shared interface).
Register ==
    /\ pc["handler"] = "register"
    /\ registered' = ~Managed
    /\ lateRegister' = (~Managed /\ isClosing)
    /\ Move("handler", "start")
    /\ UNCHANGED <<lock, flags, adapter, iface, events, talk, rest>>

\* Serve: the ping timer and the adapter's read loop are started.
Start ==
    /\ pc["handler"] = "start"
    /\ pc' = [pc EXCEPT !["handler"] = "adapterReady", !["ping"] = "run",
                        !["adapter"] = IF WebTransport THEN "opening" ELSE "run"]
    /\ UNCHANGED <<lock, flags, world, talk, rest>>

\* adapter.WaitReady: the flag is read outside the condition's lock ...
CheckAdapterReady ==
    /\ pc["handler"] = "adapterReady"
    /\ Move("handler", IF adapterReady THEN "startReader" ELSE "adapterNotReady")
    /\ UNCHANGED <<lock, flags, world, talk, rest>>

\* ... and the wait begins later.
SleepAdapterReady ==
    /\ pc["handler"] = "adapterNotReady"
    /\ Move("handler", "adapterAsleep")
    /\ UNCHANGED <<lock, flags, world, talk, rest>>

\* Serve: the reader of a managed interface, if there is one, and the welcome.
StartReader ==
    /\ pc["handler"] = "startReader"
    /\ pc' = [pc EXCEPT !["handler"] = "upEvent", !["welcome"] = "send",
                        !["reader"] = IF iface # "none" THEN "run" ELSE @]
    /\ UNCHANGED <<lock, flags, world, talk, rest>>

\* Mutant: the up event does not look whether the socket has been closed.
UpEventAlways ==
    /\ pc["handler"] = "upEvent"
    /\ lock = Free
    /\ IF Role = "server"
       THEN upEventSent' = TRUE /\ events' = Append(events, "up")
       ELSE UNCHANGED <<upEventSent, events>>
    /\ Move("handler", IF Role = "server" THEN "waitReady" ELSE "wait")
    /\ UNCHANGED <<lock, isClosing, isReady, closeChanOpen, adapter, iface,
                   registered, lateRegister, talk, rest>>

\* Serve: the up event, under closeLock.  Only the server has an event pusher;
\* the client goes on to Wait.
UpEvent ==
    /\ pc["handler"] = "upEvent"
    /\ lock = Free
    /\ IF Role = "server" /\ closeChanOpen
       THEN upEventSent' = TRUE /\ events' = Append(events, "up")
       ELSE UNCHANGED <<upEventSent, events>>
    /\ Move("handler", IF Role = "server" THEN "waitReady" ELSE "wait")
    /\ UNCHANGED <<lock, isClosing, isReady, closeChanOpen, adapter, iface,
                   registered, lateRegister, talk, rest>>

\* WaitReady: isReady is read outside the condition's lock ...
CheckReady ==
    /\ pc["handler"] = "waitReady"
    /\ Move("handler", IF isReady THEN "init" ELSE "notReady")
    /\ UNCHANGED <<lock, flags, world, talk, rest>>

\* ... and the wait begins later.
Sleep ==
    /\ pc["handler"] = "notReady"
    /\ Move("handler", "asleep")
    /\ UNCHANGED <<lock, flags, world, talk, rest>>

\* The init command needs a known remote version and an open adapter.
SendInit ==
    /\ pc["handler"] = "init"
    /\ initSent' = (versionKnown /\ adapter = "open")
    /\ Move("handler", IF initSent' THEN "wait"
                       ELSE IF versionKnown THEN "initUnwritten" ELSE "initFailed")
    /\ UNCHANGED <<lock, flags, world, versionKnown, adapterReady, welcomed,
                   rest>>

\* A command that cannot be written closes the socket, and so does the handler.
InitUnwritten ==
    /\ pc["handler"] = "initUnwritten"
    /\ EnterCloseError("handler", "initFailed")
    /\ UNCHANGED adminCalls

InitFailed ==
    /\ pc["handler"] = "initFailed"
    /\ EnterCloseError("handler", "deferred")
    /\ UNCHANGED adminCalls

\* Wait: the wait group's counter is zero.
Wait ==
    /\ pc["handler"] = "wait"
    /\ \A t \in Counted : pc[t] \in {"off", "ended", "gone"}
    /\ Move("handler", "deferred")
    /\ UNCHANGED <<lock, flags, world, talk, rest>>

\* Mutant: no deferred Close.
DeferredCloseMissing ==
    /\ pc["handler"] = "deferred"
    /\ Move("handler", "cleanup")
    /\ UNCHANGED <<lock, flags, world, talk, rest>>

\* The deferred socket.Close (on the client, closeInternal's).
DeferredClose ==
    /\ pc["handler"] = "deferred"
    /\ EnterClose("handler", "cleanup")
    /\ UNCHANGED adminCalls

\* The deferred Close calls of the interface and of the adapter.
Cleanup ==
    /\ pc["handler"] = "cleanup"
    /\ iface' = ClosedIface
    /\ adapter' = "closed"
    /\ Move("handler", "done")
    /\ UNCHANGED <<lock, flags, registered, lateRegister, events, talk, rest>>

----------------------------------------------------------------------------
(* The adapter's goroutine, in which the command handlers run *)

\* WebTransport: the stream is opened or the attempt fails; setReady either way,
\* once, waking the handler if it sleeps.
OpenStream ==
    /\ pc["adapter"] = "opening"
    /\ adapterReady' = TRUE
    /\ \E stage \in IF adapter = "open" THEN {"run", "ended"} ELSE {"ended"} :
          pc' = [pc EXCEPT !["adapter"] = stage,
                           !["handler"] = IF @ = "adapterAsleep" THEN "adapterReady" ELSE @]
    /\ UNCHANGED <<lock, flags, world, versionKnown, welcomed, initSent, rest>>

\* The version command: remoteProtocolVersion, then setReady.
ReceiveVersion ==
    /\ pc["adapter"] = "run"
    /\ adapter = "open"
    /\ ~versionKnown
    /\ versionKnown' = TRUE
    /\ isReady' = TRUE
    /\ pc' = [pc EXCEPT !["adapter"] = "reply",
                        !["handler"] = IF @ = "asleep" THEN "waitReady" ELSE @]
    /\ UNCHANGED <<lock, isClosing, closeChanOpen, upEventSent, world,
                   adapterReady, welcomed, initSent, rest>>

\* The client receives the init command, which the server sends once it has the
\* client's version, and creates an interface ...
ReceiveInit ==
    /\ Role = "client"
    /\ pc["adapter"] = "run"
    /\ adapter = "open"
    /\ welcomed
    /\ iface = "none"
    /\ Move("adapter", "initializing")
    /\ UNCHANGED <<lock, flags, world, talk, rest>>

\* ... and gives it to the socket, whatever has become of the socket meanwhile:
\* SetInterface starts its reader.
SetInterface ==
    /\ pc["adapter"] = "initializing"
    /\ iface' = "open"
    /\ pc' = [pc EXCEPT !["adapter"] = "reply", !["reader"] = "run"]
    /\ UNCHANGED <<lock, flags, adapter, registered, lateRegister, events, talk,
                   rest>>

\* The reply to a command is written, or cannot be.
Reply ==
    /\ pc["adapter"] = "reply"
    /\ Move("adapter", IF adapter = "open" THEN "run" ELSE "replyFailed")
    /\ UNCHANGED <<lock, flags, world, talk, rest>>

ReplyFailed ==
    /\ pc["adapter"] = "replyFailed"
    /\ EnterCloseError("adapter", "run")
    /\ UNCHANGED adminCalls

\* The read loop ends when the adapter is closed, or by itself on a bad message;
\* closeDone: wg.Done, then Close.
AdapterEnds ==
    /\ pc["adapter"] = "run"
    /\ adapter = "closed"
    /\ Move("adapter", "ended")
    /\ UNCHANGED <<lock, flags, world, talk, rest>>

AdapterFails ==
    /\ pc["adapter"] = "run"
    /\ adapter = "open"
    /\ Move("adapter", "ended")
    /\ UNCHANGED <<lock, flags, world, talk, rest>>

\* closeDone of a counted goroutine.
CloseDone(t) ==
    /\ pc[t] = "ended"
    /\ EnterClose(t, "gone")
    /\ UNCHANGED adminCalls

----------------------------------------------------------------------------
(* The other goroutines *)

\* The ping timer ends when closeChan is closed ...
PingStops ==
    /\ pc["ping"] = "run"
    /\ ~closeChanOpen
    /\ Move("ping", "ended")
    /\ UNCHANGED <<lock, flags, world, talk, rest>>

\* ... or on a ping timeout or a ping that cannot be written.
PingFails ==
    /\ pc["ping"] = "run"
    /\ closeChanOpen
    /\ Move("ping", "ended")
    /\ UNCHANGED <<lock, flags, world, talk, rest>>

\* A read from the managed interface fails once it is closed.
ReaderStops ==
    /\ pc["reader"] = "run"
    /\ iface = "closed"
    /\ Move("reader", "ended")
    /\ UNCHANGED <<lock, flags, world, talk, rest>>

\* A packet read from it cannot be written to the adapter.  Packets are dropped
\* without an error while the socket is not ready or is closing.
ReaderFails ==
    /\ pc["reader"] = "run"
    /\ iface = "open"
    /\ versionKnown /\ isReady /\ ~isClosing
    /\ adapter = "closed"
    /\ Move("reader", "ended")
    /\ UNCHANGED <<lock, flags, world, talk, rest>>

\* sendDefaultWelcome writes the version command, or cannot.
SendWelcome ==
    /\ pc["welcome"] = "send"
    /\ welcomed' = (adapter = "open")
    /\ Move("welcome", IF adapter = "open" THEN "gone" ELSE "failed")
    /\ UNCHANGED <<lock, flags, world, versionKnown, adapterReady, initSent,
                   rest>>

WelcomeFailed ==
    /\ pc["welcome"] = "failed"
    /\ EnterCloseError("welcome", "gone")
    /\ UNCHANGED adminCalls

\* CloseError's goroutine sends the error (only to a peer of known version); if
\* that write fails it enters CloseError itself.
SendError ==
    /\ pc["errorer"] = "send"
    /\ Move("errorer", IF versionKnown /\ adapter = "closed" THEN "failed" ELSE "close")
    /\ UNCHANGED <<lock, flags, world, talk, rest>>

ErrorFailed ==
    /\ pc["errorer"] = "failed"
    /\ EnterCloseError("errorer", "close")
    /\ UNCHANGED adminCalls

\* Mutant: the adapter is left open.
ErrorLeavesOpen ==
    /\ pc["errorer"] = "close"
    /\ Move("errorer", "gone")
    /\ UNCHANGED <<lock, flags, world, talk, rest>>

\* ... then it closes the adapter.
ErrorCloses ==
    /\ pc["errorer"] = "close"
    /\ adapter' = "closed"
    /\ Move("errorer", "gone")
    /\ UNCHANGED <<lock, flags, iface, registered, lateRegister, events, talk,
                   rest>>

----------------------------------------------------------------------------
(* The environment *)

PeerDisconnects ==
    /\ adapter = "open"
    /\ adapter' = "closed"
    /\ UNCHANGED <<pc, lock, flags, iface, registered, lateRegister, events, talk,
                   rest>>

\* An API DELETE, or a client told to stop: Close.
AdminCloses ==
    /\ pc["admin"] = "run"
    /\ adminCalls < MaxAdmin
    /\ adminCalls' = adminCalls + 1
    /\ EnterClose("admin", "run")

\* Admission of a newer connection, or an address conflict: CloseError.
AdminKills ==
    /\ Role = "server"
    /\ pc["admin"] = "run"
    /\ adminCalls < MaxAdmin
    /\ adminCalls' = adminCalls + 1
    /\ EnterCloseError("admin", "run")

----------------------------------------------------------------------------
HandlerStep ==
    \/ Register \/ Start \/ CheckAdapterReady \/ SleepAdapterReady \/ StartReader
    \/ UpEvent \/ CheckReady \/ Sleep \/ SendInit \/ InitUnwritten
    \/ InitFailed \/ Wait
    \/ DeferredClose \/ Cleanup

AdapterStep ==
    \/ OpenStream \/ SetInterface \/ Reply \/ ReplyFailed \/ AdapterEnds
    \/ CloseDone("adapter")

PingStep == PingStops \/ CloseDone("ping")
ReaderStep == ReaderStops \/ CloseDone("reader")
WelcomeStep == SendWelcome \/ WelcomeFailed
ErrorerStep == SendError \/ ErrorFailed \/ ErrorCloses

\* What no goroutine of this socket decides.
Environment ==
    \/ ReceiveVersion \/ ReceiveInit \/ AdapterFails \/ PingFails \/ ReaderFails
    \/ PeerDisconnects \/ AdminCloses \/ AdminKills

\* The socket has been served and nothing of it runs any more.
Finished ==
    /\ pc["handler"] = "done"
    /\ \A t \in Callers \ {"handler", "admin"} : pc[t] \in {"off", "gone"}
    /\ UNCHANGED vars

Next ==
    \/ HandlerStep \/ AdapterStep \/ PingStep \/ ReaderStep \/ WelcomeStep
    \/ ErrorerStep \/ FinishClose \/ Environment
    \/ Finished

\* The Go scheduler runs every goroutine that can run: weak fairness for each of
\* them and for the holder of closeLock.  closeLock is taken a bounded number of
\* times, so whoever waits for it gets it.  Nothing is assumed of the environment.
Fairness ==
    /\ WF_vars(HandlerStep) /\ WF_vars(AdapterStep) /\ WF_vars(PingStep)
    /\ WF_vars(ReaderStep) /\ WF_vars(WelcomeStep) /\ WF_vars(ErrorerStep)
    /\ WF_vars(FinishClose)

Spec == Init /\ [][Next]_vars /\ Fairness

----------------------------------------------------------------------------
(* Properties *)

Stages == {"register", "start", "adapterReady", "adapterNotReady", "adapterAsleep",
           "startReader", "upEvent", "waitReady", "notReady", "asleep", "init",
           "initUnwritten", "initFailed", "wait", "deferred", "cleanup", "done",
           "off", "opening", "run", "reply", "replyFailed", "initializing",
           "send", "failed", "close", "ended", "gone"}

\* The types.  Only a socket that shares its interface is registered, and only one
\* that does not has an interface to close.
TypeOK ==
    /\ kind \in Kinds
    /\ pc \in [Callers -> Stages]
    /\ lock \in [by : Callers \cup {"nobody"}, next : Stages,
                 error : BOOLEAN, first : BOOLEAN]
    /\ isClosing \in BOOLEAN /\ isReady \in BOOLEAN
    /\ closeChanOpen \in BOOLEAN /\ upEventSent \in BOOLEAN
    /\ versionKnown \in BOOLEAN
    /\ adapter \in {"open", "closed"}
    /\ adapterReady \in BOOLEAN
    /\ iface \in IF Managed THEN {"none", "open", "closed"} ELSE {"none"}
    /\ registered \in (IF Managed THEN {FALSE} ELSE BOOLEAN) /\ lateRegister \in BOOLEAN
    /\ events \in Seq({"up", "down"})
    /\ welcomed \in BOOLEAN /\ initSent \in BOOLEAN
    /\ adminCalls \in 0..MaxAdmin

\* The up script runs at most once and the down script runs exactly once after it,
\* never without it, whoever closes the socket and when (Serve's up event and
\* close's down event, both under closeLock); when the handler is done no up is
\* left without its down.
EventsPaired ==
    /\ events \in {<<>>, <<"up">>, <<"up", "down">>}
    /\ pc["handler"] = "done" => events # <<"up">>

\* When the serving goroutine is done, close() has been completed, by whoever
\* ran it: the adapter and a managed interface are closed, and the packet handler
\* has forgotten the socket, unless Serve registered it after it was closed.
ClosedWhenDone ==
    pc["handler"] = "done" =>
        /\ isClosing
        /\ adapter = "closed"
        /\ iface # "open"
        /\ registered => lateRegister

\* Once the socket is closing, all its counted goroutines end: also the reader of
\* an interface the client's init handler sets after close() has looked for one.
GoroutinesEnd ==
    isClosing ~> (\A t \in Counted : pc[t] \in {"off", "gone"})

\* Once the socket is closing, its handler finishes, so that the server gets the
\* slot back, unless it sleeps for ever in one of the two WaitReady.
HandlerEnds ==
    isClosing ~> \/ pc["handler"] = "done"
                 \/ [](pc["handler"] \in {"asleep", "adapterAsleep"})

\* Once the peer's version has arrived, the server sends the init command, the
\* last of the commands that establish the tunnel, or the connection closes.
InitAfterVersion ==
    (Role = "server" /\ versionKnown) ~> (initSent \/ isClosing)
=============================================================================
