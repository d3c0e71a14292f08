------------------------------ MODULE Keepalive ------------------------------
(***************************************************************************)
(* One connection and the goroutines that keep it alive, at both ends: the *)
(* pinger (installPingPongHandlers), the adapter's reader, which answers   *)
(* pings, and a goroutine that writes data.  Over a WebSocket they share   *)
(* the connection and its writeLock, which Close needs too; over           *)
(* WebTransport the stream has to be opened first, there is no lock, data  *)
(* does not use the stream, and Close cancels a write that waits.          *)
(*                                                                         *)
(* Time is discrete: a timer is the number of ticks left, 0 once it has    *)
(* fired and nobody has received from it, and Off when it is stopped.  The *)
(* pinger wakes up in the tick its timer fires; every other goroutine may  *)
(* be late by any number of ticks.  The module says go 1.25, so nothing is *)
(* received from a timer after its Stop.                                   *)
(***************************************************************************)
EXTENDS Integers, Sequences

CONSTANTS
    Settings,      \* what ping.interval and ping.timeout may be, in ticks
    Setups,        \* the cases to look at: an adapter, the settings of the two ends,
                   \* whether an end may stop or be closed from outside, and how often
                   \* the settings may change
    IdleInterval,  \* the interval while pings are disabled (10 seconds)
    WireSize       \* messages that fit between a writer and a peer that does not read

Ends == {"server", "client"}
Peer(e) == CHOOSE p \in Ends : p # e

ASSUME SettingsAssumption ==
    /\ Settings \subseteq [interval : Nat, timeout : Nat]
    /\ Setups \subseteq [kind : {"WebSocket", "WebTransport"}, ping : [Ends -> Settings],
                         faults : SUBSET {"stop", "close"}, reloads : Nat]
    /\ IdleInterval \in Nat \ {0} /\ WireSize \in Nat \ {0}
\* A time.Duration is bounded, so that one of the timeouts is the longest.
ASSUME LongestAssumption == \E s \in Settings : \A r \in Settings : r.timeout <= s.timeout

VARIABLES
    setup,     \* the case, which does not change
    ping,      \* pingInterval and pingTimeout of each end's socket
    pinger,    \* where the ping goroutine is
    sleep,     \* what is left of its time.After(pingInterval)
    timer,     \* pingTimeoutTimer
    reader,    \* where the adapter's Serve loop is
    writer,    \* where the goroutine that writes data is
    lock,      \* who holds the WebSocketAdapter's writeLock
    closing,   \* Socket.Close: not called, waiting for the adapter, done
    conn,      \* ends whose side of the connection is open
    wire,      \* what each end has written and its peer has not read
    gone,      \* ends that have stopped: a crash, a suspended host
    reloads,   \* changes of the settings so far
    answered,  \* history: whether a pong has arrived for the ping whose timeout runs:
               \* "no", "early" (before the timeout was set) or "yes"
    elapsed,   \* history: ticks since the last ping was written
    timedOut   \* history: ends that gave the peer up

pingVars == <<ping, pinger, sleep, timer>>
ioVars == <<reader, writer, lock, wire>>
connVars == <<setup, closing, conn, gone>>
history == <<answered, elapsed, timedOut>>
vars == <<pingVars, ioVars, connVars, reloads, history>>

Off == -1

\* The longest time a ping is given.
Longest == CHOOSE t \in {s.timeout : s \in Settings} :
               \A s \in Settings : s.timeout <= t

----------------------------------------------------------------------------
\* The ping goroutine's loop begins: it sleeps for the interval, or for 10 seconds
\* while pings are disabled.
Disabled(e) == ping[e].interval <= 0 \/ ping[e].timeout <= 0

Interval(e) == IF Disabled(e) THEN IdleInterval ELSE ping[e].interval

\* The stage says whether pings were enabled at the start of the loop.
Waiting == {"idling", "waiting"}

Init ==
    /\ setup \in Setups
    /\ ping = setup.ping
    /\ pinger = [e \in Ends |-> IF Disabled(e) THEN "idling" ELSE "waiting"]
    /\ sleep = [e \in Ends |-> Interval(e)]
    /\ timer = [e \in Ends |-> Off]
    /\ reader = [e \in Ends |-> IF setup.kind = "WebSocket" THEN "read" ELSE "opening"]
    /\ writer = [e \in Ends |-> "idle"]
    /\ lock = [e \in Ends |-> "free"]
    /\ closing = [e \in Ends |-> "no"]
    /\ conn = Ends
    /\ wire = [e \in Ends |-> <<>>]
    /\ gone = {}
    /\ reloads = 0
    /\ answered = [e \in Ends |-> "no"]
    /\ elapsed = [e \in Ends |-> 0]
    /\ timedOut = {}

\* Set(f, e, v): f with v for e.
Set(f, e, v) == [f EXCEPT ![e] = v]

\* A goroutine of the socket ends: closeDone calls Close, which does nothing if
\* another one has.
Ending(e) == closing' = Set(closing, e, IF closing[e] = "no" THEN "closing" ELSE closing[e])

----------------------------------------------------------------------------
(* Writing a message: under writeLock over a WebSocket *)

\* The lock is free, or the goroutine has it and is in the middle of its write.
MayWrite(e, stage) == stage = "write" \/ setup.kind = "WebTransport" \/ lock[e] = "free"

\* The message is taken and the lock given back ...
Sent(e, stage, message) ==
    /\ MayWrite(e, stage)
    /\ e \in conn
    /\ Len(wire[e]) < WireSize
    /\ wire' = Set(wire, e, Append(wire[e], message))
    /\ lock' = IF stage = "write" THEN Set(lock, e, "free") ELSE lock

\* ... or one of the two ends has closed the connection and the write fails ...
Refused(e, stage) ==
    /\ MayWrite(e, stage)
    /\ ~ (Ends \subseteq conn)
    /\ lock' = IF stage = "write" THEN Set(lock, e, "free") ELSE lock
    /\ UNCHANGED wire

\* ... or there is no room, and the write waits with the lock held.
Blocked(e, who, stage) ==
    /\ stage # "write"
    /\ MayWrite(e, stage)
    /\ Ends \subseteq conn
    /\ Len(wire[e]) = WireSize
    /\ lock' = IF setup.kind = "WebTransport" THEN lock ELSE Set(lock, e, who)
    /\ UNCHANGED wire

----------------------------------------------------------------------------
(* The pinger *)

\* The interval is over: the timeout of the ping before, if any, is stopped.
IntervalEnds(e) ==
    /\ e \notin gone
    /\ pinger[e] \in Waiting
    /\ sleep[e] = 0
    /\ timer' = Set(timer, e, Off)
    /\ elapsed' = Set(elapsed, e, 0)
    /\ IF pinger[e] = "waiting"
       THEN pinger' = Set(pinger, e, "lock") /\ UNCHANGED sleep
       ELSE /\ pinger' = Set(pinger, e, IF Disabled(e) THEN "idling" ELSE "waiting")
            /\ sleep' = Set(sleep, e, Interval(e))
    /\ UNCHANGED <<ping, ioVars, connVars, reloads, answered, timedOut>>

\* WebTransportAdapter.isReady.
IsReady(e) == setup.kind = "WebSocket" \/ reader[e] # "opening"

WritePingMessage(e) ==
    /\ e \notin gone
    /\ IsReady(e)
    /\ pinger[e] \in {"lock", "write"}
    /\ Sent(e, pinger[e], "ping")
    /\ pinger' = Set(pinger, e, "set")
    /\ answered' = Set(answered, e, "no")
    /\ elapsed' = Set(elapsed, e, 0)
    /\ UNCHANGED <<ping, sleep, timer, reader, writer, connVars, reloads, timedOut>>

PingWaits(e) ==
    /\ e \notin gone
    /\ IsReady(e)
    /\ pinger[e] = "lock"
    /\ Blocked(e, "pinger", pinger[e])
    /\ pinger' = Set(pinger, e, "write")
    /\ UNCHANGED <<ping, sleep, timer, reader, writer, connVars, reloads, history>>

PingFails(e) ==
    /\ e \notin gone
    /\ pinger[e] \in {"lock", "write"}
    /\ Refused(e, pinger[e]) \/ (~IsReady(e) /\ UNCHANGED <<lock, wire>>)
    /\ pinger' = Set(pinger, e, "ended")
    /\ Ending(e)
    /\ UNCHANGED <<ping, sleep, timer, reader, writer, setup, conn, gone, reloads, history>>

\* Mutant: the timeout is not set again.
TimeoutForgotten(e) ==
    /\ e \notin gone
    /\ pinger[e] = "set"
    /\ pinger' = Set(pinger, e, IF Disabled(e) THEN "idling" ELSE "waiting")
    /\ sleep' = Set(sleep, e, Interval(e))
    /\ UNCHANGED <<ping, timer, ioVars, connVars, reloads, history>>

\* The timeout is set, to what the setting is by now, and the loop begins again.
SetTimeout(e) ==
    /\ e \notin gone
    /\ pinger[e] = "set"
    /\ timer' = Set(timer, e, ping[e].timeout)
    /\ pinger' = Set(pinger, e, IF Disabled(e) THEN "idling" ELSE "waiting")
    /\ sleep' = Set(sleep, e, Interval(e))
    /\ UNCHANGED <<ping, ioVars, connVars, reloads, history>>

\* "Ping timeout".
PingTimeout(e) ==
    /\ e \notin gone
    /\ pinger[e] \in Waiting
    /\ timer[e] = 0
    /\ timer' = Set(timer, e, Off)
    /\ pinger' = Set(pinger, e, "ended")
    /\ sleep' = Set(sleep, e, 0)
    /\ timedOut' = timedOut \cup {e}
    /\ Ending(e)
    /\ UNCHANGED <<ping, ioVars, setup, conn, gone, reloads, answered, elapsed>>

\* closeChan is closed.
PingerStops(e) ==
    /\ e \notin gone
    /\ pinger[e] \in Waiting
    /\ closing[e] = "done"
    /\ pinger' = Set(pinger, e, "ended")
    /\ timer' = Set(timer, e, Off)
    /\ sleep' = Set(sleep, e, 0)
    /\ UNCHANGED <<ping, ioVars, connVars, reloads, history>>

----------------------------------------------------------------------------
(* The adapter's reader *)

\* Mutant: the pong does not stop the timeout.
PongIgnored(e) == UNCHANGED timer

\* The pong handler.
PongHandler(e) == timer' = Set(timer, e, Off)

\* The stream of a WebTransport session is opened, or accepted.
OpenStream(e) ==
    /\ e \in conn \ gone
    /\ reader[e] = "opening"
    /\ reader' = Set(reader, e, "read")
    /\ UNCHANGED <<pingVars, writer, lock, wire, connVars, reloads, history>>

\* Data and pongs are dealt with at once; a ping has to be answered.
Read(e) ==
    /\ e \in conn \ gone
    /\ reader[e] = "read"
    /\ wire[Peer(e)] # <<>>
    /\ wire' = Set(wire, Peer(e), Tail(wire[Peer(e)]))
    /\ LET message == Head(wire[Peer(e)]) IN
       /\ reader' = IF message = "ping" THEN Set(reader, e, "lock") ELSE reader
       /\ IF message = "pong"
          THEN /\ PongHandler(e)
               /\ answered' = IF pinger[e] = "set" THEN Set(answered, e, "early")
                              ELSE IF timer'[e] # Off THEN Set(answered, e, "yes")
                              ELSE answered
          ELSE UNCHANGED <<timer, answered>>
    /\ UNCHANGED <<ping, pinger, sleep, writer, lock, connVars, reloads,
                   elapsed, timedOut>>

\* Mutant: the lock is kept.
PongKeepsLock(e) ==
    /\ e \notin gone
    /\ reader[e] \in {"lock", "write"}
    /\ MayWrite(e, reader[e])
    /\ e \in conn
    /\ Len(wire[e]) < WireSize
    /\ wire' = Set(wire, e, Append(wire[e], "pong"))
    /\ lock' = Set(lock, e, "reader")
    /\ reader' = Set(reader, e, "read")
    /\ UNCHANGED <<pingVars, writer, connVars, reloads, history>>

writePongMessage(e) ==
    /\ e \notin gone
    /\ reader[e] \in {"lock", "write"}
    /\ Sent(e, reader[e], "pong")
    /\ reader' = Set(reader, e, "read")
    /\ UNCHANGED <<pingVars, writer, connVars, reloads, history>>

PongWaits(e) ==
    /\ e \notin gone
    /\ reader[e] = "lock"
    /\ Blocked(e, "reader", reader[e])
    /\ reader' = Set(reader, e, "write")
    /\ UNCHANGED <<pingVars, writer, connVars, reloads, history>>

PongFails(e) ==
    /\ e \notin gone
    /\ reader[e] \in {"lock", "write"}
    /\ Refused(e, reader[e])
    /\ reader' = Set(reader, e, "ended")
    /\ Ending(e)
    /\ UNCHANGED <<pingVars, writer, setup, conn, gone, reloads, history>>

\* The connection is closed here, or the peer has closed it and there is nothing
\* left to read.
ReaderEnds(e) ==
    /\ e \notin gone
    /\ reader[e] \in {"opening", "read"}
    /\ e \notin conn \/ (Peer(e) \notin conn /\ wire[Peer(e)] = <<>>)
    /\ reader' = Set(reader, e, "ended")
    /\ Ending(e)
    /\ UNCHANGED <<pingVars, writer, lock, wire, setup, conn, gone, reloads, history>>

----------------------------------------------------------------------------
(* A goroutine that writes data, and others *)

WriteDataMessage(e) ==
    /\ e \notin gone
    /\ setup.kind = "WebSocket"
    /\ Sent(e, writer[e], "data") \/ (writer[e] = "write" /\ Refused(e, writer[e]))
    /\ writer' = Set(writer, e, "idle")
    /\ UNCHANGED <<pingVars, reader, connVars, reloads, history>>

DataWaits(e) ==
    /\ e \notin gone
    /\ setup.kind = "WebSocket"
    /\ Blocked(e, "writer", writer[e])
    /\ writer' = Set(writer, e, "write")
    /\ UNCHANGED <<pingVars, reader, connVars, reloads, history>>

\* Somebody else closes the socket: the handler, the API, the user.
CloseCalled(e) ==
    /\ e \notin gone
    /\ "close" \in setup.faults
    /\ closing[e] = "no"
    /\ Ending(e)
    /\ UNCHANGED <<pingVars, ioVars, setup, conn, gone, reloads, history>>

\* WebSocketAdapter.Close waits for writeLock; then closeChan is closed.  What has not
\* been read by now is lost.
CloseAdapter(e) ==
    /\ e \notin gone
    /\ closing[e] = "closing"
    /\ setup.kind = "WebSocket" => lock[e] = "free"
    /\ conn' = conn \ {e}
    /\ closing' = Set(closing, e, "done")
    /\ wire' = Set(wire, Peer(e), <<>>)
    /\ UNCHANGED <<pingVars, reader, writer, lock, setup, gone, reloads, history>>

\* ConfigurePing, by a reload of either end's configuration.
ConfigurePing(e) ==
    /\ e \notin gone
    /\ closing[e] = "no"
    /\ reloads < setup.reloads
    /\ reloads' = reloads + 1
    /\ \E s \in Settings \ {ping[e]} : ping' = Set(ping, e, s)
    /\ UNCHANGED <<pinger, sleep, timer, ioVars, connVars, history>>

\* An end stops without a word.
Stops(e) ==
    /\ gone = {}
    /\ "stop" \in setup.faults
    /\ gone' = {e}
    /\ UNCHANGED <<pingVars, ioVars, setup, closing, conn, reloads, history>>

\* Time passes.
Left(t) == IF t > 0 THEN t - 1 ELSE t

Tick ==
    /\ \E e \in Ends \ gone : sleep[e] > 0 \/ timer[e] > 0
    /\ \A e \in Ends \ gone : pinger[e] \in Waiting => sleep[e] # 0 /\ timer[e] # 0
    /\ sleep' = [e \in Ends |-> IF pinger[e] \in Waiting THEN Left(sleep[e]) ELSE sleep[e]]
    /\ timer' = [e \in Ends |-> Left(timer[e])]
    /\ elapsed' = [e \in Ends |-> IF (timer[e] # Off \/ pinger[e] = "set") /\ elapsed[e] < Longest
                                  THEN elapsed[e] + 1 ELSE elapsed[e]]
    /\ UNCHANGED <<ping, pinger, ioVars, connVars, reloads, answered, timedOut>>

\* A message that waits because the peer does not read, and everybody who needs the
\* lock behind it.
BlockedWrite(e) ==
    /\ Len(wire[e]) = WireSize
    /\ "write" \in {pinger[e], reader[e], writer[e]}

\* Nothing is left to happen: the pingers have ended, or are behind such a message.
Finished ==
    /\ \A e \in Ends \ gone : pinger[e] = "ended" \/ BlockedWrite(e)
    /\ UNCHANGED vars

Pinger(e) ==
    \/ IntervalEnds(e) \/ WritePingMessage(e) \/ PingWaits(e) \/ PingFails(e)
    \/ SetTimeout(e) \/ PingTimeout(e) \/ PingerStops(e)

Reader(e) ==
    Read(e) \/ writePongMessage(e) \/ PongWaits(e) \/ PongFails(e) \/ ReaderEnds(e)

Next ==
    \/ \E e \in Ends :
          \/ Pinger(e) \/ OpenStream(e) \/ Reader(e) \/ WriteDataMessage(e) \/ DataWaits(e)
          \/ CloseCalled(e) \/ CloseAdapter(e) \/ ConfigurePing(e) \/ Stops(e)
    \/ Tick
    \/ Finished

\* Every goroutine goes on when it can, and a mutex is given to whoever waits for it,
\* however often others take it.
Fairness ==
    /\ WF_vars(Tick)
    /\ \A e \in Ends :
          /\ SF_vars(Pinger(e))
          /\ SF_vars(Reader(e))
          /\ WF_vars(writer[e] = "write" /\ WriteDataMessage(e))
          /\ SF_vars(CloseAdapter(e))

Spec == Init /\ [][Next]_vars /\ Fairness

----------------------------------------------------------------------------
(* Properties *)

\* The types; over a WebSocket the lock is held by the one goroutine whose write waits.
TypeOK ==
    /\ setup \in Setups
    /\ ping \in [Ends -> Settings]
    /\ pinger \in [Ends -> Waiting \cup {"lock", "write", "set", "ended"}]
    /\ sleep \in [Ends -> Nat]
    /\ timer \in [Ends -> Nat \cup {Off}]
    /\ reader \in [Ends -> {"opening", "read", "lock", "write", "ended"}]
    /\ writer \in [Ends -> {"idle", "write"}]
    /\ lock \in [Ends -> {"free", "pinger", "reader", "writer"}]
    /\ closing \in [Ends -> {"no", "closing", "done"}]
    /\ conn \subseteq Ends
    /\ \A e \in Ends : wire[e] \in Seq({"ping", "pong", "data"}) /\ Len(wire[e]) <= WireSize
    /\ gone \subseteq Ends
    /\ reloads \in 0..setup.reloads
    /\ answered \in [Ends -> {"no", "early", "yes"}]
    /\ elapsed \in [Ends -> Nat]
    /\ timedOut \subseteq Ends
    /\ \A e \in Ends :
          LET at == [pinger |-> pinger[e], reader |-> reader[e], writer |-> writer[e]] IN
          setup.kind = "WebSocket" =>
              \A who \in DOMAIN at : lock[e] = who <=> at[who] = "write"

\* Both ends wait for the other to read, and neither reads: each reader waits for the
\* lock that the blocked write of its own end holds, or has ended.
Standstill ==
    \A e \in Ends : BlockedWrite(e) /\ reader[e] # "read"

\* A connection is given up for a "Ping timeout" only if no pong has arrived since the
\* ping was written (installPingPongHandlers).
OnlySilenceTimesOut == \A e \in timedOut : answered[e] = "no"

\* A pong that arrives after the timeout has been set always prevents it, and a peer
\* has had the whole timeout to answer, unless a reload changed the setting between the
\* start of the loop and the Reset (installPingPongHandlers, ConfigurePing).
TimeoutExplained ==
    \A e \in timedOut :
        /\ answered[e] # "yes"
        /\ reloads = 0 => elapsed[e] >= ping[e].timeout

\* Pings with a timeout that ends before the next ping is due.
Detecting(e) == ~Disabled(e) /\ ping[e].timeout < ping[e].interval

\* An end gives up a peer that has stopped: once it has written a ping and no pong is on
\* its way, the timeout strikes and the connection gets closed, unless a write that the
\* peer never takes holds up Close (installPingPongHandlers, WebSocketAdapter.Close).
DeadPeerDetected ==
    \A e \in Ends :
        (/\ Peer(e) \in gone
         /\ pinger[e] = "set" /\ Detecting(e)
         /\ wire[Peer(e)] = <<>>)
            ~> (e \notin conn \/ (e \in timedOut /\ BlockedWrite(e)))

\* A data message is taken or refused in the end, unless one of the ends has stopped or
\* both are in a standstill (WebSocketAdapter: the lock around every write, the pong
\* written by the reader).
WritesReturn ==
    \A e \in Ends :
        writer[e] = "write" ~> (writer[e] = "idle" \/ gone # {} \/ Standstill)
=============================================================================
