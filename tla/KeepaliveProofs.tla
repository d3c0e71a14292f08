--------------------------- MODULE KeepaliveProofs ---------------------------
(***************************************************************************)
(* Proofs about Keepalive: for any settings, intervals and room on the     *)
(* wire, the lock of a WebSocket is held by the one goroutine whose write  *)
(* waits, and a ping timeout strikes only a peer that has had its time.    *)
(***************************************************************************)
EXTENDS Keepalive, TLAPS

----------------------------------------------------------------------------
(* The inductive invariant *)

\* The settings of both ends are settings, and there are no more reloads than allowed.
SettingsTyped ==
    /\ setup \in Setups
    /\ ping \in [Ends -> Settings]
    /\ reloads \in 0..setup.reloads

PingerTyped ==
    /\ pinger \in [Ends -> Waiting \cup {"lock", "write", "set", "ended"}]
    /\ sleep \in [Ends -> Nat]
    /\ timer \in [Ends -> Nat \cup {Off}]
    /\ elapsed \in [Ends -> Nat]
    /\ answered \in [Ends -> {"no", "early", "yes"}]
    /\ timedOut \subseteq Ends

WriterTyped ==
    /\ reader \in [Ends -> {"opening", "read", "lock", "write", "ended"}]
    /\ writer \in [Ends -> {"idle", "write"}]
    /\ lock \in [Ends -> {"free", "pinger", "reader", "writer"}]
    /\ closing \in [Ends -> {"no", "closing", "done"}]
    /\ conn \subseteq Ends
    /\ gone \subseteq Ends

WireTyped ==
    /\ wire \in [Ends -> Seq({"ping", "pong", "data"})]
    /\ \A e \in Ends : Len(wire[e]) <= WireSize

Typed == SettingsTyped /\ PingerTyped /\ WriterTyped /\ WireTyped

\* Over a WebSocket the lock is held by the one goroutine whose write waits.
LockHeld ==
    setup.kind = "WebSocket" =>
        \A e \in Ends :
            /\ lock[e] = "pinger" <=> pinger[e] = "write"
            /\ lock[e] = "reader" <=> reader[e] = "write"
            /\ lock[e] = "writer" <=> writer[e] = "write"

\* A timeout runs only while the pinger waits; what is left of it and what has passed
\* since the ping add up to the whole of it, unless the settings have changed; and a
\* pinger that has given the peer up has ended.
TimerInv ==
    \A e \in Ends :
        /\ pinger[e] \notin Waiting => timer[e] = Off
        /\ reloads = 0 /\ timer[e] # Off => elapsed[e] + timer[e] >= ping[e].timeout
        /\ e \in timedOut => pinger[e] = "ended"
        /\ e \in timedOut /\ reloads = 0 => elapsed[e] >= ping[e].timeout
        /\ answered[e] # "yes"

----------------------------------------------------------------------------
(* The two ends, and the longest timeout *)

\* The peer of one end is the other.
LEMMA PeerIsTheOther ==
    ASSUME NEW e \in Ends
    PROVE  Peer(e) \in Ends /\ Peer(e) # e
<1>1. \E p \in Ends : p # e
  BY DEF Ends
<1> QED BY <1>1 DEF Peer

\* No ping is given more than the longest time, and that is a number.
LEMMA LongestIsLongest == Longest \in Nat /\ \A s \in Settings : s.timeout <= Longest
<1> DEFINE times == {s.timeout : s \in Settings}
<1>1. \A s \in Settings : s.timeout \in Nat
  BY SettingsAssumption
<1>2. \E t \in times : \A s \in Settings : s.timeout <= t
  BY LongestAssumption
<1>3. Longest \in times /\ \A s \in Settings : s.timeout <= Longest
  BY <1>2 DEF Longest
<1> QED BY <1>1, <1>3

\* A setting has an interval and a timeout, both numbers; a case has settings for both
\* ends and a number of reloads.
LEMMA SettingsAreNumbers ==
    /\ \A s \in Settings : s.interval \in Nat /\ s.timeout \in Nat
    /\ \A s \in Setups : s.ping \in [Ends -> Settings] /\ s.reloads \in Nat
    /\ \A s \in Setups : s.kind \in {"WebSocket", "WebTransport"}
    /\ IdleInterval \in Nat /\ WireSize \in Nat \ {0}
BY SettingsAssumption

\* The pinger sleeps for a number of ticks.
LEMMA IntervalIsANumber ==
    ASSUME SettingsTyped, NEW e \in Ends
    PROVE  Interval(e) \in Nat
BY SettingsAreNumbers DEF SettingsTyped, Interval

----------------------------------------------------------------------------
(* Typing *)

\* A reload gives an end another of the settings, and is counted.
LEMMA SettingsStep == SettingsTyped /\ [Next]_vars => SettingsTyped'
<1> SUFFICES ASSUME SettingsTyped, [Next]_vars PROVE SettingsTyped'
  OBVIOUS
<1> USE DEF SettingsTyped, pingVars, ioVars, connVars, history, Set
<1>1. ASSUME NEW e \in Ends, ConfigurePing(e) PROVE SettingsTyped'
  BY <1>1, SettingsAreNumbers DEF ConfigurePing
<1>2. ASSUME UNCHANGED <<setup, ping, reloads>> PROVE SettingsTyped'
  BY <1>2
<1>3. ASSUME NEW e \in Ends,
             \/ IntervalEnds(e) \/ WritePingMessage(e) \/ PingWaits(e)
             \/ PingFails(e) \/ SetTimeout(e) \/ PingTimeout(e) \/ PingerStops(e)
             \/ Read(e) \/ writePongMessage(e) \/ PongWaits(e) \/ PongFails(e)
             \/ ReaderEnds(e) \/ WriteDataMessage(e) \/ DataWaits(e)
             \/ CloseCalled(e) \/ CloseAdapter(e) \/ Stops(e) \/ OpenStream(e)
      PROVE  UNCHANGED <<setup, ping, reloads>>
  BY <1>3
     DEF IntervalEnds, WritePingMessage, Sent, PingWaits, Blocked, PingFails, Refused,
         Ending, SetTimeout, PingTimeout, PingerStops, Read, PongHandler,
         writePongMessage, PongWaits, PongFails, ReaderEnds, WriteDataMessage,
         DataWaits, CloseCalled, CloseAdapter, Stops, OpenStream
<1>4. CASE Tick \/ Finished \/ UNCHANGED vars
  BY <1>4, <1>2 DEF Tick, Finished, vars
<1> QED
  BY <1>1, <1>2, <1>3, <1>4 DEF Next, Pinger, Reader

\* The pinger's stages and timers keep their types.
LEMMA PingerStep == SettingsTyped /\ PingerTyped /\ [Next]_vars => PingerTyped'
<1> SUFFICES ASSUME SettingsTyped, PingerTyped, [Next]_vars PROVE PingerTyped'
  OBVIOUS
<1> USE DEF PingerTyped, Waiting, Off, pingVars, ioVars, connVars, history, Set
<1>1. ASSUME NEW e \in Ends, IntervalEnds(e) PROVE PingerTyped'
  BY <1>1, IntervalIsANumber DEF IntervalEnds
<1>2. ASSUME NEW e \in Ends, WritePingMessage(e) PROVE PingerTyped'
  BY <1>2 DEF WritePingMessage, Sent
<1>3. ASSUME NEW e \in Ends, PingWaits(e) PROVE PingerTyped'
  BY <1>3 DEF PingWaits, Blocked
<1>4. ASSUME NEW e \in Ends, PingFails(e) PROVE PingerTyped'
  BY <1>4 DEF PingFails, Refused, Ending
<1>5. ASSUME NEW e \in Ends, SetTimeout(e) PROVE PingerTyped'
  BY <1>5, SettingsAreNumbers, IntervalIsANumber DEF SetTimeout, SettingsTyped
<1>6. ASSUME NEW e \in Ends, PingTimeout(e) PROVE PingerTyped'
  BY <1>6 DEF PingTimeout, Ending
<1>7. ASSUME NEW e \in Ends, PingerStops(e) PROVE PingerTyped'
  BY <1>7 DEF PingerStops
<1>8. ASSUME NEW e \in Ends, Read(e) PROVE PingerTyped'
  BY <1>8 DEF Read, PongHandler
<1>9. CASE Tick
  BY <1>9, LongestIsLongest DEF Tick, Left
<1>10. ASSUME UNCHANGED <<pinger, sleep, timer, elapsed, answered, timedOut>>
      PROVE PingerTyped'
  BY <1>10
<1>11. ASSUME NEW e \in Ends,
             \/ writePongMessage(e) \/ PongWaits(e) \/ PongFails(e) \/ ReaderEnds(e)
             \/ WriteDataMessage(e) \/ DataWaits(e) \/ CloseCalled(e)
             \/ CloseAdapter(e) \/ ConfigurePing(e) \/ Stops(e) \/ OpenStream(e)
      PROVE  UNCHANGED <<pinger, sleep, timer, elapsed, answered, timedOut>>
  BY <1>11
     DEF writePongMessage, Sent, PongWaits, Blocked, PongFails, Refused, Ending,
         ReaderEnds, WriteDataMessage, DataWaits, CloseCalled, CloseAdapter,
         ConfigurePing, Stops, OpenStream
<1>12. CASE Finished \/ UNCHANGED vars
  BY <1>12, <1>10 DEF Finished, vars
<1> QED
  BY <1>1, <1>2, <1>3, <1>4, <1>5, <1>6, <1>7, <1>8, <1>9, <1>10, <1>11, <1>12
     DEF Next, Pinger, Reader

\* Readers, writers, the lock and the connection keep their types.
LEMMA WriterStep == WriterTyped /\ [Next]_vars => WriterTyped'
<1> SUFFICES ASSUME WriterTyped, [Next]_vars PROVE WriterTyped'
  OBVIOUS
<1> USE DEF WriterTyped, pingVars, ioVars, connVars, history, Set
<1>1. ASSUME NEW e \in Ends, WritePingMessage(e) PROVE WriterTyped'
  BY <1>1 DEF WritePingMessage, Sent
<1>2. ASSUME NEW e \in Ends, PingWaits(e) PROVE WriterTyped'
  BY <1>2 DEF PingWaits, Blocked
<1>3. ASSUME NEW e \in Ends, PingFails(e) PROVE WriterTyped'
  BY <1>3 DEF PingFails, Refused, Ending
<1>4. ASSUME NEW e \in Ends, PingTimeout(e) PROVE WriterTyped'
  BY <1>4 DEF PingTimeout, Ending
<1>5. ASSUME NEW e \in Ends, Read(e) PROVE WriterTyped'
  BY <1>5 DEF Read, PongHandler
<1>6. ASSUME NEW e \in Ends, writePongMessage(e) PROVE WriterTyped'
  BY <1>6 DEF writePongMessage, Sent
<1>7. ASSUME NEW e \in Ends, PongWaits(e) PROVE WriterTyped'
  BY <1>7 DEF PongWaits, Blocked
<1>8. ASSUME NEW e \in Ends, PongFails(e) PROVE WriterTyped'
  BY <1>8 DEF PongFails, Refused, Ending
<1>9. ASSUME NEW e \in Ends, ReaderEnds(e) PROVE WriterTyped'
  BY <1>9 DEF ReaderEnds, Ending
<1>10. ASSUME NEW e \in Ends, WriteDataMessage(e) PROVE WriterTyped'
  BY <1>10 DEF WriteDataMessage, Sent, Refused
<1>11. ASSUME NEW e \in Ends, DataWaits(e) PROVE WriterTyped'
  BY <1>11 DEF DataWaits, Blocked
<1>12. ASSUME NEW e \in Ends, CloseCalled(e) PROVE WriterTyped'
  BY <1>12 DEF CloseCalled, Ending
<1>13. ASSUME NEW e \in Ends, CloseAdapter(e) PROVE WriterTyped'
  BY <1>13 DEF CloseAdapter
<1>14. ASSUME NEW e \in Ends, Stops(e) PROVE WriterTyped'
  BY <1>14 DEF Stops
<1>18. ASSUME NEW e \in Ends, OpenStream(e) PROVE WriterTyped'
  BY <1>18 DEF OpenStream
<1>15. ASSUME UNCHANGED <<reader, writer, lock, closing, conn, gone>> PROVE WriterTyped'
  BY <1>15
<1>16. ASSUME NEW e \in Ends,
             IntervalEnds(e) \/ SetTimeout(e) \/ PingerStops(e) \/ ConfigurePing(e)
      PROVE  UNCHANGED <<reader, writer, lock, closing, conn, gone>>
  BY <1>16 DEF IntervalEnds, SetTimeout, PingerStops, ConfigurePing
<1>17. CASE Tick \/ Finished \/ UNCHANGED vars
  BY <1>17, <1>15 DEF Tick, Finished, vars
<1> QED
  BY <1>1, <1>2, <1>3, <1>4, <1>5, <1>6, <1>7, <1>8, <1>9, <1>10, <1>11, <1>12, <1>13,
     <1>14, <1>15, <1>16, <1>17, <1>18
     DEF Next, Pinger, Reader

\* A message is written only where there is room ...
LEMMA AppendKeepsRoom ==
    ASSUME NEW e \in Ends, NEW m \in {"ping", "pong", "data"}, WireTyped,
           Len(wire[e]) < WireSize, wire' = Set(wire, e, Append(wire[e], m))
    PROVE  WireTyped'
<1>1. /\ Append(wire[e], m) \in Seq({"ping", "pong", "data"})
      /\ Len(Append(wire[e], m)) = Len(wire[e]) + 1
  BY DEF WireTyped
<1>2. Len(wire[e]) \in Nat
  BY DEF WireTyped
<1>3. Len(wire[e]) + 1 <= WireSize
  BY <1>2, SettingsAreNumbers
<1> QED BY <1>1, <1>3 DEF WireTyped, Set

\* ... and reading makes room.
LEMMA TailKeepsRoom ==
    ASSUME NEW e \in Ends, WireTyped, wire[e] # <<>>, wire' = Set(wire, e, Tail(wire[e]))
    PROVE  WireTyped'
<1>1. /\ Tail(wire[e]) \in Seq({"ping", "pong", "data"})
      /\ Len(Tail(wire[e])) = Len(wire[e]) - 1
  BY DEF WireTyped
<1>2. Len(wire[e]) \in Nat /\ Len(wire[e]) <= WireSize
  BY DEF WireTyped
<1>3. Len(wire[e]) - 1 <= WireSize
  BY <1>2, SettingsAreNumbers
<1> QED BY <1>1, <1>3 DEF WireTyped, Set

\* There is never more on the wire than fits.
LEMMA WireStep == WireTyped /\ [Next]_vars => WireTyped'
<1> SUFFICES ASSUME WireTyped, [Next]_vars PROVE WireTyped'
  OBVIOUS
<1> USE DEF WireTyped, pingVars, ioVars, connVars, history, Set
<1>1. ASSUME NEW e \in Ends, WritePingMessage(e) PROVE WireTyped'
  BY <1>1, AppendKeepsRoom DEF WritePingMessage, Sent
<1>2. ASSUME NEW e \in Ends, Read(e) PROVE WireTyped'
  BY <1>2, PeerIsTheOther, TailKeepsRoom DEF Read, PongHandler
<1>3. ASSUME NEW e \in Ends, writePongMessage(e) PROVE WireTyped'
  BY <1>3, AppendKeepsRoom DEF writePongMessage, Sent
<1>4. ASSUME NEW e \in Ends, WriteDataMessage(e) PROVE WireTyped'
  BY <1>4, AppendKeepsRoom DEF WriteDataMessage, Sent, Refused
<1>5. ASSUME NEW e \in Ends, CloseAdapter(e) PROVE WireTyped'
  BY <1>5, PeerIsTheOther, SettingsAreNumbers DEF CloseAdapter
<1>6. ASSUME UNCHANGED <<wire>> PROVE WireTyped'
  BY <1>6
<1>7. ASSUME NEW e \in Ends,
             \/ IntervalEnds(e) \/ PingWaits(e) \/ PingFails(e) \/ SetTimeout(e)
             \/ PingTimeout(e) \/ PingerStops(e) \/ PongWaits(e) \/ PongFails(e)
             \/ ReaderEnds(e) \/ DataWaits(e) \/ CloseCalled(e) \/ ConfigurePing(e)
             \/ Stops(e) \/ OpenStream(e)
      PROVE  UNCHANGED <<wire>>
  BY <1>7
     DEF IntervalEnds, PingWaits, Blocked, PingFails, Refused, Ending, SetTimeout,
         PingTimeout, PingerStops, PongWaits, PongFails, ReaderEnds, DataWaits,
         CloseCalled, ConfigurePing, Stops, OpenStream
<1>8. CASE Tick \/ Finished \/ UNCHANGED vars
  BY <1>8, <1>6 DEF Tick, Finished, vars
<1> QED
  BY <1>1, <1>2, <1>3, <1>4, <1>5, <1>6, <1>7, <1>8 DEF Next, Pinger, Reader

\* All of the variables have their types at the start ...
LEMMA TypedInit == Init => Typed
<1> SUFFICES ASSUME Init PROVE Typed
  OBVIOUS
<1>1. SettingsTyped
  BY SettingsAreNumbers DEF Init, SettingsTyped
<1>2. PingerTyped
  BY <1>1, IntervalIsANumber DEF Init, PingerTyped, Waiting, Off
<1>3. WriterTyped
  BY DEF Init, WriterTyped
<1>4. WireTyped
  BY SettingsAreNumbers DEF Init, WireTyped
<1> QED BY <1>1, <1>2, <1>3, <1>4 DEF Typed

\* ... and keep them.
LEMMA TypedNext == Typed /\ [Next]_vars => Typed'
BY SettingsStep, PingerStep, WriterStep, WireStep DEF Typed

----------------------------------------------------------------------------
(* The lock *)

\* No lock is held at the start.
LEMMA LockInit == Init => LockHeld
BY DEF Init, LockHeld, Waiting

\* The lock is taken by a write that has to wait, and given back with it.
LEMMA LockNext == Typed /\ LockHeld /\ [Next]_vars => LockHeld'
<1> SUFFICES ASSUME Typed, LockHeld, [Next]_vars PROVE LockHeld'
  OBVIOUS
<1> USE DEF LockHeld, Typed, SettingsTyped, PingerTyped, WriterTyped, MayWrite, Waiting,
            pingVars, ioVars, connVars, history, Set
<1>1. ASSUME NEW e \in Ends, IntervalEnds(e) PROVE LockHeld'
  BY <1>1 DEF IntervalEnds
<1>2. ASSUME NEW e \in Ends, WritePingMessage(e) PROVE LockHeld'
  BY <1>2 DEF WritePingMessage, Sent
<1>3. ASSUME NEW e \in Ends, PingWaits(e) PROVE LockHeld'
  BY <1>3 DEF PingWaits, Blocked
<1>4. ASSUME NEW e \in Ends, PingFails(e) PROVE LockHeld'
  BY <1>4 DEF PingFails, Refused, Ending, IsReady
<1>5. ASSUME NEW e \in Ends, SetTimeout(e) PROVE LockHeld'
  BY <1>5 DEF SetTimeout
<1>6. ASSUME NEW e \in Ends, PingTimeout(e) PROVE LockHeld'
  BY <1>6 DEF PingTimeout, Ending
<1>7. ASSUME NEW e \in Ends, PingerStops(e) PROVE LockHeld'
  BY <1>7 DEF PingerStops
<1>8. ASSUME NEW e \in Ends, Read(e) PROVE LockHeld'
  BY <1>8 DEF Read, PongHandler
<1>9. ASSUME NEW e \in Ends, writePongMessage(e) PROVE LockHeld'
  BY <1>9 DEF writePongMessage, Sent
<1>10. ASSUME NEW e \in Ends, PongWaits(e) PROVE LockHeld'
  BY <1>10 DEF PongWaits, Blocked
<1>11. ASSUME NEW e \in Ends, PongFails(e) PROVE LockHeld'
  BY <1>11 DEF PongFails, Refused, Ending
<1>12. ASSUME NEW e \in Ends, ReaderEnds(e) PROVE LockHeld'
  BY <1>12 DEF ReaderEnds, Ending
<1>13. ASSUME NEW e \in Ends, WriteDataMessage(e) PROVE LockHeld'
  BY <1>13 DEF WriteDataMessage, Sent, Refused
<1>14. ASSUME NEW e \in Ends, DataWaits(e) PROVE LockHeld'
  BY <1>14 DEF DataWaits, Blocked
<1>18. ASSUME NEW e \in Ends, OpenStream(e) PROVE LockHeld'
  BY <1>18 DEF OpenStream
<1>15. ASSUME UNCHANGED <<setup, lock, pinger, reader, writer>> PROVE LockHeld'
  BY <1>15
<1>16. ASSUME NEW e \in Ends,
             CloseCalled(e) \/ CloseAdapter(e) \/ ConfigurePing(e) \/ Stops(e)
      PROVE  UNCHANGED <<setup, lock, pinger, reader, writer>>
  BY <1>16 DEF CloseCalled, Ending, CloseAdapter, ConfigurePing, Stops
<1>17. CASE Tick \/ Finished \/ UNCHANGED vars
  BY <1>17, <1>15 DEF Tick, Finished, vars
<1> QED
  BY <1>1, <1>2, <1>3, <1>4, <1>5, <1>6, <1>7, <1>8, <1>9, <1>10, <1>11, <1>12, <1>13,
     <1>14, <1>15, <1>16, <1>17, <1>18
     DEF Next, Pinger, Reader

----------------------------------------------------------------------------
(* The timeout *)

\* No timeout runs at the start.
LEMMA TimerInit == Init => TimerInv
BY DEF Init, TimerInv, Waiting

\* The timeout is set after its ping and stopped before the next, and with every tick
\* as much passes as is taken off what is left.
LEMMA TimerNext == Typed /\ TimerInv /\ [Next]_vars => TimerInv'
<1> SUFFICES ASSUME Typed, TimerInv, [Next]_vars PROVE TimerInv'
  OBVIOUS
<1> USE DEF TimerInv, Typed, SettingsTyped, PingerTyped, Waiting, Off,
            pingVars, ioVars, connVars, history, Set
<1>1. ASSUME NEW e \in Ends, IntervalEnds(e) PROVE TimerInv'
  BY <1>1, SettingsAreNumbers DEF IntervalEnds
<1>2. ASSUME NEW e \in Ends, WritePingMessage(e) PROVE TimerInv'
  BY <1>2, SettingsAreNumbers DEF WritePingMessage, Sent
<1>3. ASSUME NEW e \in Ends, PingWaits(e) PROVE TimerInv'
  BY <1>3, SettingsAreNumbers DEF PingWaits, Blocked
<1>4. ASSUME NEW e \in Ends, PingFails(e) PROVE TimerInv'
  BY <1>4, SettingsAreNumbers DEF PingFails, Refused, Ending
<1>5. ASSUME NEW e \in Ends, SetTimeout(e) PROVE TimerInv'
  BY <1>5, SettingsAreNumbers DEF SetTimeout
<1>6. ASSUME NEW e \in Ends, PingTimeout(e) PROVE TimerInv'
  BY <1>6, SettingsAreNumbers DEF PingTimeout, Ending
<1>7. ASSUME NEW e \in Ends, PingerStops(e) PROVE TimerInv'
  BY <1>7, SettingsAreNumbers DEF PingerStops
<1>8. ASSUME NEW e \in Ends, Read(e) PROVE TimerInv'
  BY <1>8, SettingsAreNumbers DEF Read, PongHandler
<1>9. ASSUME NEW e \in Ends, ConfigurePing(e) PROVE TimerInv'
  BY <1>9, SettingsAreNumbers DEF ConfigurePing
<1>10. CASE Tick
  BY <1>10, SettingsAreNumbers, LongestIsLongest DEF Tick, Left
<1>11. ASSUME UNCHANGED <<pinger, timer, elapsed, answered, timedOut, ping, reloads>>
      PROVE TimerInv'
  BY <1>11
<1>12. ASSUME NEW e \in Ends,
             \/ writePongMessage(e) \/ PongWaits(e) \/ PongFails(e) \/ ReaderEnds(e)
             \/ WriteDataMessage(e) \/ DataWaits(e) \/ CloseCalled(e)
             \/ CloseAdapter(e) \/ Stops(e) \/ OpenStream(e)
      PROVE  UNCHANGED <<pinger, timer, elapsed, answered, timedOut, ping, reloads>>
  BY <1>12
     DEF writePongMessage, Sent, PongWaits, Blocked, PongFails, Refused, Ending,
         ReaderEnds, WriteDataMessage, DataWaits, CloseCalled, CloseAdapter, Stops,
         OpenStream
<1>13. CASE Finished \/ UNCHANGED vars
  BY <1>13, <1>11 DEF Finished, vars
<1> QED
  BY <1>1, <1>2, <1>3, <1>4, <1>5, <1>6, <1>7, <1>8, <1>9, <1>10, <1>11, <1>12, <1>13
     DEF Next, Pinger, Reader

----------------------------------------------------------------------------
(* The theorems *)

\* All parts of the invariant hold in every reachable state.
LEMMA KeepaliveInvariant == Spec => [](Typed /\ LockHeld /\ TimerInv)
<1>1. Init => Typed /\ LockHeld /\ TimerInv
  BY TypedInit, LockInit, TimerInit
<1>2. Typed /\ LockHeld /\ TimerInv /\ [Next]_vars => (Typed /\ LockHeld /\ TimerInv)'
  BY TypedNext, LockNext, TimerNext
<1> QED BY <1>1, <1>2, PTL DEF Spec

\* The variables keep their types, and over a WebSocket writeLock is held by exactly the
\* one goroutine whose write waits, for any settings and any room on the wire.
THEOREM TypeCorrect == Spec => []TypeOK
<1>1. Typed /\ LockHeld => TypeOK
  <2> SUFFICES ASSUME Typed, LockHeld PROVE TypeOK
    OBVIOUS
  <2>1. \A e \in Ends :
           LET at == [pinger |-> pinger[e], reader |-> reader[e], writer |-> writer[e]] IN
           setup.kind = "WebSocket" =>
               \A who \in DOMAIN at : lock[e] = who <=> at[who] = "write"
    BY DEF LockHeld
  <2> QED
    BY <2>1 DEF TypeOK, Typed, SettingsTyped, PingerTyped, WriterTyped, WireTyped
<1> QED BY <1>1, KeepaliveInvariant, PTL

\* Whoever is given up for a ping timeout has not answered since the timeout was set, and
\* has had the whole of it unless a reload changed the settings, for any settings and
\* however late the goroutines are.
THEOREM TimeoutsExplained == Spec => []TimeoutExplained
<1>1. Typed /\ TimerInv => TimeoutExplained
  BY DEF Typed, PingerTyped, TimerInv, TimeoutExplained
<1> QED BY <1>1, KeepaliveInvariant, PTL
=============================================================================
