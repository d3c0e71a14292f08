---------------------------- MODULE SessionProofs ----------------------------
(***************************************************************************)
(* Proofs about Session: for any number of connections and reloads and any *)
(* older versions at one end, no interface and no script is left over, and *)
(* both ends use the documented format for data messages.                  *)
(***************************************************************************)
EXTENDS Session, TLAPS

----------------------------------------------------------------------------
(* The life of a connection.  There is one init command per connection, and  *)
(* until it has been handled the client has neither an interface nor a       *)
(* script to undo.                                                           *)

Has(s, kind) == \E i \in 1..Len(s) : s[i].command = kind
Single(s, kind) ==
    \A i, j \in 1..Len(s) : s[i].command = kind /\ s[j].command = kind => i = j
Carries(s, kind, f) == \A i \in 1..Len(s) : s[i].command = kind => s[i].fragmentation = f

Commands == [command : {"version", "init"}, fragmentation : BOOLEAN]

\* What is left of the commands on their way when the first has been handled.
LEMMA TailCommands ==
    ASSUME NEW s \in Seq(Commands), s # <<>>, NEW kind, NEW f
    PROVE  /\ Tail(s) \in Seq(Commands) /\ Head(s) \in Commands
           /\ Single(s, kind) => Single(Tail(s), kind)
           /\ Single(s, kind) /\ Head(s).command = kind => ~Has(Tail(s), kind)
           /\ Has(Tail(s), kind) => Has(s, kind)
           /\ Head(s).command = kind => Has(s, kind)
           /\ Has(s, kind) /\ Head(s).command # kind => Has(Tail(s), kind)
           /\ Carries(s, kind, f) => Carries(Tail(s), kind, f)
           /\ Carries(s, kind, f) /\ Head(s).command = kind => Head(s).fragmentation = f
<1> DEFINE t == Tail(s)
<1>1. /\ t \in Seq(Commands) /\ Len(t) = Len(s) - 1 /\ Len(s) \in Nat /\ Len(s) >= 1
      /\ \A i \in 1..(Len(s) - 1) : t[i] = s[i + 1]
      /\ Head(s) = s[1] /\ Head(s) \in Commands
  OBVIOUS
<1> HIDE DEF t
<1>2. \A i \in 1..Len(t) : i + 1 \in 1..Len(s) /\ t[i] = s[i + 1] /\ i + 1 # 1
  BY <1>1
<1>3. \A i \in 1..Len(s) : i = 1 \/ (i - 1 \in 1..Len(t) /\ t[i - 1] = s[i])
  BY <1>1
<1>4. Single(s, kind) => Single(t, kind)
  <2> SUFFICES ASSUME Single(s, kind), NEW i \in 1..Len(t), NEW j \in 1..Len(t),
                      t[i].command = kind, t[j].command = kind
               PROVE  i = j
    BY DEF Single
  <2>1. i + 1 = j + 1
    BY <1>2 DEF Single
  <2> QED BY <2>1, <1>1
<1>5. ASSUME Single(s, kind), Head(s).command = kind PROVE ~Has(t, kind)
  <2> SUFFICES ASSUME NEW i \in 1..Len(t), t[i].command = kind PROVE FALSE
    BY DEF Has
  <2>1. 1 \in 1..Len(s) /\ s[1].command = kind /\ s[i + 1].command = kind
    BY <1>1, <1>2, <1>5
  <2>2. i + 1 = 1
    BY <1>2, <1>5, <2>1 DEF Single
  <2> QED BY <1>2, <2>2
<1>6. Has(t, kind) => Has(s, kind)
  BY <1>2 DEF Has
<1>7. Head(s).command = kind => Has(s, kind)
  BY <1>1 DEF Has
<1>8. Has(s, kind) /\ Head(s).command # kind => Has(t, kind)
  BY <1>1, <1>3 DEF Has
<1>9. Carries(s, kind, f) => Carries(t, kind, f)
  BY <1>2 DEF Carries
<1>10. Carries(s, kind, f) /\ Head(s).command = kind => Head(s).fragmentation = f
  BY <1>1 DEF Carries
<1> QED BY <1>1, <1>4, <1>5, <1>6, <1>7, <1>8, <1>9, <1>10 DEF t

\* The commands on their way when one more is sent.
LEMMA AppendCommands ==
    ASSUME NEW s \in Seq(Commands), NEW x \in Commands, NEW kind, NEW f
    PROVE  /\ Append(s, x) \in Seq(Commands)
           /\ Has(Append(s, x), kind) => Has(s, kind) \/ x.command = kind
           /\ Has(s, kind) \/ x.command = kind => Has(Append(s, x), kind)
           /\ Single(s, kind) /\ (~Has(s, kind) \/ x.command # kind)
                => Single(Append(s, x), kind)
           /\ Carries(s, kind, f) /\ (x.command = kind => x.fragmentation = f)
                => Carries(Append(s, x), kind, f)
<1> DEFINE t == Append(s, x)
<1>1. /\ t \in Seq(Commands) /\ Len(t) = Len(s) + 1 /\ Len(s) \in Nat
      /\ \A i \in 1..Len(s) : t[i] = s[i]
      /\ t[Len(s) + 1] = x
  OBVIOUS
<1> HIDE DEF t
<1>2. \A i \in 1..Len(t) : \/ i \in 1..Len(s) /\ t[i] = s[i]
                           \/ i = Len(s) + 1 /\ t[i] = x
  BY <1>1
<1>3. \A i \in 1..Len(s) : i \in 1..Len(t) /\ t[i] = s[i]
  BY <1>1
<1>4. Has(t, kind) => Has(s, kind) \/ x.command = kind
  BY <1>2 DEF Has
<1>5. Has(s, kind) \/ x.command = kind => Has(t, kind)
  <2>1. Len(s) + 1 \in 1..Len(t)
    BY <1>1
  <2> QED BY <1>1, <1>3, <2>1 DEF Has
<1>6. Single(s, kind) /\ (~Has(s, kind) \/ x.command # kind) => Single(t, kind)
  BY <1>2 DEF Single, Has
<1>7. Carries(s, kind, f) /\ (x.command = kind => x.fragmentation = f) => Carries(t, kind, f)
  BY <1>2 DEF Carries
<1> QED BY <1>1, <1>4, <1>5, <1>6, <1>7 DEF t

\* An empty stream has no commands.
LEMMA NoCommands ==
    ASSUME NEW kind, NEW f
    PROVE  ~Has(<<>>, kind) /\ Single(<<>>, kind) /\ Carries(<<>>, kind, f)
BY DEF Has, Single, Carries

\* The init command of the connection has still to be sent or to be received.
InitDue == ~initSent \/ Has(stream["client"], "init")

Fresh == iface = 0 /\ open = {} /\ ~sentUpEvent

CommandsOnce ==
    /\ \A e \in Ends : Single(stream[e], "version")
    /\ Single(stream["client"], "init")
    /\ Has(stream["client"], "init") => initSent

ControlInv ==
    /\ loop # "wait" => ~connected /\ ~initialising
    /\ loop = "wait" => connections >= 1
    /\ ~connected => data = {} /\ \A e \in Ends : stream[e] = <<>>
    /\ InitDue => ~initialising
    /\ loop = "wait" /\ (InitDue \/ initialising) => Fresh /\ ~socketIface
    /\ loop \in {"serve", "exit"} => Fresh
    /\ open \subseteq {iface}

----------------------------------------------------------------------------
(* The format of the data messages *)

VersionsExchanged ==
    /\ \E e \in Ends : version[e] = ProtocolVersion
    /\ \A e \in Ends :
          /\ known[e] \in {UndeterminedProtocolVersion, version[Other(e)]}
          /\ Other(e) \notin welcomed => ~Ready(e) /\ ~Has(stream[e], "version")
          /\ Has(stream[e], "version") => ~Ready(e)
          /\ Carries(stream[e], "version", EnabledFeatures(Other(e)))
    /\ Carries(stream["client"], "init", EnableFragmentation)
    /\ initSent => Ready("server")
    /\ InitDue => ~initFirst

\* As long as init has not overtaken the version command, every conclusion is the
\* documented one as soon as it matters.
FormatSettled ==
    /\ Ready("server") => enabled["server"] = Documented
    /\ Ready("client") /\ (\A e \in Ends : version[e] = ProtocolVersion)
          => enabled["client"] = Documented
    /\ initialising \/ socketIface
          => Ready("client") /\ (~Refused11 => enabled["client"] = Documented)
    /\ \A m \in data : m.to = "client" \/ ~Refused11 => m.fragmented = Documented

FormatInv == VersionsExchanged /\ (~initFirst => FormatSettled)

----------------------------------------------------------------------------
(* Initially *)

\* A client that has not connected yet.
LEMMA SessionInit == Init => TypeOK /\ CommandsOnce /\ ControlInv /\ FormatInv /\ ScriptsPaired
<1> SUFFICES ASSUME Init PROVE TypeOK /\ CommandsOnce /\ ControlInv /\ FormatInv /\ ScriptsPaired
  OBVIOUS
<1> USE DEF Init
<1>1. /\ connections \in 0..MaxConnections /\ reloads \in 0..MaxReloads
      /\ iface \in 0..MaxConnections /\ remoteNet \in 0..MaxConnections
      /\ scripts \in [up : Scripts, down : Scripts]
  BY BoundsAssumption DEF NoScript, Scripts
<1>2. stream \in [Ends -> Seq([command : {"version", "init"}, fragmentation : BOOLEAN])]
  OBVIOUS
<1>3. /\ connected \in BOOLEAN /\ initSent \in BOOLEAN /\ initialising \in BOOLEAN
      /\ socketIface \in BOOLEAN /\ sentUpEvent \in BOOLEAN /\ initFirst \in BOOLEAN
      /\ local \in [Ends -> BOOLEAN] /\ remote \in [Ends -> BOOLEAN]
      /\ enabled \in [Ends -> BOOLEAN]
      /\ config \in [reconnect : BOOLEAN, fragmentation : BOOLEAN]
  OBVIOUS
<1>4. /\ version \in [Ends -> Versions]
      /\ known \in [Ends -> Versions \cup {UndeterminedProtocolVersion}]
  BY DEF Versions
<1>5. TypeOK
  BY <1>1, <1>2, <1>3, <1>4 DEF TypeOK
<1>6. \A e \in Ends : stream[e] = <<>> /\ Other(e) \in Ends /\ ~Ready(e)
  BY DEF Ends, Other, Ready
<1>7. CommandsOnce /\ ControlInv
  BY <1>6, NoCommands DEF CommandsOnce, ControlInv, InitDue, Fresh, Ends
<1>8. VersionsExchanged
  BY <1>6, NoCommands DEF VersionsExchanged, InitDue, Ends
<1>9. FormatSettled
  BY <1>6 DEF FormatSettled, Ends
<1>10. ScriptsPaired
  BY DEF ScriptsPaired
<1> QED BY <1>5, <1>7, <1>8, <1>9, <1>10 DEF FormatInv

----------------------------------------------------------------------------
(* Typing *)

\* Every step keeps the types.
LEMMA TypingNext == TypeOK /\ ControlInv /\ [Next]_vars => TypeOK'
<1> SUFFICES ASSUME TypeOK, ControlInv, [Next]_vars PROVE TypeOK'
  OBVIOUS
<1> USE DEF TypeOK, loopVars, endVars, streamVars, clientVars
<1>0. /\ MaxConnections \in Nat /\ MaxReloads \in Nat
      /\ \A e \in Ends : Other(e) \in Ends /\ stream[e] \in Seq(Commands)
      /\ "client" \in Ends /\ "server" \in Ends
  BY BoundsAssumption DEF Ends, Other, Commands
<1>000. [e \in Ends |-> <<>>] \in [Ends -> Seq(Commands)]
  OBVIOUS
<1>00. initialising => connections \in 1..MaxConnections
  BY <1>0 DEF ControlInv
<1>1. CASE CloseOld
  <2>1. scripts' \in [up : Scripts, down : Scripts]
    BY <1>1 DEF CloseOld, closeInternal, RunEventScript, Scripts
  <2>2. /\ sentUpEvent' \in BOOLEAN /\ connected' \in BOOLEAN
        /\ stream' = [e \in Ends |-> <<>>]
    BY <1>1 DEF CloseOld, closeInternal
  <2>3. iface' \in 0..MaxConnections /\ open' \subseteq 1..MaxConnections
    BY <1>0, <1>1 DEF CloseOld, closeInternal
  <2> QED BY <1>000, <1>1, <2>1, <2>2, <2>3 DEF CloseOld, closeInternal, Commands
<1>2. CASE Exit
  <2>1. scripts' \in [up : Scripts, down : Scripts]
    BY <1>2 DEF Exit, closeInternal, RunEventScript, Scripts
  <2>2. /\ sentUpEvent' \in BOOLEAN /\ connected' \in BOOLEAN
        /\ stream' = [e \in Ends |-> <<>>]
    BY <1>2 DEF Exit, closeInternal
  <2>3. iface' \in 0..MaxConnections /\ open' \subseteq 1..MaxConnections
    BY <1>0, <1>2 DEF Exit, closeInternal
  <2> QED BY <1>000, <1>2, <2>1, <2>2, <2>3 DEF Exit, closeInternal, Commands
<1>3. CASE ServeFails
  BY <1>0, <1>3 DEF ServeFails
<1>4. CASE Serve
  <2>1. version' \in [Ends -> Versions] /\ connections' \in 0..MaxConnections
    BY <1>0, <1>4 DEF Serve
  <2>2. /\ connected' \in BOOLEAN /\ initSent' \in BOOLEAN /\ socketIface' \in BOOLEAN
        /\ initFirst' \in BOOLEAN /\ local' \in [Ends -> BOOLEAN] /\ remote' \in [Ends -> BOOLEAN]
        /\ enabled' \in [Ends -> BOOLEAN]
    BY <1>4 DEF Serve
  <2>3. known' \in [Ends -> Versions \cup {UndeterminedProtocolVersion}]
    BY <1>4 DEF Serve
  <2> QED BY <1>4, <2>1, <2>2, <2>3 DEF Serve
<1>5. CASE WaitReturns
  BY <1>0, <1>5 DEF WaitReturns
<1>6. CASE Reconnect
  BY <1>0, <1>6 DEF Reconnect
<1>7. CASE Reload
  BY <1>0, <1>7 DEF Reload
<1>8. ASSUME NEW e \in Ends, SendVersion(e) PROVE TypeOK'
  <2> DEFINE x == [command |-> "version", fragmentation |-> EnabledFeatures(e)]
  <2>1. EnabledFeatures(e) \in BOOLEAN
    BY DEF EnabledFeatures
  <2>2. x \in Commands
    BY <2>1 DEF Commands
  <2> HIDE DEF x
  <2>3. stream' = [stream EXCEPT ![Other(e)] = Append(stream[Other(e)], x)]
    BY <1>8 DEF SendVersion, Send, x
  <2>4. stream' \in [Ends -> Seq(Commands)]
    BY <1>0, <2>2, <2>3, AppendCommands DEF Commands
  <2> QED BY <1>8, <2>4 DEF SendVersion, Commands
<1>9. ASSUME NEW e \in Ends, ReceiveVersion(e) PROVE TypeOK'
  <2>1. stream' \in [Ends -> Seq(Commands)] /\ Head(stream[e]) \in Commands
    BY <1>0, <1>9, TailCommands DEF ReceiveVersion, Receive, Commands
  <2>2. Head(stream[e]).fragmentation \in BOOLEAN /\ version[Other(e)] \in Versions
    BY <1>0, <2>1 DEF Commands
  <2>3. known' \in [Ends -> Versions \cup {UndeterminedProtocolVersion}]
    BY <1>9, <2>2 DEF ReceiveVersion
  <2>4. remote' \in [Ends -> BOOLEAN]
    BY <1>9, <2>2 DEF ReceiveVersion
  <2>5. enabled' \in [Ends -> BOOLEAN]
    <3> DEFINE r == Head(stream[e]).fragmentation
               v == version[Other(e)]
    <3>1. featureCheck(v, local[e], r) \in BOOLEAN
      BY <2>2 DEF featureCheck
    <3>2. OldFragments(e, v, e = "server" /\ local[e]) \in BOOLEAN
      BY DEF OldFragments
    <3> QED BY <1>9, <3>1, <3>2 DEF ReceiveVersion
  <2> QED BY <1>9, <2>1, <2>3, <2>4, <2>5 DEF ReceiveVersion, Commands
<1>10. ASSUME NEW e \in Ends, WritePacket(e) PROVE TypeOK'
  BY <1>0, <1>10 DEF WritePacket
<1>11. CASE SendInit
  <2> DEFINE x == [command |-> "init", fragmentation |-> EnableFragmentation]
  <2>1. EnableFragmentation \in BOOLEAN
    BY DEF EnableFragmentation
  <2>2. x \in Commands
    BY <2>1 DEF Commands
  <2> HIDE DEF x
  <2>3. stream' = [stream EXCEPT !["client"] = Append(stream["client"], x)]
    BY <1>11 DEF SendInit, Send, x, Other
  <2>4. stream' \in [Ends -> Seq(Commands)]
    BY <1>0, <2>2, <2>3, AppendCommands DEF Commands
  <2>5. initSent' \in BOOLEAN
    BY <1>11 DEF SendInit
  <2> QED BY <1>11, <2>4, <2>5 DEF SendInit, Commands
<1>12. CASE ReceiveInit
  <2>1. stream' \in [Ends -> Seq(Commands)] /\ Head(stream["client"]) \in Commands
    BY <1>0, <1>12, TailCommands DEF ReceiveInit, Receive, Commands
  <2> DEFINE f == Head(stream["client"]).fragmentation
  <2>2. f \in BOOLEAN
    BY <2>1 DEF Commands
  <2> HIDE DEF f
  <2>3. /\ featureCheck(known["client"], TRUE, f) \in BOOLEAN
        /\ OldFragments("client", known["client"], f) \in BOOLEAN
    BY <2>2 DEF featureCheck, OldFragments
  <2>4. /\ local' \in [Ends -> BOOLEAN] /\ remote' \in [Ends -> BOOLEAN]
        /\ enabled' \in [Ends -> BOOLEAN]
    <3>1. CASE version["client"] = ProtocolVersion
      BY <1>12, <2>2, <2>3, <3>1 DEF ReceiveInit, HandleInitPacketFragmentation, f
    <3>2. CASE version["client"] # ProtocolVersion
      BY <1>12, <2>2, <2>3, <3>2 DEF ReceiveInit, f
    <3> QED BY <3>1, <3>2
  <2>5. initFirst' \in BOOLEAN /\ initialising' \in BOOLEAN
    BY <1>12 DEF ReceiveInit, Ready
  <2> QED BY <1>12, <2>1, <2>4, <2>5 DEF ReceiveInit, Commands
<1>13. CASE InitSucceeds
  <2>1. connections \in 1..MaxConnections /\ connections \in 0..MaxConnections
    BY <1>0, <1>00, <1>13 DEF InitSucceeds
  <2>2. scripts' \in [up : Scripts, down : Scripts]
    BY <1>13, <2>1 DEF InitSucceeds, RunEventScript, Scripts
  <2>3. initialising' \in BOOLEAN /\ socketIface' \in BOOLEAN /\ sentUpEvent' \in BOOLEAN
    BY <1>13 DEF InitSucceeds
  <2> QED BY <1>13, <2>1, <2>2, <2>3 DEF InitSucceeds
<1>14. CASE InitFails
  <2>1. connections \in 1..MaxConnections /\ connections \in 0..MaxConnections
    BY <1>0, <1>00, <1>14 DEF InitFails
  <2>2. iface' \in 0..MaxConnections /\ open' \subseteq 1..MaxConnections
    BY <1>14, <2>1 DEF InitFails
  <2>3. initialising' \in BOOLEAN
    BY <1>14 DEF InitFails
  <2>4. CASE connected' = FALSE /\ stream' = [e \in Ends |-> <<>>] /\ data' = {}
    BY <1>000, <1>14, <2>2, <2>3, <2>4 DEF InitFails, Commands
  <2>5. CASE UNCHANGED <<connected, stream, data>>
    BY <1>14, <2>2, <2>3, <2>5 DEF InitFails
  <2> QED BY <1>14, <2>4, <2>5 DEF InitFails
<1>15. CASE Arrive
  BY <1>0, <1>15 DEF Arrive
<1>16. CASE Disconnect
  <2>1. /\ connected' \in BOOLEAN /\ data' = {} /\ open' \subseteq open
        /\ stream' = [e \in Ends |-> <<>>]
    BY <1>16 DEF Disconnect, Hangup
  <2> QED BY <1>000, <1>16, <2>1 DEF Disconnect, Commands
<1>17. CASE Finished
  BY <1>17 DEF Finished, vars
<1>18. CASE UNCHANGED vars
  BY <1>18 DEF vars
<1> QED
  BY <1>1, <1>2, <1>3, <1>4, <1>5, <1>6, <1>7, <1>8, <1>9, <1>10, <1>11, <1>12, <1>13, <1>14, <1>15, <1>16, <1>17, <1>18 DEF Next

----------------------------------------------------------------------------
(* Interfaces and scripts *)

\* When the connection is gone, no command is on its way.
LEMMA StreamsCleared ==
    ASSUME stream' = [e \in Ends |-> <<>>]
    PROVE  /\ CommandsOnce' /\ ~Has(stream'["client"], "init")
           /\ \A e \in Ends : stream'[e] = <<>> /\ ~Has(stream'[e], "version")
<1>1. "client" \in Ends /\ \A e \in Ends : stream'[e] = <<>>
  BY DEF Ends
<1> QED BY <1>1, NoCommands DEF CommandsOnce

\* Every step keeps the interfaces and the scripts of the client in order.
LEMMA ControlNext ==
    TypeOK /\ CommandsOnce /\ ControlInv /\ FormatInv /\ ScriptsPaired /\ [Next]_vars
        => CommandsOnce' /\ ControlInv' /\ ScriptsPaired'
<1> SUFFICES ASSUME TypeOK, CommandsOnce, ControlInv, FormatInv, ScriptsPaired, [Next]_vars
             PROVE  CommandsOnce' /\ ControlInv' /\ ScriptsPaired'
  OBVIOUS
<1> USE DEF loopVars, endVars, streamVars, clientVars
<1>0. /\ \A e \in Ends : Other(e) \in Ends /\ stream[e] \in Seq(Commands)
      /\ "client" \in Ends /\ "server" \in Ends
      /\ stream \in [Ends -> Seq(Commands)]
      /\ connections \in Nat /\ open \subseteq {iface} /\ iface \in Nat
      /\ scripts \in [up : Scripts, down : Scripts]
  BY BoundsAssumption DEF Ends, Other, Commands, TypeOK, ControlInv
<1>1. CASE CloseOld
  <2>1. /\ connected' = FALSE /\ initialising' = initialising /\ data' = {} /\ sentUpEvent' = FALSE
        /\ iface' = 0 /\ open' = {} /\ loop # "wait" /\ loop' # "wait"
        /\ stream' = [e \in Ends |-> <<>>] /\ initSent' = initSent /\ socketIface' = socketIface
    BY <1>0, <1>1 DEF CloseOld, closeInternal
  <2>2. scripts'.up = scripts.up /\ scripts'.down = scripts.up
    <3>1. CASE sentUpEvent
      BY <1>0, <1>1, <3>1 DEF CloseOld, closeInternal, RunEventScript, ScriptsPaired
    <3>2. CASE ~sentUpEvent
      BY <1>1, <3>2 DEF CloseOld, closeInternal, ScriptsPaired
    <3> QED BY <3>1, <3>2
  <2>3. ControlInv'
    BY <2>1, StreamsCleared DEF ControlInv, InitDue, Fresh
  <2> QED BY <2>1, <2>2, <2>3, StreamsCleared DEF ScriptsPaired
<1>2. CASE Exit
  <2>1. /\ connected' = FALSE /\ initialising' = initialising /\ data' = {} /\ sentUpEvent' = FALSE
        /\ iface' = 0 /\ open' = {} /\ loop # "wait" /\ loop' # "wait"
        /\ stream' = [e \in Ends |-> <<>>] /\ initSent' = initSent /\ socketIface' = socketIface
    BY <1>0, <1>2 DEF Exit, closeInternal
  <2>2. scripts'.up = scripts.up /\ scripts'.down = scripts.up
    <3>1. CASE sentUpEvent
      BY <1>0, <1>2, <3>1 DEF Exit, closeInternal, RunEventScript, ScriptsPaired
    <3>2. CASE ~sentUpEvent
      BY <1>2, <3>2 DEF Exit, closeInternal, ScriptsPaired
    <3> QED BY <3>1, <3>2
  <2>3. ControlInv'
    BY <2>1, StreamsCleared DEF ControlInv, InitDue, Fresh
  <2> QED BY <2>1, <2>2, <2>3, StreamsCleared DEF ScriptsPaired
<1>3. CASE ServeFails
  BY <1>3 DEF ServeFails, CommandsOnce, ControlInv, InitDue, Fresh, ScriptsPaired
<1>4. CASE Serve
  <2>1. /\ loop = "serve" /\ loop' = "wait" /\ connections' = connections + 1
        /\ connected' = TRUE /\ initSent' = FALSE /\ socketIface' = FALSE
        /\ UNCHANGED <<stream, data, initialising, iface, open, remoteNet, sentUpEvent, scripts>>
    BY <1>4 DEF Serve
  <2>2. Fresh /\ ~initialising /\ \A e \in Ends : stream[e] = <<>>
    BY <2>1 DEF ControlInv
  <2>3. CommandsOnce'
    BY <1>0, <2>1, <2>2, NoCommands DEF CommandsOnce
  <2>4. ControlInv'
    BY <1>0, <2>1, <2>2 DEF ControlInv, InitDue, Fresh
  <2>5. ScriptsPaired'
    BY <2>1 DEF ScriptsPaired
  <2> QED BY <2>3, <2>4, <2>5
<1>5. CASE WaitReturns
  BY <1>5 DEF WaitReturns, CommandsOnce, ControlInv, InitDue, Fresh, ScriptsPaired
<1>6. CASE Reconnect
  BY <1>6 DEF Reconnect, CommandsOnce, ControlInv, InitDue, Fresh, ScriptsPaired
<1>7. CASE Reload
  BY <1>7 DEF Reload, CommandsOnce, ControlInv, InitDue, Fresh, ScriptsPaired
<1>8. ASSUME NEW e \in Ends, SendVersion(e) PROVE CommandsOnce' /\ ControlInv' /\ ScriptsPaired'
  <2> DEFINE x == [command |-> "version", fragmentation |-> EnabledFeatures(e)]
             o == Other(e)
  <2>1. x \in Commands /\ x.command = "version" /\ o \in Ends
    BY <1>0 DEF Commands, EnabledFeatures
  <2>2. stream' = [stream EXCEPT ![o] = Append(stream[o], x)]
    BY <1>8 DEF SendVersion, Send
  <2>3. e \notin welcomed /\ e = Other(o)
    BY <1>8 DEF SendVersion, Other, Ends
  <2>4. ~Has(stream[o], "version")
    BY <2>1, <2>3 DEF FormatInv, VersionsExchanged
  <2> HIDE DEF x, o
  <2>5. /\ Single(Append(stream[o], x), "version")
        /\ Single(stream[o], "init") => Single(Append(stream[o], x), "init")
        /\ Has(Append(stream[o], x), "init") <=> Has(stream[o], "init")
    BY <1>0, <2>1, <2>4, AppendCommands DEF CommandsOnce
  <2>6. /\ stream'[o] = Append(stream[o], x)
        /\ \A d \in Ends \ {o} : stream'[d] = stream[d]
    BY <1>0, <2>1, <2>2
  <2>7. Has(stream'["client"], "init") <=> Has(stream["client"], "init")
    BY <1>0, <2>5, <2>6
  <2>8. CommandsOnce'
    BY <1>0, <1>8, <2>5, <2>6, <2>7 DEF CommandsOnce, SendVersion
  <2>9. connected /\ UNCHANGED <<loopVars, clientVars, connected, initSent, data>>
    BY <1>8 DEF SendVersion
  <2>10. ControlInv'
    BY <2>7, <2>9 DEF ControlInv, InitDue, Fresh
  <2> QED BY <2>8, <2>9, <2>10 DEF ScriptsPaired
<1>9. ASSUME NEW e \in Ends, ReceiveVersion(e) PROVE CommandsOnce' /\ ControlInv' /\ ScriptsPaired'
  <2>1. /\ stream[e] # <<>> /\ Head(stream[e]).command = "version"
        /\ stream' = [stream EXCEPT ![e] = Tail(stream[e])]
        /\ UNCHANGED <<loopVars, clientVars, connected, initSent, data>>
    BY <1>9 DEF ReceiveVersion, Receive
  <2>2. /\ Single(Tail(stream[e]), "version")
        /\ Single(stream[e], "init") => Single(Tail(stream[e]), "init")
        /\ Has(Tail(stream[e]), "init") <=> Has(stream[e], "init")
    BY <1>0, <2>1, TailCommands DEF CommandsOnce
  <2>3. /\ stream'[e] = Tail(stream[e])
        /\ \A d \in Ends \ {e} : stream'[d] = stream[d]
    BY <1>0, <2>1
  <2>4. Has(stream'["client"], "init") <=> Has(stream["client"], "init")
    BY <1>0, <2>2, <2>3
  <2>5. CommandsOnce'
    BY <1>0, <2>1, <2>2, <2>3, <2>4 DEF CommandsOnce
  <2>6. connected
    BY <2>1 DEF ControlInv
  <2>7. ControlInv'
    BY <2>1, <2>4, <2>6 DEF ControlInv, InitDue, Fresh
  <2> QED BY <2>1, <2>5, <2>7 DEF ScriptsPaired
<1>10. ASSUME NEW e \in Ends, WritePacket(e) PROVE CommandsOnce' /\ ControlInv' /\ ScriptsPaired'
  BY <1>10 DEF WritePacket, CommandsOnce, ControlInv, InitDue, Fresh, ScriptsPaired
<1>11. CASE SendInit
  <2> DEFINE x == [command |-> "init", fragmentation |-> EnableFragmentation]
             s == stream["client"]
  <2>1. x \in Commands /\ x.command = "init"
    BY DEF Commands, EnableFragmentation
  <2>2. stream' = [stream EXCEPT !["client"] = Append(s, x)]
    BY <1>11 DEF SendInit, Send, Other
  <2>3. /\ connected /\ ~initSent /\ initSent' = TRUE
        /\ UNCHANGED <<loopVars, clientVars, connected, data>>
    BY <1>11 DEF SendInit
  <2>4. ~Has(s, "init") /\ s \in Seq(Commands)
    BY <1>0, <2>3 DEF CommandsOnce
  <2> HIDE DEF x, s
  <2>5. /\ Single(s, "version") => Single(Append(s, x), "version")
        /\ Single(s, "init") => Single(Append(s, x), "init")
        /\ Has(Append(s, x), "init")
    BY <2>1, <2>4, AppendCommands
  <2>6. stream'["client"] = Append(s, x) /\ stream'["server"] = stream["server"]
    BY <1>0, <2>2
  <2>7. CommandsOnce'
    BY <1>0, <2>3, <2>5, <2>6 DEF CommandsOnce, Ends, s
  <2>8. ControlInv'
    BY <2>3, <2>5, <2>6 DEF ControlInv, InitDue, Fresh
  <2> QED BY <2>3, <2>7, <2>8 DEF ScriptsPaired
<1>12. CASE ReceiveInit
  <2> DEFINE s == stream["client"]
  <2>1. /\ s # <<>> /\ Head(s).command = "init" /\ s \in Seq(Commands)
        /\ stream' = [stream EXCEPT !["client"] = Tail(s)]
        /\ initialising' = TRUE
        /\ UNCHANGED <<loopVars, connected, initSent, data, iface, socketIface, open, sentUpEvent,
                       scripts>>
    BY <1>0, <1>12 DEF ReceiveInit, Receive
  <2>2. connected /\ loop = "wait"
    BY <1>0, <2>1 DEF ControlInv
  <2> HIDE DEF s
  <2>3. Has(s, "init") /\ ~Has(Tail(s), "init")
    BY <2>1, TailCommands DEF CommandsOnce, s
  <2>4. InitDue /\ initSent
    BY <2>3 DEF InitDue, CommandsOnce, s
  <2>5. Fresh /\ ~socketIface
    BY <2>2, <2>4 DEF ControlInv
  <2>6. stream'["client"] = Tail(s) /\ stream'["server"] = stream["server"]
    BY <1>0, <2>1
  <2>7. Single(Tail(s), "version") /\ Single(Tail(s), "init")
    BY <1>0, <2>1, TailCommands DEF CommandsOnce, s
  <2>8. CommandsOnce'
    BY <1>0, <2>3, <2>6, <2>7 DEF CommandsOnce, Ends
  <2>9. ControlInv'
    BY <2>1, <2>2, <2>3, <2>4, <2>5, <2>6 DEF ControlInv, InitDue, Fresh
  <2>10. ScriptsPaired'
    BY <2>1, <2>5 DEF ScriptsPaired, Fresh
  <2> QED BY <2>8, <2>9, <2>10
<1>13. CASE InitSucceeds
  <2>1. /\ initialising /\ ~initialising' /\ iface' = connections
        /\ open' = IF connected THEN open \cup {connections} ELSE open
        /\ socketIface' = TRUE /\ sentUpEvent' = TRUE
        /\ scripts' = RunEventScript("up", connections)
        /\ UNCHANGED <<loopVars, streamVars, remoteNet>>
    BY <1>13 DEF InitSucceeds
  <2>2. loop = "wait" /\ ~InitDue /\ Fresh
    BY <2>1 DEF ControlInv
  <2>3. CommandsOnce' /\ (InitDue' <=> InitDue)
    BY <2>1 DEF CommandsOnce, InitDue
  <2>4. ControlInv'
    BY <2>1, <2>2, <2>3 DEF ControlInv, Fresh
  <2>5. scripts'.up = [net |-> remoteNet, iface |-> connections]
    BY <1>0, <2>1 DEF RunEventScript
  <2>6. ScriptsPaired'
    BY <2>1, <2>2, <2>5 DEF ScriptsPaired
  <2> QED BY <2>3, <2>4, <2>6
<1>14. CASE InitFails
  <2>1. /\ initialising /\ ~initialising'
        /\ (iface' = iface /\ open' = open) \/ (iface' = connections /\ open' = open \cup {connections})
        /\ UNCHANGED <<loopVars, initSent, socketIface, remoteNet, sentUpEvent, scripts>>
    BY <1>14 DEF InitFails
  <2>2. loop = "wait" /\ ~InitDue /\ Fresh
    BY <2>1 DEF ControlInv
  <2>3. ScriptsPaired'
    BY <2>1, <2>2 DEF ScriptsPaired, Fresh
  <2>4. CASE connected' = FALSE /\ stream' = [e \in Ends |-> <<>>] /\ data' = {}
    <3>1. ~InitDue'
      BY <2>1, <2>2, <2>4, StreamsCleared DEF InitDue
    <3>2. ControlInv'
      BY <2>1, <2>2, <2>4, <3>1, StreamsCleared DEF ControlInv, Fresh
    <3> QED BY <2>3, <2>4, <3>2, StreamsCleared
  <2>5. CASE UNCHANGED <<connected, stream, data>>
    <3>1. CommandsOnce' /\ ~InitDue'
      BY <2>1, <2>2, <2>5 DEF CommandsOnce, InitDue
    <3>2. ControlInv'
      BY <2>1, <2>2, <2>5, <3>1 DEF ControlInv, Fresh
    <3> QED BY <2>3, <3>1, <3>2
  <2> QED BY <1>14, <2>4, <2>5 DEF InitFails
<1>15. CASE Arrive
  BY <1>15 DEF Arrive, CommandsOnce, ControlInv, InitDue, Fresh, ScriptsPaired
<1>16. CASE Disconnect
  <2>1. /\ connected /\ ~connected' /\ data' = {} /\ open' \subseteq open
        /\ stream' = [e \in Ends |-> <<>>]
        /\ UNCHANGED <<loopVars, initSent, initialising, iface, socketIface, remoteNet, sentUpEvent,
                       scripts>>
    BY <1>16 DEF Disconnect, Hangup
  <2>2. InitDue' => InitDue
    BY <2>1, StreamsCleared DEF InitDue
  <2>3. ControlInv'
    BY <2>1, <2>2, StreamsCleared DEF ControlInv, Fresh
  <2>4. ScriptsPaired'
    BY <2>1 DEF ScriptsPaired
  <2> QED BY <2>1, <2>3, <2>4, StreamsCleared
<1>17. CASE UNCHANGED vars
  BY <1>17 DEF vars, CommandsOnce, ControlInv, InitDue, Fresh, ScriptsPaired
<1> QED
  BY <1>1, <1>2, <1>3, <1>4, <1>5, <1>6, <1>7, <1>8, <1>9, <1>10, <1>11, <1>12, <1>13, <1>14, <1>15, <1>16, <1>17 DEF Next, Finished

----------------------------------------------------------------------------
(* Formats *)

\* The versions of the two ends are numbers, and one of them is this release's.
LEMMA VersionNumbers ==
    ASSUME TypeOK, VersionsExchanged
    PROVE  /\ version["client"] \in 1..12 /\ version["server"] \in 1..12
           /\ version["client"] = 12 \/ version["server"] = 12
<1>1. \A v \in Versions : v \in 1..12
  BY VersionsAssumption DEF Versions, ProtocolVersion
<1>2. version["client"] \in Versions /\ version["server"] \in Versions
  BY DEF TypeOK, Ends
<1>3. version["client"] = 12 \/ version["server"] = 12
  BY DEF VersionsExchanged, Ends, ProtocolVersion
<1> QED BY <1>1, <1>2, <1>3

\* The documented rules, case by case.
LEMMA DocumentedCases ==
    ASSUME TypeOK, VersionsExchanged
    PROVE  /\ Documented \in BOOLEAN
           /\ Documented <=>
                \/ /\ version["client"] = 12 /\ version["server"] = 12
                   /\ local["client"] /\ local["server"]
                \/ version["client"] = 10 \/ version["server"] = 10
                \/ (version["client"] = 11 \/ version["server"] = 11) /\ local["server"]
<1>1. Documented \in BOOLEAN
  BY DEF Documented
<1>2. Documented <=>
        \/ (version["client"] >= 12 /\ EnabledFeatures("client"))
            /\ (version["server"] >= 12 /\ EnabledFeatures("server"))
        \/ (version["client"] = 10 /\ version["server"] >= 10)
        \/ (version["server"] = 10 /\ version["client"] >= 10)
        \/ /\ \/ version["client"] = 11 /\ version["server"] >= 11
              \/ version["server"] = 11 /\ version["client"] >= 11
           /\ EnableFragmentation
  BY DEF Documented, Ends, Other
<1>3. /\ EnabledFeatures("client") <=> version["client"] >= 12 /\ local["client"]
      /\ EnabledFeatures("server") <=> version["server"] >= 12 /\ local["server"]
      /\ EnableFragmentation <=> version["server"] >= 11 /\ local["server"]
  BY DEF EnabledFeatures, EnableFragmentation, featureFieldMinProtocol,
         fragmentationNegotiatedMinProtocol
<1> QED BY <1>1, <1>2, <1>3, VersionNumbers

\* What the server concludes from the client's version command.
LEMMA ServerConclusion ==
    ASSUME TypeOK, VersionsExchanged
    PROVE  (IF version["server"] = ProtocolVersion
            THEN featureCheck(version["client"], local["server"], EnabledFeatures("client"))
            ELSE OldFragments("server", version["client"], local["server"])) = Documented
<1>1. local["server"] \in BOOLEAN /\ local["client"] \in BOOLEAN
  BY DEF TypeOK, Ends
<1>2. CASE version["server"] = ProtocolVersion
  <2> DEFINE value == featureCheck(version["client"], local["server"], EnabledFeatures("client"))
  <2>1. value \in BOOLEAN
    BY <1>1 DEF featureCheck, EnabledFeatures
  <2>2. value <=> Documented
    BY <1>1, <1>2, VersionNumbers, DocumentedCases
       DEF featureCheck, EnabledFeatures, fragmentationMinProtocol,
           fragmentationNegotiatedMinProtocol, featureFieldMinProtocol, ProtocolVersion
  <2> QED BY <1>2, <2>1, <2>2, DocumentedCases
<1>3. CASE version["server"] # ProtocolVersion
  <2>1. OldFragments("server", version["client"], local["server"]) \in BOOLEAN
    BY DEF OldFragments
  <2>2. OldFragments("server", version["client"], local["server"]) <=> Documented
    BY <1>1, <1>3, VersionNumbers, DocumentedCases
       DEF OldFragments, fragmentationMinProtocol, ProtocolVersion
  <2> QED BY <1>3, <2>1, <2>2, DocumentedCases
<1> QED BY <1>2, <1>3

\* What a client of this release concludes from the version command of such a server.
LEMMA ClientConclusion ==
    ASSUME TypeOK, VersionsExchanged, \A e \in Ends : version[e] = ProtocolVersion
    PROVE  featureCheck(version["server"], local["client"], EnabledFeatures("server")) = Documented
<1>1. local["server"] \in BOOLEAN /\ local["client"] \in BOOLEAN
  BY DEF TypeOK, Ends
<1>2. version["server"] = 12 /\ version["client"] = 12
  BY DEF Ends, ProtocolVersion
<1> DEFINE value == featureCheck(version["server"], local["client"], EnabledFeatures("server"))
<1>3. value \in BOOLEAN
  BY <1>1 DEF featureCheck, EnabledFeatures
<1>4. value <=> Documented
  BY <1>1, <1>2, DocumentedCases
     DEF featureCheck, EnabledFeatures, fragmentationMinProtocol,
         fragmentationNegotiatedMinProtocol, featureFieldMinProtocol
<1> QED BY <1>3, <1>4, DocumentedCases

\* What the client concludes from init, when it knows the server's version: the
\* documented value, unless the server is one of version 11 that has said no.
LEMMA InitConclusion ==
    ASSUME TypeOK, VersionsExchanged, ~Refused11
    PROVE  /\ version["client"] = ProtocolVersion /\ version["server"] < featureFieldMinProtocol
                => featureCheck(version["server"], TRUE, EnableFragmentation) = Documented
           /\ version["client"] # ProtocolVersion
                => OldFragments("client", version["server"], EnableFragmentation) = Documented
<1>1. local["server"] \in BOOLEAN /\ local["client"] \in BOOLEAN
  BY DEF TypeOK, Ends
<1>2. EnableFragmentation \in BOOLEAN
  BY DEF EnableFragmentation
<1>3. ASSUME version["client"] = ProtocolVersion, version["server"] < featureFieldMinProtocol
      PROVE  featureCheck(version["server"], TRUE, EnableFragmentation) = Documented
  <2> DEFINE value == featureCheck(version["server"], TRUE, EnableFragmentation)
  <2>1. value \in BOOLEAN
    BY <1>2 DEF featureCheck
  <2>2. value <=> Documented
    BY <1>1, <1>3, VersionNumbers, DocumentedCases
       DEF featureCheck, EnableFragmentation, Refused11, fragmentationMinProtocol,
           fragmentationNegotiatedMinProtocol, featureFieldMinProtocol, ProtocolVersion
  <2> HIDE DEF value
  <2>3. value = Documented
    BY <2>1, <2>2, DocumentedCases
  <2> QED BY <2>3 DEF value
<1>4. ASSUME version["client"] # ProtocolVersion
      PROVE  OldFragments("client", version["server"], EnableFragmentation) = Documented
  <2>1. OldFragments("client", version["server"], EnableFragmentation) \in BOOLEAN
    BY DEF OldFragments
  <2>2. OldFragments("client", version["server"], EnableFragmentation) <=> Documented
    BY <1>1, <1>4, VersionNumbers, DocumentedCases
       DEF OldFragments, EnableFragmentation, fragmentationMinProtocol,
           fragmentationNegotiatedMinProtocol, ProtocolVersion
  <2> QED BY <2>1, <2>2, DocumentedCases
<1> QED BY <1>3, <1>4

\* A step that changes nothing at the ends and at most breaks the connection.
LEMMA VersionsFrame ==
    ASSUME VersionsExchanged, UNCHANGED <<version, local, known, welcomed, initSent, initFirst>>,
           stream' = stream \/ stream' = [e \in Ends |-> <<>>]
    PROVE  VersionsExchanged'
<1>1. CASE stream' = stream
  BY <1>1 DEF VersionsExchanged, Ready, EnabledFeatures, EnableFragmentation, InitDue
<1>2. CASE stream' = [e \in Ends |-> <<>>]
  <2>1. \A e \in Ends : stream'[e] = <<>>
    BY <1>2
  <2>2. "client" \in Ends /\ ~Has(stream'["client"], "init")
    BY <1>2, StreamsCleared DEF Ends
  <2> QED
    BY <2>1, <2>2, NoCommands DEF VersionsExchanged, Ready, InitDue
<1> QED BY <1>1, <1>2

\* A step that changes no conclusion, sends no data and does not bring the interface up.
LEMMA SettledFrame ==
    ASSUME FormatSettled, UNCHANGED endVars, data' \subseteq data,
           initialising' \/ socketIface' => initialising \/ socketIface
    PROVE  FormatSettled'
<1>1. /\ UNCHANGED <<Documented, Refused11>> /\ version' = version /\ enabled' = enabled
      /\ \A e \in Ends : Ready(e)' <=> Ready(e)
  BY DEF endVars, Documented, Refused11, Ready, EnabledFeatures, EnableFragmentation
<1>2. "client" \in Ends /\ "server" \in Ends
  BY DEF Ends
<1> QED BY <1>1, <1>2 DEF FormatSettled

\* Every step keeps the conclusions the documented ones.
LEMMA FormatNext ==
    TypeOK /\ CommandsOnce /\ ControlInv /\ FormatInv /\ [Next]_vars => FormatInv'
<1> SUFFICES ASSUME TypeOK, CommandsOnce, ControlInv, FormatInv, [Next]_vars PROVE FormatInv'
  OBVIOUS
<1> USE DEF loopVars, endVars, streamVars, clientVars
<1>0. /\ \A e \in Ends : Other(e) \in Ends /\ stream[e] \in Seq(Commands)
      /\ "client" \in Ends /\ "server" \in Ends
      /\ Other("client") = "server" /\ Other("server") = "client"
      /\ stream \in [Ends -> Seq(Commands)] /\ VersionsExchanged
      /\ version \in [Ends -> Versions] /\ enabled \in [Ends -> BOOLEAN]
      /\ known \in [Ends -> Versions \cup {UndeterminedProtocolVersion}]
      /\ local \in [Ends -> BOOLEAN]
  BY DEF Ends, Other, Commands, TypeOK, FormatInv
<1>00. 0 \notin Versions
  BY VersionsAssumption DEF Versions, ProtocolVersion
<1>1. CASE CloseOld
  <2>1. VersionsExchanged' /\ initFirst' = initFirst
    BY <1>0, <1>1, VersionsFrame DEF CloseOld, closeInternal
  <2>2. FormatSettled => FormatSettled'
    BY <1>1, SettledFrame DEF CloseOld, closeInternal
  <2> QED BY <2>1, <2>2 DEF FormatInv
<1>2. CASE Exit
  <2>1. VersionsExchanged' /\ initFirst' = initFirst
    BY <1>0, <1>2, VersionsFrame DEF Exit, closeInternal
  <2>2. FormatSettled => FormatSettled'
    BY <1>2, SettledFrame DEF Exit, closeInternal
  <2> QED BY <2>1, <2>2 DEF FormatInv
<1>3. CASE ServeFails
  <2>1. VersionsExchanged' /\ initFirst' = initFirst
    BY <1>0, <1>3, VersionsFrame DEF ServeFails
  <2>2. FormatSettled => FormatSettled'
    BY <1>3, SettledFrame DEF ServeFails
  <2> QED BY <2>1, <2>2 DEF FormatInv
<1>4. CASE WaitReturns
  <2>1. VersionsExchanged' /\ initFirst' = initFirst
    BY <1>0, <1>4, VersionsFrame DEF WaitReturns
  <2>2. FormatSettled => FormatSettled'
    BY <1>4, SettledFrame DEF WaitReturns
  <2> QED BY <2>1, <2>2 DEF FormatInv
<1>5. CASE Reconnect
  <2>1. VersionsExchanged' /\ initFirst' = initFirst
    BY <1>0, <1>5, VersionsFrame DEF Reconnect
  <2>2. FormatSettled => FormatSettled'
    BY <1>5, SettledFrame DEF Reconnect
  <2> QED BY <2>1, <2>2 DEF FormatInv
<1>6. CASE Reload
  <2>1. VersionsExchanged' /\ initFirst' = initFirst
    BY <1>0, <1>6, VersionsFrame DEF Reload
  <2>2. FormatSettled => FormatSettled'
    BY <1>6, SettledFrame DEF Reload
  <2> QED BY <2>1, <2>2 DEF FormatInv
<1>7. CASE InitFails
  <2>1. VersionsExchanged' /\ initFirst' = initFirst
    BY <1>0, <1>7, VersionsFrame DEF InitFails
  <2>2. FormatSettled => FormatSettled'
    BY <1>7, SettledFrame DEF InitFails
  <2> QED BY <2>1, <2>2 DEF FormatInv
<1>8. CASE Arrive
  <2>1. VersionsExchanged' /\ initFirst' = initFirst
    BY <1>0, <1>8, VersionsFrame DEF Arrive
  <2>2. FormatSettled => FormatSettled'
    BY <1>8, SettledFrame DEF Arrive
  <2> QED BY <2>1, <2>2 DEF FormatInv
<1>9. CASE Disconnect
  <2>1. VersionsExchanged' /\ initFirst' = initFirst
    BY <1>0, <1>9, VersionsFrame DEF Disconnect, Hangup
  <2>2. FormatSettled => FormatSettled'
    BY <1>9, SettledFrame DEF Disconnect, Hangup
  <2> QED BY <2>1, <2>2 DEF FormatInv
<1>10. CASE InitSucceeds
  <2>1. VersionsExchanged' /\ initFirst' = initFirst
    BY <1>0, <1>10, VersionsFrame DEF InitSucceeds
  <2>2. FormatSettled => FormatSettled'
    BY <1>10, SettledFrame DEF InitSucceeds
  <2> QED BY <2>1, <2>2 DEF FormatInv
<1>11. CASE Serve
  <2>1. /\ \A e \in Ends : known'[e] = UndeterminedProtocolVersion
        /\ \E e \in Ends : version'[e] = ProtocolVersion
        /\ initFirst' = FALSE /\ initSent' = FALSE /\ socketIface' = FALSE
        /\ UNCHANGED <<stream, data, initialising>>
    BY <1>11 DEF Serve
  <2>2. ~initialising /\ data = {} /\ \A e \in Ends : stream[e] = <<>>
    BY <1>11 DEF Serve, ControlInv
  <2>3. \A e \in Ends : ~Ready(e)'
    BY <2>1 DEF Ready
  <2>4. VersionsExchanged'
    BY <1>0, <2>1, <2>2, <2>3, NoCommands DEF VersionsExchanged, InitDue
  <2>5. FormatSettled'
    BY <1>0, <2>1, <2>2, <2>3 DEF FormatSettled
  <2> QED BY <2>4, <2>5 DEF FormatInv
<1>12. ASSUME NEW e \in Ends, SendVersion(e) PROVE FormatInv'
  <2> DEFINE x == [command |-> "version", fragmentation |-> EnabledFeatures(e)]
             o == Other(e)
  <2>1. /\ x \in Commands /\ x.command = "version" /\ x.fragmentation = EnabledFeatures(e)
        /\ o \in Ends
    BY <1>0 DEF Commands, EnabledFeatures
  <2>2. /\ stream' = [stream EXCEPT ![o] = Append(stream[o], x)]
        /\ e \notin welcomed /\ welcomed' = welcomed \cup {e}
        /\ UNCHANGED <<endVars, initSent, initFirst, initialising, socketIface, data>>
    BY <1>12 DEF SendVersion, Send
  <2>3. e = Other(o) /\ \A d \in Ends \ {o} : Other(d) # e
    BY DEF Other, Ends
  <2>4. ~Ready(o)
    BY <1>0, <2>1, <2>2, <2>3 DEF VersionsExchanged
  <2> HIDE DEF x, o
  <2>5. /\ stream'[o] = Append(stream[o], x)
        /\ \A d \in Ends \ {o} : stream'[d] = stream[d]
    BY <1>0, <2>1, <2>2
  <2>6. /\ Carries(stream[o], "version", EnabledFeatures(e))
            => Carries(Append(stream[o], x), "version", EnabledFeatures(e))
        /\ Carries(stream[o], "init", EnableFragmentation)
            => Carries(Append(stream[o], x), "init", EnableFragmentation)
        /\ Has(Append(stream[o], x), "init") <=> Has(stream[o], "init")
    BY <1>0, <2>1, AppendCommands
  <2>7. /\ \A d \in Ends : (Ready(d)' <=> Ready(d)) /\ EnabledFeatures(d)' = EnabledFeatures(d)
        /\ EnableFragmentation' = EnableFragmentation
    BY <2>2 DEF Ready, EnabledFeatures, EnableFragmentation
  <2>8. InitDue' <=> InitDue
    BY <1>0, <2>2, <2>5, <2>6 DEF InitDue
  <2>9. Carries(stream'["client"], "init", EnableFragmentation')
    BY <1>0, <2>5, <2>6, <2>7 DEF VersionsExchanged
  <2>10. ASSUME NEW d \in Ends
         PROVE  /\ known'[d] \in {UndeterminedProtocolVersion, version'[Other(d)]}
                /\ Other(d) \notin welcomed' => ~Ready(d)' /\ ~Has(stream'[d], "version")
                /\ Has(stream'[d], "version") => ~Ready(d)'
                /\ Carries(stream'[d], "version", EnabledFeatures(Other(d))')
    <3>1. CASE d = o
      BY <1>0, <2>2, <2>3, <2>4, <2>5, <2>6, <2>7, <3>1 DEF VersionsExchanged
    <3>2. CASE d # o
      BY <1>0, <2>2, <2>3, <2>5, <2>7, <3>2 DEF VersionsExchanged
    <3> QED BY <3>1, <3>2
  <2>11. VersionsExchanged'
    BY <1>0, <2>2, <2>7, <2>8, <2>9, <2>10 DEF VersionsExchanged
  <2>12. FormatSettled => FormatSettled'
    BY <2>2, SettledFrame
  <2> QED BY <2>2, <2>11, <2>12 DEF FormatInv
<1>13. ASSUME NEW e \in Ends, ReceiveVersion(e) PROVE FormatInv'
  <2> DEFINE s == stream[e]
             v == version[Other(e)]
             value == IF version[e] = ProtocolVersion THEN featureCheck(v, local[e], Head(s).fragmentation)
                      ELSE OldFragments(e, v, e = "server" /\ local[e])
  <2>1. /\ s # <<>> /\ Head(s).command = "version" /\ s \in Seq(Commands)
        /\ stream' = [stream EXCEPT ![e] = Tail(s)]
        /\ known' = [known EXCEPT ![e] = v]
        /\ enabled' = [enabled EXCEPT ![e] = value]
        /\ UNCHANGED <<version, local, welcomed, initSent, initFirst, data, initialising, socketIface>>
    BY <1>0, <1>13 DEF ReceiveVersion, Receive
  <2>2. v \in Versions /\ v # UndeterminedProtocolVersion
    BY <1>0, <1>00 DEF UndeterminedProtocolVersion
  <2> HIDE DEF s, v, value
  <2>3. /\ Has(s, "version") /\ ~Has(Tail(s), "version") /\ Head(s).fragmentation = EnabledFeatures(Other(e))
        /\ Has(Tail(s), "init") <=> Has(s, "init")
        /\ Carries(Tail(s), "version", EnabledFeatures(Other(e)))
        /\ Carries(s, "init", EnableFragmentation) => Carries(Tail(s), "init", EnableFragmentation)
    BY <1>0, <2>1, TailCommands DEF CommandsOnce, VersionsExchanged, s
  <2>4. ~Ready(e) /\ Other(e) \in welcomed
    BY <1>0, <2>3 DEF VersionsExchanged, s
  <2>5. /\ stream'[e] = Tail(s) /\ \A d \in Ends \ {e} : stream'[d] = stream[d]
        /\ known'[e] = v /\ \A d \in Ends \ {e} : known'[d] = known[d]
        /\ enabled'[e] = value /\ \A d \in Ends \ {e} : enabled'[d] = enabled[d]
    BY <1>0, <2>1
  <2>6. Ready(e)' /\ \A d \in Ends \ {e} : Ready(d)' <=> Ready(d)
    BY <2>2, <2>5 DEF Ready
  <2>7. /\ \A d \in Ends : EnabledFeatures(d)' = EnabledFeatures(d)
        /\ EnableFragmentation' = EnableFragmentation /\ Documented' = Documented
        /\ Refused11' = Refused11
    BY <2>1 DEF EnabledFeatures, EnableFragmentation, Documented, Refused11
  <2>8. InitDue' <=> InitDue
    BY <1>0, <2>1, <2>3, <2>5 DEF InitDue, s
  <2>9. Carries(stream'["client"], "init", EnableFragmentation')
    BY <1>0, <2>3, <2>5, <2>7 DEF VersionsExchanged, s
  <2>10. ASSUME NEW d \in Ends
         PROVE  /\ known'[d] \in {UndeterminedProtocolVersion, version'[Other(d)]}
                /\ Other(d) \notin welcomed' => ~Ready(d)' /\ ~Has(stream'[d], "version")
                /\ Has(stream'[d], "version") => ~Ready(d)'
                /\ Carries(stream'[d], "version", EnabledFeatures(Other(d))')
    <3>1. CASE d = e
      BY <1>0, <2>1, <2>3, <2>4, <2>5, <2>6, <2>7, <3>1 DEF VersionsExchanged, v
    <3>2. CASE d # e
      BY <1>0, <2>1, <2>5, <2>6, <2>7, <3>2 DEF VersionsExchanged
    <3> QED BY <3>1, <3>2
  <2>11. initSent' => Ready("server")'
    BY <1>0, <2>1, <2>6 DEF VersionsExchanged
  <2>12. VersionsExchanged'
    BY <1>0, <2>1, <2>8, <2>9, <2>10, <2>11 DEF VersionsExchanged
  <2>13. ASSUME FormatSettled, ~initFirst PROVE FormatSettled'
    <3>1. CASE e = "server"
      <4>1. value = Documented
        BY <1>0, <2>3, <3>1, ServerConclusion DEF value, v
      <4> QED BY <1>0, <2>1, <2>5, <2>6, <2>7, <2>13, <3>1, <4>1 DEF FormatSettled
    <3>2. CASE e = "client"
      <4>1. ~initialising /\ ~socketIface
        BY <2>4, <2>13, <3>2 DEF FormatSettled
      <4>2. (\A d \in Ends : version[d] = ProtocolVersion) => value = Documented
        BY <1>0, <2>3, <3>2, ClientConclusion DEF value, v
      <4> QED BY <1>0, <2>1, <2>5, <2>6, <2>7, <2>13, <3>2, <4>1, <4>2 DEF FormatSettled
    <3> QED BY <3>1, <3>2 DEF Ends
  <2> QED BY <2>1, <2>12, <2>13 DEF FormatInv
<1>14. ASSUME NEW e \in Ends, WritePacket(e) PROVE FormatInv'
  <2>1. /\ Ready(e) /\ (e = "client" => socketIface)
        /\ data' = data \cup {[to |-> Other(e), fragmented |-> enabled[e]]}
        /\ UNCHANGED <<endVars, welcomed, initSent, initFirst, stream, initialising, socketIface>>
    BY <1>14 DEF WritePacket
  <2>2. VersionsExchanged'
    BY <1>0, <2>1, VersionsFrame
  <2>3. /\ UNCHANGED <<Documented, Refused11>> /\ version' = version /\ enabled' = enabled
        /\ \A d \in Ends : Ready(d)' <=> Ready(d)
    BY <2>1 DEF Documented, Refused11, Ready, EnabledFeatures, EnableFragmentation
  <2>4. ASSUME FormatSettled PROVE FormatSettled'
    <3>1. e = "server" => enabled[e] = Documented /\ Other(e) = "client"
      BY <2>1, <2>4 DEF FormatSettled, Other
    <3>2. e = "client" => Other(e) = "server" /\ (~Refused11 => enabled[e] = Documented)
      BY <2>1, <2>4 DEF FormatSettled, Other
    <3>3. \A m \in data' : m.to = "client" \/ ~Refused11 => m.fragmented = Documented
      BY <2>1, <2>4, <3>1, <3>2 DEF FormatSettled, Ends
    <3> QED BY <1>0, <2>1, <2>3, <2>4, <3>3 DEF FormatSettled
  <2> QED BY <2>1, <2>2, <2>4 DEF FormatInv
<1>15. CASE SendInit
  <2> DEFINE x == [command |-> "init", fragmentation |-> EnableFragmentation]
             s == stream["client"]
  <2>1. x \in Commands /\ x.command = "init" /\ x.fragmentation = EnableFragmentation
    BY DEF Commands, EnableFragmentation
  <2>2. /\ stream' = [stream EXCEPT !["client"] = Append(s, x)]
        /\ Ready("server") /\ ~initSent /\ initSent' = TRUE /\ s \in Seq(Commands)
        /\ UNCHANGED <<endVars, welcomed, initFirst, initialising, socketIface, data>>
    BY <1>0, <1>15 DEF SendInit, Send
  <2> HIDE DEF x, s
  <2>3. stream'["client"] = Append(s, x) /\ stream'["server"] = stream["server"]
    BY <1>0, <2>2
  <2>4. /\ \A d \in Ends : (Ready(d)' <=> Ready(d)) /\ EnabledFeatures(d)' = EnabledFeatures(d)
        /\ EnableFragmentation' = EnableFragmentation
    BY <2>2 DEF Ready, EnabledFeatures, EnableFragmentation
  <2>5. /\ Has(Append(s, x), "version") <=> Has(s, "version")
        /\ Carries(s, "version", EnabledFeatures("server"))
            => Carries(Append(s, x), "version", EnabledFeatures("server"))
        /\ Carries(s, "init", EnableFragmentation)
            => Carries(Append(s, x), "init", EnableFragmentation)
    BY <2>1, <2>2, AppendCommands
  <2>6. InitDue /\ ~initFirst
    BY <1>0, <2>2 DEF InitDue, VersionsExchanged
  <2>7. ASSUME NEW d \in Ends
         PROVE  /\ known'[d] \in {UndeterminedProtocolVersion, version'[Other(d)]}
                /\ Other(d) \notin welcomed' => ~Ready(d)' /\ ~Has(stream'[d], "version")
                /\ Has(stream'[d], "version") => ~Ready(d)'
                /\ Carries(stream'[d], "version", EnabledFeatures(Other(d))')
    <3>1. CASE d = "client"
      BY <1>0, <2>2, <2>3, <2>4, <2>5, <3>1 DEF VersionsExchanged, s
    <3>2. CASE d = "server"
      BY <1>0, <2>2, <2>3, <2>4, <3>2 DEF VersionsExchanged
    <3> QED BY <3>1, <3>2 DEF Ends
  <2>8. Carries(stream'["client"], "init", EnableFragmentation')
    BY <1>0, <2>3, <2>4, <2>5 DEF VersionsExchanged, s
  <2>9. VersionsExchanged'
    BY <1>0, <2>2, <2>4, <2>6, <2>7, <2>8 DEF VersionsExchanged
  <2>10. FormatSettled => FormatSettled'
    BY <2>2, SettledFrame
  <2> QED BY <2>2, <2>9, <2>10 DEF FormatInv
<1>16. CASE ReceiveInit
  <2> DEFINE s == stream["client"]
             f == Head(s).fragmentation
  <2>1. /\ s # <<>> /\ Head(s).command = "init" /\ s \in Seq(Commands)
        /\ stream' = [stream EXCEPT !["client"] = Tail(s)]
        /\ initialising' = TRUE /\ initFirst' = ~Ready("client")
        /\ UNCHANGED <<version, known, welcomed, initSent, data, socketIface>>
    BY <1>0, <1>16 DEF ReceiveInit, Receive
  <2> HIDE DEF s, f
  <2>2. /\ Has(s, "init") /\ ~Has(Tail(s), "init") /\ f = EnableFragmentation
        /\ Has(Tail(s), "version") <=> Has(s, "version")
        /\ Carries(s, "version", EnabledFeatures("server"))
            => Carries(Tail(s), "version", EnabledFeatures("server"))
        /\ Carries(Tail(s), "init", EnableFragmentation)
    <3>1. Single(s, "init") /\ Carries(s, "init", EnableFragmentation)
      BY <1>0 DEF CommandsOnce, VersionsExchanged, s
    <3> QED BY <2>1, <3>1, TailCommands DEF f
  <2>3. initSent /\ InitDue
    BY <2>2 DEF CommandsOnce, InitDue, s
  <2>4. ~initFirst /\ Ready("server") /\ ~Has(stream["server"], "version")
    BY <1>0, <2>3 DEF VersionsExchanged
  <2>5. stream'["client"] = Tail(s) /\ stream'["server"] = stream["server"]
    BY <1>0, <2>1
  <2>6. local'["server"] = local["server"] /\ enabled'["server"] = enabled["server"]
    <3>1. CASE version["client"] = ProtocolVersion
      BY <1>0, <1>16, <3>1 DEF ReceiveInit, HandleInitPacketFragmentation
    <3>2. CASE version["client"] # ProtocolVersion
      BY <1>0, <1>16, <3>2 DEF ReceiveInit
    <3> QED BY <3>1, <3>2
  <2>7. /\ \A d \in Ends : Ready(d)' <=> Ready(d)
        /\ EnabledFeatures("server")' = EnabledFeatures("server")
        /\ EnableFragmentation' = EnableFragmentation /\ Refused11' = Refused11
    BY <2>1, <2>6 DEF Ready, EnabledFeatures, EnableFragmentation, Refused11
  <2>8. ~Has(stream'["client"], "init") /\ ~InitDue'
    BY <2>1, <2>2, <2>3, <2>5 DEF InitDue
  <2>9. ASSUME NEW d \in Ends
         PROVE  /\ known'[d] \in {UndeterminedProtocolVersion, version'[Other(d)]}
                /\ Other(d) \notin welcomed' => ~Ready(d)' /\ ~Has(stream'[d], "version")
                /\ Has(stream'[d], "version") => ~Ready(d)'
                /\ Carries(stream'[d], "version", EnabledFeatures(Other(d))')
    <3>1. CASE d = "client"
      BY <1>0, <2>1, <2>2, <2>5, <2>7, <3>1 DEF VersionsExchanged, s
    <3>2. CASE d = "server"
      <4>1. \A i \in 1..Len(stream["server"]) : stream["server"][i].command # "version"
        BY <2>4 DEF Has
      <4>2. Carries(stream["server"], "version", EnabledFeatures("client")')
        BY <4>1 DEF Carries
      <4> QED BY <1>0, <2>1, <2>5, <2>7, <3>2, <4>2 DEF VersionsExchanged
    <3> QED BY <3>1, <3>2 DEF Ends
  <2>10. Carries(stream'["client"], "init", EnableFragmentation')
    BY <2>2, <2>5, <2>7
  <2>11. VersionsExchanged'
    BY <1>0, <2>1, <2>4, <2>7, <2>8, <2>9, <2>10 DEF VersionsExchanged
  <2>12. ASSUME ~initFirst' PROVE FormatSettled'
    <3>1. /\ FormatSettled /\ Ready("client") /\ known["client"] = version["server"]
      BY <1>0, <2>1, <2>4, <2>12 DEF FormatInv, VersionsExchanged, Ready
    <3>2. version["server"] \in 1..12 /\ version["client"] \in 1..12
      BY <1>0, VersionNumbers
    <3>3. CASE version["client"] = ProtocolVersion /\ version["server"] >= featureFieldMinProtocol
      <4>1. UNCHANGED <<local, enabled>>
        BY <1>16, <3>1, <3>3 DEF ReceiveInit, HandleInitPacketFragmentation
      <4>2. Documented' = Documented
        BY <2>1, <4>1 DEF Documented, EnabledFeatures, EnableFragmentation
      <4>3. \A d \in Ends : version[d] = ProtocolVersion
        BY <1>0, <3>2, <3>3 DEF Ends, ProtocolVersion, featureFieldMinProtocol
      <4>4. enabled["client"] = Documented
        BY <3>1, <4>3 DEF FormatSettled
      <4> QED BY <1>0, <2>1, <2>7, <3>1, <4>1, <4>2, <4>4 DEF FormatSettled
    <3>4. CASE ~(version["client"] = ProtocolVersion /\ version["server"] >= featureFieldMinProtocol)
      <4>1. ~ \A d \in Ends : version[d] >= 12 /\ EnabledFeatures(d)
        BY <1>0, <3>2, <3>4 DEF ProtocolVersion, featureFieldMinProtocol
      <4>2. ~ \A d \in Ends : version'[d] >= 12 /\ EnabledFeatures(d)'
        BY <1>0, <2>1, <3>2, <3>4 DEF ProtocolVersion, featureFieldMinProtocol
      <4>3. Documented' = Documented
        BY <2>1, <2>7, <4>1, <4>2 DEF Documented
      <4>4. ~ \A d \in Ends : version[d] = ProtocolVersion
        BY <1>0, <3>2, <3>4 DEF ProtocolVersion, featureFieldMinProtocol
      <4>5. ~Refused11 => enabled'["client"] = Documented
        <5>1. CASE version["client"] = ProtocolVersion
          <6>1. ~(known["client"] >= featureFieldMinProtocol) /\ version["server"] < featureFieldMinProtocol
            BY <3>1, <3>2, <3>4, <5>1 DEF featureFieldMinProtocol
          <6>2. enabled' = [enabled EXCEPT !["client"] = featureCheck(known["client"], TRUE, f)]
            BY <1>16, <3>1, <5>1, <6>1 DEF ReceiveInit, HandleInitPacketFragmentation, f, s
          <6>3. enabled'["client"] = featureCheck(version["server"], TRUE, EnableFragmentation)
            BY <1>0, <2>2, <3>1, <6>2
          <6> QED BY <1>0, <5>1, <6>1, <6>3, InitConclusion
        <5>2. CASE version["client"] # ProtocolVersion
          <6>1. enabled' = [enabled EXCEPT !["client"] = OldFragments("client", known["client"], f)]
            BY <1>16, <5>2 DEF ReceiveInit, f, s
          <6>2. enabled'["client"] = OldFragments("client", version["server"], EnableFragmentation)
            BY <1>0, <2>2, <3>1, <6>1
          <6> QED BY <1>0, <5>2, <6>2, InitConclusion
        <5> QED BY <5>1, <5>2
      <4> QED BY <1>0, <2>1, <2>6, <2>7, <3>1, <4>3, <4>4, <4>5 DEF FormatSettled
    <3> QED BY <3>3, <3>4
  <2> QED BY <2>11, <2>12 DEF FormatInv
<1>17. CASE UNCHANGED vars
  <2>1. VersionsExchanged' /\ initFirst' = initFirst
    BY <1>0, <1>17, VersionsFrame DEF vars
  <2>2. FormatSettled => FormatSettled'
    BY <1>17, SettledFrame DEF vars
  <2> QED BY <2>1, <2>2 DEF FormatInv
<1> QED
  BY <1>1, <1>2, <1>3, <1>4, <1>5, <1>6, <1>7, <1>8, <1>9, <1>10, <1>11, <1>12, <1>13, <1>14, <1>15, <1>16, <1>17 DEF Next, Finished

----------------------------------------------------------------------------
(* The theorems *)

\* The whole invariant holds in every reachable state.
LEMMA SessionInvariant ==
    Spec => [](TypeOK /\ CommandsOnce /\ ControlInv /\ FormatInv /\ ScriptsPaired)
<1>1. TypeOK /\ CommandsOnce /\ ControlInv /\ FormatInv /\ ScriptsPaired /\ [Next]_vars
        => (TypeOK /\ CommandsOnce /\ ControlInv /\ FormatInv /\ ScriptsPaired)'
  BY TypingNext, ControlNext, FormatNext
<1> QED
  BY <1>1, SessionInit, PTL DEF Spec

\* Type correctness of the client's connections.
THEOREM TypeCorrect == Spec => []TypeOK
BY SessionInvariant, PTL

\* Whatever step of init fails and whenever the connection breaks, the client has no
\* interface open that is not Client.iface, and none when it connects again or has ended.
THEOREM InterfacesClosed == Spec => []NoInterfaceLeft
<1>1. ControlInv => NoInterfaceLeft
  BY DEF ControlInv, Fresh, NoInterfaceLeft
<1> QED
  BY <1>1, SessionInvariant, PTL

\* Every up script is followed by one down script for the same network and interface before
\* the client connects again or ends.
THEOREM ScriptsArePaired == Spec => []ScriptsPaired
BY SessionInvariant, PTL

\* Whatever the versions of the two ends, a data message that is handed on has the format
\* its receiver takes it for, however late it arrives, with the two exceptions FormatsAgree
\* names.
THEOREM FormatsAlwaysAgree == Spec => []FormatsAgree
<1>1. TypeOK /\ FormatInv => FormatsAgree
  BY DEF TypeOK, FormatInv, FormatSettled, FormatsAgree, Processes, Ends
<1> QED
  BY <1>1, SessionInvariant, PTL

\* Both ends of an established connection use fragmentation exactly when docs/PROTOCOL.md
\* says so, for every pair of versions, with the same two exceptions.
THEOREM FragmentationDocumented == Spec => []FragmentationAsDocumented
<1>1. FormatInv => FragmentationAsDocumented
  BY DEF FormatInv, FormatSettled, FragmentationAsDocumented, Established, Ends
<1> QED
  BY <1>1, SessionInvariant, PTL
====
