------------------------------- MODULE Session -------------------------------
(***************************************************************************)
(* A client and its connections, one after the other: ServeLoop, the       *)
(* exchange of the version and init commands with the server, what both    *)
(* ends conclude from it about the format of data messages, the interface  *)
(* that init opens, and the scripts.                                       *)
(*                                                                         *)
(* The ends are this code (protocol 12) or, at one end, an older release,  *)
(* for which the code has rules of its own; an older end is modelled from  *)
(* docs/PROTOCOL.md and from what this code expects of it.  Commands stay  *)
(* in order; data messages do not stay in order, neither with each other   *)
(* nor with commands (WebTransport datagrams).  The wake-ups of WaitReady  *)
(* and the goroutines of a socket are the subject of module Socket.        *)
(***************************************************************************)
EXTENDS Naturals, Sequences

CONSTANTS
    OldVersions,     \* protocol versions of older releases
    MaxConnections,  \* bound on the connections a client makes
    MaxReloads       \* bound on the reloads of the client's configuration

UndeterminedProtocolVersion == 0
fragmentationMinProtocol == 10
fragmentationNegotiatedMinProtocol == 11
featureFieldMinProtocol == 12
ProtocolVersion == 12

\* MinProtocolVersion of the two commands.
versionMinProtocol == 0
initMinProtocol == 1

ASSUME VersionsAssumption == OldVersions \subseteq 1..(ProtocolVersion - 1)
ASSUME BoundsAssumption == MaxConnections \in Nat /\ MaxReloads \in Nat

Ends == {"client", "server"}
Versions == OldVersions \cup {ProtocolVersion}
Other(e) == IF e = "client" THEN "server" ELSE "client"

VARIABLES
    loop,         \* where ServeLoop is
    connections,  \* connections made so far; the number names the current one
    config,       \* AutoReconnectDelay > 0, and the fragmentation feature
    reloads,
    connected,    \* the connection is open
    version,      \* the protocol version of each end
    local,        \* localFeatures has fragmentation
    known,        \* remoteProtocolVersion
    remote,       \* remoteFeatures has fragmentation
    enabled,      \* fragmentationEnabled
    welcomed,     \* ends that have sent their version command
    initSent,     \* the server has sent init
    stream,       \* commands on their way to an end
    data,         \* data messages on their way
    initialising, \* the client's init handler is under way
    iface,        \* Client.iface: 0 or the connection that opened it
    socketIface,  \* Socket.iface is set on the client's socket
    open,         \* interfaces the client has open
    remoteNet,    \* Client.remoteNet: 0 or the connection it is from
    sentUpEvent,  \* Client.sentUpEvent
    scripts,      \* history: the last up and the last down script started
    initFirst     \* history: the client has got init before the version command

loopVars == <<loop, connections, config, reloads>>
endVars == <<version, local, known, remote, enabled>>
streamVars == <<connected, welcomed, initSent, initFirst, stream, data>>
clientVars == <<initialising, iface, socketIface, open, remoteNet, sentUpEvent, scripts>>
vars == <<loopVars, endVars, streamVars, clientVars>>

----------------------------------------------------------------------------
(* What an end concludes about fragmentation *)

\* Mutant: the feature of this end is not asked for.
featureCheckRemoteOnly(v, l, r) ==
    IF v >= fragmentationMinProtocol /\ v < fragmentationNegotiatedMinProtocol THEN TRUE
    ELSE IF v >= fragmentationNegotiatedMinProtocol /\ v < featureFieldMinProtocol THEN l
    ELSE r

\* featureCheck: the peer's version, the local and the remote feature.
featureCheck(v, l, r) ==
    IF v >= fragmentationMinProtocol /\ v < fragmentationNegotiatedMinProtocol THEN TRUE
    ELSE IF v >= fragmentationNegotiatedMinProtocol /\ v < featureFieldMinProtocol THEN l
    ELSE l /\ r

\* An older end: version 10 always fragments when the peer can, version 11 does what
\* the server's init command says (which the server takes from its setting).
OldFragments(e, v, setting) ==
    /\ version[e] >= fragmentationMinProtocol
    /\ v >= fragmentationMinProtocol
    /\ version[e] = fragmentationMinProtocol \/ v = fragmentationMinProtocol \/ setting

\* The enabled_features of the version command.
EnabledFeatures(e) == version[e] >= featureFieldMinProtocol /\ local[e]

\* enable_fragmentation of the init command; a missing field is read as false.
EnableFragmentation ==
    version["server"] >= fragmentationNegotiatedMinProtocol /\ local["server"]

\* The end has handled the peer's version command: it is ready.
Ready(e) == known[e] # UndeterminedProtocolVersion

----------------------------------------------------------------------------
NoScript == [net |-> 0, iface |-> 0]

Init ==
    /\ loop = "close"
    /\ connections = 0
    /\ config \in [reconnect : BOOLEAN, fragmentation : BOOLEAN]
    /\ reloads = 0
    /\ version = [e \in Ends |-> ProtocolVersion]
    /\ local = [e \in Ends |-> FALSE]
    /\ known = [e \in Ends |-> UndeterminedProtocolVersion]
    /\ remote = [e \in Ends |-> FALSE]
    /\ enabled = [e \in Ends |-> FALSE]
    /\ connected = FALSE
    /\ welcomed = {}
    /\ initSent = FALSE
    /\ stream = [e \in Ends |-> <<>>]
    /\ data = {}
    /\ initialising = FALSE
    /\ iface = 0
    /\ socketIface = FALSE
    /\ open = {}
    /\ remoteNet = 0
    /\ sentUpEvent = FALSE
    /\ scripts = [up |-> NoScript, down |-> NoScript]
    /\ initFirst = FALSE

\* The connection is gone, with everything on its way.  Either end's socket is
\* closed, and a client's socket closes its interface.
Hangup ==
    /\ connected' = FALSE
    /\ stream' = [e \in Ends |-> <<>>]
    /\ data' = {}
    /\ open' = IF socketIface THEN open \ {iface} ELSE open

\* The script of an event is started with the network and an interface's name.
RunEventScript(event, name) ==
    [scripts EXCEPT ![event] = [net |-> remoteNet, iface |-> name]]

----------------------------------------------------------------------------
(* The loop of the client *)

\* Mutant: the down script is started when the interface is gone.
closeInternalScriptLast(next) ==
    /\ scripts' = IF sentUpEvent THEN RunEventScript("down", 0) ELSE scripts
    /\ sentUpEvent' = FALSE
    /\ connected' = FALSE
    /\ stream' = [e \in Ends |-> <<>>]
    /\ data' = {}
    /\ open' = open \ {iface}
    /\ iface' = 0
    /\ loop' = next

\* Mutant: only the socket closes the interface.
closeInternalKeepsInterface(next) ==
    /\ scripts' = IF sentUpEvent THEN RunEventScript("down", iface) ELSE scripts
    /\ sentUpEvent' = FALSE
    /\ Hangup
    /\ iface' = 0
    /\ loop' = next

\* closeInternal: the down script, the socket, the adapter, the interface.
closeInternal(next) ==
    /\ scripts' = IF sentUpEvent THEN RunEventScript("down", iface) ELSE scripts
    /\ sentUpEvent' = FALSE
    /\ connected' = FALSE
    /\ stream' = [e \in Ends |-> <<>>]
    /\ data' = {}
    /\ open' = open \ {iface}
    /\ iface' = 0
    /\ loop' = next

CloseOld ==
    /\ loop = "close"
    /\ closeInternal("serve")
    /\ UNCHANGED <<connections, config, reloads, endVars, welcomed, initSent, initFirst, initialising,
                   socketIface, remoteNet>>

\* Serve, when the server cannot be reached: there is no socket to wait for.
ServeFails ==
    /\ loop = "serve"
    /\ loop' = "delay"
    /\ UNCHANGED <<connections, config, reloads, endVars, streamVars, clientVars>>

\* Serve makes a socket with the configured features; the server makes its own.
Serve ==
    /\ loop = "serve"
    /\ connections < MaxConnections
    /\ loop' = "wait"
    /\ connections' = connections + 1
    /\ version' \in {v \in [Ends -> Versions] : \E e \in Ends : v[e] = ProtocolVersion}
    /\ \E s \in BOOLEAN : local' = [e \in Ends |-> IF e = "client" THEN config.fragmentation ELSE s]
    /\ known' = [e \in Ends |-> UndeterminedProtocolVersion]
    /\ remote' = [e \in Ends |-> FALSE]
    /\ enabled' = [e \in Ends |-> FALSE]
    /\ connected' = TRUE
    /\ welcomed' = {}
    /\ initSent' = FALSE
    /\ initFirst' = FALSE
    /\ socketIface' = FALSE
    /\ UNCHANGED <<config, reloads, stream, data, initialising, iface, open, remoteNet,
                   sentUpEvent, scripts>>

\* Wait returns when the goroutines of the socket are gone, the one that runs the
\* command handlers included.
WaitReturns ==
    /\ loop = "wait"
    /\ ~connected /\ ~initialising
    /\ loop' = "delay"
    /\ UNCHANGED <<connections, config, reloads, endVars, streamVars, clientVars>>

Reconnect ==
    /\ loop = "delay"
    /\ config.reconnect
    /\ loop' = "close"
    /\ UNCHANGED <<connections, config, reloads, endVars, streamVars, clientVars>>

\* ServeLoop ends, and Main's deferred Close follows.
Exit ==
    /\ loop = "delay"
    /\ ~config.reconnect
    /\ closeInternal("exit")
    /\ UNCHANGED <<connections, config, reloads, endVars, welcomed, initSent, initFirst, initialising,
                   socketIface, remoteNet>>

\* reloadConfig replaces the client's settings, not those of its socket.
Reload ==
    /\ reloads < MaxReloads
    /\ loop # "exit"
    /\ reloads' = reloads + 1
    /\ config' \in [reconnect : BOOLEAN, fragmentation : BOOLEAN]
    /\ UNCHANGED <<loop, connections, endVars, streamVars, clientVars>>

----------------------------------------------------------------------------
(* Commands *)

\* rawMakeAndSendCommand refuses a command that the peer is too old for.
Send(e, command, minProtocol) ==
    /\ known[e] >= minProtocol
    /\ stream' = [stream EXCEPT ![Other(e)] = Append(@, command)]

Receive(e) == stream' = [stream EXCEPT ![e] = Tail(@)]

\* sendDefaultWelcome.
SendVersion(e) ==
    /\ connected
    /\ e \notin welcomed
    /\ Send(e, [command |-> "version", fragmentation |-> EnabledFeatures(e)], versionMinProtocol)
    /\ welcomed' = welcomed \cup {e}
    /\ UNCHANGED <<loopVars, endVars, connected, initSent, initFirst, data, clientVars>>

\* Mutant: the next version is stored.
ReceiveVersionOffByOne(e) ==
    /\ e = "client" => ~initialising
    /\ stream[e] # <<>>
    /\ Head(stream[e]).command = "version"
    /\ known' = [known EXCEPT ![e] = version[Other(e)] + 1]
    /\ Receive(e)
    /\ UNCHANGED <<loopVars, version, local, remote, enabled, connected, welcomed, initSent,
                   initFirst, data, clientVars>>

\* The version handler.  An end handles one command after the other.
ReceiveVersion(e) ==
    /\ e = "client" => ~initialising
    /\ stream[e] # <<>>
    /\ Head(stream[e]).command = "version"
    /\ LET v == version[Other(e)]
           r == Head(stream[e]).fragmentation IN
       /\ known' = [known EXCEPT ![e] = v]
       /\ remote' = [remote EXCEPT ![e] = r]
       /\ enabled' = [enabled EXCEPT ![e] =
                         IF version[e] = ProtocolVersion THEN featureCheck(v, local[e], r)
                         ELSE OldFragments(e, v, e = "server" /\ local[e])]
    /\ Receive(e)
    /\ UNCHANGED <<loopVars, version, local, connected, welcomed, initSent, initFirst, data, clientVars>>

\* serveSocket sends init after WaitReady.
SendInit ==
    /\ connected
    /\ Ready("server")
    /\ ~initSent
    /\ Send("server", [command |-> "init", fragmentation |-> EnableFragmentation],
            initMinProtocol)
    /\ initSent' = TRUE
    /\ UNCHANGED <<loopVars, endVars, connected, welcomed, initFirst, data, clientVars>>

\* Mutant: the field decides whatever the server's version is.
HandleInitAlways(f) ==
    /\ local' = [local EXCEPT !["client"] = TRUE]
    /\ remote' = [remote EXCEPT !["client"] = f]
    /\ enabled' = [enabled EXCEPT !["client"] = featureCheck(known["client"], TRUE, f)]

\* HandleInitPacketFragmentation(f) of the client's socket.
HandleInitPacketFragmentation(f) ==
    IF known["client"] >= featureFieldMinProtocol
    THEN UNCHANGED <<local, remote, enabled>>
    ELSE /\ local' = [local EXCEPT !["client"] = TRUE]
         /\ remote' = [remote EXCEPT !["client"] = f]
         /\ enabled' = IF Ready("client")
                       THEN [enabled EXCEPT !["client"] = featureCheck(known["client"], TRUE, f)]
                       ELSE enabled

\* The init handler up to the interface.
ReceiveInit ==
    /\ stream["client"] # <<>>
    /\ Head(stream["client"]).command = "init"
    /\ LET f == Head(stream["client"]).fragmentation IN
       IF version["client"] = ProtocolVersion
       THEN HandleInitPacketFragmentation(f)
       ELSE /\ enabled' = [enabled EXCEPT !["client"] = OldFragments("client", known["client"], f)]
            /\ UNCHANGED <<local, remote>>
    /\ initFirst' = ~Ready("client")
    /\ remoteNet' = connections
    /\ initialising' = TRUE
    /\ Receive("client")
    /\ UNCHANGED <<loopVars, version, known, connected, welcomed, initSent, data, iface,
                   socketIface, open, sentUpEvent, scripts>>

\* The rest of it: the interface is opened, configured and given to the socket.  If
\* the connection is gone, the reply fails and CloseError closes the interface again.
InitSucceeds ==
    /\ initialising
    /\ initialising' = FALSE
    /\ iface' = connections
    /\ open' = IF connected THEN open \cup {connections} ELSE open
    /\ socketIface' = TRUE
    /\ scripts' = RunEventScript("up", connections)
    /\ sentUpEvent' = TRUE
    /\ UNCHANGED <<loopVars, endVars, streamVars, remoteNet>>

\* It cannot be opened, or not be configured: the control handler reports that.  A
\* WebSocket adapter ends then; a WebTransport adapter does not look at the result, and
\* the connection stays, with a client's socket that has no interface.
InitFails ==
    /\ initialising
    /\ initialising' = FALSE
    /\ \/ UNCHANGED <<iface, open>>
       \/ iface' = connections /\ open' = open \cup {connections}
    /\ \/ connected' = FALSE /\ stream' = [e \in Ends |-> <<>>] /\ data' = {}
       \/ UNCHANGED <<connected, stream, data>>
    /\ UNCHANGED <<loopVars, endVars, welcomed, initSent, initFirst, socketIface, remoteNet, sentUpEvent,
                   scripts>>

----------------------------------------------------------------------------
(* Data *)

\* WritePacket.  Packets come from the switch on the server, and on the client from
\* the interface.
WritePacket(e) ==
    /\ connected
    /\ Ready(e)
    /\ e = "client" => socketIface
    /\ data' = data \cup {[to |-> Other(e), fragmented |-> enabled[e]]}
    /\ UNCHANGED <<loopVars, endVars, connected, welcomed, initSent, initFirst, stream, clientVars>>

\* A message is received, or lost.
Arrive ==
    /\ \E m \in data : data' = data \ {m}
    /\ UNCHANGED <<loopVars, endVars, connected, welcomed, initSent, initFirst, stream, clientVars>>

\* The connection breaks.
Disconnect ==
    /\ connected
    /\ Hangup
    /\ UNCHANGED <<loopVars, endVars, welcomed, initSent, initFirst, initialising, iface, socketIface,
                   remoteNet, sentUpEvent, scripts>>

----------------------------------------------------------------------------
\* The client has stopped, or has used up its connections.
Finished ==
    /\ loop = "exit" \/ (loop = "serve" /\ connections = MaxConnections)
    /\ UNCHANGED vars

Next ==
    \/ CloseOld \/ ServeFails \/ Serve \/ WaitReturns \/ Reconnect \/ Exit \/ Reload
    \/ \E e \in Ends : SendVersion(e) \/ ReceiveVersion(e) \/ WritePacket(e)
    \/ SendInit \/ ReceiveInit \/ InitSucceeds \/ InitFails
    \/ Arrive \/ Disconnect
    \/ Finished

Spec == Init /\ [][Next]_vars

----------------------------------------------------------------------------
(* Properties *)

Scripts == [net : 0..MaxConnections, iface : 0..MaxConnections]

\* The types.
TypeOK ==
    /\ loop \in {"close", "serve", "wait", "delay", "exit"}
    /\ connections \in 0..MaxConnections
    /\ config \in [reconnect : BOOLEAN, fragmentation : BOOLEAN]
    /\ reloads \in 0..MaxReloads
    /\ version \in [Ends -> Versions]
    /\ local \in [Ends -> BOOLEAN]
    /\ known \in [Ends -> Versions \cup {UndeterminedProtocolVersion}]
    /\ remote \in [Ends -> BOOLEAN]
    /\ enabled \in [Ends -> BOOLEAN]
    /\ connected \in BOOLEAN
    /\ welcomed \subseteq Ends
    /\ initSent \in BOOLEAN
    /\ stream \in [Ends -> Seq([command : {"version", "init"}, fragmentation : BOOLEAN])]
    /\ data \subseteq [to : Ends, fragmented : BOOLEAN]
    /\ initialising \in BOOLEAN
    /\ iface \in 0..MaxConnections
    /\ socketIface \in BOOLEAN
    /\ open \subseteq 1..MaxConnections
    /\ remoteNet \in 0..MaxConnections
    /\ sentUpEvent \in BOOLEAN
    /\ scripts \in [up : Scripts, down : Scripts]
    /\ initFirst \in BOOLEAN

\* A server of version 11 that has fragmentation switched off: the client switches
\* its own on (HandleInitPacketFragmentation sets the local feature to true, and for
\* this version featureCheck looks at nothing else).
Refused11 ==
    version["server"] = fragmentationNegotiatedMinProtocol /\ ~local["server"]

\* When an end may hand a data message on: the client drops what arrives while it has
\* no interface.
Processes(e) == Ready(e) /\ (e = "client" => socketIface)

\* Both ends know each other and the tunnel is up.
Established == connected /\ socketIface /\ \A e \in Ends : Ready(e)

\* A data message that is handed on is in the format its receiver takes it for,
\* whenever it was sent and however late it arrives, unless init has overtaken the
\* version command (sendDefaultWelcome runs in a goroutine of its own).
FormatsAgree ==
    connected /\ ~Refused11 /\ ~initFirst =>
        \A m \in data : Processes(m.to) => m.fragmented = enabled[m.to]

\* The rules of docs/PROTOCOL.md for enabling fragmentation.
Documented ==
    \/ \A e \in Ends : version[e] >= 12 /\ EnabledFeatures(e)
    \/ \E e \in Ends : version[e] = 10 /\ version[Other(e)] >= 10
    \/ (\E e \in Ends : version[e] = 11 /\ version[Other(e)] >= 11) /\ EnableFragmentation

\* Both ends of an established connection use fragmentation exactly when the
\* protocol says so (featureCheck, HandleInitPacketFragmentation), again unless init
\* has overtaken the version command.
FragmentationAsDocumented ==
    Established /\ ~Refused11 /\ ~initFirst => \A e \in Ends : enabled[e] = Documented

\* Without that exception, for two ends of this release: fragmentation is used if
\* both have announced it in their version commands, and only then.
FeaturesAgreed ==
    Established /\ (\A e \in Ends : version[e] = ProtocolVersion) =>
        \A e \in Ends : enabled[e] = (remote["client"] /\ remote["server"])

\* The client never has an interface open that is not Client.iface, and none when it
\* connects or has ended, whatever step of init failed (closeInternal).
NoInterfaceLeft ==
    /\ open \subseteq {iface}
    /\ loop \in {"serve", "exit"} => open = {}

\* Every up script is followed by one down script, for the same network and
\* interface, before the next connection is made and before the client ends.
ScriptsPaired ==
    /\ ~sentUpEvent => scripts.down = scripts.up
    /\ sentUpEvent => scripts.up = [net |-> remoteNet, iface |-> iface]
    /\ loop \in {"serve", "exit"} => ~sentUpEvent
=============================================================================
