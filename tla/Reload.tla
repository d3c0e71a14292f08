------------------------------- MODULE Reload -------------------------------
(***************************************************************************)
(* reloadConfig on a running server, setting by setting, while connections *)
(* are made.  The handlers read the settings without a lock, each one at   *)
(* another moment; only the list of sockets is protected (socketsLock).    *)
(*                                                                         *)
(* Except for the MTU a setting is the version of the file it comes from.  *)
(* Every edit of the file makes a new version, with a fault or without.    *)
(***************************************************************************)
EXTENDS Naturals, Sequences, FiniteSets

CONSTANTS
    Conns,        \* connections
    MTUs,         \* values of tunnel.mtu
    NoMTU,        \* nothing set yet
    Faults,       \* where reloadConfig may find a fault in the file
    Setups        \* the cases to look at: interface.one-interface-per-connection, the
                  \* connections there may be, and a bound on the versions of the file

\* Mutant: the authenticator is replaced too early.
AuthenticatorFirst == <<"ping", "features", "auth", "api", "mtu", "limits", "tls", "sockets">>

\* What reloadConfig does, in its order.  "ping" is the SocketConfigurator, with the website
\* and the IP configuration; "api" comes after the scripts and the mode, and with the
\* headers; "mtu" calls Server.SetMTU; "limits" is max-connections-per-user (an unknown
\* mode of it leaves the old one, which Server.Reload allows for), with the
\* interface and switch settings; "sockets" calls Server.UpdateSocketConfig, after the
\* preauthorisation secret.
Stages == <<"ping", "features", "api", "mtu", "limits", "auth", "tls", "sockets">>

Settings == {Stages[i] : i \in DOMAIN Stages}

ASSUME ConstantsAssumption ==
    /\ NoMTU \notin MTUs /\ MTUs # {}
    /\ Faults \subseteq {"load", "features", "mode", "mtu", "auth", "tls"}
    /\ Setups \subseteq [own : BOOLEAN, conns : SUBSET Conns, versions : Nat \ {0}]

VARIABLES
    setup,     \* the case, which does not change
    file,      \* the configuration file: its version, its MTU and its fault
    config,    \* what reloadConfig has loaded
    stage,     \* its next stage, 0 if it does not run
    applied,   \* the version of the file that each setting is from
    mtu,       \* Server.mtu
    mainMTU,   \* the MTU of the main interface
    mainSet,   \* SetMTU is done with the main interface and waits for socketsLock
    unsent,    \* sockets SetMTU has still to update
    lock,      \* SetMTU has socketsLock
    at,        \* where each connection is
    used,      \* the versions each connection has read so far, by setting
    pingConf,  \* version of the ping settings of each socket
    sockMTU,   \* MTU of each socket (its packetBufferSize)
    ifaceMTU,  \* MTU of each connection's own interface
    clientMTU, \* MTU the client has been told last
    torn,      \* history: SetMTU failed half-way, and no other has succeeded since
    crossed,   \* history: connections that SetMTU met between listing and init, or between
               \* the set-up of their interface and listing, and never again
    stale      \* history: connections that read SocketConfigurator before it was replaced
               \* and used it afterwards

reloadVars == <<config, stage, applied>>
mtuVars == <<mtu, mainMTU, mainSet, unsent, lock>>
connVars == <<at, used, pingConf, sockMTU, ifaceMTU, clientMTU>>
history == <<torn, crossed, stale>>
vars == <<setup, file, reloadVars, mtuVars, connVars, history>>

Set(f, c, v) == [f EXCEPT ![c] = v]

\* The stages of serveSocket: authentication (maybe in a request of its own before), own
\* interface, list, features, the configurator (read, then called), SetMTU, Serve,
\* version, init.
ConnStages == <<"new", "preauthorized", "authenticated", "upgraded", "listed", "featured",
                "configuring", "configured", "serving", "ready", "established", "gone">>

Index(s) == CHOOSE i \in DOMAIN ConnStages : ConnStages[i] = s
Before(c, s) == Index(at[c]) < Index(s)
Listed == {c \in Conns : ~Before(c, "listed") /\ at[c] # "gone"}

Init ==
    /\ setup \in Setups
    /\ \E m \in MTUs :
          /\ file = [version |-> 1, mtu |-> m, fault |-> "none"]
          /\ config = file
          /\ mtu = m
          /\ mainMTU = IF setup.own THEN NoMTU ELSE m
    /\ stage = 0
    /\ applied = [s \in Settings |-> 1]
    /\ mainSet = FALSE
    /\ unsent = {}
    /\ lock = FALSE
    /\ at = [c \in Conns |-> "new"]
    /\ used = [c \in Conns |-> <<>>]
    /\ pingConf = [c \in Conns |-> 0]
    /\ sockMTU = [c \in Conns |-> NoMTU]
    /\ ifaceMTU = [c \in Conns |-> NoMTU]
    /\ clientMTU = [c \in Conns |-> NoMTU]
    /\ torn = FALSE
    /\ crossed = {}
    /\ stale = {}

----------------------------------------------------------------------------
(* reloadConfig *)

\* The administrator edits the file ...
Edit ==
    /\ file.version < setup.versions
    /\ \E m \in MTUs, f \in Faults \cup {"none"} :
          file' = [version |-> file.version + 1, mtu |-> m, fault |-> f]
    /\ UNCHANGED <<setup, reloadVars, mtuVars, connVars, history>>

\* ... and sends SIGHUP.  A file that cannot be read, or a wrong subnet, changes nothing.
Start ==
    /\ stage = 0
    /\ config.version < file.version
    /\ config' = file
    /\ stage' = IF file.fault = "load" THEN 0 ELSE 1
    /\ UNCHANGED <<setup, file, applied, mtuVars, connVars, history>>

Next1 == IF stage = Len(Stages) THEN 0 ELSE stage + 1

\* A setting is replaced; a wrong mode, authenticator or certificate ends the reload
\* before its setting is.  An unknown feature ends it as well, others may have been set; a
\* feature that the file leaves out has its default there, so that none keeps an old value.
Apply ==
    /\ stage # 0
    /\ Stages[stage] \notin {"mtu", "sockets"}
    /\ LET s == Stages[stage]
           fails == config.fault = s \/ (config.fault = "mode" /\ s = "api")
       IN  /\ applied' \in {IF fails THEN applied ELSE Set(applied, s, config.version),
                            IF fails /\ s # "features" THEN applied
                            ELSE Set(applied, s, config.version)}
           /\ stage' = IF fails THEN 0 ELSE Next1
    /\ UNCHANGED <<setup, file, config, mtuVars, connVars, history>>

\* Mutant: sockets made by old configurations keep their settings.
UpdateNewSockets ==
    /\ stage # 0
    /\ Stages[stage] = "sockets"
    /\ ~lock
    /\ applied' = Set(applied, "sockets", config.version)
    /\ stage' = 0
    /\ UNCHANGED <<setup, file, config, mtuVars, connVars, history>>

\* Server.UpdateSocketConfig: all listed sockets, with socketsLock held.
UpdateSocketConfig ==
    /\ stage # 0
    /\ Stages[stage] = "sockets"
    /\ ~lock
    /\ pingConf' = [c \in Conns |-> IF c \in Listed THEN applied["ping"] ELSE pingConf[c]]
    /\ stale' = stale \ {c \in Listed : ~Before(c, "configured")}
    /\ applied' = Set(applied, "sockets", config.version)
    /\ stage' = 0
    /\ UNCHANGED <<setup, file, config, mtuVars, at, used, sockMTU, ifaceMTU, clientMTU,
                   torn, crossed>>

----------------------------------------------------------------------------
(* Server.SetMTU *)

InSetMTU == stage # 0 /\ Stages[stage] = "mtu"

\* Out of range, or nothing to change.
SetMTUNothing ==
    /\ InSetMTU /\ ~mainSet /\ ~lock
    /\ config.fault = "mtu" \/ config.mtu = mtu
    /\ stage' = IF config.fault = "mtu" THEN 0 ELSE Next1
    /\ applied' = IF config.fault = "mtu" THEN applied ELSE Set(applied, "mtu", config.version)
    /\ UNCHANGED <<setup, file, config, mtuVars, connVars, history>>

\* The main interface, before the lock; it may refuse.
SetMTUMain ==
    /\ InSetMTU /\ ~mainSet /\ ~lock
    /\ config.fault # "mtu" /\ config.mtu # mtu
    /\ mainMTU' = IF setup.own THEN mainMTU ELSE config.mtu
    /\ mainSet' = TRUE
    /\ UNCHANGED <<setup, file, reloadVars, mtu, unsent, lock, connVars, history>>

SetMTUMainFails ==
    /\ InSetMTU /\ ~mainSet /\ ~lock /\ ~setup.own
    /\ config.fault # "mtu" /\ config.mtu # mtu
    /\ stage' = 0
    /\ UNCHANGED <<setup, file, config, applied, mtuVars, connVars, history>>

\* The lock, which the handlers may have had since, and the sockets that are listed now.
SetMTUBegins ==
    /\ mainSet
    /\ mainSet' = FALSE
    /\ unsent' = Listed
    /\ lock' = TRUE
    /\ UNCHANGED <<setup, file, reloadVars, mtu, mainMTU, connVars, history>>

\* The set_mtu command needs a known version, and init may not have been sent yet.
SendSetMTU(c) ==
    clientMTU' = IF at[c] \in {"ready", "established"} THEN Set(clientMTU, c, config.mtu)
                 ELSE clientMTU

\* One socket: its buffer, its own interface, the command.
SetMTUOf(c) ==
    /\ lock
    /\ c \in unsent
    /\ unsent' = unsent \ {c}
    /\ sockMTU' = Set(sockMTU, c, config.mtu)
    /\ ifaceMTU' = IF setup.own THEN Set(ifaceMTU, c, config.mtu) ELSE ifaceMTU
    /\ SendSetMTU(c)
    /\ crossed' = IF at[c] = "established" THEN crossed \ {c} ELSE crossed \cup {c}
    /\ UNCHANGED <<setup, file, reloadVars, mtu, mainMTU, mainSet, lock, at, used, pingConf, torn,
                   stale>>

\* Mutant: socketsLock is not given back.
SetMTUOfKeepsLock(c) ==
    /\ lock /\ setup.own
    /\ c \in unsent
    /\ sockMTU' = Set(sockMTU, c, config.mtu)
    /\ unsent' = {}
    /\ stage' = 0
    /\ torn' = TRUE
    /\ UNCHANGED <<setup, file, config, applied, mtu, mainMTU, mainSet, lock, at, used, pingConf,
                   ifaceMTU, clientMTU, crossed, stale>>

\* The interface of one socket refuses: the rest is left, and Server.mtu as it was.
SetMTUOfFails(c) ==
    /\ lock /\ setup.own
    /\ c \in unsent
    /\ sockMTU' = Set(sockMTU, c, config.mtu)
    /\ unsent' = {}
    /\ lock' = FALSE
    /\ stage' = 0
    /\ torn' = TRUE
    /\ UNCHANGED <<setup, file, config, applied, mtu, mainMTU, mainSet, at, used, pingConf,
                   ifaceMTU, clientMTU, crossed, stale>>

\* Mutant: the new value is not stored.
SetMTUForgets ==
    /\ lock /\ unsent = {}
    /\ lock' = FALSE
    /\ applied' = Set(applied, "mtu", config.version)
    /\ stage' = Next1
    /\ torn' = FALSE
    /\ UNCHANGED <<setup, file, config, mtu, mainMTU, mainSet, unsent, connVars, crossed, stale>>

SetMTUEnds ==
    /\ lock /\ unsent = {}
    /\ mtu' = config.mtu
    /\ lock' = FALSE
    /\ applied' = Set(applied, "mtu", config.version)
    /\ stage' = Next1
    /\ torn' = FALSE
    /\ crossed' = IF setup.own THEN crossed \cup {c \in Conns : at[c] = "upgraded"} ELSE crossed
    /\ UNCHANGED <<setup, file, config, mainMTU, mainSet, unsent, connVars, stale>>

----------------------------------------------------------------------------
(* serveSocket *)

Read(c, s) == used' = Set(used, c, [x \in DOMAIN used[c] \cup {s} |->
                                       IF x = s THEN applied[s] ELSE used[c][x]])

\* handleSocketAuth.
Authenticate(c) ==
    /\ at[c] = "new"
    /\ c \in setup.conns
    /\ at' = Set(at, c, "authenticated")
    /\ Read(c, "auth")
    /\ UNCHANGED <<setup, file, reloadVars, mtuVars, pingConf, sockMTU, ifaceMTU, clientMTU, history>>

\* handlePreauthorize: the authenticator lets the user in and a token is signed ...
handlePreauthorize(c) ==
    /\ at[c] = "new"
    /\ c \in setup.conns
    /\ at' = Set(at, c, "preauthorized")
    /\ Read(c, "auth")
    /\ UNCHANGED <<setup, file, reloadVars, mtuVars, pingConf, sockMTU, ifaceMTU, clientMTU, history>>

\* ... with which the user connects later, and no authenticator is asked.  The token is good
\* for a minute and as long as the secret stays the same.
handlePreauthorizeToken(c) ==
    /\ at[c] = "preauthorized"
    /\ \E s \in {"authenticated", "gone"} : at' = Set(at, c, s)
    /\ UNCHANGED <<setup, file, reloadVars, mtuVars, used, pingConf, sockMTU, ifaceMTU, clientMTU,
                   history>>

\* A request for the web API: serveAPI looks at APIEnabled and APIUsers.
serveAPI(c) ==
    /\ at[c] = "authenticated"
    /\ at' = Set(at, c, "gone")
    /\ Read(c, "api")
    /\ UNCHANGED <<setup, file, reloadVars, mtuVars, pingConf, sockMTU, ifaceMTU, clientMTU, history>>

\* The upgrade, and the MTU of the connection's own interface.  MaxConnectionsPerUser is
\* read before socketsLock is taken.
Upgrade(c) ==
    /\ at[c] = "authenticated"
    /\ at' = Set(at, c, "upgraded")
    /\ ifaceMTU' = IF setup.own THEN Set(ifaceMTU, c, mtu) ELSE ifaceMTU
    /\ Read(c, "limits")
    /\ UNCHANGED <<setup, file, reloadVars, mtuVars, pingConf, sockMTU, clientMTU, history>>

List(c) ==
    /\ at[c] = "upgraded"
    /\ ~lock
    /\ at' = Set(at, c, "listed")
    /\ UNCHANGED <<setup, file, reloadVars, mtuVars, used, pingConf, sockMTU, ifaceMTU, clientMTU,
                   history>>

SetLocalFeatures(c) ==
    /\ at[c] = "listed"
    /\ at' = Set(at, c, "featured")
    /\ Read(c, "features")
    /\ UNCHANGED <<setup, file, reloadVars, mtuVars, pingConf, sockMTU, ifaceMTU, clientMTU, history>>

\* s.SocketConfigurator is read ...
ReadConfigurator(c) ==
    /\ at[c] = "featured"
    /\ at' = Set(at, c, "configuring")
    /\ Read(c, "ping")
    /\ UNCHANGED <<setup, file, reloadVars, mtuVars, pingConf, sockMTU, ifaceMTU, clientMTU, history>>

\* ... and ConfigureSocket called.
ConfigureSocket(c) ==
    /\ at[c] = "configuring"
    /\ at' = Set(at, c, "configured")
    /\ pingConf' = Set(pingConf, c, used[c]["ping"])
    /\ stale' = IF used[c]["ping"] < applied["ping"] THEN stale \cup {c} ELSE stale
    /\ UNCHANGED <<setup, file, reloadVars, mtuVars, used, sockMTU, ifaceMTU, clientMTU, torn, crossed>>

\* socket.SetMTU(s.mtu), and Serve.
ServeSocket(c) ==
    /\ at[c] = "configured"
    /\ at' = Set(at, c, "serving")
    /\ sockMTU' = Set(sockMTU, c, mtu)
    /\ UNCHANGED <<setup, file, reloadVars, mtuVars, used, pingConf, ifaceMTU, clientMTU, history>>

\* The version command of the client.
ReceiveVersion(c) ==
    /\ at[c] = "serving"
    /\ at' = Set(at, c, "ready")
    /\ UNCHANGED <<setup, file, reloadVars, mtuVars, used, pingConf, sockMTU, ifaceMTU, clientMTU,
                   history>>

\* The init command, with Server.mtu; the client keeps the MTU of the last command.
SendInit(c) ==
    /\ at[c] = "ready"
    /\ at' = Set(at, c, "established")
    /\ clientMTU' = Set(clientMTU, c, mtu)
    /\ UNCHANGED <<setup, file, reloadVars, mtuVars, used, pingConf, sockMTU, ifaceMTU, history>>

\* The connection ends and is unlisted.
Leave(c) ==
    /\ c \in Listed
    /\ ~lock
    /\ at' = Set(at, c, "gone")
    /\ UNCHANGED <<setup, file, reloadVars, mtuVars, used, pingConf, sockMTU, ifaceMTU, clientMTU,
                   history>>

Finished ==
    /\ stage = 0 /\ file.version = setup.versions
    /\ \A c \in setup.conns : at[c] \in {"gone", "established"}
    /\ UNCHANGED vars

Next ==
    \/ Edit \/ Start \/ Apply \/ UpdateSocketConfig
    \/ SetMTUNothing \/ SetMTUMain \/ SetMTUMainFails \/ SetMTUBegins \/ SetMTUEnds
    \/ \E c \in Conns :
          \/ SetMTUOf(c) \/ SetMTUOfFails(c)
          \/ Authenticate(c) \/ handlePreauthorize(c) \/ handlePreauthorizeToken(c)
          \/ serveAPI(c) \/ Upgrade(c) \/ List(c) \/ SetLocalFeatures(c)
          \/ ReadConfigurator(c) \/ ConfigureSocket(c) \/ ServeSocket(c)
          \/ ReceiveVersion(c) \/ SendInit(c) \/ Leave(c)
    \/ Finished

Spec == Init /\ [][Next]_vars

----------------------------------------------------------------------------
(* Properties *)

\* The types; socketsLock is held by SetMTU only, and for sockets that are listed.
TypeOK ==
    /\ setup \in Setups
    /\ file \in [version : 1..setup.versions, mtu : MTUs, fault : Faults \cup {"none"}]
    /\ config \in [version : 1..setup.versions, mtu : MTUs, fault : Faults \cup {"none"}]
    /\ stage \in 0..Len(Stages)
    /\ applied \in [Settings -> 1..setup.versions]
    /\ mtu \in MTUs
    /\ mainMTU \in MTUs \cup {NoMTU}
    /\ mainSet \in BOOLEAN /\ (mainSet => InSetMTU /\ ~lock)
    /\ unsent \subseteq Listed
    /\ lock \in BOOLEAN /\ (lock => InSetMTU) /\ (unsent # {} => lock)
    /\ at \in [Conns -> {ConnStages[i] : i \in DOMAIN ConnStages}]
    /\ \A c \in Conns : DOMAIN used[c] \subseteq Settings
    /\ pingConf \in [Conns -> 0..setup.versions]
    /\ sockMTU \in [Conns -> MTUs \cup {NoMTU}]
    /\ ifaceMTU \in [Conns -> MTUs \cup {NoMTU}]
    /\ clientMTU \in [Conns -> MTUs \cup {NoMTU}]
    /\ torn \in BOOLEAN /\ crossed \subseteq Conns /\ stale \subseteq Conns

\* Whoever is let in by the authenticator of a configuration, at once or with a token, gets
\* the limits, the features, the ping settings and the API permissions of that configuration
\* or a later one, wherever a reload stops and whenever the handler reads them
\* (reloadConfig, serveSocket, serveAPI).
NewUsersNewSettings ==
    \A c \in Conns : \A s \in DOMAIN used[c] : used[c][s] >= used[c]["auth"]

\* A reload that reaches its end reaches every connection: the ping settings of a socket are
\* at least as new as the last UpdateSocketConfig, unless its handler had already read the
\* configurator that the reload replaced (UpdateSocketConfig, serveSocket).
PingSettingsCurrent ==
    \A c \in Listed :
        (~Before(c, "configured") /\ c \notin stale) => pingConf[c] >= applied["sockets"]

\* The server's socket, the connection's interface, the client and Server.mtu have the same
\* MTU, unless SetMTU failed half-way and none has succeeded since, or met the connection
\* while it was being set up; so has the main interface, unless SetMTU has changed it and waits
\* for socketsLock (Server.SetMTU, serveSocket).
MTUAgrees ==
    (~lock /\ ~torn) =>
        /\ setup.own \/ mainMTU = IF mainSet THEN config.mtu ELSE mtu
        /\ \A c \in Conns \ crossed :
              at[c] = "established" =>
                  /\ sockMTU[c] = mtu /\ clientMTU[c] = mtu
                  /\ setup.own => ifaceMTU[c] = mtu
=============================================================================
