---------------------------- MODULE ReloadProofs ----------------------------
(***************************************************************************)
(* Proofs about Reload: for any number of connections and of edits of the  *)
(* file, a connection gets no setting older than the authenticator that    *)
(* let it in, a completed reload reaches every socket, and the MTUs agree. *)
(***************************************************************************)
EXTENDS Reload, TLAPS

----------------------------------------------------------------------------
(* The two lists of stages *)

\* The order of the stages of reloadConfig.
LEMMA StageOrder ==
    /\ Len(Stages) = 8 /\ DOMAIN Stages = 1..8
    /\ Stages[1] = "ping" /\ Stages[2] = "features" /\ Stages[3] = "api"
    /\ Stages[4] = "mtu" /\ Stages[5] = "limits" /\ Stages[6] = "auth"
    /\ Stages[7] = "tls" /\ Stages[8] = "sockets"
BY DEF Stages

\* The settings, one per stage.
LEMMA SettingNames ==
    /\ Settings = {"ping", "features", "api", "mtu", "limits", "auth", "tls", "sockets"}
    /\ \A i \in 1..8 : Stages[i] \in Settings
    /\ \A i, j \in 1..8 : Stages[i] = Stages[j] => i = j
<1>1. \A i \in 1..8 : i = 1 \/ i = 2 \/ i = 3 \/ i = 4 \/ i = 5 \/ i = 6 \/ i = 7 \/ i = 8
  OBVIOUS
<1>2. Settings = {Stages[1], Stages[2], Stages[3], Stages[4], Stages[5], Stages[6], Stages[7], Stages[8]}
  BY <1>1, StageOrder DEF Settings
<1>3. \A i, j \in 1..8 : Stages[i] = Stages[j] => i = j
  BY <1>1, StageOrder
<1>4. \A i \in 1..8 : Stages[i] \in Settings
  BY StageOrder DEF Settings
<1> QED BY <1>2, <1>3, <1>4, StageOrder

ConnNames == {"new", "preauthorized", "authenticated", "upgraded", "listed", "featured",
              "configuring", "configured", "serving", "ready", "established", "gone"}

InList == {"listed", "featured", "configuring", "configured", "serving", "ready", "established"}

\* The order of the stages of a connection.
LEMMA ConnOrder ==
    /\ {ConnStages[i] : i \in DOMAIN ConnStages} = ConnNames
    /\ Index("new") = 1 /\ Index("preauthorized") = 2 /\ Index("authenticated") = 3
    /\ Index("upgraded") = 4 /\ Index("listed") = 5 /\ Index("featured") = 6
    /\ Index("configuring") = 7 /\ Index("configured") = 8 /\ Index("serving") = 9
    /\ Index("ready") = 10 /\ Index("established") = 11 /\ Index("gone") = 12
<1>1. /\ DOMAIN ConnStages = 1..12
      /\ ConnStages[1] = "new" /\ ConnStages[2] = "preauthorized"
      /\ ConnStages[3] = "authenticated" /\ ConnStages[4] = "upgraded"
      /\ ConnStages[5] = "listed" /\ ConnStages[6] = "featured"
      /\ ConnStages[7] = "configuring" /\ ConnStages[8] = "configured"
      /\ ConnStages[9] = "serving" /\ ConnStages[10] = "ready"
      /\ ConnStages[11] = "established" /\ ConnStages[12] = "gone"
  BY DEF ConnStages
<1>2. \A i \in 1..12 : \/ i = 1 \/ i = 2 \/ i = 3 \/ i = 4 \/ i = 5 \/ i = 6
                       \/ i = 7 \/ i = 8 \/ i = 9 \/ i = 10 \/ i = 11 \/ i = 12
  OBVIOUS
<1>3. {ConnStages[i] : i \in DOMAIN ConnStages} = ConnNames
  <2>1. {ConnStages[i] : i \in DOMAIN ConnStages} \subseteq ConnNames
    BY <1>1, <1>2 DEF ConnNames
  <2>2. ASSUME NEW n \in ConnNames PROVE \E i \in 1..12 : ConnStages[i] = n
    BY <1>1 DEF ConnNames
  <2> QED BY <1>1, <2>1, <2>2
<1>4. \A i, j \in 1..12 : ConnStages[i] = ConnStages[j] => i = j
  BY <1>1, <1>2
<1>5. ASSUME NEW i \in 1..12 PROVE Index(ConnStages[i]) = i
  BY <1>1, <1>4 DEF Index
<1> QED BY <1>1, <1>3, <1>5

\* Which connections are listed.
LEMMA ListedStages ==
    ASSUME NEW a \in [Conns -> ConnNames]
    PROVE  {c \in Conns : ~(Index(a[c]) < Index("listed")) /\ a[c] # "gone"}
              = {c \in Conns : a[c] \in InList}
BY ConnOrder DEF ConnNames, InList

----------------------------------------------------------------------------
(* Typing.  TypeOK with the names of the stages written out.                 *)

SettingSet == {"ping", "features", "api", "mtu", "limits", "auth", "tls", "sockets"}

Versions == 1..setup.versions

FileType == [version : Versions, mtu : MTUs, fault : Faults \cup {"none"}]

ReloadTyped ==
    /\ setup \in Setups
    /\ file \in FileType /\ config \in FileType
    /\ stage \in 0..8
    /\ applied \in [SettingSet -> Versions]

MTUTyped ==
    /\ mtu \in MTUs
    /\ mainMTU \in MTUs \cup {NoMTU}
    /\ mainSet \in BOOLEAN /\ (mainSet => stage = 4 /\ ~lock)
    /\ unsent \subseteq {c \in Conns : at[c] \in InList}
    /\ lock \in BOOLEAN /\ (lock => stage = 4) /\ (unsent # {} => lock)

ConnsTyped ==
    /\ at \in [Conns -> ConnNames]
    /\ \A c \in Conns : DOMAIN used[c] \subseteq SettingSet
    /\ pingConf \in [Conns -> 0..setup.versions]
    /\ sockMTU \in [Conns -> MTUs \cup {NoMTU}]
    /\ ifaceMTU \in [Conns -> MTUs \cup {NoMTU}]
    /\ clientMTU \in [Conns -> MTUs \cup {NoMTU}]

HistoryTyped == torn \in BOOLEAN /\ crossed \subseteq Conns /\ stale \subseteq Conns

Typed == ReloadTyped /\ MTUTyped /\ ConnsTyped /\ HistoryTyped

\* SetMTU is the fourth stage.
LEMMA MTUStage == ASSUME stage \in 0..8 PROVE InSetMTU <=> stage = 4
<1>1. CASE stage = 0
  BY <1>1 DEF InSetMTU
<1>2. CASE stage # 0
  <2>1. stage \in 1..8
    BY <1>2
  <2> QED BY <2>1, SettingNames, StageOrder DEF InSetMTU
<1> QED BY <1>1, <1>2

\* The two ways to write the types are the same.
LEMMA TypedIsTypeOK == Typed => TypeOK
<1> SUFFICES ASSUME Typed PROVE TypeOK
  OBVIOUS
<1>1. Listed = {c \in Conns : at[c] \in InList}
  BY ListedStages DEF Typed, ConnsTyped, Listed, Before
<1>2. lock \/ mainSet => InSetMTU
  BY MTUStage DEF Typed, ReloadTyped, MTUTyped
<1>3. Settings = SettingSet
  BY SettingNames DEF SettingSet
<1> QED
  BY <1>1, <1>2, <1>3, ConnOrder, StageOrder
     DEF Typed, ReloadTyped, MTUTyped, ConnsTyped, HistoryTyped, TypeOK, FileType, Versions

----------------------------------------------------------------------------
(* Versions.  What is applied is never newer than what is loaded; while a    *)
(* reload runs, the stages it has passed have its version; and whatever has  *)
(* been applied before a setting in the order of the stages is as new.       *)

UsedTyped ==
    /\ used = [c \in Conns |-> used[c]]
    /\ \A c \in Conns : \A s \in DOMAIN used[c] : used[c][s] \in 1..applied[s]

ReadsInOrder ==
    \A c \in Conns :
        /\ at[c] = "new" => DOMAIN used[c] = {}
        /\ at[c] # "new" => "auth" \in DOMAIN used[c]
        /\ at[c] = "configuring" => "ping" \in DOMAIN used[c]

PassedStages == {Stages[j] : j \in 1..(stage - 1)}

AppliedInOrder ==
    /\ \A s \in Settings : applied[s] <= config.version
    /\ stage # 0 => \A s \in PassedStages : applied[s] = config.version
    /\ \A s \in {"ping", "features", "api", "limits"} : applied[s] >= applied["auth"]
    /\ applied["ping"] >= applied["sockets"]

VersionInv == UsedTyped /\ ReadsInOrder /\ AppliedInOrder /\ NewUsersNewSettings

PingInv ==
    \A c \in Conns \ stale :
        at[c] \in {"configured", "serving", "ready", "established"}
            => pingConf[c] >= applied["sockets"]

\* While SetMTU runs, the sockets it has done.
MTUPass ==
    /\ setup.own \/ mainMTU = config.mtu
    /\ \A c \in Listed \ (unsent \cup crossed) :
          /\ at[c] = "established"
          /\ sockMTU[c] = config.mtu /\ clientMTU[c] = config.mtu
          /\ setup.own => ifaceMTU[c] = config.mtu

\* Between two of its runs, what a connection has taken from Server.mtu so far.
MTUSet ==
    /\ setup.own \/ mainSet \/ mainMTU = mtu
    /\ \A c \in Conns \ crossed :
          /\ setup.own /\ (at[c] = "upgraded" \/ c \in Listed) => ifaceMTU[c] = mtu
          /\ at[c] \in {"serving", "ready", "established"} => sockMTU[c] = mtu
          /\ at[c] = "established" => clientMTU[c] = mtu

MTUInv ==
    /\ mainSet => setup.own \/ mainMTU = config.mtu
    /\ lock => MTUPass
    /\ ~lock /\ ~torn => MTUSet

\* The versions of the file that a server may see.
LEMMA VersionNumbers ==
    ASSUME ReloadTyped
    PROVE  /\ setup.versions \in Nat \ {0} /\ setup.own \in BOOLEAN
           /\ file.version \in 1..setup.versions /\ config.version \in 1..setup.versions
           /\ config.mtu \in MTUs
BY ConstantsAssumption DEF ReloadTyped, FileType, Versions

\* The server starts with the first version of the file.
LEMMA TypedInit == Init => Typed
<1> SUFFICES ASSUME Init PROVE Typed
  OBVIOUS
<1> USE ConstantsAssumption DEF Init
<1>1. setup \in Setups /\ setup.versions \in Nat \ {0}
  OBVIOUS
<1>2. file \in FileType /\ config \in FileType /\ mtu \in MTUs /\ mainMTU \in MTUs \cup {NoMTU}
  BY <1>1 DEF FileType, Versions
<1>3. applied \in [SettingSet -> Versions]
  BY <1>1, SettingNames DEF SettingSet, Versions
<1>4. ReloadTyped
  BY <1>1, <1>2, <1>3 DEF ReloadTyped
<1>5. MTUTyped
  BY <1>2 DEF MTUTyped
<1>6. pingConf \in [Conns -> 0..setup.versions]
  BY <1>1
<1>7. \A c \in Conns : DOMAIN used[c] = {}
  OBVIOUS
<1>8. ConnsTyped
  BY <1>6, <1>7 DEF ConnsTyped, ConnNames
<1> QED BY <1>4, <1>5, <1>8 DEF Typed, HistoryTyped

\* No connection has read a setting at the start.
LEMMA VersionInit == Init => VersionInv /\ PingInv /\ MTUInv
<1> SUFFICES ASSUME Init PROVE VersionInv /\ PingInv /\ MTUInv
  OBVIOUS
<1> USE DEF Init
<1>1. \A c \in Conns : DOMAIN used[c] = {}
  OBVIOUS
<1>2. UsedTyped
  BY <1>1 DEF UsedTyped
<1>3. ReadsInOrder /\ NewUsersNewSettings
  BY <1>1 DEF ReadsInOrder, NewUsersNewSettings
<1>4. AppliedInOrder
  BY SettingNames DEF AppliedInOrder
<1>5. PingInv
  BY DEF PingInv
<1>6. Listed = {}
  BY ListedStages DEF Listed, Before, InList, ConnNames
<1>7. MTUInv
  BY <1>6 DEF MTUInv, MTUSet
<1> QED BY <1>2, <1>3, <1>4, <1>5, <1>7 DEF VersionInv

\* Every step keeps the types.
LEMMA TypedNext == Typed /\ VersionInv /\ [Next]_vars => Typed'
<1> SUFFICES ASSUME Typed, VersionInv, [Next]_vars PROVE Typed'
  OBVIOUS
<1> USE DEF Typed, ReloadTyped, MTUTyped, ConnsTyped, HistoryTyped, FileType, Versions, Set,
            reloadVars, mtuVars, connVars, history, ConnNames, InList
<1>0. /\ Listed = {c \in Conns : at[c] \in InList} /\ setup.versions \in Nat \ {0}
      /\ used = [c \in Conns |-> used[c]]
  BY ListedStages, VersionNumbers DEF Listed, Before, VersionInv, UsedTyped
<1>1. CASE Edit
  BY <1>0, <1>1, StageOrder, SettingNames DEF Edit, SettingSet, InSetMTU, Next1
<1>2. CASE Start
  BY <1>0, <1>2, StageOrder, SettingNames DEF Start, SettingSet, InSetMTU, Next1
<1>3. CASE Apply
  BY <1>0, <1>3, StageOrder, SettingNames DEF Apply, SettingSet, InSetMTU, Next1
<1>4. CASE UpdateSocketConfig
  BY <1>0, <1>4, StageOrder, SettingNames DEF UpdateSocketConfig, SettingSet, InSetMTU, Next1
<1>5. CASE SetMTUNothing
  BY <1>0, <1>5, StageOrder, SettingNames DEF SetMTUNothing, SettingSet, InSetMTU, Next1
<1>6. CASE SetMTUBegins
  BY <1>0, <1>6, StageOrder, SettingNames DEF SetMTUBegins, SettingSet, InSetMTU, Next1
<1>7. CASE SetMTUMainFails
  BY <1>0, <1>7, StageOrder, SettingNames DEF SetMTUMainFails, SettingSet, InSetMTU, Next1
<1>26. CASE SetMTUMain
  BY <1>0, <1>26, StageOrder, SettingNames DEF SetMTUMain, SettingSet, InSetMTU, Next1
<1>8. CASE SetMTUEnds
  <2>1. ReloadTyped' /\ ConnsTyped'
    BY <1>0, <1>8, StageOrder, SettingNames DEF SetMTUEnds, SettingSet, Next1
  <2>2. MTUTyped'
    BY <1>0, <1>8 DEF SetMTUEnds
  <2>3. torn' = FALSE /\ crossed' \subseteq Conns /\ stale' \subseteq Conns
    BY <1>8 DEF SetMTUEnds
  <2>4. HistoryTyped'
    BY <2>3
  <2> QED BY <2>1, <2>2, <2>4 DEF Typed
<1>9. ASSUME NEW c \in Conns, SetMTUOf(c) PROVE Typed'
  BY <1>0, <1>9 DEF SetMTUOf, SendSetMTU, SettingSet
<1>10. ASSUME NEW c \in Conns, SetMTUOfFails(c) PROVE Typed'
  <2>1. ReloadTyped' /\ ConnsTyped'
    BY <1>0, <1>10 DEF SetMTUOfFails
  <2>2. MTUTyped'
    BY <1>0, <1>10 DEF SetMTUOfFails
  <2>3. torn' = TRUE /\ crossed' \subseteq Conns /\ stale' \subseteq Conns
    BY <1>10 DEF SetMTUOfFails
  <2>4. HistoryTyped'
    BY <2>3
  <2> QED BY <2>1, <2>2, <2>4 DEF Typed
<1>11. ASSUME NEW c \in Conns, Authenticate(c) PROVE Typed'
  BY <1>0, <1>11 DEF Authenticate, Read, SettingSet
<1>12. ASSUME NEW c \in Conns, handlePreauthorize(c) PROVE Typed'
  BY <1>0, <1>12 DEF handlePreauthorize, Read, SettingSet
<1>13. ASSUME NEW c \in Conns, handlePreauthorizeToken(c) PROVE Typed'
  BY <1>0, <1>13 DEF handlePreauthorizeToken, SettingSet
<1>14. ASSUME NEW c \in Conns, serveAPI(c) PROVE Typed'
  BY <1>0, <1>14 DEF serveAPI, Read, SettingSet
<1>15. ASSUME NEW c \in Conns, Upgrade(c) PROVE Typed'
  BY <1>0, <1>15 DEF Upgrade, Read, SettingSet
<1>16. ASSUME NEW c \in Conns, List(c) PROVE Typed'
  BY <1>0, <1>16 DEF List, SettingSet
<1>17. ASSUME NEW c \in Conns, SetLocalFeatures(c) PROVE Typed'
  BY <1>0, <1>17 DEF SetLocalFeatures, Read, SettingSet
<1>18. ASSUME NEW c \in Conns, ReadConfigurator(c) PROVE Typed'
  BY <1>0, <1>18 DEF ReadConfigurator, Read, SettingSet
<1>19. ASSUME NEW c \in Conns, ConfigureSocket(c) PROVE Typed'
  <2>1. used[c]["ping"] \in 1..applied["ping"]
    BY <1>19 DEF ConfigureSocket, VersionInv, UsedTyped, ReadsInOrder
  <2>2. applied["ping"] \in 1..setup.versions
    BY DEF SettingSet
  <2>3. used[c]["ping"] \in 0..setup.versions
    BY <1>0, <2>1, <2>2
  <2>4. pingConf' \in [Conns -> 0..setup.versions]
    BY <1>19, <2>3 DEF ConfigureSocket
  <2> QED BY <1>0, <1>19, <2>4 DEF ConfigureSocket
<1>20. ASSUME NEW c \in Conns, ServeSocket(c) PROVE Typed'
  BY <1>0, <1>20 DEF ServeSocket, SettingSet
<1>21. ASSUME NEW c \in Conns, ReceiveVersion(c) PROVE Typed'
  BY <1>0, <1>21 DEF ReceiveVersion, SettingSet
<1>22. ASSUME NEW c \in Conns, SendInit(c) PROVE Typed'
  BY <1>0, <1>22 DEF SendInit, SettingSet
<1>23. ASSUME NEW c \in Conns, Leave(c) PROVE Typed'
  BY <1>0, <1>23 DEF Leave, SettingSet
<1>24. CASE Finished
  BY <1>24 DEF Finished, vars
<1>25. CASE UNCHANGED vars
  BY <1>25 DEF vars
<1> QED
  BY <1>1, <1>2, <1>3, <1>4, <1>5, <1>6, <1>7, <1>8, <1>9, <1>10, <1>11, <1>12, <1>13,
     <1>14, <1>15, <1>16, <1>17, <1>18, <1>19, <1>20, <1>21, <1>22, <1>23, <1>24, <1>25, <1>26
     DEF Next

\* A connection that moves on without reading a setting keeps what it has read.
LEMMA VersionFrame ==
    ASSUME VersionInv, UNCHANGED <<used, applied, stage, config>>,
           \A c \in Conns : \/ at'[c] = at[c]
                            \/ at[c] # "new" /\ at'[c] \notin {"new", "configuring"}
    PROVE  VersionInv'
BY DEF VersionInv, UsedTyped, ReadsInOrder, AppliedInOrder, PassedStages, NewUsersNewSettings

\* What a connection has read when it reads one more setting.
LEMMA ReadEffect ==
    ASSUME VersionInv, NEW c \in Conns, NEW s \in SettingSet, Read(c, s)
    PROVE  /\ used' = [d \in Conns |-> used'[d]]
           /\ \A d \in Conns \ {c} : used'[d] = used[d]
           /\ DOMAIN used'[c] = DOMAIN used[c] \cup {s}
           /\ used'[c][s] = applied[s]
           /\ \A x \in DOMAIN used[c] \ {s} : used'[c][x] = used[c][x]
<1>1. used = [d \in Conns |-> used[d]]
  BY DEF VersionInv, UsedTyped
<1> DEFINE new == [x \in DOMAIN used[c] \cup {s} |-> IF x = s THEN applied[s] ELSE used[c][x]]
<1>2. used' = [used EXCEPT ![c] = new]
  BY DEF Read, Set
<1>3. /\ DOMAIN new = DOMAIN used[c] \cup {s} /\ new[s] = applied[s]
      /\ \A x \in DOMAIN used[c] \ {s} : new[x] = used[c][x]
  OBVIOUS
<1> HIDE DEF new
<1>4. /\ used'[c] = new /\ \A d \in Conns \ {c} : used'[d] = used[d]
      /\ used' = [d \in Conns |-> used'[d]]
  BY <1>1, <1>2
<1> QED BY <1>3, <1>4

\* A handler that reads a setting finds it as new as the authenticator that let its user in.
LEMMA ReadKeeps ==
    ASSUME Typed, VersionInv, NEW c \in Conns, NEW s \in {"ping", "features", "api", "limits"},
           Read(c, s), UNCHANGED <<applied, stage, config>>, at[c] # "new",
           at'[c] # "new", at'[c] = "configuring" => s = "ping",
           \A d \in Conns \ {c} : at'[d] = at[d]
    PROVE  VersionInv'
<1>1. /\ used' = [d \in Conns |-> used'[d]]
      /\ \A d \in Conns \ {c} : used'[d] = used[d]
      /\ DOMAIN used'[c] = DOMAIN used[c] \cup {s}
      /\ used'[c][s] = applied[s]
      /\ \A x \in DOMAIN used[c] \ {s} : used'[c][x] = used[c][x]
  BY ReadEffect DEF SettingSet
<1>2. /\ applied[s] \in Nat /\ applied["auth"] \in Nat /\ applied[s] >= 1
      /\ applied[s] >= applied["auth"] /\ "auth" \in DOMAIN used[c]
      /\ used[c]["auth"] \in 1..applied["auth"]
  <2>1. applied[s] \in Versions /\ applied["auth"] \in Versions
    BY DEF Typed, ReloadTyped, SettingSet
  <2>2. "auth" \in DOMAIN used[c] /\ used[c]["auth"] \in 1..applied["auth"]
    BY DEF VersionInv, ReadsInOrder, UsedTyped
  <2>3. applied[s] >= applied["auth"]
    BY DEF VersionInv, AppliedInOrder
  <2> QED BY <2>1, <2>2, <2>3, VersionNumbers DEF Typed, Versions
<1>3. UsedTyped'
  BY <1>1, <1>2 DEF VersionInv, UsedTyped
<1>4. ReadsInOrder'
  BY <1>1, <1>2 DEF VersionInv, ReadsInOrder
<1>5. AppliedInOrder'
  BY DEF VersionInv, AppliedInOrder, PassedStages
<1>6. NewUsersNewSettings'
  <2> SUFFICES ASSUME NEW d \in Conns, NEW x \in DOMAIN used'[d]
               PROVE  used'[d][x] >= used'[d]["auth"]
    BY DEF NewUsersNewSettings
  <2>1. CASE d # c
    BY <1>1, <2>1 DEF VersionInv, NewUsersNewSettings
  <2>2. CASE d = c
    <3>1. used'[c]["auth"] = used[c]["auth"]
      BY <1>1, <1>2
    <3>2. used'[c]["auth"] \in Nat /\ applied[s] >= used'[c]["auth"]
      BY <1>2, <3>1
    <3>3. CASE x = s
      BY <1>1, <2>2, <3>2, <3>3
    <3>4. CASE x # s
      BY <1>1, <2>2, <3>1, <3>4 DEF VersionInv, NewUsersNewSettings
    <3> QED BY <3>3, <3>4
  <2> QED BY <2>1, <2>2
<1> QED BY <1>3, <1>4, <1>5, <1>6 DEF VersionInv

\* The authenticator is the first thing a connection reads.
LEMMA AuthKeeps ==
    ASSUME Typed, VersionInv, NEW c \in Conns, Read(c, "auth"),
           UNCHANGED <<applied, stage, config>>, at[c] = "new",
           at'[c] \notin {"new", "configuring"}, \A d \in Conns \ {c} : at'[d] = at[d]
    PROVE  VersionInv'
<1>1. /\ used' = [d \in Conns |-> used'[d]]
      /\ \A d \in Conns \ {c} : used'[d] = used[d]
      /\ DOMAIN used'[c] = {"auth"}
      /\ used'[c]["auth"] = applied["auth"]
  BY ReadEffect DEF SettingSet, VersionInv, ReadsInOrder
<1>2. applied["auth"] \in Nat /\ applied["auth"] >= 1
  BY VersionNumbers DEF Typed, ReloadTyped, SettingSet, Versions
<1>3. UsedTyped'
  BY <1>1, <1>2 DEF VersionInv, UsedTyped
<1>4. ReadsInOrder'
  BY <1>1 DEF VersionInv, ReadsInOrder
<1>5. AppliedInOrder'
  BY DEF VersionInv, AppliedInOrder, PassedStages
<1>6. NewUsersNewSettings'
  BY <1>1, <1>2 DEF VersionInv, NewUsersNewSettings
<1> QED BY <1>3, <1>4, <1>5, <1>6 DEF VersionInv

\* A stage of a reload replaces its setting, goes on to the next one or ends the reload.
LEMMA StageKeeps ==
    ASSUME Typed, VersionInv, UNCHANGED <<used, at, config>>, stage # 0,
           \/ applied' = applied
           \/ applied' = [applied EXCEPT ![Stages[stage]] = config.version],
           stage' # 0 => /\ stage' = stage + 1
                         /\ applied' = [applied EXCEPT ![Stages[stage]] = config.version]
    PROVE  VersionInv'
<1>1. /\ stage \in 1..8 /\ applied \in [SettingSet -> 1..setup.versions]
      /\ config.version \in 1..setup.versions /\ setup.versions \in Nat
      /\ Stages[stage] \in SettingSet
  BY VersionNumbers, SettingNames DEF Typed, ReloadTyped, SettingSet, Versions
<1>2. \A s \in SettingSet : applied[s] <= config.version
  BY SettingNames DEF VersionInv, AppliedInOrder, SettingSet
<1>3. /\ \A s \in SettingSet : applied'[s] >= applied[s] /\ applied'[s] <= config.version
      /\ applied' \in [SettingSet -> 1..setup.versions]
      /\ \A s \in SettingSet : applied'[s] = applied[s]
                               \/ (s = Stages[stage] /\ applied'[s] = config.version)
  BY <1>1, <1>2
<1>4. \A s \in PassedStages : applied[s] = config.version
  BY DEF VersionInv, AppliedInOrder
<1>5. \A j \in 1..(stage - 1) : Stages[j] \in SettingSet /\ applied[Stages[j]] = config.version
  BY <1>1, <1>4, SettingNames DEF PassedStages, SettingSet
<1>6. UsedTyped'
  BY <1>1, <1>3 DEF Typed, ConnsTyped, VersionInv, UsedTyped
<1>7. ReadsInOrder' /\ NewUsersNewSettings'
  BY DEF VersionInv, ReadsInOrder, NewUsersNewSettings
<1>8. stage' # 0 => \A s \in PassedStages' : applied'[s] = config'.version
  <2> SUFFICES ASSUME stage' # 0, NEW j \in 1..(stage' - 1)
               PROVE  applied'[Stages[j]] = config.version
    BY DEF PassedStages
  <2>1. CASE j = stage
    BY <1>1, <2>1
  <2>2. CASE j # stage
    <3>1. j \in 1..(stage - 1)
      BY <1>1, <2>2
    <3> QED BY <1>1, <1>5, <3>1
  <2> QED BY <2>1, <2>2
<1>9. \A s \in {"ping", "features", "api", "limits"} : applied'[s] >= applied'["auth"]
  <2> SUFFICES ASSUME NEW s \in {"ping", "features", "api", "limits"}
               PROVE  applied'[s] >= applied'["auth"]
    OBVIOUS
  <2>1. s \in SettingSet /\ "auth" \in SettingSet /\ applied[s] >= applied["auth"]
    BY DEF SettingSet, VersionInv, AppliedInOrder
  <2>2. CASE Stages[stage] # "auth"
    <3>1. applied'["auth"] = applied["auth"]
      BY <1>3, <2>1, <2>2
    <3> QED BY <1>1, <1>3, <2>1, <3>1
  <2>3. CASE Stages[stage] = "auth"
    <3>1. stage = 6
      BY <1>1, <2>3, SettingNames, StageOrder
    <3>2. s \in {Stages[1], Stages[2], Stages[3], Stages[5]}
      BY StageOrder
    <3>3. applied[s] = config.version
      BY <1>5, <3>1, <3>2
    <3> QED BY <1>1, <1>3, <2>1, <3>3
  <2> QED BY <2>2, <2>3
<1>10. applied'["ping"] >= applied'["sockets"]
  <2>1. "ping" \in SettingSet /\ "sockets" \in SettingSet /\ applied["ping"] >= applied["sockets"]
    BY DEF SettingSet, VersionInv, AppliedInOrder
  <2>2. CASE Stages[stage] # "sockets"
    <3>1. applied'["sockets"] = applied["sockets"]
      BY <1>3, <2>1, <2>2
    <3> QED BY <1>1, <1>3, <2>1, <3>1
  <2>3. CASE Stages[stage] = "sockets"
    <3>1. stage = 8
      BY <1>1, <2>3, SettingNames, StageOrder
    <3>2. applied["ping"] = config.version
      BY <1>5, <3>1, StageOrder
    <3> QED BY <1>1, <1>3, <2>1, <3>2
  <2> QED BY <2>2, <2>3
<1>11. AppliedInOrder'
  BY <1>3, <1>8, <1>9, <1>10, SettingNames DEF AppliedInOrder, SettingSet
<1> QED BY <1>6, <1>7, <1>11 DEF VersionInv

\* Every step keeps the order of the versions.
LEMMA VersionNext == Typed /\ VersionInv /\ [Next]_vars => VersionInv'
<1> SUFFICES ASSUME Typed, VersionInv, [Next]_vars PROVE VersionInv'
  OBVIOUS
<1> USE DEF Set, reloadVars, mtuVars, connVars, history
<1>0. /\ at \in [Conns -> ConnNames] /\ stage \in 0..8
      /\ Listed = {c \in Conns : at[c] \in InList}
  BY ListedStages DEF Typed, ReloadTyped, ConnsTyped, Listed, Before
<1>1. CASE Edit
  BY <1>1, VersionFrame DEF Edit
<1>2. CASE Start
  <2>1. /\ UNCHANGED <<used, at, applied>> /\ stage' \in {0, 1}
        /\ config'.version > config.version
    BY <1>2 DEF Start
  <2>2. stage' # 0 => \A s \in PassedStages' : FALSE
    <3>1. ASSUME stage' # 0, NEW j \in 1..(stage' - 1) PROVE FALSE
      <4>1. stage' = 1
        BY <2>1, <3>1
      <4> QED BY <4>1
    <3> QED BY <3>1 DEF PassedStages
  <2>3. /\ \A s \in SettingSet : applied[s] \in Nat
        /\ config.version \in Nat /\ config'.version \in Nat
    <3>1. /\ setup.versions \in Nat /\ config.version \in 1..setup.versions
          /\ file.version \in 1..setup.versions /\ config' = file
          /\ applied \in [SettingSet -> 1..setup.versions]
      BY <1>2, VersionNumbers DEF Start, Typed, ReloadTyped, Versions
    <3> QED BY <3>1
  <2>4. AppliedInOrder'
    BY <2>1, <2>2, <2>3, SettingNames DEF VersionInv, AppliedInOrder, SettingSet
  <2> QED BY <2>1, <2>4 DEF VersionInv, UsedTyped, ReadsInOrder, NewUsersNewSettings
<1>3. CASE Apply
  BY <1>0, <1>3, StageKeeps, StageOrder DEF Apply, Next1
<1>4. CASE UpdateSocketConfig
  BY <1>4, StageKeeps DEF UpdateSocketConfig
<1>5. CASE SetMTUNothing
  BY <1>0, <1>5, StageKeeps, StageOrder DEF SetMTUNothing, InSetMTU, Next1
<1>6. CASE SetMTUBegins
  BY <1>6, VersionFrame DEF SetMTUBegins
<1>7. CASE SetMTUMainFails
  BY <1>7, StageKeeps DEF SetMTUMainFails, InSetMTU
<1>26. CASE SetMTUMain
  BY <1>26, VersionFrame DEF SetMTUMain
<1>8. CASE SetMTUEnds
  <2>1. stage = 4
    BY <1>8 DEF SetMTUEnds, Typed, MTUTyped
  <2> QED BY <1>8, <2>1, StageKeeps, StageOrder DEF SetMTUEnds, Next1
<1>9. ASSUME NEW c \in Conns, SetMTUOf(c) PROVE VersionInv'
  BY <1>0, <1>9, VersionFrame DEF SetMTUOf, ConnNames, InList
<1>10. ASSUME NEW c \in Conns, SetMTUOfFails(c) PROVE VersionInv'
  <2>1. stage = 4
    BY <1>10 DEF SetMTUOfFails, Typed, MTUTyped
  <2> QED BY <1>10, <2>1, StageKeeps DEF SetMTUOfFails
<1>11. ASSUME NEW c \in Conns, Authenticate(c) PROVE VersionInv'
  BY <1>0, <1>11, AuthKeeps DEF Authenticate, ConnNames
<1>12. ASSUME NEW c \in Conns, handlePreauthorize(c) PROVE VersionInv'
  BY <1>0, <1>12, AuthKeeps DEF handlePreauthorize, ConnNames
<1>13. ASSUME NEW c \in Conns, handlePreauthorizeToken(c) PROVE VersionInv'
  BY <1>0, <1>13, VersionFrame DEF handlePreauthorizeToken, ConnNames, InList
<1>14. ASSUME NEW c \in Conns, serveAPI(c) PROVE VersionInv'
  BY <1>0, <1>14, ReadKeeps DEF serveAPI, ConnNames
<1>15. ASSUME NEW c \in Conns, Upgrade(c) PROVE VersionInv'
  BY <1>0, <1>15, ReadKeeps DEF Upgrade, ConnNames
<1>16. ASSUME NEW c \in Conns, List(c) PROVE VersionInv'
  BY <1>0, <1>16, VersionFrame DEF List, ConnNames, InList
<1>17. ASSUME NEW c \in Conns, SetLocalFeatures(c) PROVE VersionInv'
  BY <1>0, <1>17, ReadKeeps DEF SetLocalFeatures, ConnNames
<1>18. ASSUME NEW c \in Conns, ReadConfigurator(c) PROVE VersionInv'
  BY <1>0, <1>18, ReadKeeps DEF ReadConfigurator, ConnNames
<1>19. ASSUME NEW c \in Conns, ConfigureSocket(c) PROVE VersionInv'
  BY <1>0, <1>19, VersionFrame DEF ConfigureSocket, ConnNames, InList
<1>20. ASSUME NEW c \in Conns, ServeSocket(c) PROVE VersionInv'
  BY <1>0, <1>20, VersionFrame DEF ServeSocket, ConnNames, InList
<1>21. ASSUME NEW c \in Conns, ReceiveVersion(c) PROVE VersionInv'
  BY <1>0, <1>21, VersionFrame DEF ReceiveVersion, ConnNames, InList
<1>22. ASSUME NEW c \in Conns, SendInit(c) PROVE VersionInv'
  BY <1>0, <1>22, VersionFrame DEF SendInit, ConnNames, InList
<1>23. ASSUME NEW c \in Conns, Leave(c) PROVE VersionInv'
  BY <1>0, <1>23, VersionFrame DEF Leave, ConnNames, InList
<1>24. CASE Finished
  BY <1>24, VersionFrame DEF Finished, vars
<1>25. CASE UNCHANGED vars
  BY <1>25, VersionFrame DEF vars
<1> QED
  BY <1>1, <1>2, <1>3, <1>4, <1>5, <1>6, <1>7, <1>8, <1>9, <1>10, <1>11, <1>12, <1>13,
     <1>14, <1>15, <1>16, <1>17, <1>18, <1>19, <1>20, <1>21, <1>22, <1>23, <1>24, <1>25, <1>26
     DEF Next

\* Types and versions are right in every reachable state.
LEMMA VersionInvariant == Spec => [](Typed /\ VersionInv)
BY TypedInit, TypedNext, VersionInit, VersionNext, PTL DEF Spec

\* Type correctness of the reload, and that SetMTU is where socketsLock is held and only
\* listed sockets wait for it.
THEOREM TypeCorrect == Spec => []TypeOK
BY VersionInvariant, TypedIsTypeOK, PTL

\* Whoever is let in by the authenticator of a configuration gets the settings of that
\* configuration or a later one, however many reloads come at whatever moment and wherever
\* they stop.
THEOREM NewUsersGetNewSettings == Spec => []NewUsersNewSettings
<1>1. VersionInv => NewUsersNewSettings
  BY DEF VersionInv
<1> QED
  BY <1>1, VersionInvariant, PTL
----------------------------------------------------------------------------
(* The ping settings *)

Configured == {"configured", "serving", "ready", "established"}

\* A step that neither configures a socket nor updates them all.
LEMMA PingFrame ==
    ASSUME PingInv, UNCHANGED <<pingConf, stale>>, applied'["sockets"] = applied["sockets"],
           \A c \in Conns : at'[c] \in Configured => at[c] \in Configured
    PROVE  PingInv'
BY DEF PingInv, Configured

\* Every step keeps the ping settings of the configured sockets current.
LEMMA PingNext == Typed /\ VersionInv /\ PingInv /\ [Next]_vars => PingInv'
<1> SUFFICES ASSUME Typed, VersionInv, PingInv, [Next]_vars PROVE PingInv'
  OBVIOUS
<1> USE DEF Set, reloadVars, mtuVars, connVars, history
<1>0. /\ at \in [Conns -> ConnNames] /\ stage \in 0..8
      /\ applied \in [SettingSet -> Versions] /\ pingConf \in [Conns -> 0..setup.versions]
      /\ Listed = {c \in Conns : at[c] \in InList}
  BY ListedStages DEF Typed, ReloadTyped, ConnsTyped, Listed, Before
<1>1. CASE Edit
  BY <1>0, <1>1, PingFrame DEF Edit
<1>2. CASE Start
  BY <1>0, <1>2, PingFrame DEF Start
<1>3. CASE Apply
  BY <1>0, <1>3, PingFrame DEF Apply, SettingSet
<1>4. CASE UpdateSocketConfig
  <2>1. stage = 8
    BY <1>0, <1>4, SettingNames, StageOrder DEF UpdateSocketConfig
  <2>2. applied["ping"] = config.version
    <3>1. Stages[1] \in PassedStages
      BY <2>1 DEF PassedStages
    <3> QED BY <2>1, <3>1, StageOrder DEF VersionInv, AppliedInOrder
  <2>3. applied'["sockets"] = config.version /\ config.version \in Nat
    BY <1>0, <1>4, VersionNumbers DEF UpdateSocketConfig, Typed, SettingSet
  <2>4. ASSUME NEW c \in Conns, at'[c] \in Configured
        PROVE  pingConf'[c] = applied["ping"]
    BY <1>0, <1>4, <2>4 DEF UpdateSocketConfig, Configured, InList
  <2> QED BY <2>2, <2>3, <2>4 DEF PingInv, Configured
<1>5. CASE SetMTUNothing
  BY <1>0, <1>5, PingFrame DEF SetMTUNothing, SettingSet
<1>6. CASE SetMTUBegins
  BY <1>0, <1>6, PingFrame DEF SetMTUBegins
<1>7. CASE SetMTUMainFails
  BY <1>0, <1>7, PingFrame DEF SetMTUMainFails
<1>26. CASE SetMTUMain
  BY <1>0, <1>26, PingFrame DEF SetMTUMain
<1>8. CASE SetMTUEnds
  BY <1>0, <1>8, PingFrame DEF SetMTUEnds, SettingSet
<1>9. ASSUME NEW c \in Conns, SetMTUOf(c) PROVE PingInv'
  BY <1>0, <1>9, PingFrame DEF SetMTUOf, Configured
<1>10. ASSUME NEW c \in Conns, SetMTUOfFails(c) PROVE PingInv'
  BY <1>0, <1>10, PingFrame DEF SetMTUOfFails, Configured
<1>11. ASSUME NEW c \in Conns, Authenticate(c) PROVE PingInv'
  BY <1>0, <1>11, PingFrame DEF Authenticate, Configured
<1>12. ASSUME NEW c \in Conns, handlePreauthorize(c) PROVE PingInv'
  BY <1>0, <1>12, PingFrame DEF handlePreauthorize, Configured
<1>13. ASSUME NEW c \in Conns, handlePreauthorizeToken(c) PROVE PingInv'
  BY <1>0, <1>13, PingFrame DEF handlePreauthorizeToken, Configured
<1>14. ASSUME NEW c \in Conns, serveAPI(c) PROVE PingInv'
  BY <1>0, <1>14, PingFrame DEF serveAPI, Configured
<1>15. ASSUME NEW c \in Conns, Upgrade(c) PROVE PingInv'
  BY <1>0, <1>15, PingFrame DEF Upgrade, Configured
<1>16. ASSUME NEW c \in Conns, List(c) PROVE PingInv'
  BY <1>0, <1>16, PingFrame DEF List, Configured
<1>17. ASSUME NEW c \in Conns, SetLocalFeatures(c) PROVE PingInv'
  BY <1>0, <1>17, PingFrame DEF SetLocalFeatures, Configured
<1>18. ASSUME NEW c \in Conns, ReadConfigurator(c) PROVE PingInv'
  BY <1>0, <1>18, PingFrame DEF ReadConfigurator, Configured
<1>19. ASSUME NEW c \in Conns, ConfigureSocket(c) PROVE PingInv'
  <2>1. /\ used[c]["ping"] \in Nat /\ applied["ping"] \in Nat /\ applied["sockets"] \in Nat
        /\ applied["ping"] >= applied["sockets"]
    <3>1. applied["ping"] \in Versions /\ applied["sockets"] \in Versions
      BY <1>0 DEF SettingSet
    <3>2. used[c]["ping"] \in 1..applied["ping"]
      BY <1>19 DEF ConfigureSocket, VersionInv, UsedTyped, ReadsInOrder
    <3>3. applied["ping"] >= applied["sockets"]
      BY DEF VersionInv, AppliedInOrder
    <3> QED BY <3>1, <3>2, <3>3, VersionNumbers DEF Versions, Typed
  <2>2. /\ pingConf'[c] = used[c]["ping"] /\ applied' = applied
        /\ \A d \in Conns \ {c} : pingConf'[d] = pingConf[d] /\ at'[d] = at[d]
        /\ stale \subseteq stale' /\ (used[c]["ping"] < applied["ping"] => c \in stale')
    BY <1>0, <1>19 DEF ConfigureSocket
  <2>3. ASSUME NEW d \in Conns \ stale', at'[d] \in Configured
        PROVE  pingConf'[d] >= applied["sockets"]
    <3>1. CASE d = c
      BY <2>1, <2>2, <3>1
    <3>2. CASE d # c
      BY <2>2, <2>3, <3>2 DEF PingInv, Configured
    <3> QED BY <3>1, <3>2
  <2> QED BY <2>2, <2>3 DEF PingInv, Configured
<1>20. ASSUME NEW c \in Conns, ServeSocket(c) PROVE PingInv'
  BY <1>0, <1>20, PingFrame DEF ServeSocket, Configured
<1>21. ASSUME NEW c \in Conns, ReceiveVersion(c) PROVE PingInv'
  BY <1>0, <1>21, PingFrame DEF ReceiveVersion, Configured
<1>22. ASSUME NEW c \in Conns, SendInit(c) PROVE PingInv'
  BY <1>0, <1>22, PingFrame DEF SendInit, Configured
<1>23. ASSUME NEW c \in Conns, Leave(c) PROVE PingInv'
  BY <1>0, <1>23, PingFrame DEF Leave, Configured
<1>24. CASE Finished
  BY <1>24, PingFrame DEF Finished, vars
<1>25. CASE UNCHANGED vars
  BY <1>25, PingFrame DEF vars
<1> QED
  BY <1>1, <1>2, <1>3, <1>4, <1>5, <1>6, <1>7, <1>8, <1>9, <1>10, <1>11, <1>12, <1>13,
     <1>14, <1>15, <1>16, <1>17, <1>18, <1>19, <1>20, <1>21, <1>22, <1>23, <1>24, <1>25, <1>26
     DEF Next

\* A reload that reaches its end reaches every connection: only a handler that had already
\* taken the old configurator can be left with older ping settings, until the next reload.
THEOREM PingSettingsReachAll == Spec => []PingSettingsCurrent
<1>1. Typed /\ PingInv => PingSettingsCurrent
  <2> SUFFICES ASSUME Typed, PingInv, NEW c \in Listed, ~Before(c, "configured"), c \notin stale
               PROVE  pingConf[c] >= applied["sockets"]
    BY DEF PingSettingsCurrent
  <2>1. c \in Conns /\ at[c] \in InList
    BY ListedStages DEF Typed, ConnsTyped, Listed, Before
  <2>2. at[c] \in Configured
    BY <2>1, ConnOrder DEF Before, InList, Configured
  <2> QED BY <2>1, <2>2 DEF PingInv, Configured
<1>2. Init => PingInv
  BY VersionInit
<1> QED
  BY <1>1, <1>2, VersionInvariant, PingNext, PTL DEF Spec

----------------------------------------------------------------------------
(* The MTU *)

\* A step that changes neither an MTU nor what SetMTU has done, and in which no connection
\* takes Server.mtu or enters or leaves the list of sockets.
LEMMA MTUFrame ==
    ASSUME MTUInv, UNCHANGED <<setup, mtuVars, sockMTU, ifaceMTU, clientMTU, torn, crossed>>,
           lock \/ mainSet => config'.mtu = config.mtu, Listed' = Listed,
           \A c \in Conns : \/ at'[c] = at[c]
                            \/ at'[c] = "ready" /\ at[c] = "serving"
                            \/ at[c] # "established"
                               /\ at'[c] \notin {"upgraded", "serving", "ready", "established"}
    PROVE  MTUInv'
BY DEF MTUInv, MTUPass, MTUSet, mtuVars, Listed

\* Every step keeps the MTUs in agreement.
LEMMA MTUNext == Typed /\ VersionInv /\ MTUInv /\ [Next]_vars => MTUInv'
<1> SUFFICES ASSUME Typed, VersionInv, MTUInv, [Next]_vars PROVE MTUInv'
  OBVIOUS
<1> USE DEF Set, reloadVars, mtuVars, connVars, history
<1>0. /\ at \in [Conns -> ConnNames] /\ stage \in 0..8
      /\ sockMTU \in [Conns -> MTUs \cup {NoMTU}] /\ ifaceMTU \in [Conns -> MTUs \cup {NoMTU}]
      /\ clientMTU \in [Conns -> MTUs \cup {NoMTU}]
      /\ lock \in BOOLEAN /\ torn \in BOOLEAN /\ setup.own \in BOOLEAN
      /\ (lock => stage = 4) /\ (unsent # {} => lock)
      /\ mainSet \in BOOLEAN /\ (mainSet => stage = 4 /\ ~lock)
      /\ unsent \subseteq Conns /\ crossed \subseteq Conns
      /\ Listed = {c \in Conns : at[c] \in InList}
  BY ListedStages, VersionNumbers
     DEF Typed, ReloadTyped, MTUTyped, ConnsTyped, HistoryTyped, Listed, Before
<1>00. at' \in [Conns -> ConnNames] /\ Listed' = {c \in Conns : at'[c] \in InList}
  <2>1. at' \in [Conns -> ConnNames]
    BY TypedNext DEF Typed, ConnsTyped
  <2> QED BY <2>1, ListedStages DEF Listed, Before
<1>1. CASE Edit
  BY <1>0, <1>00, <1>1, MTUFrame DEF Edit, ConnNames, InList
<1>2. CASE Start
  BY <1>0, <1>00, <1>2, MTUFrame DEF Start, ConnNames, InList
<1>3. CASE Apply
  BY <1>0, <1>00, <1>3, MTUFrame DEF Apply, ConnNames, InList
<1>4. CASE UpdateSocketConfig
  BY <1>0, <1>00, <1>4, MTUFrame DEF UpdateSocketConfig, ConnNames, InList
<1>5. CASE SetMTUNothing
  BY <1>0, <1>00, <1>5, MTUFrame DEF SetMTUNothing, ConnNames, InList
<1>6. CASE SetMTUBegins
  BY <1>0, <1>00, <1>6 DEF SetMTUBegins, MTUInv, MTUPass, MTUSet, ConnNames, InList, InSetMTU
<1>7. CASE SetMTUMainFails
  BY <1>0, <1>00, <1>7, MTUFrame DEF SetMTUMainFails, ConnNames, InList
<1>26. CASE SetMTUMain
  BY <1>0, <1>00, <1>26 DEF SetMTUMain, MTUInv, MTUPass, MTUSet, ConnNames, InList, InSetMTU
<1>8. CASE SetMTUEnds
  BY <1>0, <1>00, <1>8 DEF SetMTUEnds, MTUInv, MTUPass, MTUSet, ConnNames, InList, InSetMTU
<1>9. ASSUME NEW c \in Conns, SetMTUOf(c) PROVE MTUInv'
  BY <1>0, <1>00, <1>9 DEF SetMTUOf, SendSetMTU, MTUInv, MTUPass, MTUSet, ConnNames, InList
<1>10. ASSUME NEW c \in Conns, SetMTUOfFails(c) PROVE MTUInv'
  BY <1>0, <1>00, <1>10 DEF SetMTUOfFails, MTUInv, MTUPass, MTUSet, ConnNames, InList
<1>11. ASSUME NEW c \in Conns, Authenticate(c) PROVE MTUInv'
  BY <1>0, <1>00, <1>11, MTUFrame DEF Authenticate, ConnNames, InList
<1>12. ASSUME NEW c \in Conns, handlePreauthorize(c) PROVE MTUInv'
  BY <1>0, <1>00, <1>12, MTUFrame DEF handlePreauthorize, ConnNames, InList
<1>13. ASSUME NEW c \in Conns, handlePreauthorizeToken(c) PROVE MTUInv'
  BY <1>0, <1>00, <1>13, MTUFrame DEF handlePreauthorizeToken, ConnNames, InList
<1>14. ASSUME NEW c \in Conns, serveAPI(c) PROVE MTUInv'
  BY <1>0, <1>00, <1>14, MTUFrame DEF serveAPI, ConnNames, InList
<1>15. ASSUME NEW c \in Conns, Upgrade(c) PROVE MTUInv'
  BY <1>0, <1>00, <1>15 DEF Upgrade, MTUInv, MTUPass, MTUSet, ConnNames, InList
<1>16. ASSUME NEW c \in Conns, List(c) PROVE MTUInv'
  BY <1>0, <1>00, <1>16 DEF List, MTUInv, MTUPass, MTUSet, ConnNames, InList
<1>17. ASSUME NEW c \in Conns, SetLocalFeatures(c) PROVE MTUInv'
  BY <1>0, <1>00, <1>17, MTUFrame DEF SetLocalFeatures, ConnNames, InList
<1>18. ASSUME NEW c \in Conns, ReadConfigurator(c) PROVE MTUInv'
  BY <1>0, <1>00, <1>18, MTUFrame DEF ReadConfigurator, ConnNames, InList
<1>19. ASSUME NEW c \in Conns, ConfigureSocket(c) PROVE MTUInv'
  BY <1>0, <1>00, <1>19, MTUFrame DEF ConfigureSocket, ConnNames, InList
<1>20. ASSUME NEW c \in Conns, ServeSocket(c) PROVE MTUInv'
  BY <1>0, <1>00, <1>20 DEF ServeSocket, MTUInv, MTUPass, MTUSet, ConnNames, InList
<1>21. ASSUME NEW c \in Conns, ReceiveVersion(c) PROVE MTUInv'
  BY <1>0, <1>00, <1>21, MTUFrame DEF ReceiveVersion, ConnNames, InList
<1>22. ASSUME NEW c \in Conns, SendInit(c) PROVE MTUInv'
  BY <1>0, <1>00, <1>22 DEF SendInit, MTUInv, MTUPass, MTUSet, ConnNames, InList
<1>23. ASSUME NEW c \in Conns, Leave(c) PROVE MTUInv'
  BY <1>0, <1>00, <1>23 DEF Leave, MTUInv, MTUPass, MTUSet, ConnNames, InList
<1>24. CASE Finished
  BY <1>0, <1>00, <1>24, MTUFrame DEF Finished, vars
<1>25. CASE UNCHANGED vars
  BY <1>0, <1>00, <1>25, MTUFrame DEF vars
<1> QED
  BY <1>1, <1>2, <1>3, <1>4, <1>5, <1>6, <1>7, <1>8, <1>9, <1>10, <1>11, <1>12, <1>13,
     <1>14, <1>15, <1>16, <1>17, <1>18, <1>19, <1>20, <1>21, <1>22, <1>23, <1>24, <1>25, <1>26
     DEF Next

\* The server's socket, the connection's interface, the client and Server.mtu have the same
\* MTU, except for the connections SetMTU met while they were being set up and after a
\* SetMTU that failed half-way.
THEOREM MTUsAgree == Spec => []MTUAgrees
<1>1. Typed /\ MTUInv => MTUAgrees
  <2>1. ASSUME Typed PROVE \A c \in Conns : at[c] = "established" => c \in Listed
    BY <2>1, ListedStages DEF Typed, ConnsTyped, Listed, Before, InList
  <2> QED BY <2>1 DEF MTUAgrees, MTUInv, MTUSet
<1>2. Init => MTUInv
  BY VersionInit
<1> QED
  BY <1>1, <1>2, VersionInvariant, MTUNext, PTL DEF Spec
====
