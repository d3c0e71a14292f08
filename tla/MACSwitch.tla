----------------------------- MODULE MACSwitch -----------------------------
(***************************************************************************)
(* The MAC switch of a server with a TAP interface: which socket a MAC     *)
(* address belongs to.  macTable maps an address to the socket that        *)
(* claimed it; every socket has an LRU cache of the addresses it uses,     *)
(* which evicts through onMACEvicted.  A socket's reader learns addresses  *)
(* from the frames it receives (setMACFrom), while closing sockets leave   *)
(* (UnregisterSocket, Purge) and a reload resizes the caches.              *)
(*                                                                         *)
(* A step is a critical section of macLock or one operation of a cache,    *)
(* which calls its eviction callback after it has released its own lock.   *)
(* The periodic cleanup is left out: its timer fires once, 30 seconds      *)
(* after the start, when no entry can be as old as MACTableTimeout (600    *)
(* seconds), and is never reset.                                           *)
(***************************************************************************)
EXTENDS Naturals, FiniteSets, SequencesExt

CONSTANTS
    Sockets,     \* sockets, each registered at most once
    Macs,        \* unicast MAC addresses
    NoSocket,    \* no entry
    NoMac,       \* no address
    Sizes,       \* values of allowed-macs-per-connection
    MaxReloads   \* bound on the number of configuration reloads

ASSUME SocketsAssumption == NoSocket \notin Sockets
ASSUME MacsAssumption == NoMac \notin Macs
\* A cache of size 0 cannot be made: such a server closes every socket.
ASSUME SizesAssumption == Sizes \subseteq Nat \ {0}
ASSUME ReloadsAssumption == MaxReloads \in Nat

VARIABLES
    macTable,          \* MACSwitch.macTable
    table,             \* "new", "in" or "out": whether socketTable has the socket
    cache,             \* the socket's LRU cache, oldest address first
    size,              \* the cache's size
    pc,                \* where the socket's reader is
    mac,               \* the source address of the frame it handles
    evicted,           \* the address its Add has evicted
    closing,           \* the sockets with isClosing set
    closer,            \* where the socket's close() is, under closeLock
    purging,           \* addresses its Purge has removed, callbacks still to come
    config,            \* AllowedMACsPerConnection and AllowMACChanging
    resizing,          \* sockets ConfigUpdate still has to resize
    shrinking,         \* addresses its Resize has removed, callbacks still to come
    reloads,
    overtaken,         \* history: claims whose socket was unregistered before the Add
    used,              \* history, up to the first reload: addresses that frames of a
                       \* live socket passed with while they may not change
    clobbered          \* history, up to the first reload: claims that the eviction
                       \* of another socket has removed

readerVars == <<pc, mac, evicted>>
closerVars == <<closing, closer, purging>>
configVars == <<config, resizing, shrinking, reloads>>
tableVars == <<macTable, table, cache, size>>
history == <<used, overtaken, clobbered>>
vars == <<readerVars, closerVars, configVars, tableVars, history>>

----------------------------------------------------------------------------
(* The cache: hashicorp's LRU, as the switch uses it *)

\* The addresses a cache of n entries keeps.
Newest(list, n) == SubSeq(list, Len(list) - n + 1, Len(list))

\* Add makes the address the newest one ...
Touched(s) == Append(RemoveFirst(cache[s], mac[s]), mac[s])

\* ... and drops the oldest if that is one too many.
Overflows(s) == Len(Touched(s)) > size[s]

----------------------------------------------------------------------------
Init ==
    /\ macTable = [m \in Macs |-> NoSocket]
    /\ table = [s \in Sockets |-> "new"]
    /\ cache = [s \in Sockets |-> <<>>]
    /\ size = [s \in Sockets |-> 0]
    /\ pc = [s \in Sockets |-> "idle"]
    /\ mac = [s \in Sockets |-> NoMac]
    /\ evicted = [s \in Sockets |-> NoMac]
    /\ closing = {}
    /\ closer = [s \in Sockets |-> "none"]
    /\ purging = [s \in Sockets |-> {}]
    /\ config \in [allowed : Sizes, changing : BOOLEAN]
    /\ resizing = {}
    /\ shrinking = {}
    /\ reloads = 0
    /\ used = [s \in Sockets |-> {}]
    /\ overtaken = {}
    /\ clobbered = {}

Goto(s, stage) == pc' = [pc EXCEPT ![s] = stage]

\* The reader is done with the frame.
Return(s) ==
    /\ Goto(s, "idle")
    /\ mac' = [mac EXCEPT ![s] = NoMac]
    /\ evicted' = [evicted EXCEPT ![s] = NoMac]

\* Mutant: room for one address more.
RegisterSocketLarger(s) ==
    /\ table[s] = "new"
    /\ table' = [table EXCEPT ![s] = "in"]
    /\ size' = [size EXCEPT ![s] = config.allowed + 1]
    /\ UNCHANGED <<readerVars, closerVars, configVars, macTable, cache, history>>

\* RegisterSocket, whether or not the socket is closing by now.
RegisterSocket(s) ==
    /\ table[s] = "new"
    /\ table' = [table EXCEPT ![s] = "in"]
    /\ size' = [size EXCEPT ![s] = config.allowed]
    /\ UNCHANGED <<readerVars, closerVars, configVars, macTable, cache, history>>

\* onMACEvicted deletes the entry, whoever has claimed the address by now.
Forget(m, own) ==
    /\ macTable' = [macTable EXCEPT ![m] = NoSocket]
    /\ clobbered' = IF reloads > 0 \/ macTable[m] \in own \cup {NoSocket} THEN clobbered
                    ELSE clobbered \cup {m}

----------------------------------------------------------------------------
(* The reader of a socket: HandlePacket and setMACFrom *)

\* HandlePacket gets a frame of a live socket; setMACFrom finds the socket's cache.
HandlePacket(s) ==
    /\ pc[s] = "idle"
    /\ s \notin closing
    /\ table[s] = "in"
    /\ \E m \in Macs : mac' = [mac EXCEPT ![s] = m]
    /\ Goto(s, "looked")
    /\ UNCHANGED <<evicted, closerVars, configVars, tableVars, history>>

\* socketMACs.Contains.
LookUp(s) ==
    /\ pc[s] = "looked"
    /\ Goto(s, IF mac[s] \in ToSet(cache[s]) THEN "add" ELSE "unknown")
    /\ UNCHANGED <<mac, evicted, closerVars, configVars, tableVars, history>>

\* Mutant: the setting is not looked at.
MayChangeAlways(s) == TRUE

\* A socket that may not change its address keeps the first one.
MayChange(s) == config.changing \/ Len(cache[s]) = 0

CheckChanging(s) ==
    /\ pc[s] = "unknown"
    /\ IF MayChange(s) THEN Goto(s, "claim") /\ UNCHANGED <<mac, evicted>> ELSE Return(s)
    /\ UNCHANGED <<closerVars, configVars, tableVars, history>>

\* Mutant: the address is taken whoever has it.
ClaimAnyway(s) ==
    /\ pc[s] = "claim"
    /\ macTable' = [macTable EXCEPT ![mac[s]] = s]
    /\ Goto(s, "add")
    /\ UNCHANGED <<mac, evicted, closerVars, configVars, table, cache, size, history>>

\* The address is free and becomes the socket's.
Claim(s) ==
    /\ pc[s] = "claim"
    /\ macTable[mac[s]] = NoSocket
    /\ macTable' = [macTable EXCEPT ![mac[s]] = s]
    /\ Goto(s, "add")
    /\ UNCHANGED <<mac, evicted, closerVars, configVars, table, cache, size, history>>

\* It is not: the reader leaves and closes the socket, when closeLock is free.
Collide(s) ==
    /\ pc[s] = "claim"
    /\ macTable[mac[s]] # NoSocket
    /\ Goto(s, "collision")
    /\ UNCHANGED <<mac, evicted, closerVars, configVars, tableVars, history>>

CloseError(s) ==
    /\ pc[s] = "collision"
    /\ closer[s] = "none"
    /\ closing' = closing \cup {s}
    /\ closer' = [closer EXCEPT ![s] = "unregister"]
    /\ Return(s)
    /\ UNCHANGED <<purging, configVars, tableVars, history>>

\* socketMACs.Add of an address that was found in the cache or has been claimed.
Add(s) ==
    /\ pc[s] = "add"
    /\ cache' = [cache EXCEPT ![s] = IF Overflows(s) THEN Tail(Touched(s)) ELSE Touched(s)]
    /\ evicted' = IF Overflows(s) THEN [evicted EXCEPT ![s] = Head(Touched(s))] ELSE evicted
    /\ overtaken' = IF table[s] = "out" THEN overtaken \cup {<<s, mac[s]>>} ELSE overtaken
    /\ Goto(s, IF Overflows(s) THEN "evict" ELSE "accept")
    /\ UNCHANGED <<mac, closerVars, configVars, macTable, table, size, used, clobbered>>

\* Mutant: the evicted address stays claimed.
EvictNothing(s) ==
    /\ pc[s] = "evict"
    /\ Goto(s, "accept")
    /\ UNCHANGED <<mac, evicted, closerVars, configVars, tableVars, history>>

\* onMACEvicted for the address Add has dropped, whoever has claimed it by now.
onMACEvicted(s) ==
    /\ pc[s] = "evict"
    /\ Forget(evicted[s], {s})
    /\ Goto(s, "accept")
    /\ UNCHANGED <<mac, evicted, closerVars, configVars, table, cache, size, used, overtaken>>

\* The rest of HandlePacket checks and forwards the frame.
Accept(s) ==
    /\ pc[s] = "accept"
    /\ used' = IF s \in closing \/ reloads > 0 \/ config.changing THEN used
               ELSE [used EXCEPT ![s] = @ \cup {mac[s]}]
    /\ Return(s)
    /\ UNCHANGED <<closerVars, configVars, tableVars, overtaken, clobbered>>

----------------------------------------------------------------------------
(* Closing a socket *)

\* Any goroutine closes the socket.
Close(s) ==
    /\ s \notin closing
    /\ closer[s] = "none"
    /\ closing' = closing \cup {s}
    /\ closer' = [closer EXCEPT ![s] = "unregister"]
    /\ UNCHANGED <<readerVars, purging, configVars, tableVars, history>>

\* Mutant: the addresses of the socket stay claimed.
UnregisterKeepsClaims(s) ==
    /\ closer[s] = "unregister"
    /\ table' = [table EXCEPT ![s] = IF @ = "in" THEN "out" ELSE @]
    /\ closer' = [closer EXCEPT ![s] = "none"]
    /\ UNCHANGED <<readerVars, closing, purging, configVars, macTable, cache, size, history>>

\* UnregisterSocket under macLock: the entries of all addresses in the cache go.
UnregisterSocket(s) ==
    /\ closer[s] = "unregister"
    /\ table' = [table EXCEPT ![s] = IF @ = "in" THEN "out" ELSE @]
    /\ macTable' = IF table[s] = "in"
                   THEN [m \in Macs |-> IF m \in ToSet(cache[s]) THEN NoSocket
                                        ELSE macTable[m]]
                   ELSE macTable
    /\ closer' = [closer EXCEPT ![s] = IF table[s] = "in" THEN "purge" ELSE "none"]
    /\ UNCHANGED <<readerVars, closing, purging, configVars, cache, size, history>>

\* Purge empties the cache ...
Purge(s) ==
    /\ closer[s] = "purge"
    /\ purging' = [purging EXCEPT ![s] = ToSet(cache[s])]
    /\ cache' = [cache EXCEPT ![s] = <<>>]
    /\ closer' = [closer EXCEPT ![s] = "evict"]
    /\ UNCHANGED <<readerVars, closing, configVars, macTable, table, size, history>>

\* ... and calls onMACEvicted for every address that was in it.
PurgeEvicts(s) ==
    /\ closer[s] = "evict"
    /\ \E m \in purging[s] :
          /\ Forget(m, {s})
          /\ purging' = [purging EXCEPT ![s] = @ \ {m}]
    /\ UNCHANGED <<readerVars, closing, closer, configVars, table, cache, size, used,
                   overtaken>>

Closed(s) ==
    /\ closer[s] = "evict"
    /\ purging[s] = {}
    /\ closer' = [closer EXCEPT ![s] = "none"]
    /\ UNCHANGED <<readerVars, closing, purging, configVars, tableVars, history>>

----------------------------------------------------------------------------
(* A reload *)

\* reloadConfig stores the settings; ConfigUpdate looks which sockets there are.
Reload ==
    /\ reloads < MaxReloads
    /\ resizing = {} /\ shrinking = {}
    /\ reloads' = reloads + 1
    /\ config' \in [allowed : Sizes, changing : BOOLEAN]
    /\ resizing' = {s \in Sockets : table[s] = "in"}
    /\ used' = [s \in Sockets |-> {}]
    /\ clobbered' = {}
    /\ UNCHANGED <<readerVars, closerVars, shrinking, tableVars, overtaken>>

\* Resize drops the oldest addresses of a cache ...
Resize(s) ==
    /\ s \in resizing
    /\ shrinking = {}
    /\ LET kept == IF Len(cache[s]) > config.allowed
                   THEN Newest(cache[s], config.allowed) ELSE cache[s]
       IN  /\ cache' = [cache EXCEPT ![s] = kept]
           /\ shrinking' = ToSet(cache[s]) \ ToSet(kept)
    /\ size' = [size EXCEPT ![s] = config.allowed]
    /\ resizing' = resizing \ {s}
    /\ UNCHANGED <<readerVars, closerVars, config, reloads, macTable, table, history>>

\* ... and calls onMACEvicted for them.
ResizeEvicts ==
    /\ \E m \in shrinking :
          /\ Forget(m, {})
          /\ shrinking' = shrinking \ {m}
    /\ UNCHANGED <<readerVars, closerVars, config, resizing, reloads, table, cache,
                   size, used, overtaken>>

----------------------------------------------------------------------------
Reader(s) ==
    \/ HandlePacket(s) \/ LookUp(s) \/ CheckChanging(s) \/ Claim(s) \/ Collide(s)
    \/ CloseError(s) \/ Add(s) \/ onMACEvicted(s) \/ Accept(s)

Closer(s) ==
    \/ Close(s) \/ UnregisterSocket(s) \/ Purge(s) \/ PurgeEvicts(s) \/ Closed(s)

\* Every socket is closed and nothing is under way.
Finished ==
    /\ closing = Sockets
    /\ \A s \in Sockets : pc[s] = "idle" /\ closer[s] = "none" /\ table[s] # "new"
    /\ UNCHANGED vars

Next ==
    \/ \E s \in Sockets : RegisterSocket(s) \/ Reader(s) \/ Closer(s) \/ Resize(s)
    \/ Reload \/ ResizeEvicts
    \/ Finished

Spec == Init /\ [][Next]_vars

----------------------------------------------------------------------------
(* Properties *)

\* The types.
TypeOK ==
    /\ macTable \in [Macs -> Sockets \cup {NoSocket}]
    /\ table \in [Sockets -> {"new", "in", "out"}]
    /\ cache \in [Sockets -> Seq(Macs)]
    /\ size \in [Sockets -> Sizes \cup {0}]
    /\ pc \in [Sockets -> {"idle", "looked", "unknown", "claim", "collision", "add",
                           "evict", "accept"}]
    /\ mac \in [Sockets -> Macs \cup {NoMac}]
    /\ evicted \in [Sockets -> Macs \cup {NoMac}]
    /\ closing \subseteq Sockets
    /\ closer \in [Sockets -> {"none", "unregister", "purge", "evict"}]
    /\ purging \in [Sockets -> SUBSET Macs]
    /\ config \in [allowed : Sizes, changing : BOOLEAN]
    /\ resizing \subseteq Sockets
    /\ shrinking \subseteq Macs
    /\ reloads \in 0..MaxReloads
    /\ used \in [Sockets -> SUBSET Macs]
    /\ overtaken \subseteq Sockets \X Macs
    /\ clobbered \subseteq Macs

Claims(s) == {m \in Macs : macTable[m] = s}

\* The addresses on their way into the cache of a socket, or out of it.
InFlight(s) ==
    (IF pc[s] = "add" THEN {mac[s]} ELSE {})
    \cup (IF pc[s] = "evict" THEN {evicted[s]} ELSE {})
    \cup shrinking

\* An address is claimed by a socket only while the socket is registered and its
\* cache has the address, unless the socket was unregistered while its reader was
\* claiming it: nothing removes such a claim (setMACFrom and UnregisterSocket).
ClaimsExplained ==
    \A s \in Sockets : \A m \in Claims(s) :
        \/ table[s] = "in" /\ m \in ToSet(cache[s])
        \/ m \in InFlight(s)
        \/ <<s, m>> \in overtaken

\* No socket has more addresses than allowed-macs-per-connection, but for one that
\* is being exchanged, as long as the setting does not change.
ClaimsBounded ==
    reloads = 0 => \A s \in Sockets :
        Cardinality(Claims(s)) <= config.allowed + (IF pc[s] \in {"add", "evict"} THEN 1 ELSE 0)

\* No two live sockets use the same address: a newcomer with the address of another
\* is closed (setMACFrom).  The exceptions are addresses whose claim was removed by
\* the eviction of another socket that had used it before: Purge calls
\* onMACEvicted after UnregisterSocket has given up macLock.
Exclusive ==
    reloads = 0 =>
        \A s, t \in Sockets \ closing :
            s # t => ToSet(cache[s]) \cap ToSet(cache[t]) \subseteq clobbered

\* With allow-mac-changing off, the frames of a live socket all have one source
\* address.
OneMACOnly ==
    reloads = 0 /\ ~config.changing => \A s \in Sockets : Cardinality(used[s]) <= 1
=============================================================================
