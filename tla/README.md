# A TLA+ model of wsvpn

wsvpn tunnels IP packets or Ethernet frames over WebSocket or WebTransport
connections. A server hands out addresses of a VPN subnet to its clients and
switches packets between them; a client connects, gets an address, and reconnects
when the connection is lost. Both ends are Go programs in which every connection
has several goroutines, and most of what can go wrong lies between them.

This directory models the parts of the program that keep state. Every definition
is translated from the code; `PROJECT.json` names its lines under `map`, and a
mutant (a plausible bug in a definition) for every property that passes.

## Inventory

| Component | Source | State | Operations | Model |
| --- | --- | --- | --- | --- |
| Connection handler | `server/servers/sockets.go` | slot table, socket table, lists per user | `serveSocket`, one goroutine per connection, and its deferred calls | `Server` |
| Server lifecycle | `server/servers/base.go`, `listener.go` | closers, serve error, MTU | `Serve`, `Close`, `setServeError`, `SetMTU` | `Server` (closers), `Serving`, `Reload` (`SetMTU`) |
| Web API | `server/servers/web_api.go` | none of its own | list and delete clients | `Server`, `Serving` (DELETE), `Reload` (access) |
| IP switch | `server/ipswitch` | address to socket | register, unregister, `HandlePacket` | `Server` (the table), `Serving` (what it writes) |
| Address plan | `shared/vpn_net.go` | the subnet | slot count, address of a slot | `Server` |
| Socket life cycle | `shared/sockets/base.go`, `vpnnet.go`, `ping.go` | flags, wait group, `closeLock` | `Serve`, `WaitReady`, `Wait`, `Close`, `CloseError`, `SetInterface`, pings | `Socket`, `Keepalive` (pings), `Serving` (locks) |
| Commands | `shared/commands`, `shared/sockets/commands.go` | remote version and features | version, init, reply, message | `Socket`, `Session` |
| Feature negotiation | `shared/sockets/base.go`, `commands.go`, `data_message.go` | local, remote and enabled features | `featureCheck`, `HandleInitPacketFragmentation` | `Session` |
| Fragmentation | `shared/sockets/data_message.go` | last identifier, reassembly buffer | `WritePacket`, `dataMessageHandler`, `cleanupFragments` | `Fragmentation` |
| Adapters | `shared/sockets/adapters` | ready flag, payload limit, `writeLock` | read loop, write, ping and pong, `WaitReady`, `Close` | `Socket`, `Fragmentation`, `Keepalive`, `Serving` |
| Main interface | `server/servers/main_iface.go` | the interface | read and forward | `Serving` |
| MAC switch | `server/macswitch` | MAC to socket, an LRU cache per socket | register, unregister, learn, evict, resize | `MACSwitch` |
| Client | `client/clients` | interface, remote net, `sentUpEvent` | `ServeLoop`, `Serve`, init handler, `closeInternal` | `Session`, `Socket` |
| Configuration | `server/cli`, `client/cli` | settings | load, reload | `Reload`; `Server`, `MACSwitch`, `Session` (the settings they use) |
| Authentication | `server/servers/auth.go`, `server/authenticators` | the authenticator, the secret of tokens | accept or refuse a request, issue a token | its outcome in `Server`, its place among the settings in `Reload` |
| Connectors, upgraders, interfaces, scripts, helpers | `client/connectors`, `server/upgraders`, `shared/iface`, ... | none, or the operating system's | dialling, HTTP, system commands | not modelled |

How they interact. A request is authenticated and upgraded to an adapter; the
handler takes a slot, makes a `Socket` around the adapter and serves it. The
socket registers itself with the switch, starts its goroutines (the adapter's read
loop, the ping timer, an interface reader, the welcome message) and waits. Packets
go from the adapter to the switch and from there to other sockets or the
interface. Any goroutine of a socket, a switch that finds a conflict, the admission
of another connection, the API and the shutdown may close it. A client does the
same with one socket at a time, in a loop.

What is hard about it:

- the handler has a dozen early returns and five deferred calls, and shares four
  tables with other handlers, each under a lock of its own;
- a socket can be closed by many goroutines at once, at any point of its start;
- `WaitReady` waits on a condition that it tests without the condition's lock;
- commands and datagrams overtake each other, and the two commands that set up a
  connection are sent by different goroutines;
- datagrams are lost and reordered, and packets in pieces are sent again under
  payload limits that change meanwhile;
- lengths and identifiers are computed in fixed-width arithmetic;
- the MAC table, the caches and their eviction callbacks are updated in steps;
- a write to a client that does not read blocks with a lock held, and closes, admission
  and `SetMTU` need that lock or hold others meanwhile;
- the timeout of a ping races its answer, and both race a change of the settings;
- a reload replaces the settings one by one, may stop half-way, and the handlers of
  new connections read them without a lock.

`PROJECT.json` lists these hazards one by one, at the lines where they bite, with
the properties that would catch them.

## Modules

**Server** has the handler of every connection as a program counter (`pc[c]`, the
stages of `serveSocket`) and the server's tables as they are in the code:
`usedSlots`, `sockets`, `authenticatedSockets`, `closers`, `ipTable`. A step is one
critical section (of `slotMutex`, `socketsLock`, `closerLock`, `closeLock`,
`ipLock`) or the code between two of them. Actions from `Upgrade` to `WaitReturns`
go down the handler; `Unlist` to `CloseAdapter` are its deferred calls in reverse
order. The environment: peers disconnect, goroutines of sockets close them, an API
DELETE looks a socket up and closes it later, a reload changes the limit and its
mode between any two steps, `Server.Close` closes all closers. A socket is reduced
to what the tables depend on: whether it is closing, its adapter is open, its
interface is open. `lateRoutes` is a history variable.

**Socket** is one socket in detail, of any kind (client or server, own or shared
interface, WebSocket or WebTransport): every goroutine has a program counter, and
`closeLock` is explicit. `close()` is two steps, because goroutines that do not
take the lock run in between. Only the order and the success of what is written
and read matter, so the network is just whether the adapter is open.

**Fragmentation** is the data path of a connection. A packet is a name and a
length, a slice the range of bytes it covers; `net` is a set of datagrams from which
any may be received next, or never. Lengths are `uint16`, identifiers four bytes
that are each a remainder by 0xFF, indices seven bits. The writers are concurrent calls
of `WritePacket`. The size check of a datagram and its sending are two steps, between which another
call may lower the limit; QUIC takes the datagram, refuses it with a lower limit, after which the
packet is sent again, or fails.

**MACSwitch** is the TAP switch: `macTable`, the LRU caches (sequences, oldest
first), the readers of the sockets that learn addresses, the closes that purge, and
the reload that resizes. Eviction callbacks run after the lock of the cache is
released, so they are steps of their own.

**Session** is a client over several connections: `ServeLoop`, the version and init
commands, what both ends conclude from them (`featureCheck`, the rules for older
protocol versions), the format of data messages, the interface that init opens
and the scripts. At one end there may be an older release, whose behaviour is
taken from what this code and `docs/PROTOCOL.md` expect of it.

**AddressLease** is what the server promises about addresses: a client is granted one
that nobody else has, may use it while it has it, and returns it when it no longer
uses it. Server implements it (`ImplementsLease`). In the mapping a handler's lease is
its slot from the allocation to the deferred release, and it uses it while its socket is live
or its own interface is open. That no two clients use one address is a theorem of the lease.

**Keepalive** is one connection seen from both ends, with the goroutines that keep it
alive: the pinger with its two timers, the adapter's reader, which answers
pings itself, and a goroutine that writes data. Over a WebSocket all of them share
`writeLock`, and so does `Close`; a WebTransport stream has no lock, a close
cancels its writes, and a ping before the stream is opened is an error that ends the connection. Time is counted in ticks; the pinger wakes when its timer fires,
everybody else may be late. Between a writer and a peer that does not read there is
room for `WireSize` messages. A host may stop without a word, a socket may be closed from
outside, and a reload may change the settings (`ConfigurePing`).

**Serving** is a server as a set of goroutines and the four kinds of locks they share
(`socketsLock`, `closerLock`, a `closeLock` and a `writeLock` per connection). What a
goroutine has still to do is a sequence of instructions in the order of the code, and
a call is replaced by its body, so that `CloseError` inside admission, or `Close` inside a failing
write inside the main interface's reader, hold what they hold in the code. It has the
handlers, the readers, the pingers, the senders of error messages, the reader of the main
interface with the packets that the IP switch forwards, the HTTP listener, `Serve`,
`setServeError`, `closeAll`, a DELETE, a reload that calls `SetMTU`, and the signal handler.

**Reload** is `reloadConfig` on a running server, in its order and with every early
return, against connections that read the settings at different moments: the
authenticator, the API permissions, the limits, the features, the ping settings, the MTU. A setting
is the version of the file that it comes from. `SetMTU` sets the main interface first, before it
has any lock (`mainSet`), then goes from socket to socket with `socketsLock` held and may fail at any interface; `UpdateSocketConfig` ends the
reload. Preauthorisation is a first request, with a token that is used later.

`MCServer`, `MCSocket`, `MCFragmentation`, `MCMACSwitch`, `MCSession`, `MCKeepalive`,
`MCServing` and `MCReload` instantiate them for TLC. `ServerProofs`, `ServingProofs`,
`FragmentationProofs`, `SocketProofs`, `MACSwitchProofs`, `SessionProofs`, `KeepaliveProofs` and
`ReloadProofs` hold the theorems.

The modules share no variables. They meet in what each assumes of the others:
Server's `Close`, `CloseError` and `GoroutineCloses` are the outcomes of Socket;
Server's `SendInit` and `InitFails` are its `WaitReady` and init; Session leaves
the goroutines to Socket; Fragmentation starts where Session has agreed on it. Serving
abstracts from slots and the handshake, which Server and Socket have, and adds what
their steps wait for; its `PingTimeout` is the outcome of Keepalive. Reload's
`Upgrade` to `Leave` are the steps of Server's handler at which a setting is read.

## Runs

| Run | What it shows |
| --- | --- |
| `tun` | One TUN interface: three connections of one user compete for the two slots of a /30 (or for a /31, in which the slot count wraps around and the address lookup refuses everyone). An interface per connection: two connections, with a DELETE and a shutdown at any moment, or with a reload of the limit. No two live sockets or interfaces have one address, no slot is leaked or freed twice, the IP switch leads to the live owner, a conflict never hits a live socket, the lists per user are current, no user has more connections than the largest limit that one of them has read, and Server implements AddressLease. |
| `life` | One socket of every kind: up and down events are paired, a finished socket has closed everything and has left the switch (unless it was registered when closed already), every counted goroutine ends once the socket is closing, and the handler ends too unless it slept through its wake-up. |
| `transfer` | Two packets over a network that loses and reorders, with payload limits that change: `WritePacket` returns, and only whole packets are delivered unless identifiers collide. |
| `switch` | Two sockets with two addresses: every entry of `macTable` is in the cache of its registered socket, on its way in or out, or was overtaken by the close of the socket. Until the first reload, a socket has at most one claim more than allowed, and that while it exchanges one; two live sockets use one address only after an eviction for an earlier user has removed the claim; and with `allow-mac-changing` off the frames of a socket have one address. |
| `session` | Two connections of a client, all pairs of protocol versions with rules of their own (9 to 12): data is read in the format it was written in, fragmentation is in use exactly when the documentation says, no interface is left open, and up and down scripts come in pairs. |
| `ping` | Whoever is given up for a ping timeout has had the whole timeout (outside a reload) and has not answered after it was set; an end that pings with a timeout shorter than the interval detects a peer that has stopped, unless a write that the peer never takes holds up the close; a data message is taken or refused in the end, unless the peer has stopped or both ends stand still. |
| `serving` | Locks are taken in one order through all nested calls, so no goroutines wait for each other in a circle; `socketsLock` always comes free again; once the interface or the listener has failed, or a signal has come, the process ends. |
| `reload` | Whoever the authenticator of a configuration lets in gets the other settings of that configuration or a later one, wherever a reload stops; a complete reload reaches the ping settings of every socket; server, interface, client and socket agree on the MTU. Each property names the races that are excepted. |

The other four runs end in a counterexample; each disagrees with a sentence of the
repository, quoted in `PROJECT.json` under `findings`:

| Run | What happens |
| --- | --- |
| `init` | `WaitReady` reads the flag before it takes the lock, and `setReady` broadcasts without it. A version command in between wakes nobody and the server never sends init. `WebTransportAdapter.WaitReady` has the same race. |
| `ids` | Identifier bytes are computed with `% 0xFF`: 256 and 511 are the same four bytes, and halves of two packets are joined. |
| `features` | Init is sent by the handler and version by a goroutine. When init arrives first, the client takes the server for an old one and switches on a feature that it has announced as off. |
| `pong` | The pinger writes the ping and sets the timeout afterwards. A pong handled in between stops a timer that does not run yet: the connection is given up although the peer has answered. |

### Exceptions and remarks

What the passing properties name as exceptions, and what the models show beyond them:

- The scan for a slot goes one past the client slots (`sockets.go:94`): the last client of
  a full subnet gets its broadcast address.
- The end of the last slice of a packet near 65535 bytes wraps around in `uint16`
  (`data_message.go:217`): the slice expression panics. In the model the writer ends as "panic".
- A claim on a MAC that is made while its socket is being unregistered
  (`mactable.go:100`) is removed by nobody; the next client with that address is closed.
  `ClaimsExplained` names this case.
- `FragmentationAsDocumented` excludes a server of version 11 that refuses fragmentation in
  init (`Refused11`): this client sets its local feature for such a server whatever init
  says. Servers of version 11 are not in the repository.
- `Standstill` in Keepalive can be reached: both ends have a write that the other does not
  take, and both readers wait for `writeLock` to answer a ping, so neither reads. Only the
  network's timeouts end it: `Close` needs the same lock.
- A ping timeout that is not shorter than the interval never strikes, because every ping stops the
  timeout of the one before (`Detecting`). A reload that sets the timeout to 0 between
  the start of the loop and `Reset` makes it strike at once; `TimeoutExplained`
  excepts reloads.
- `SocketsLockComesFree` rests on the operating system giving up a client that
  does not read. Until then `SetMTU`, which writes to it with `socketsLock` held, or
  a close under that lock, keeps all others from connecting; a signal waits behind the
  same `writeLock`; and the reader of the main interface serves nobody else while its packet waits.
- After a signal, `closeAll` ends the listener and the interface, whose errors race
  `setServeError(errNone)`: the process may end in a panic with "http: Server closed" or
  "main iface closed", or with the second close of `serveErrorChannel`, and not with
  exit code 0. `ServerStops` only says that it ends.
- `Exclusive` excepts the addresses whose claim the eviction for an earlier user has removed
  (`packet_handler.go:110`, `clobbered`): two live sockets may then use one of them.
- The HTTP goroutines never call `serveWaitGroup.Done`, so `ErrNoServeWaitsLeft` cannot happen
  and that goroutine is left out.
- `MTUAgrees` excepts connections that `SetMTU` met while they were being set up (`crossed`): they keep
  parts of the old MTU. After a `SetMTU` that failed half-way (`torn`), a
  reload to the old value does nothing, because `Server.mtu` still has it.
- Between setting the main interface and taking `socketsLock`, `SetMTU` leaves the main interface
  ahead of `Server.mtu`. `MTUAgrees` says which of the two the main interface has.
- A client whose interface cannot be set up hangs up over a WebSocket; over WebTransport the
  outcome of the command handler is not looked at (`webtransport.go:180`), and the connection stays
  without an interface.
- `PingSettingsCurrent` excepts a handler that had read the configurator before the
  reload replaced it (`stale`).
- A preauthorisation token outlives a reload of the authenticator, and the
  map of features is changed by a reload while handlers iterate over it without a lock.

### Bounds

- `tun`: three connections for two slots are the least with which an address is
  taken over while its former holder is still closing and a third client finds no slot.
  `UintMod = 64` stands for 2^64: all that matters is that it is larger than the
  subnet, so that the subtraction wraps around to a large number. With interfaces of
  their own the connections share only slots and lists, for which two are enough, with one
  of each administrative event at any moment; a limit of 0 (off), 1 or 2 may be exchanged
  for 0 or 2, so that a connection can be admitted under a limit that is no longer set.
- `life`: nothing is bounded but the closes from outside (`MaxAdmin = 1`).
- `transfer`: 5-bit lengths and 2-bit bytes, so that wrap-around and collisions happen
  with small numbers (4 and 7 are the same bytes). The four lengths are a packet
  sent whole or in two fragments, one that needs two or is cut past its end, one
  that wraps to a length sent whole, and one that is refused. `ids` uses the
  code's numbers (the identifier, of which it needs ten bits, is capped at 24).
- `switch`: a cache of one or two entries for two addresses, one reload. Two
  sockets are enough for every pair of racing steps in the code.
- `session`: the second connection is the one that could find leftovers of the first.
- `ping`: an interval of two ticks and a timeout of one are the least that keep them apart, and
  with room for one message on the wire every write can block. The settings are five cases:
  one end pings and the other stops, one end is closed, both ping each other, and
  a reload.
- `serving`: two connections of a user with a limit of one, so that admission closes
  the first; one packet, one client that stops reading or leaves, and each event from outside
  once, in five combinations that bring together the goroutines which share locks.
- `reload`: one connection and two reloads (a failed one and a good one), or two
  connections and one reload, with and without an interface per connection; faults
  at each of the six places where `reloadConfig` can stop.

All these bounds are constants of the modules. The proofs do not use them.

### Fairness

Socket, Fragmentation, Keepalive and Serving state liveness. In Socket every goroutine is weakly
fair, and so is whoever holds `closeLock`: the Go scheduler runs every runnable
goroutine, and `closeLock` is taken a bounded number of times. A read loop
whose adapter is closed returns; nothing is assumed of the peer, the administrator or
failures. In Fragmentation every call of `WritePacket` is weakly fair; nothing is assumed of
the network. In Keepalive time passes (weak fairness of `Tick`), and pingers, readers and
`Close` are strongly fair, because Go hands a mutex to whoever has waited for a
millisecond however often others take it; a goroutine that has data to write is only
assumed to finish a write it has begun. In Serving, as long as some goroutine can take a
step one does; there are no unbounded loops, so in the end all of them do. Scripts return. A client that does not read does so again or is given up by TCP (weak fairness of
`StallEnds`): this is the operating system's, the code sets no deadline. The other modules
make safety claims only.

`CHECK_DEADLOCK FALSE` is set for Socket only: a handler that slept through its
wake-up stays asleep, which is the subject of `init`. Elsewhere a `Finished` step
marks the states in which everything is done.

## Proofs

**ServerProofs** holds for any connections, users, subnet sizes, limits and bounds.

1. `TypeOK` is inductive together with `Addressed`: a handler that got past the
   address lookup has a slot inside the subnet, so the IP switch is only asked for
   addresses of the subnet.
2. `SlotsAccounted` (the table is the set of slots of the handlers that hold one) is
   inductive with `HoldersDistinct` (they hold different slots; without it a release
   could free the slot of another) and `IfacesHeld` (an interface is open only while its handler
   holds its slot). `NoSharedAddress` follows.
3. `RouteToOwner` and `ClosedUnrouted` are inductive with `EntriesOwned`: an entry
   of the IP switch belongs to a socket with that address that has been through
   `Serve`, and that is closed unless its handler has yet to run the deferred
   `Close`. Without it, nothing excludes an entry of a live socket under an address
   that another one is about to register. `ConflictOnlyWithClosed` follows from
   this and the slots.

4. `UserListsCurrent` and `UserLimit` hold through reloads of the limit and its mode. They are
   inductive with `ListedServed` (a listed socket is between its admission and its removal, so
   that the deferred removal of one that was refused finds nothing) and `ListsBounded` (a list
   that is not empty is no longer than the largest maximum that a connection of the user past
   its admission has read: admission under a lower one removes one entry for the one that it
   adds). A list has every socket once, so its length bounds the number of live connections
   that count. Without reloads every handler has read the limit that is in force (`LimitRead`).
5. Server implements AddressLease (`HandlersImplementLease`). The initial states map to the
   initial state of the lease. Under the invariant of 2, strengthened by the fact that
   allocated slots are positive (0 means no lease), every action maps to at most one step: the
   allocation to `Grant` (the scan finds a slot that no handler holds), opening an interface or
   making a socket to `Use`, closing the last of the two to `StopUsing`, the deferred release to
   `Return` (nothing is open any more), and the rest to stuttering.
6. In any behaviour of the lease two clients never use one address (`LeaseIsExclusive`, over the
   instance of AddressLease and from its actions alone); the invariant adds that leases are
   distinct and that only leased addresses are used. With 5, neither do the handlers
   (`HandlersUseExclusively`).

The assumptions are those named in `Server`: sets of naturals and booleans, and special
values that are not ordinary ones.

**FragmentationProofs** shows for any packets, lengths, limits and word sizes
that a delivered packet is complete, in order and from one attempt, provided no two attempts have
identifiers with the same bytes (`IntactUnlessCollision`). The invariant: attempts
are well formed (`AttemptsSound`), a writer's current attempt is one of them
(`WritersSound`), each datagram is the exact fragment of an attempt (`NetSound`), and without
collisions each buffer entry holds fragments of a single attempt and each delivered
packet all fragments of one (`BufferSound`, `DeliveredSound`). The arithmetic is in
lemmas: a packet has 2 to 128 fragments, and a slice that exists has
the bounds that exact arithmetic gives. The assumption on payload limits
(`PayloadsAssumption`) is that 128 fragments suffice for the largest packet; the adapter's limit of
1184 satisfies it.

**SocketProofs** holds for every kind of socket and any number of closes from outside.
`EventsPaired` and `ClosedWhenDone` say nothing about a `close()` that is half-way, which is where
the difficulty lies. The invariant `Placed` says where each goroutine can be: whoever holds
`closeLock` is still at the stage from which it called `close()` (`LockInv`), which goroutines
the handler has not started yet (`StartInv`), and that the client's handler waits for the adapter's
goroutine before it closes (`WaitInv`), so that no interface is opened after the last look for one.
`CloseInv` adds that an up event without its down, or a registration, is left only to a close
that is still to come or is under way.

**MACSwitchProofs** holds for any sockets, addresses, cache sizes and number of reloads. An LRU
cache is a sequence, and the lemmas on it say what adding, dropping the oldest and resizing do to its
length and its addresses. `CacheInv`: every address once and no more than the size. `ClosingInv`: a
socket leaves the table, and is purged, only when it is closing. With these `ClaimsExplained` is
inductive, address by address. The other three hold until the first reload (`SettingInv`: no
cache is resized): `Exclusive` needs its converse, that an address in the cache of a registered
socket is claimed by that socket unless an eviction removed the claim (`HeldInv`); `ClaimsBounded` also
needs that a socket that has left the table keeps at most one claim (`LeftInv`), that of the
last frame of its reader; `OneMACOnly` needs `OneInv`, which follows the one address from the
claim through the cache to the frames that pass. Sizes are assumed to be positive: a cache of size 0 cannot be made.

**SessionProofs** holds for any number of connections and reloads and any older versions. The commands
on their way are sequences, of which only matters whether they hold a command of a kind, whether
once, and what it carries; lemmas say what sending and handling do to that. `CommandsOnce` and
`ControlInv`: there is one init per connection, and until it is handled the client has no
interface and no script to undo. `NoInterfaceLeft` and `ScriptsPaired` follow. `VersionsExchanged`:
what an end knows of the other, or will be told, is what the other announced. `FormatSettled`: as long
as init has not overtaken version, an end that may write or process data has come to the
documented conclusion. `FormatsAgree` and `FragmentationAsDocumented` follow. Older versions
are assumed to be below this release's.

**KeepaliveProofs** holds for any settings, cases, and room on the wire. `LockHeld`: over a WebSocket the
lock is held exactly by the goroutine whose write waits. `TimerInv`: a timeout runs only while the
pinger waits, and what is left of it and what has passed since the ping add up to the whole of
it; with the timeout at 0 the whole has passed, which is `TimeoutExplained`. The assumption
`LongestAssumption` (one of the timeouts is the longest) is needed because the history variable
`elapsed` stops counting there; a `time.Duration` is bounded.

**ReloadProofs** holds for any connections, MTUs and number of edits of the file. `AppliedInOrder`: while
a reload runs, the stages it has passed have its version, and, because of their order and wherever
earlier reloads stopped, the limits, features, permissions and ping settings are never older than the
authenticator. `ReadsInOrder` and `UsedTyped`: a handler reads them after it has been let in, and what it has
read was applied. `NewUsersNewSettings` follows. `PingInv` is `PingSettingsCurrent` at the stages that
matter. `MTUInv` says what `SetMTU` has done so far: the main interface before the lock, the sockets while
it holds `socketsLock` (`MTUPass`), and
otherwise which copies a connection has taken of `Server.mtu` (`MTUSet`).

**ServingProofs** holds for any connections, limit, packets and faults. A goroutine is a sequence of
instructions, so the invariant is about what is still to be done:

- `Programs`: every goroutine's program is well formed. Its instructions are of the kinds that the goroutine
  can meet, it calls `Serve` of a socket at most once, and its critical sections are nested (`Nested`):
  whatever comes before the release of a lock needs only locks of a higher rank. `Depth` is
  the lowest rank an instruction may come to need, which for a write outside the
  handler is that of `closeLock`, because a write that fails turns into `CloseError`.
- `LocksHeld`: a lock is held exactly by the goroutine whose program releases it, or whose write, at the head of
  its program, waits for the peer. Without it nothing says that the holder will let go.
- `NotStarted`: what has not been started (a handler, a reader, a sender of an error message, an event) has
  an empty program, so that starting it never overwrites a program, and with it the release of a lock.
- `TablesTyped` and `ServeTyped`: the tables and the states of `Serve`.

Lemmas say what this keeps through the three things that actions do to programs: dropping the first
instruction, putting the body of a call in front, and wrapping it in a critical section. `LockOrder`
follows: the locks that a goroutine has still to release have a lower rank than the `Depth` of its next
instruction, which is at most the rank of the lock it waits for. `NoCircle` follows from the ranks being 1 to 3: in
a circle they would grow without end. From it and `LocksHeld`, whenever somebody waits for a lock that
is taken, somebody else has a lock and waits for none (`SomebodyGoesOn`); what it may wait for
is a peer that does not read, which is why liveness needs the timeouts. `LocksChangeHands` is an
action property: until the process exits, a lock is taken only when it is free and given back only by its
holder, which a Go mutex does not enforce. The assumptions are those named in `Serving`: a finite set of
connections, special values that are not ordinary ones, a positive limit, and first states in which the
user's list has every connection once and respects the limit.

Each of these invariants was checked by TLC on the run's instance (or a larger one) before it was proved.

Only model-checked: the liveness properties (`GoroutinesEnd` and `HandlerEnds` of Socket,
`WriteReturns` of Fragmentation, `DeadPeerDetected` and `WritesReturn` of Keepalive,
`SocketsLockComesFree` and `ServerStops` of Serving), because liveness under fairness is out of
the prover's reach. The four runs with a counterexample have no theorem.

## Not modelled

- How the switches parse a packet, the spoofing checks of the TAP switch, and the client's
  `add_route` and `set_mtu`.
- Start-up (creating the main interface, listening), the HTTP/3 listener, and the
  framing of the adapters. A nil LRU cache (allowed-macs-per-connection below 1).
- A ping between a stream that could not be opened and the close that follows, which finds no stream.
- WebTransport in Serving: its writes hold no lock, so it has fewer ways to wait.
- The cleanup of the MAC switch, which has no effect: its timer fires once, before
  anything can be old.
- Serialisation of commands (JSON and binary), password files, RADIUS and JWT,
  HTTP upgrade, dialling and proxies, calls of system commands, logging and
  start-up: I/O or third-party code without state that the properties depend on.

## Plan

Written so far, in this order: Server, Socket, Fragmentation, MACSwitch, Session, Keepalive, Serving,
Reload and AddressLease; and the proofs of every safety property that a run checks, with
the refinement of AddressLease. What is left:

1. Action properties from the same invariants where they say more than the invariants do, such as
   that a socket's flags are never taken back.
2. WebTransport in Serving, and start-up, if their code gets locks of its own.
