# Verification of Tunel

Tunel publishes services of a machine behind NAT on a public server. `tunelc`
dials `tunels`, multiplexes everything over one yamux session, and asks for
tunnels on control streams; each public TCP connection or UDP peer becomes a
data stream. With `-vpn` the same two programs form a virtual LAN: rooms,
addresses and signalling on the server, and in every client a QUIC listener for
calls of others.

This directory holds TLA+ models of the code, TLC configurations that check
them on small instances, and TLAPS proofs. `PROJECT.json` lists components,
runs, the source lines each definition stands for, findings, hazards and
theorems.

    tlc -workers 2 -config MCTunnelServer_conn.cfg MCTunnelServer
    tlapm TunnelServerProofs.tla

## Inventory

| Part | Source | State | Operations | Hard behaviour |
| --- | --- | --- | --- | --- |
| Tunnel server | `internal/server/{server,connection,tunnel}.go` | per connection: `tunnels`, `ports`, `nextID`, `closed`; per tunnel: listener, `closeOnce` | `Run`, `handleControl`, `grantTunnel`, `releaseTunnel`, `closeAll`, `reaper`, `openPublic`, `closePublic` | handlers, session end and reaper interleave; error paths undo half-done grants |
| Public TCP | `server/tunnel.go`, `client/tunnel.go`, `client.go` | two copies per end, half-closes | `handleTCPConn`, `handleData`, `relayTCP`, `pipeBoth` | four copying goroutines wait for each other; no `CloseWrite` on yamux |
| UDP tunnel | `server/udp.go`, `tunnel.go`, `client.go` | `udpPeers`, `closeOnce` per peer | `serveUDP`, `pumpUDPBack`, `evictUDP`, `closePublic`, `relayUDP` | eviction from two sides, table emptied while serving |
| Tunnel client | `client/client.go` | attempt counter, session, `tuns` | `Run`, `runOnce`, `setupTunnel`, `serveData`, `backoff` | parallel set-up, retries, cancellation, overflow |
| VPN hub | `server/{vpn,room,connection}.go` | rooms, subnets, `peers`, `byConn`, `nextIP` | `ensureRoom`, `grantPeer`, `allocate`, `releasePeer`, `notifyJoin`, `sendRoomMembers` | allocation and publication apart; two goroutines release a peer |
| Packet routing | `server/{vpn,room}.go`, `protocol/vpn.go` | packet stream per peer | `attachPacketStream`, `readLoop`, `route`, `broadcast` | stream released while attached; shared writers |
| Framing | `protocol/*.go` | decoder buffers | `Encode`, `Decoder`, `ReadFrame`, `WritePacket` | frames written in two parts by several goroutines |
| VPN client | `client/vpn.go` | peers, TUN loops | `RunVPN`, `runOnceVPN`, `vpnControlReader` | decoder switch, three goroutines nobody waits for, a wait without a deadline |
| P2P | `client/quic.go` | `conns` by peer address | `Start`, `Stop`, `Dial`, `handleIncoming`, `register`, `Route`, `evict`, `reapLoop` | calls are replaced and evicted by address, written to without the lock, and may come after `Stop` |
| Desktop client | `cmd/tunelc/gui.go` | buttons, rows, event channel, label, the last session's cancel | `doConnect`, `doDisconnect`, close, rows, events | sessions run between the statements of the callbacks, and outlive their successor's start |
| Command line | `cmd/tunelc/cli_impl.go` | the profile it has loaded | `runCLI` | saves twice, killed in between |
| Profile | `config/profile.go` | a JSON file | `LoadProfile`, `SaveProfile` | a crash or another program between truncation and writing |
| Dashboard | `server/dashboard.go` | none | `collectRows`, `renderRoomsJSON`, `allPeers` | takes the hub's locks while others do |
| The rest | `crypto`, `stun.go`, TUN devices, tools | none, or the operating system's | | |

How they interact: client and server share a yamux session whose two ends learn
of its death separately; a control stream is answered by one handler, which
keeps the tunnel's listener alive until the stream ends; the listener opens data
streams towards the client, which finds the tunnel by the id it stored from
`auth_ok`. In the server, connection goroutines meet in `Connection.mu`,
`vpnHub.mu`, `Room.mu` and `Tunnel.udpMu`, and on the operating system's ports.
On the client's machine the window's callbacks meet the goroutines of its
sessions in the buttons, and the window meets the terminal in the profile.

What makes each part correct:

- server: the two maps agree, ids are distinct over the wrap of their counter, what is served is registered and
  listening, `closeAll` misses nobody, nothing is left behind by a failed grant,
  a session's end drains its handlers;
- public TCP: no bytes are cut off while the session lives, everything ends when
  it dies;
- UDP: the table holds exactly the live streams;
- client: no session leaks, connected means granted, rejections are final,
  cancellation ends it;
- together: an id that arrives on a data stream is known, a connected client can
  be reached;
- hub: peers learn of each other, a member keeps its entry, a full room is full, a
  private room keeps its password, a dead session's peer leaves; nobody waits in a
  circle, and a peer that does not read stops its own room only;
- VPN client: one device at a time, its goroutines end, a cancelled run returns, and a
  call that is open is on file;
- packets: they stay in their room, in order, and a broadcast misses nobody;
- window: whatever sessions did, the user can connect when nothing runs, and the
  label says so; Desconectar ends what was begun last;
- profile: one identity for all VPN sessions of a machine.

The hazards that follow from these, each with its line and its properties, are
in `PROJECT.json`.

## Modules

| Module | Models | EXTENDS / INSTANCE |
| --- | --- | --- |
| `PortRegistry` | abstract: what a connection's registry promises | |
| `ReconnectLoop` | abstract: what `Run` and `RunVPN` promise their caller | |
| `DirectConnection` | abstract: what a public TCP connection promises visitor and service | |
| `RoomBook` | abstract: rooms, passwords, who is in and when one leaves | |
| `TunnelServer` | server, connections, handlers, listeners | `Registry == INSTANCE PortRegistry` |
| `TunnelServerProofs` | its theorems | `TunnelServer` |
| `TunnelClient` | the client's loop, set-up and data acceptance | `Loop == INSTANCE ReconnectLoop` |
| `TunnelClientProofs` | its theorems | `TunnelClient` |
| `TunnelSystem` | one client in front of the server | `TunnelClient`, `TunnelServer` |
| `TunnelSystemProofs` | its theorems | `TunnelSystem`, `TunnelClientProofs`, `TunnelServerProofs` |
| `TcpRelay` | one public TCP connection, end to end | `Direct == INSTANCE DirectConnection` |
| `UdpTunnel` | one UDP tunnel with its peers | |
| `PublicTunnel` | a tunnel of either protocol on one session | `TcpRelay`, `U == INSTANCE UdpTunnel` |
| `PublicTunnelProofs` | its theorems | `PublicTunnel` |
| `VpnHub` | rooms and peers | `Book == INSTANCE RoomBook` |
| `VpnRouting` | packet streams and packets on top of it | `VpnHub` |
| `VpnHubProofs` | theorems about both | `VpnRouting` |
| `HubLocks` | the order in which the hub's operations lock and write | |
| `HubLocksProofs` | its theorems | `HubLocks` |
| `PeerManager` | the peer-to-peer manager of a session and the calls made to it | |
| `VpnClient` | `RunVPN`, its sessions, pumps and signalling | `PeerManager`, `Loop == INSTANCE ReconnectLoop` |
| `VpnClientProofs` | its theorems | `VpnClient` |
| `Profile` | the profile's file | |
| `DesktopClient` | the window | `Profile` |
| `CommandLine` | `tunelc --vpn` in a terminal | `Profile` |
| `Launches` | window and terminal over one profile | `DesktopClient`, `CommandLine` |
| `LaunchesProofs` | its theorems | `Launches` |
| `MC...` | instances for TLC, bounds, symmetry | the module of that name |

### How state and actions correspond to the code

An action is what one goroutine does between two points where another can be
seen to act: a section under a mutex, a network call, a plain write to a field
that another goroutine reads. Where a goroutine is, is `pc[...]` (server and hub),
`cs[...]` and `main` (client), `serve`, `pump`, `closer` (UDP), `server`, `client`
and the four copies (TCP).

- **TunnelServer.** `tunnels`, `ports`, `nextID`, `closed` are the fields under
  `Connection.mu`. `Register` is the whole section of `grantTunnel`, `Listen` the
  call to `net.Listen`, `Store` the moment its result becomes visible to a
  `closePublic` made by another goroutine: the code does not order the two.
  `all[c]` is what `closeAll` has taken out of the map and not yet closed. A stream
  creates at most one tunnel, so it also names it. `reply[h]` is what reached the
  client; an answer written to a dead session is lost.
- **TunnelClient.** `main` is where `Run` is; `cs[<<s, t>>]` is `setupTunnel` for
  tunnel `t` of session `s`; `first` is what would be read first from
  `tunnelErrCh`. `Backoff` computes which binary digits of the product fit an
  int64, because that is what decides whether the timer waits.
- **TunnelSystem** synchronises a client step with nothing, with what the server
  has sent (`ReadReply`), or requires what the client did (`ServerHears`).
  `link[s]` and `up[s]` are the two ends' separate views of one session.
- **TcpRelay** counts bytes at each writer on the way. **UdpTunnel** numbers the
  streams in the order they are opened; `once` and `closed` are the two halves of
  `evictUDP`'s `closeOnce`. **PublicTunnel** is `openPublic`'s switch: `proto` is
  chosen once, and both kinds hang on the same `session`.
- **VpnHub** gives each connection the goroutine of `Connection.run` and the
  handler of its control stream; both may release the peer. A control message is
  two steps, `EncodeBody` and `EncodeNewline`, for `Encode` writes twice: `mid[c]` is
  whose stream has a message of `c`'s handler and not yet its newline. A message that
  comes between shares the line and makes the stream's client `deaf`. `list` is what
  `sendRoomMembers` has taken from the room and still has to write, after it has let go
  of `Room.mu`; `notifyJoin` holds that for reading from `NotifyBegins` to `NotifyEnds`,
  several of them at once, and so does a broadcast (`casting`). `Held` is `Room.mu` held
  for reading in one of these ways, which every writer to the room's maps waits for, for
  as long as a peer does not read.
- **VpnRouting** adds the packet stream of each connection and its `readLoop`.
  `HubStep` is a step of `VpnHub` that also lets `cleanup` close the packet
  stream; the packets begin and end what `casting` stands for. `p.pkts` is stored without a
  lock, so that between `Attach` and `AttachEnds` others may see it or not (`Racing`). `wire[c]` is what the server has written into `c`'s stream, a length or
  a packet at a time; `due` records who was attached when a broadcast began.
- **VpnClient.** `main` is where `RunVPN` is, inside `runOnceVPN` too; a session
  has `out`, `in` and `reader`, the three goroutines nobody waits for. The server
  is what it may send; `Remainder` is what the first decoder leaves of the control
  stream to the second; a frame is `Garbage` when lines of the server's were mixed.
- **PeerManager.** `conns[m]` is the map of the manager of session `m`, `call[k]` a QUIC
  connection somebody makes to the client: nothing asks its maker for a certificate
  (quic.go:73-79 sets no `ClientAuth`, so `verifyIncoming` is not called), so that every call
  whose hello comes is registered. `route[s]` is what `tunToStream` of session `s` is
  writing directly to, without `connMu`. `Dial` is the beginning of quic.go's only: it asks
  for the peer's fingerprint first, there is none because `storePeer` drops the key
  (`keyed`, and so `dialled`, stay empty), and so it ends there. What the client is
  reached by are calls that come in.
- **HubLocks** has no data: an operation is the sequence of `lock`, `unlock`,
  `rlock`, `runlock` and `write` it makes, with one sequence for each order of a
  map. `parked[l]` are the readers a waiting writer keeps out, as `sync.RWMutex`
  does; a write to a peer in `stalled` does not return.
- **Profile.** `saved` is what `LoadProfile` would make of the file; `Truncate`
  and `WriteOut` are the two halves of `os.WriteFile`. `issued`, `used`, `asking`
  and `calm` are history: which identities there were, and whether anything has
  happened that excuses a second one.
- **DesktopClient.** `gui` is which statement of which callback comes next. For
  each session `at` is its goroutine, `live` its context, `poll` its statistics
  poller. `cancel` is the one `CancelFunc` the window keeps; `evCh` is the event
  channel reduced to how many statuses wait and which is last; `rows[i]` is the
  index the `i`-th row's delete button was created with.
- **CommandLine.** `cli` is where `runCLI` is, `prof` the profile in its hands.

Definitions whose comment begins with "Variant" are plausible mistakes, never
used by `Next`; each shows that some property would notice it.

## What the runs check

Passing runs:

| Run | Properties | Instance |
| --- | --- | --- |
| `tunnel_conn` | `RegistryAgrees`, `IdsDistinct`, `ServedIsReachable`, `NothingLeftBehind`, `CloseAllMissesNobody`, `UnregistersOnlyOwn`, `RegistrySpec`, `SessionEndDrains`, `CancelClosesTunnels`, `RunReturnsOnceAlone` | one connection, two control streams and two tunnel ids, three ports of which a whitelist allows two, every kind of first frame, fairness |
| `client_run` | `SessionsAreClosed`, `ConnectedMeansGranted`, `WaitsWhileExact`, `LoopSpec` | two tunnels, two sessions, seven attempts |
| `system_again` | `ConnectedMeansReachable`, `DataFindsItsTunnel` | one tunnel, two sessions, a data stream each |
| `system_live` | `CancelStopsClient` | one tunnel, one session, fairness |
| `public_tunnel` | `TableIsExact`, `DirectSpec`, `SessionEndFreesTunnel` | TCP with two bytes each way, or UDP with two visitors and two streams, fairness |
| `hub_room` | `MutualDiscovery`, `NoGhost`, `DistinctUntilWrap`, `FullMeansFull` | three peers, one room of two addresses |
| `hub_rooms` | `MembersStayFiled`, `BookSpec`, `SessionEndFreesPeer` | two peers, two rooms of one address, one password, fairness |
| `hub_packets` | `StaysInRoom`, `SendersKeepOrder`, `BroadcastReachesAll` | two peers that are served and one that joins, two rooms of three addresses, two packets |
| `hub_locks` | `NoCircularWait`, `OtherRoomsGoOn` | three goroutines in any operations, two rooms, a peer of each that may stop reading |
| `vpn_client` | `OneDevice`, `OpenIsFiled`, `NothingRunsOn`, `CancelEndsVpn` | two sessions, two attempts, one signalling frame a session or two calls, fairness |
| `desktop` | `NeverStuck`, `StatusSettles`, `IdentityKept`, `DisconnectEnds` | two sessions of the window, the terminal, two key pairs, two rows, two events, kills and failing saves, fairness |

Every invariant, every action property and every refinement of this table is also
proved for all values of the constants; what the table adds to the proofs is
liveness. Type invariants and inductive invariants (`IInv`, `ClientInv`) have no
run of their own, for theorems state them; nor have `OwnSubnetUntilWrap`,
which one mutex makes plain, and `NoTruncation`, `PrivateMeansPrivate` and `RejectionIsFinal`, which follow from `DirectSpec`,
`BookSpec` and `LoopSpec`, and `LoopSpec` of `VpnClient`, which TLC confirms with the
constants of `vpn_client`.

In one sentence each: a connection's registry stays consistent and implements
`PortRegistry` whatever its handlers, its session and cancellation do to each
other, and everything it holds is given back (but see `NoOrphanListener` below); the
client never says connected without a grant, never keeps a dead session, and
makes no attempt that it was not told to make; in
the pair, a connected client can be reached and its data streams find their
tunnel; a relayed connection is one the visitor and the service might have had
without a tunnel, as long as the session lives; the UDP peer table
holds the streams that live, no others; peers of a room learn of each other, unless
two messages have shared a line, and of nobody the server has forgotten to remove, and
keep their entry in it; packets stay in their room, and
each receiver gets what one sender sends in order and once; whoever is there when
a broadcast begins gets it; the hub's operations never wait in a circle, and a peer that
does not read holds up no packet and no look-up of another room; the VPN client never
has two devices, a call that is open can be found, and its goroutines follow their
session; the window's buttons
and its label come right once nothing runs, Desconectar ends the session begun last,
and a machine keeps one VPN identity (but see `OneIdentity` below).

Some of these properties have a proviso, and each time the statement without it is
among the refuted ones below: an id is one tunnel's until it has been granted twice
(`IdsAlwaysDistinct`); members hear of each other unless lines of the control stream
were mixed (`ControlLinesAreWhole`); a dead session's peer leaves if the locks of rooms
come free (`SessionEndAlwaysFrees`); a cancelled VPN client returns unless the server
lets it wait for `auth_ok` for ever (`CancelAlwaysEnds`); its goroutines end unless one
writes to a call that came too late (`StopClosesAll`); the client reaches the server as
long as the server holds the session (`GreenMeansActive`); it waits before an attempt
while the wait is a number the code can hold (`WaitsBeforeRetry`).

A run that shows where a comment says something else than the code does (the
quotation is under "findings"):

| Run | Statement refuted | Why |
| --- | --- | --- |
| `packets_mixed` | `FramesAreWhole` | `WritePacket` is two writes, and several `readLoop`s write to one stream |

### Statements the models refute

The modules state further sentences of the documentation and of comments that the
code does not keep. They have no run of their own; TLC refutes each with the
configuration named, the statement put in the place of its properties.

| Statement, configuration | What is said | What the code does |
| --- | --- | --- |
| `NoOrphanListener`, `tunnel_conn` | connection.go:315 "removes a tunnel from the connection's registry and closes its public listener" | `closeAll` between the registration and `openPublic`'s store spends `closeOnce` on nil listeners; the listener stays (connection.go:285-290, server/tunnel.go:50-66) |
| `IdsAlwaysDistinct`, `tunnel_conn` with a third stream | connection.go:23 a "16-bit TunnelID [...] so data streams can be demultiplexed" | `nextID` wraps and is not checked against the ids in use (connection.go:273) |
| `NeverCrashes`, `hub_rooms` | vpn.go:112 "releasePeer removes a peer" | `Connection.run` can release the peer before `p.log` is set; `cleanup` then dereferences nil (vpn.go:51, 108) |
| `WaitsBeforeRetry`, `client_run` with one tunnel, `MaxSessions = 0`, `MaxAttempts = 0`, `MaxDials = 70` | client.go:584 "an exponential backoff (in seconds) capped at 30s" | the duration overflows: from attempt 35 on the wait is none (client.go:586) |
| `CancelEndsRun`, `tunnel_conn` | server.go:105 "Run blocks until ctx is canceled" | `Run` waits for connections whose yamux sessions nobody closes (server.go:109, connection.go:349-352) |
| `DropIsRetried`, `client_run` | README.md:524 "si el túnel cae, `tunelc` reintenta" | `attempt` counts all attempts since `Run` began and is never reset (client.go:203, 230) |
| `DropIsNotRejection`, `system_again` with `CONSTRAINT PortsAreOurs` | README.md:524 "reintenta con backoff exponencial [...] hasta 5 intentos" | the server's old session still holds the port, and the `auth_err` that follows is final (client.go:225) |
| `GreenMeansActive`, `system_live` | README.md:259 "túneles activos" | a cancelled server closes tunnels and leaves the session open (connection.go:349-352) |
| `HalfCloseReachesService`, `public_tunnel` | README.md:520 "propaga EOF al otro lado vía `CloseWrite`" | yamux streams have no `CloseWrite`, so `tryCloseWrite` does nothing (server/tunnel.go:152, client/tunnel.go:44) |
| `PipeEndsWithEitherSide`, `public_tunnel` | client/tunnel.go:29 "blocking until either side closes or errors" | `wg.Wait` waits for both directions (client/tunnel.go:48) |
| `CloseTearsDown`, `public_tunnel` | server/tunnel.go:64 "tears down peer streams" | `serveUDP` admits a peer after the table was emptied (udp.go:59) |
| `IdlePeersLeave`, `public_tunnel` | connection.go:347 "UDP peer idle timeouts are handled per tunnel" | `lastSeen` is written and never read (udp.go:64) |
| `UniqueAddresses`, `hub_room` | room.go:65 "allocate returns the next free IP" | `allocate` does not reserve what it returns (room.go:92) |
| `MembersAreOthers`, `hub_rooms` | protocol.go:138 "every other peer currently in the same room" | the newcomer is in its own snapshot (room.go:145) |
| `OwnSubnet`, `hub_rooms` with `SubnetSpace = 1` | room.go:15 "Each room gets its own /24 subnet" | `nextSubnet` wraps and rooms are never deleted (vpn.go:92) |
| `ControlLinesAreWhole`, `hub_room` | protocol.go:210 "Encode writes msg as a single JSON line" | message and newline are two writes (protocol.go:216-219), and `sendRoomMembers`, pongs and the `notifyJoin` of others write to one stream without a lock |
| `SessionEndAlwaysFrees`, `hub_rooms` | connection.go:191-193 "until the client disconnects (which triggers peer release)" | `releasePeer` waits for `Room.mu`, which `notifyJoin` and `broadcast` keep while a peer does not read (vpn.go:193, room.go:158) |
| `StopClosesAll`, `vpn_client` | client/vpn.go:17 "gracefully close everything" | `handleIncoming` registers a call after `Stop` has closed those on file (quic.go:185, 91-104) |
| `CloseEndsPump`, `vpn_client` | client/vpn.go:281 "closing the device cancels the pump" | the pump may be in a write to a call that nothing ends (client/vpn.go:189) |
| `CancelAlwaysEnds`, `vpn_client` | client.go:197 "Run blocks until ctx is canceled", to which `RunVPN` is "Equivalent" (client/vpn.go:230) | the read of the answer to `Auth` has no deadline and does not look at the context (client/vpn.go:80) |
| `LossIsRetried`, `vpn_client` | client/vpn.go:230 "the outer reconnection loop for VPN mode. Equivalent to Run()" | a lost session reads as `io.EOF`, which is no error, and `RunVPN` returns (client/vpn.go:210, 156, 244) |
| `MembersAreHeard`, `vpn_client` | protocol.go:138 "It lists every other peer currently in the same room so the client may attempt P2P connections" | frames that the first decoder has buffered behind `auth_ok` are lost with it (client/vpn.go:79, 357) |
| `DepartureAnnounced`, `hub_rooms` with one room and `Hosts = 2` | protocol.go:152 "PeerLeave is a push notification sent by the server" | `notifyLeave` has no caller (vpn.go:203) |
| `OthersComeAndGo`, `hub_locks` | room.go: a `Room` "isolates broadcasts and unicast from other rooms" | `releasePeer` keeps the hub's lock while it waits for a room's; whoever enters or leaves another room waits behind it (vpn.go:114) |
| `DisconnectClosesAll`, `desktop` with `MaxSessions = 3`, `CONSTRAINT WindowOnly` | README.md:262 "Desconectar: cierra todos los túneles" | the end of a disconnected session enables Conectar under its successor, and a third connection overwrites the successor's cancel (gui.go:409) |
| `StopButtonThere`, `desktop` | README.md:262, the same | that end also disables Desconectar (gui.go:410) |
| `GreyMeansStopped`, `desktop` | README.md:261 grey is "detenido" | the first session's last event comes after the second's (gui.go:408) |
| `PollersEnd`, `desktop` | README.md:263 a session's end is "limpio" | the poller looks at the context only, which nobody cancels when `RunVPN` returns by itself |
| `DeleteRemovesItsRow`, `desktop` | README.md:249 "Quitar elimina la fila" | the button keeps the index its row was created with (gui.go:240) |
| `OneIdentity`, `desktop` | profile.go:23 "auto-generated on the first launch and never need manual editing" | a connection in tunnel mode saves a profile without keys (gui.go:368); a crash in `SaveProfile` loses them (profile.go:85) |
| `VpnHasSigningKey`, `desktop` | profile.go:23, the same | the window takes an identity without a signing key as `runCLI` may leave it (cli_impl.go:118) |

One more needs no model: `parseTunnelFlag` documents `--tunnel
25565:localhost:25565` (cli_impl.go:28) and refuses it, for it takes the first of
three parts for the protocol (cli_impl.go:44-54).

### Bounds, and why they are enough

- `Conns`, `Streams`, `MaxPort`, `IdSpace`: a connection's registry involves two of
  its own streams (same port, different port, same port in the other protocol),
  and an assigned port that is none of theirs. With `IdSpace = 2` the counter of ids,
  which begins at 1, wraps to 0 for the second. Two connections meet only on a
  public port, which `system_again` has: a session and its
  successor want the same one. The proofs remove these bounds.
- `AuthFrames`: one frame for each check of `handleControl`, and a good one per
  protocol spelling and port.
- `MaxSessions = 2`: a session and its successor. `MaxAttempts = 7` passes the cap
  of the backoff; `MaxDials = 70` passes the overflow of `WaitsBeforeRetry`. In `vpn_client`
  two attempts are one for each session.
- `MaxBytes = 2`: one byte delivered and one still on its way.
- `MaxStreams = 2`: a peer's stream and its successor's, or two peers' streams.
- `MaxCalls = 2`: a call and the one that replaces it, or that comes too late. A run of
  `vpn_client` has calls or signalling, which touch nothing in common, and a second call
  only if it has one session (`Narrow`, part of the specification that is checked).
- `Hosts`, `SubnetSpace`: two addresses for three peers in `hub_room`, so that the
  pool fills and wraps; one in `hub_rooms`, which is about rooms and reaches
  "room full" too. In `hub_room` (`OneLeaves`) at most one of the three peers leaves, at
  most one control stream has mixed lines, and a pong is written only while somebody
  joins, which is when it can meet another message; the peers are interchangeable
  (`AnyPeer`), and only safety is checked. In `hub_rooms` (`OneSends`) all may leave; `c1`
  asks first, and in the lobby, where its broadcasts may hold up handlers and the
  session's goroutine, or in a private room; pongs and mixed lines are left to `hub_room`.
- `MaxData`: data streams per tunnel, 1 where they matter and 0 where not.
- `MaxPackets = 2`: a packet and the next. `hub_packets` starts where the joins of two
  peers end (`Served`), who have the addresses 1 and 2 of three, with the search for an
  address about to go on at 2. While `c3` joins them the session of `c2` may end, so that
  `c3` is given the address that was `c2`'s or the third; `c2` and `c3` send one packet each or
  `c3` two, to one or to all (`OneLeaves`): two senders and two recipients. Or `c3` makes a
  room of its own. `packets_mixed` starts where all three are served without packet
  streams, and nobody leaves (`NobodyLeaves`): two writers and a reader.
- `MaxSignals = 1`: `room_members` behind `auth_ok`, whole, cut, mixed with another or
  lost.
- `BothStay` keeps cancellation out of `system_again` (`system_live` has it);
  `PortsAreOurs` keeps other programs from taking a port, so that the rejection
  that refutes `DropIsNotRejection` is by the client's own old session.
- `Workers`: three goroutines, so that a reader, a writer that waits for it and a
  reader behind that writer can meet; `OneEach` lets one peer of each room stop
  reading, `AnyWorker` makes the goroutines interchangeable. Only safety is checked.
- `desktop`: `MaxSessions = 2` is a session and its successor, `MaxRows = 2` and
  `Cap = 2` the smallest with an order, `Identities` two key pairs, since a second
  is all that can go wrong. `Bounds` leaves out what those would only multiply:
  dropped events, rows edited after a connection, the terminal beside a session
  that has begun to end. The proofs have none of these bounds.

`CHECK_DEADLOCK FALSE` stands where the programs may really have ended.

### Fairness

Weak fairness for what a goroutine does on its own (calls return; mutexes are held for
bounded sections, but see the hub below), and for what yamux does once an end is dead (reads and
writes fail; keep-alive on both sides finds a dead peer; a stream closed by one
end only is given up after `StreamCloseTimeout`). No fairness for people and
other machines: cancelling, connecting, sending, closing, answering, breaking a
session. In `TunnelSystem` the client's read of a reply that has arrived and its
failure once the session is dead are fair; the network's loss of a session is
not. In `VpnClient` nothing is assumed of the server:
where `RunVPN` waits for the answer to `Auth` (`Asking`) it may wait for as long as the
session lives, and `CancelEndsVpn` says what follows if it does not do so for ever. A pump
and the reader go on once what they read has been closed, and a write to a call that is
closed fails. A caller who does not read may hold up a pump, but then nothing is sent to
him, and the reaper closes the call within two minutes, unless its manager has been
stopped (`WritesToLate`). In `VpnHub` nothing is assumed of clients: a write to one whose
session lives may wait for ever, with a room's lock held, and then `Allocate`, `Publish`,
`Release`, `RunEnds` and everybody else who wants the lock wait too. They are strongly fair
only where the locks of rooms come free again and again (`LocksComeFree`), because
`sync.RWMutex` lets no new reader in before a waiting writer; `SessionEndFreesPeer` says so
in its statement. `PublicTunnel` assumes what both protocols do. In `Launches` a callback that has
begun goes on, the drain goroutine ticks, a cancelled `Run` or `RunVPN` returns
(which `CancelStopsClient` and `CancelEndsVpn` check), a session's goroutine goes on
after that, and a poller sees the end of its context; nobody has to click.
`HubLocks` assumes nothing.
The temporal statements among the refuted ones were refuted under these
assumptions, so not by a system that merely stops.

## What is proved

Four abstract specifications say what a part promises those who use it, and are
implemented by the part's model: `PortRegistry` by the server's connections,
`ReconnectLoop` by both clients, `DirectConnection` by a TCP tunnel, `RoomBook` by
the hub. Two theorems relate models to models: the two programs together
implement each alone (`TunnelSystem`), and the hub with packets implements the hub
without (`VpnRouting`), so that what is proved of a part holds in the whole.

**`TunnelServerProofs`**, for any finite set of streams, any set of connections, any
port range, any set of frames and any number of tunnel ids but one (the code has 65536
and never checks reuse), so that the counter wraps within these theorems:

- `TypeCorrect`, and `Invariance`: `Spec => []IInv`;
- `RegistryCorrect`, `ServiceCorrect`, `ClosingCorrect`, `IdsCorrect`,
  `CleanupCorrect`: the five safety invariants that the run checks;
- `OnlyOwnIsUnregistered`: the action property `UnregistersOnlyOwn`;
- `RegistryImplemented`: `Spec => RegistrySpec`, the refinement of `PortRegistry`.

None of the five invariants is inductive alone. `IInv` adds what a handler's
place in `grantTunnel` says of its tunnel (`HandlerInv`: when it has an id, a
listener, has spent `closeOnce`), that a tunnel is registered exactly while its
handler is between `Register` and its own deletes in an open connection
(`RegistryInv`), that a closed connection's live tunnels are in `closeAll`'s
snapshot or already closed (`ClosingInv`), and that a connection which has not granted more
tunnels than there are ids (`FirstRound`) has handed them out in order, 0 the last
(`IdInv`, which counts the granted streams). What depends on an id being one tunnel's is
stated for such connections; `NothingLeftBehind`, `UnregistersOnlyOwn` and `RegistrySpec`
hold of all. Each part has a lemma per
goroutine step, and the steps that touch one stream only are handled by frame
lemmas. The refinement maps `open` to `~closed`, `holder` to `ports`, and `used`
to the streams that have an id.

**`TunnelClientProofs`**, for any set of tunnels, sessions, attempts and ids:
`ClientInvariance` (`ClientSpec => []ClientInv`), `NoSessionLeaks`,
`ConnectedIsGranted`, the action property `RejectionsAreFinal`, and
`LoopImplemented`: `ClientSpec => LoopSpec`. `ClientInv`
adds to the two invariants that a failed `setupTunnel` has left an error for
`runOnce` (`SetupInv`, which is why `Serve` implies that all were granted) and
that an authentication error is only ever held by a `Run` about to return
(`LoopInv`). The refinement of `ReconnectLoop` maps the places of `Run` to the phases
its caller can tell apart (`Phase`); goroutines and sessions stutter.
`BackoffIsCapped` shows the cap of 30 s for every attempt, `FirstWaitsAreExact` that
each of the first 34 really waits: until then the lowest digit of the product is
below the sign and no digit is at it (`BackoffWaits`). `WaitsBeforeRetry` above is
what becomes of it later.

**`TunnelSystemProofs`**, for any tunnels, sessions, ports and requests, under
`SystemAssumption` (a client asks for no more tunnels than there are ids, so that a
session goes round them once at most): `SystemInvariance`
(`Spec => []SystemInv`), `ConnectedIsReachable` (`ConnectedMeansReachable`),
`DataArrives` (`DataFindsItsTunnel`). `SystemInv` adds to `ClientInv` and `IInv` what
ties the ends together: no handler runs before its connection (`StartInv`),
`auth_ok` was sent for what was asked and with an id (`ReplyInv`), its handler
serves until the session ends or the client closes the stream (`ServeInv`), and
the client's table is the server's ids of this session (`TableInv`). Since those
are distinct, the client never finds an id taken, which is the guard of its
`Granted`; this is the one place where a part relies on the other.

`ClientImplemented` (`Spec => CP!ClientSpec`) and `ServerImplemented`
(`Spec => SP!Spec`) make the composition explicit: every step of the system is one
of the client's own or leaves it alone (`ClientStepIsItsOwn`), and the same of the
server (`ServerStepIsItsOwn`). All theorems of the parts follow for the system;
`LoopKeptInSystem` and `RegistryKeptInSystem` state those that are refinements or
action properties.

**`PublicTunnelProofs`**, for any number of bytes, visitors and streams: `TunnelIsDirect`
(`PublicSpec => DirectSpec`), `NothingIsCutOff` (`NoTruncation`) and `TableCorrect`
(`TableIsExact`). `TcpInv` says that a direction is over only after it has passed on
what it had, and `EndInv` what each copy's end means for the people at both ends,
which the refinement needs. `UdpInv` says that table and streams name each other and
that whoever is about to close a stream has spent its `closeOnce`; without the
latter a late eviction could take a successor's entry. `DirectConnection` is what
the code does keep of a direct connection: it has no half-close towards the service
(see `HalfCloseReachesService`), and it promises nothing of bytes on their way to a
service whose visitor has closed.

**`VpnClientProofs`**, for any peers, sessions, attempts, frames and calls: `VpnTypeCorrect`,
`DeviceCorrect` (`OneDevice`), `OpenCallsAreFiled` (`OpenIsFiled`), and
`VpnLoopImplemented` (`Spec => LoopSpec`, with `QuietEnd`: a session may end without
an error, which ends `RunVPN`). `VpnInv`
ties the open device and listener to the place of `runOnceVPN`, which is why every
error path has to close them.
`OpenIsFiled` is inductive with the types, once `register` closes what it replaces and a
call without a hello is in some manager's hands (`ManagerInv`).

**`VpnHubProofs`**, for any finite sets of clients and rooms, any passwords and any
size of the pool and of the subnet counter: `HubInvariance` (`Spec => []HubInv`),
`HubTypeCorrect`, `MembersMeet`, `NobodyHaunts`, `PrivateStaysPrivate`,
`FiledCorrectly` (`MembersStayFiled`), `SearchIsWhole` (`FullMeansFull`),
`FirstRoundDistinct`, `SubnetsDistinct`, and `BookKept`
(`Spec => BookSpec`). `HubInv` says what each place
of a handler knows of its peer (`HandlerInv`), that only a handler that has entered
its peer is in `byConn` (`MemberInv`), that whoever has a room gave its password
(`AdmittedInv`), that of two joins the one that stored its stream later has heard of
the other, or is about to, or is deaf, and the other is told by its `notifyJoin`
(`HeardInv`, with `LineInv` for what is being written), and that a room's first addresses are 1, 2, ... and `nextIP`
the next (`FirstRoundInv`). That `allocate` finds a free address at all rests on
the well-ordering of the numbers (`LeastNumber`). `SubnetInv` counts rooms as
`FirstRoundInv` counts addresses. The refinement of `RoomBook` needs `NewcomerInv`
besides: nobody has a room before `ensureRoom` has let it in, so nobody is
admitted twice; and `releasePeer` removes a peer only when its session or its
control stream is over, which is what `Leave` asks.

The same module goes on with packets, for any number of them: `RoutingInvariance`,
`PacketTypeCorrect`, `PacketsStayInRoom` (`StaysInRoom`), `BroadcastIsComplete`
(`BroadcastReachesAll`), `SendersInOrder` (`SendersKeepOrder`) and
`RoutingImplementsHub` (`RoutingSpec => Spec`). `RoutingInv` adds that a round holds
other peers of the sender's
room only, and that what was due is written or still to be; the key is `SettledStays`,
that a peer which has an address keeps it and its room, so that a look-up stays true
after the lock is gone. Order needs no induction over a stream's contents: what
matters of a stream is the last part of each sender in it, and `SenderInv` says how
that part stands to the sender's round (it is the length the round has just
written; or else a whole packet, or the stream takes nothing more, and a round that
still has the stream to write has a higher number). A write then appends what comes next.

**`HubLocksProofs`**, for any goroutines and any finite sets of rooms and peers:
`LockInvariance`, `LocksTypeCorrect`, `LocksExcludeOthers`, `NobodyWaitsInACircle`
(`NoCircularWait`), `OtherRoomsUnaffected` (`OtherRoomsGoOn`). What a goroutine has
still to do says what it holds. `Ordered` is a fact about the operations, proved for
each: what is done with the hub's lock held for reading is to take and let go of
rooms' locks, with a room's to write to its members, with a lock held for writing
nothing. Every step keeps it of what is left (`OrderInv`), and whoever holds or
awaits a lock has the steps that go with it before it (`HoldInv`, `ExclusionInv`).
So whoever waits, waits for the hub's lock, then for a room's, then for a peer, and
there is no way back. `LocksExcludeOthers` is what `VpnHub` and `VpnRouting` take for
granted when they make a critical section one action.

**`LaunchesProofs`**, for any sessions, key pairs, rows and events: `LaunchInvariance`,
`LaunchTypeCorrect`, `NobodyIsStuck` (`NeverStuck`), `LabelSettles` (`StatusSettles`),
`IdentityStays` (`IdentityKept`). `LaunchInv` says that a button which is not as it
is at rest has a callback or a session that will still set it (`ButtonInv`), the
same of the label and the events under way (`StatusInv`), and that what each
program holds is the identity on file or the one being written (`IdentityInv`).

**Only model-checked** is liveness: `SessionEndDrains`, `CancelClosesTunnels`,
`RunReturnsOnceAlone`, `CancelStopsClient`, `SessionEndFreesTunnel`, `NothingRunsOn`,
`CancelEndsVpn`, `SessionEndFreesPeer`, `DisconnectEnds`. Liveness under fairness and
`ENABLED` are beyond the prover used here. No module here declares a recursive
operator.

## What is not modelled, and why

- Wire framing: how frames, lengths and addresses are encoded is sequential and
  without state. What interleaves is modelled: `Encode`'s two writes in `VpnHub`, those of
  `WritePacket` in `VpnRouting`, the change of decoders in `VpnClient`. UDP frames have one writer
  for each stream and direction.
- TLS, keys, certificates and STUN: library calls, or one request and its answer,
  without state.
- TUN devices, the embedded driver and the small tools: system calls.
- What comes after the first test of `Dial`: it is never passed, because `storePeer` keeps
  no key. `pumpIncoming` copies what a caller sends into the device and has no state.
- Pings, whose outcome nothing depends on (but the pongs to them, which may mix with other
  messages, are in `VpnHub`), packet counters, logging, the window's
  layout and fields other than the rows, flag parsing, the dashboard's page.
- yamux's flow control: a write returns or fails. `HubLocks` and the control streams and
  broadcasts of `VpnHub` are the exceptions, since there a write that does not return is
  the point.
