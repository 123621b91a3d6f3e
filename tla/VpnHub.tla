------------------------------- MODULE VpnHub -------------------------------
(***************************************************************************)
(* The VPN side of tunels: rooms, their /24 subnets and their addresses    *)
(* (src/internal/server/room.go), the hub (vpn.go), and the life of a peer *)
(* in Connection.handleVPNAuth and Connection.run (connection.go).         *)
(*                                                                         *)
(* Goroutines.  Every connection has the one of Connection.run, which      *)
(* releases the peer when the session ends, and the handler of the control *)
(* stream on which the client asks for a peer: tunelc opens one per        *)
(* session, so a connection also names its peer.  The two run at the same  *)
(* time, and both release the peer.  Actions are bounded by the sections   *)
(* under Room.mu and vpnHub.mu and by what a goroutine writes without      *)
(* either: vpnPeer.log and vpnPeer.ctrl.                                   *)
(*                                                                         *)
(* protocol.Encode is two writes, the message and the newline, each of     *)
(* which waits for as long as the peer does not read.  A control stream is *)
(* written to by its own handler (room_members, pongs) and by those of     *)
(* peers that join, with no lock: a message that starts before the newline *)
(* of another shares its line, and the client that reads this line gives   *)
(* up its control stream.                                                  *)
(*                                                                         *)
(* notifyJoin and broadcast hold Room.mu for reading while they write, so  *)
(* whoever writes to the room's maps waits for them.  Of the packets there *)
(* is no more here than that: VpnRouting has the rest.                     *)
(***************************************************************************)
EXTENDS Integers, FiniteSets

CONSTANTS
    Conns,        \* connections that tunelc --vpn processes may make
    Rooms,        \* names of rooms
    Lobby,        \* the room that newVPNHub creates
    Passwords,    \* room passwords a client may give
    NoPassword,   \* the empty password
    Hosts,        \* addresses of a room, 1..Hosts (254 in the code)
    SubnetSpace,  \* values of nextSubnet (256 in the code: byte)
    None          \* no peer, no room, no address, no subnet

ASSUME HubAssumption ==
    /\ IsFiniteSet(Conns) /\ None \notin Conns
    /\ IsFiniteSet(Rooms) /\ Lobby \in Rooms /\ None \notin Rooms
    /\ NoPassword \in Passwords

ASSUME SpaceAssumption ==
    /\ Hosts \in Nat \ {0}
    /\ SubnetSpace \in Nat \ {0}
    /\ None \notin Nat

HostNums == 1..Hosts
Subnets == 0..(SubnetSpace - 1)

VARIABLES
    subnet,      \* subnet[r]: the room's /24, None while the room does not exist
    nextSubnet,  \* vpnHub.nextSubnet
    password,    \* password[r]: Room.Password; the room is private unless empty
    peers,       \* peers[r][n]: Room.peers
    byConn,      \* byConn[r]: the keys of Room.byConn
    nextIP,      \* nextIP[r]: Room.nextIP
    up,          \* up[c]: the yamux session of c is alive
    run,         \* run[c]: Connection.run, from its accept loop to its return
    pc,          \* pc[c]: where the control stream's handler is
    room,        \* room[c]: the room of c's peer
    given,       \* given[c]: the password c came with
    ip,          \* ip[c]: the address allocated to c's peer
    log,         \* log[c]: vpnPeer.log has been set
    ctrl,        \* ctrl[c]: vpnPeer.ctrl
    list,        \* list[c]: the members that c's room_members names, while it is sent
    tell,        \* tell[c]: members that c's notifyJoin has not come to
    mid,         \* mid[c]: whose stream has a message of c's handler and not its newline
    told,        \* told[d]: the peers named in lines of d's stream, each message alone in its own
    deaf,        \* deaf[d]: two messages have shared a line of d's stream
    casting,     \* connections whose readLoop is inside Room.broadcast
    crashed      \* a goroutine has dereferenced a nil logger

roomVars == <<subnet, nextSubnet, password, peers, byConn, nextIP>>
connVars == <<up, run, casting>>
peerVars == <<pc, room, given, ip, log, ctrl>>
lineVars == <<list, tell, mid, told, deaf>>
vars == <<roomVars, connVars, peerVars, lineVars, crashed>>

Places == {"auth", "allocate", "publish", "log", "ack", "ctrl", "members", "list", "notify",
           "telling", "serve", "release", "cleanup", "done"}

TypeOK ==
    /\ subnet \in [Rooms -> Subnets \union {None}]
    /\ nextSubnet \in Subnets
    /\ password \in [Rooms -> Passwords]
    /\ peers \in [Rooms -> [HostNums -> Conns \union {None}]]
    /\ byConn \in [Rooms -> SUBSET Conns]
    /\ nextIP \in [Rooms -> HostNums]
    /\ up \in [Conns -> BOOLEAN]
    /\ run \in [Conns -> {"accept", "cleanup", "returned"}]
    /\ pc \in [Conns -> Places]
    /\ room \in [Conns -> Rooms \union {None}]
    /\ given \in [Conns -> Passwords]
    /\ ip \in [Conns -> HostNums \union {None}]
    /\ log \in [Conns -> BOOLEAN]
    /\ ctrl \in [Conns -> {"nil", "stored", "visible"}]
    /\ list \in [Conns -> SUBSET Conns]
    /\ tell \in [Conns -> SUBSET Conns]
    /\ mid \in [Conns -> Conns \union {None}]
    /\ told \in [Conns -> SUBSET Conns]
    /\ deaf \in [Conns -> BOOLEAN]
    /\ casting \in SUBSET Conns
    /\ crashed \in BOOLEAN

\* h.nextSubnet++ on a byte.
SubnetAfter(n) == (n + 1) % SubnetSpace

\* What newRoom makes of each room, when it is made.
NoPeers ==
    /\ peers = [r \in Rooms |-> [n \in HostNums |-> None]]
    /\ byConn = [r \in Rooms |-> {}]
    /\ nextIP = [r \in Rooms |-> 1]

NothingWritten ==
    /\ list = [c \in Conns |-> {}]
    /\ tell = [c \in Conns |-> {}]
    /\ mid = [c \in Conns |-> None]
    /\ told = [c \in Conns |-> {}]
    /\ deaf = [c \in Conns |-> FALSE]

\* newVPNHub: the lobby exists and has subnet 0.
Init ==
    /\ NoPeers
    /\ subnet = [r \in Rooms |-> IF r = Lobby THEN 0 ELSE None]
    /\ nextSubnet = SubnetAfter(0)
    /\ password = [r \in Rooms |-> NoPassword]
    /\ up = [c \in Conns |-> TRUE]
    /\ run = [c \in Conns |-> "accept"]
    /\ pc = [c \in Conns |-> "auth"]
    /\ room = [c \in Conns |-> None]
    /\ given = [c \in Conns |-> NoPassword]
    /\ ip = [c \in Conns |-> None]
    /\ log = [c \in Conns |-> FALSE]
    /\ ctrl = [c \in Conns |-> "nil"]
    /\ NothingWritten
    /\ casting = {}
    /\ crashed = FALSE

-----------------------------------------------------------------------------
(* Helpers *)

Go(c, from, to) ==
    /\ ~crashed
    /\ pc[c] = from
    /\ pc' = [pc EXCEPT ![c] = to]

Members(r) == {peers[r][n] : n \in HostNums} \ {None}

\* Variant: nextIP stays.
AfterSame(n) == n

\* Room.allocate's loop goes from address to address in this order ...
After(n) == (n % Hosts) + 1

Distance(from, to) == IF to >= from THEN to - from ELSE to + Hosts - from

\* Variant: one pass too few.
PassesLess == {i \in 0..(Hosts - 1) : i + 1 < Hosts}

\* ... in so many passes, and takes what it finds free in them.
Passes == 0..(Hosts - 1)

Free(r) == {n \in HostNums : peers[r][n] = None /\ Distance(nextIP[r], n) \in Passes}

\* The address allocate returns in a room that is not full.
NextFree(r) ==
    CHOOSE n \in Free(r) :
        \A m \in Free(r) : Distance(nextIP[r], n) <= Distance(nextIP[r], m)

\* Variant: an existing room lets everybody in.
PasswordNotAsked(r, w) == TRUE

\* ensureRoom's check on a room that exists.
PasswordFits(r, w) == password[r] \in {NoPassword, w}

\* Room.mu is held for reading by somebody who writes to peers under it.
Held(r) == \E c \in Conns : room[c] = r /\ (c \in casting \/ pc[c] = "telling")

\* Variant: the entry is deleted in whatever room has the host number.
RemoveEverywhere(r, c) ==
    /\ byConn' = [byConn EXCEPT ![r] = @ \ {c}]
    /\ peers' = [q \in Rooms |-> [peers[q] EXCEPT ![ip[c]] = None]]
    /\ UNCHANGED <<subnet, nextSubnet, password, nextIP>>

\* Room.releasePeer under Room.mu, in the one room that has c.  The entry is
\* deleted by address, whoever it belongs to.
RemoveFrom(r, c) ==
    /\ byConn' = [byConn EXCEPT ![r] = @ \ {c}]
    /\ peers' = [peers EXCEPT ![r][ip[c]] = None]
    /\ UNCHANGED <<subnet, nextSubnet, password, nextIP>>

-----------------------------------------------------------------------------
(* The handler of the control stream: handleControl, handleVPNAuth *)

\* ensureRoom, under vpnHub.mu: the first to name a room creates it and decides
\* whether it is private.
EnsureRoom(r, w) ==
    \/ /\ subnet[r] # None
       /\ UNCHANGED roomVars
    \/ /\ subnet[r] = None
       /\ subnet' = [subnet EXCEPT ![r] = nextSubnet]
       /\ nextSubnet' = SubnetAfter(nextSubnet)
       /\ password' = [password EXCEPT ![r] = w]
       /\ UNCHANGED <<peers, byConn, nextIP>>

Enter(c) ==
    \E r \in Rooms, w \in Passwords :
        /\ Go(c, "auth", "allocate")
        /\ subnet[r] = None \/ PasswordFits(r, w)
        /\ EnsureRoom(r, w)
        /\ room' = [room EXCEPT ![c] = r]
        /\ given' = [given EXCEPT ![c] = w]
        /\ UNCHANGED <<connVars, ip, log, ctrl, lineVars, crashed>>

\* "bad room password", or no well-formed Auth at all.
Refused(c) ==
    /\ Go(c, "auth", "done")
    /\ UNCHANGED <<roomVars, connVars, room, given, ip, log, ctrl, lineVars, crashed>>

\* Room.allocate, a section under Room.mu of its own.
Allocate(c) ==
    LET r == room[c] IN
    /\ Go(c, "allocate", "publish")
    /\ ~Held(r)
    /\ Free(r) # {}
    /\ ip' = [ip EXCEPT ![c] = NextFree(r)]
    /\ nextIP' = [nextIP EXCEPT ![r] = After(NextFree(r))]
    /\ UNCHANGED <<subnet, nextSubnet, password, peers, byConn>>
    /\ UNCHANGED <<connVars, room, given, log, ctrl, lineVars, crashed>>

\* "room full": nextIP has come round to where it was.
RoomFull(c) ==
    /\ Go(c, "allocate", "done")
    /\ ~Held(room[c])
    /\ Free(room[c]) = {}
    /\ UNCHANGED <<roomVars, connVars, room, given, ip, log, ctrl, lineVars, crashed>>

\* Room.grantPeer's own section: the peer enters both maps.
Publish(c) ==
    LET r == room[c] IN
    /\ Go(c, "publish", "log")
    /\ ~Held(r)
    /\ peers' = [peers EXCEPT ![r][ip[c]] = c]
    /\ byConn' = [byConn EXCEPT ![r] = @ \union {c}]
    /\ UNCHANGED <<subnet, nextSubnet, password, nextIP>>
    /\ UNCHANGED <<connVars, room, given, ip, log, ctrl, lineVars, crashed>>

\* vpnHub.grantPeer: p.log is set after others can reach the peer.
SetLog(c) ==
    /\ Go(c, "log", "ack")
    /\ log' = [log EXCEPT ![c] = TRUE]
    /\ UNCHANGED <<roomVars, connVars, room, given, ip, ctrl, lineVars, crashed>>

AckSent(c) ==
    /\ up[c]
    /\ Go(c, "ack", "ctrl")
    /\ UNCHANGED <<roomVars, connVars, room, given, ip, log, ctrl, lineVars, crashed>>

AckFails(c) ==
    /\ Go(c, "ack", "release")
    /\ UNCHANGED <<roomVars, connVars, room, given, ip, log, ctrl, lineVars, crashed>>

\* peer.ctrl = control, without a lock.
StoreCtrl(c) ==
    /\ Go(c, "ctrl", "members")
    /\ ctrl' = [ctrl EXCEPT ![c] = "stored"]
    /\ UNCHANGED <<roomVars, connVars, room, given, ip, log, lineVars, crashed>>

\* Variant: nothing orders the store of ctrl before the snapshot.
SnapshotUnordered(c) ==
    /\ Go(c, "members", "list")
    /\ list' = [list EXCEPT ![c] = Members(room[c])]
    /\ UNCHANGED <<roomVars, connVars, room, given, ip, log, ctrl, tell, mid, told, deaf, crashed>>

\* sendRoomMembers: peersSnapshot, c itself included.  It locks and unlocks
\* Room.mu for reading, so whoever locks it later also sees ctrl.
Snapshot(c) ==
    /\ Go(c, "members", "list")
    /\ list' = [list EXCEPT ![c] = Members(room[c])]
    /\ ctrl' = [ctrl EXCEPT ![c] = "visible"]
    /\ UNCHANGED <<roomVars, connVars, room, given, ip, log, tell, mid, told, deaf, crashed>>

\* notifyJoin locks Room.mu for reading.
NotifyBegins(c) ==
    /\ Go(c, "notify", "telling")
    /\ tell' = [tell EXCEPT ![c] = Members(room[c]) \ {c}]
    /\ UNCHANGED <<roomVars, connVars, room, given, ip, log, ctrl, list, mid, told, deaf, crashed>>

\* p.ctrl == nil, or it has been stored and c does not see it.
PassOver(c, d) ==
    /\ ~crashed
    /\ d \in tell[c] /\ mid[c] = None
    /\ ctrl[d] # "visible"
    /\ tell' = [tell EXCEPT ![c] = @ \ {d}]
    /\ UNCHANGED <<roomVars, connVars, peerVars, list, mid, told, deaf, crashed>>

NotifyEnds(c) ==
    /\ tell[c] = {}
    /\ Go(c, "telling", "serve")
    /\ UNCHANGED <<roomVars, connVars, room, given, ip, log, ctrl, lineVars, crashed>>

\* Whose streams c's handler may write to where it is: its own client's, with
\* room_members and then with pongs, and in between, with peer_join, those of
\* the members it has still to tell.
Addressees(c) ==
    CASE pc[c] \in {"list", "serve"} -> {c}
      [] pc[c] = "telling" -> {d \in tell[c] : ctrl[d] # "nil"}
      [] OTHER -> {}

\* Encode's first Write: the message.
EncodeBody(c, d) ==
    /\ ~crashed
    /\ d \in Addressees(c) /\ mid[c] = None
    /\ up[d]
    /\ mid' = [mid EXCEPT ![c] = d]
    /\ deaf' = [deaf EXCEPT ![d] = @ \/ \E w \in Conns : mid[w] = d]
    /\ UNCHANGED <<roomVars, connVars, peerVars, list, tell, told, crashed>>

\* What comes after an Encode, whatever has become of it.
Encoded(c, d) ==
    /\ pc' = [pc EXCEPT ![c] = IF @ = "list" THEN "notify" ELSE @]
    /\ list' = [list EXCEPT ![c] = {}]
    /\ tell' = [tell EXCEPT ![c] = @ \ {d}]
    /\ mid' = [mid EXCEPT ![c] = None]
    /\ UNCHANGED <<roomVars, connVars, room, given, ip, log, ctrl, deaf, crashed>>

\* Its second Write: the newline.
EncodeNewline(c) ==
    LET d == mid[c] IN
    /\ ~crashed
    /\ d # None
    /\ up[d]
    /\ told' = [told EXCEPT ![d] =
                   IF deaf[d] THEN @ ELSE @ \union (IF c = d THEN list[c] ELSE {c})]
    /\ Encoded(c, d)

\* Either fails when the session is gone.
EncodeFails(c, d) ==
    /\ ~crashed
    /\ d \in Addressees(c) /\ mid[c] \in {None, d}
    /\ ~up[d]
    /\ UNCHANGED told
    /\ Encoded(c, d)

\* The ping loop ends: the client closed the stream or the session ended.
ControlEnds(c) ==
    /\ mid[c] = None
    /\ Go(c, "serve", "release")
    /\ UNCHANGED <<roomVars, connVars, room, given, ip, log, ctrl, lineVars, crashed>>

\* Variant: handleVPNAuth leaves the release to Connection.run.
ReleaseNothing(c) ==
    /\ Go(c, "release", "done")
    /\ UNCHANGED <<roomVars, connVars, room, given, ip, log, ctrl, lineVars, crashed>>

\* The deferred hub.releasePeer, up to the end of Room.releasePeer's section.
Release(c) ==
    /\ \/ \E r \in Rooms :
              /\ c \in byConn[r] /\ ~Held(r)
              /\ Go(c, "release", "cleanup")
              /\ RemoveFrom(r, c)
       \/ /\ \A r \in Rooms : c \notin byConn[r]
          /\ Go(c, "release", "done")
          /\ UNCHANGED roomVars
    /\ UNCHANGED <<connVars, room, given, ip, log, ctrl, lineVars, crashed>>

\* vpnPeer.cleanup calls p.log.Info.
Cleanup(c) ==
    /\ Go(c, "cleanup", "done")
    /\ crashed' = ~log[c]
    /\ UNCHANGED <<roomVars, connVars, room, given, ip, log, ctrl, lineVars>>

-----------------------------------------------------------------------------
(* Connection.run and readLoop *)

SessionEnds(c) ==
    /\ ~crashed
    /\ up[c]
    /\ up' = [up EXCEPT ![c] = FALSE]
    /\ UNCHANGED <<roomVars, run, casting, peerVars, lineVars, crashed>>

\* Accept fails; after closeAll, hub.releasePeer.
RunEnds(c) ==
    /\ ~crashed
    /\ run[c] = "accept" /\ ~up[c]
    /\ \/ \E r \in Rooms :
              /\ c \in byConn[r] /\ ~Held(r)
              /\ run' = [run EXCEPT ![c] = "cleanup"]
              /\ RemoveFrom(r, c)
       \/ /\ \A r \in Rooms : c \notin byConn[r]
          /\ run' = [run EXCEPT ![c] = "returned"]
          /\ UNCHANGED roomVars
    /\ UNCHANGED <<up, casting, peerVars, lineVars, crashed>>

RunCleansUp(c) ==
    /\ ~crashed
    /\ run[c] = "cleanup"
    /\ run' = [run EXCEPT ![c] = "returned"]
    /\ crashed' = ~log[c]
    /\ UNCHANGED <<roomVars, up, casting, peerVars, lineVars>>

\* A packet for everybody: the client has had auth_ok and opened a packet stream.
CastBegins(c) ==
    /\ ~crashed
    /\ pc[c] = "ctrl" \/ ctrl[c] # "nil"
    /\ c \notin casting
    /\ casting' = casting \union {c}
    /\ UNCHANGED <<roomVars, up, run, peerVars, lineVars, crashed>>

CastEnds(c) ==
    /\ ~crashed
    /\ c \in casting
    /\ casting' = casting \ {c}
    /\ UNCHANGED <<roomVars, up, run, peerVars, lineVars, crashed>>

-----------------------------------------------------------------------------

\* The steps in which a handler gets and writes what control streams are sent.
LineStep(c) ==
    \/ Snapshot(c) \/ NotifyBegins(c) \/ NotifyEnds(c) \/ EncodeNewline(c)
    \/ \E d \in Conns : PassOver(c, d) \/ EncodeBody(c, d) \/ EncodeFails(c, d)

HandlerStep(c) ==
    \/ Enter(c) \/ Refused(c) \/ Allocate(c) \/ RoomFull(c) \/ Publish(c) \/ SetLog(c)
    \/ AckSent(c) \/ AckFails(c) \/ StoreCtrl(c) \/ LineStep(c) \/ ControlEnds(c)
    \/ Release(c) \/ Cleanup(c)

RunStep(c) == SessionEnds(c) \/ RunEnds(c) \/ RunCleansUp(c)

LoopStep(c) == CastBegins(c) \/ CastEnds(c)

Next == \E c \in Conns : HandlerStep(c) \/ RunStep(c) \/ LoopStep(c)

Spec == Init /\ [][Next]_vars

\* Whoever writes to peers with a room's lock held comes to an end, again and
\* again.  Nothing in the code sees to it: the writes have no deadline.
LocksComeFree == \A r \in Rooms : []<>~Held(r)

(***************************************************************************)
(* Fairness.  Goroutines that can run do, and a write to a session that is *)
(* gone fails.  Nothing is assumed of clients: a write to one whose        *)
(* session is alive may wait for ever, and a handler in its ping loop has  *)
(* to go on only when the session is gone.  Who waits for a room's lock    *)
(* gets it if it comes free again and again, because sync.RWMutex lets no  *)
(* new reader in before a waiting writer; else nothing is assumed of any   *)
(* lock, for behind a waiting writer readers wait too.                     *)
(***************************************************************************)
Fairness ==
    \A c \in Conns :
        /\ WF_vars(SetLog(c) \/ StoreCtrl(c) \/ NotifyEnds(c) \/ Cleanup(c)
                   \/ \E d \in Conns : PassOver(c, d) \/ EncodeFails(c, d))
        /\ WF_vars(~up[c] /\ (Refused(c) \/ AckFails(c) \/ ControlEnds(c)))
        /\ WF_vars(RunCleansUp(c))
        /\ LocksComeFree =>
               /\ SF_vars(Allocate(c) \/ RoomFull(c) \/ Publish(c) \/ Snapshot(c)
                          \/ NotifyBegins(c) \/ Release(c))
               /\ SF_vars(RunEnds(c))

FairSpec == Spec /\ Fairness

-----------------------------------------------------------------------------
(* Safety *)

\* The peer is in its room, under its own address.
Registered(c) ==
    /\ room[c] # None
    /\ c \in byConn[room[c]]
    /\ peers[room[c]][ip[c]] = c

\* Of two members of a room whose control streams are served each has heard of
\* the other, whatever way their joins interleaved, unless lines of its stream
\* were mixed: the later one in room_members, the earlier one there or in
\* peer_join (connection.go: handleVPNAuth stores peer.ctrl before
\* sendRoomMembers takes its snapshot).
MutualDiscovery ==
    \A c, d \in Conns :
        /\ c # d /\ room[c] = room[d]
        /\ Registered(c) /\ Registered(d)
        /\ pc[c] = "serve" /\ pc[d] = "serve"
        /\ up[d]
        => c \in told[d] \/ deaf[d]

\* A connection that is over is in no room: when both goroutines that release
\* its peer have been through, neither map knows it, even if the peer was only
\* published after Connection.run had looked for it (vpn.go: releasePeer).
NoGhost ==
    \A c \in Conns :
        run[c] = "returned" /\ pc[c] = "done" =>
            \A r \in Rooms : c \notin byConn[r] /\ c \notin Members(r)

\* A peer is in a private room only with the password its creator chose
\* (vpn.go: ensureRoom, against two clients creating the room at once).
PrivateMeansPrivate ==
    \A c \in Conns :
        room[c] # None /\ password[room[c]] # NoPassword => given[c] = password[room[c]]

Allocated(r) == {c \in Conns : room[c] = r /\ ip[c] # None}

\* Until a room has handed out its whole pool once, no two of its peers were
\* ever given one address, though allocate and the entry into Room.peers are
\* separate sections (room.go: nextIP only moves forward).
DistinctUntilWrap ==
    \A r \in Rooms : Cardinality(Allocated(r)) <= Hosts =>
        \A c, d \in Allocated(r) : c # d => ip[c] # ip[d]

Created == {r \in Rooms : subnet[r] # None}

\* Until there are more rooms than a byte can count, each has a subnet of its own,
\* whoever made them and in whatever order (vpn.go: newVPNHub, allocSubnet;
\* proved in VpnHubProofs).
OwnSubnetUntilWrap ==
    Cardinality(Created) <= SubnetSpace =>
        \A r, q \in Created : r # q => subnet[r] # subnet[q]

\* A room's table holds members of the room only, each under its own address
\* (part of the inductive invariant of VpnHubProofs).
FiledUnderOwnAddress ==
    \A r \in Rooms, n \in HostNums :
        LET c == peers[r][n] IN
        c # None => c \in byConn[r] /\ room[c] = r /\ ip[c] = n

Filed(r, c) == peers[r][ip[c]] = c

\* A member of a room is entered under its address and stays there for as long
\* as it is a member: only another peer of the room that was given the same
\* address takes the entry or deletes it (room.go: grantPeer and releasePeer
\* write and delete by address, without looking whose entry it is).
MembersStayFiled ==
    [][\A r \in Rooms : \A c \in byConn'[r] :
           \/ Filed(r, c)'
           \/ c \in byConn[r] /\ ~Filed(r, c)
           \/ \E d \in Conns \ {c} :
                  /\ room[d] = r /\ ip[d] = ip[c]
                  /\ pc[d] = "publish" \/ d \in byConn[r]]_vars

\* A peer is turned away only from a room in which every address is in use,
\* wherever the counter stands when the search for one begins (room.go:
\* allocate).
FullMeansFull ==
    [][\A c \in Conns : pc[c] = "allocate" /\ pc'[c] = "done" =>
           \A n \in HostNums : peers[room[c]][n] # None]_vars

\* Handlers past the point where they enter their peer.
Spent == {c \in Conns : pc[c] \notin {"auth", "allocate", "publish"}}

\* Connections that have lost their session or their control stream.
Gone == {c \in Conns : ~up[c] \/ pc[c] \in {"release", "cleanup", "done"}}

\* The hub's books.
Book == INSTANCE RoomBook WITH
            made <- Created,
            secret <- password,
            admitted <- room,
            offered <- given,
            members <- byConn,
            spent <- Spent,
            over <- Gone

\* The hub implements RoomBook, although rooms are made on demand, a peer is
\* removed by whichever of two goroutines comes first, and either searches all
\* the rooms for it (vpn.go: ensureRoom, releasePeer; room.go: grantPeer).
BookSpec == Book!Spec

-----------------------------------------------------------------------------
(* Liveness, under FairSpec *)

Freed(c) == run[c] = "returned" /\ pc[c] = "done" /\ \A r \in Rooms : c \notin byConn[r]

\* When a session ends its peer leaves the room, if the locks of rooms come free
\* (connection.go: run and the deferred release of handleVPNAuth).
SessionEndFreesPeer ==
    LocksComeFree => \A c \in Conns : ~up[c] ~> crashed \/ Freed(c)

-----------------------------------------------------------------------------
(* What comments in the code say and the code does not do *)

\* room.go: "allocate returns the next free IP": members have their own.
UniqueAddresses ==
    \A r \in Rooms : \A c, d \in byConn[r] : c # d => ip[c] # ip[d]

\* connection.go: run releases the peer of a session that has ended.
SessionEndAlwaysFrees == \A c \in Conns : ~up[c] ~> crashed \/ Freed(c)

\* protocol.go: Encode "writes msg as a single JSON line".
ControlLinesAreWhole == \A d \in Conns : ~deaf[d]

\* vpn.go: releasePeer "removes a peer", it does not bring the server down.
NeverCrashes == ~crashed

\* protocol.go: room_members "lists every other peer currently in the same
\* room".
MembersAreOthers == \A c \in Conns : c \notin told[c]

\* room.go: "Each room gets its own /24 subnet".
OwnSubnet == \A r, q \in Created : r # q => subnet[r] # subnet[q]

\* protocol.go: peer_leave is sent "to every other peer when someone leaves the
\* room (or the control stream is lost)".
DepartureAnnounced ==
    \A c, d \in Conns :
        c # d /\ c \in told[d] /\ run[c] = "returned" /\ pc[c] = "done"
            ~> c \notin told[d] \/ ~up[d] \/ crashed
=============================================================================
