----------------------------- MODULE VpnRouting -----------------------------
(***************************************************************************)
(* Packets through the hub of VpnHub: the packet stream that a client      *)
(* opens after auth_ok (Connection.handleVPNPackets, vpnHub.attachPacket-  *)
(* Stream), the readLoop that serves it (vpn.go), and Room.route and       *)
(* Room.broadcast (room.go).                                               *)
(*                                                                         *)
(* protocol.WritePacket writes a length and then the packet, in two calls. *)
(* broadcast holds Room.mu for reading from its first write to its last;   *)
(* route holds it for the look-up only, and no lock belongs to a stream.   *)
(***************************************************************************)
EXTENDS VpnHub, Sequences

CONSTANT MaxPackets   \* bound: packets a client ever sends

ASSUME PacketAssumption == MaxPackets \in Nat

VARIABLES
    pkts,    \* pkts[c]: the packet stream, from its opening to vpnPeer.pkts, which is
             \* stored without a lock and "attached" when everybody sees it
    closed,  \* closed[c]: the server has closed it
    loop,    \* loop[c]: where readLoop is; while c is in casting it is in broadcast
    dest,    \* dest[c]: where the packet of this round goes
    sent,    \* sent[c]: packets read from c
    todo,    \* todo[c]: peers still to be written to in this round
    half,    \* half[c]: the peer whose stream has the length and not the packet
    due,     \* history: due[c]: who was attached when the last broadcast began
    wire     \* wire[c]: what the server has written into c's packet stream

packetVars == <<pkts, closed, loop, dest, sent, todo, half, due, wire>>
allVars == <<vars, packetVars>>

\* What the packets leave alone of the hub: all but casting.
hubVars == <<roomVars, up, run, peerVars, lineVars, crashed>>

All == 0                                  \* a broadcast address: x.x.x.255
Dests == HostNums \union {All}
Parts == [from : Conns, n : 1..MaxPackets, to : Dests, body : BOOLEAN]

PacketTypeOK ==
    /\ TypeOK
    /\ pkts \in [Conns -> {"none", "asking", "found", "stored", "attached", "rejected"}]
    /\ closed \in [Conns -> BOOLEAN]
    /\ loop \in [Conns -> {"none", "read", "send", "ended"}]
    /\ dest \in [Conns -> Dests]
    /\ sent \in [Conns -> 0..MaxPackets]
    /\ todo \in [Conns -> SUBSET Conns]
    /\ half \in [Conns -> Conns \union {None}]
    /\ due \in [Conns -> SUBSET Conns]
    /\ wire \in [Conns -> Seq(Parts)]

NoPackets ==
    /\ pkts = [c \in Conns |-> "none"]
    /\ closed = [c \in Conns |-> FALSE]
    /\ loop = [c \in Conns |-> "none"]
    /\ dest = [c \in Conns |-> All]
    /\ sent = [c \in Conns |-> 0]
    /\ todo = [c \in Conns |-> {}]
    /\ half = [c \in Conns |-> None]
    /\ due = [c \in Conns |-> {}]
    /\ wire = [c \in Conns |-> <<>>]

RoutingInit == Init /\ NoPackets

-----------------------------------------------------------------------------
(* The hub's own steps *)

\* The step is vpnPeer.cleanup of c's peer.
CleansUp(c) ==
    \/ pc[c] = "cleanup" /\ pc'[c] = "done"
    \/ run[c] = "cleanup" /\ run'[c] = "returned"

\* Peers whose packet stream is used, seen being those for which it is up to
\* the race of the store.
Attached(seen) == {c \in Conns : pkts[c] = "attached"} \union seen
Racing == {c \in Conns : pkts[c] = "stored"}

\* What VpnHub says, and cleanup closes the packet stream if there is one by now.
HubStep ==
    /\ \E c \in Conns : HandlerStep(c) \/ RunStep(c)
    /\ \E seen \in SUBSET Racing :
           closed' = [c \in Conns |-> closed[c] \/ (CleansUp(c) /\ c \in Attached(seen))]
    /\ UNCHANGED <<pkts, loop, dest, sent, todo, half, due, wire>>

-----------------------------------------------------------------------------
(* The packet stream: handleVPNPackets, attachPacketStream *)

\* The client has read auth_ok; the stream's first byte has been dispatched.
OpenPackets(c) ==
    /\ ~crashed
    /\ pkts[c] = "none"
    /\ up[c] /\ pc[c] \in {"ctrl", "members", "list", "notify", "telling", "serve"}
    /\ pkts' = [pkts EXCEPT ![c] = "asking"]
    /\ UNCHANGED <<vars, closed, loop, dest, sent, todo, half, due, wire>>

\* The rooms are asked one by one, each under its own lock, which is let go
\* before the stream is stored.
FindPeer(c) ==
    /\ ~crashed
    /\ pkts[c] = "asking"
    /\ \/ /\ \E r \in Rooms : c \in byConn[r] /\ ~Held(r)
          /\ pkts' = [pkts EXCEPT ![c] = "found"]
          /\ UNCHANGED closed
       \/ /\ \A r \in Rooms : c \notin byConn[r]
          /\ ~Held(room[c])
          /\ pkts' = [pkts EXCEPT ![c] = "rejected"]
          /\ closed' = [closed EXCEPT ![c] = TRUE]
    /\ UNCHANGED <<vars, loop, dest, sent, todo, half, due, wire>>

\* p.pkts = stream; go p.readLoop(stream).
Attach(c) ==
    /\ ~crashed
    /\ pkts[c] = "found"
    /\ pkts' = [pkts EXCEPT ![c] = "stored"]
    /\ loop' = [loop EXCEPT ![c] = "read"]
    /\ UNCHANGED <<vars, closed, dest, sent, todo, half, due, wire>>

\* The unlocking of vpnHub.mu puts the store in order.
AttachEnds(c) ==
    /\ ~crashed
    /\ pkts[c] = "stored"
    /\ pkts' = [pkts EXCEPT ![c] = "attached"]
    /\ UNCHANGED <<vars, closed, loop, dest, sent, todo, half, due, wire>>

-----------------------------------------------------------------------------
(* readLoop, Room.route, Room.broadcast *)

\* Variant: a peer counts once its control stream is served.
OthersServed(c, seen) == {d \in (Members(room[c]) \ {c}) \cap Attached(seen) : pc[d] = "serve"}

\* broadcast's loop, p == from and p.pkts == nil.
Others(c, seen) == (Members(room[c]) \ {c}) \cap Attached(seen)

\* Variant: the address is looked up in whatever room has it.
TargetsAnywhere(c, n, seen) ==
    ({d \in Conns : \E r \in Rooms : peers[r][n] = d} \ {c}) \cap Attached(seen)

\* route's look-up of one address, target == from and target.pkts == nil.
Targets(c, n, seen) == ({peers[room[c]][n]} \ {c}) \cap Attached(seen)

\* Variant: a peer that was written to stays on the list.
ContinueAgain(c, rest) ==
    /\ todo' = todo
    /\ loop' = [loop EXCEPT ![c] = IF rest = {} THEN "read" ELSE @]
    /\ casting' = IF rest = {} THEN casting \ {c} ELSE casting

\* The round of c's loop goes on with the peers in rest.
Continue(c, rest) ==
    /\ todo' = [todo EXCEPT ![c] = rest]
    /\ loop' = [loop EXCEPT ![c] = IF rest = {} THEN "read" ELSE @]
    /\ casting' = IF rest = {} THEN casting \ {c} ELSE casting

\* A packet is read, and its destination looked up.  What has arrived before a
\* session or a stream ends can still be read after it.
ReadPacket(c, to) ==
    \E seen \in SUBSET Racing :
        LET targets == IF to = All THEN Others(c, seen) ELSE Targets(c, to, seen) IN
        /\ ~crashed
        /\ loop[c] = "read"
        /\ sent[c] < MaxPackets
        /\ sent' = [sent EXCEPT ![c] = @ + 1]
        /\ dest' = [dest EXCEPT ![c] = to]
        /\ todo' = [todo EXCEPT ![c] = targets]
        /\ loop' = [loop EXCEPT ![c] = IF targets = {} THEN "read" ELSE "send"]
        /\ casting' = IF to = All /\ targets # {} THEN casting \union {c} ELSE casting
        /\ due' = [due EXCEPT ![c] =
                      IF to = All THEN {d \in Members(room[c]) \ {c} : pkts[d] = "attached"}
                      ELSE {}]
        /\ UNCHANGED <<hubVars, pkts, closed, half, wire>>

Part(c, body) == [from |-> c, n |-> sent[c], to |-> dest[c], body |-> body]

CanWrite(d) == up[d] /\ ~closed[d]

\* WritePacket's first Write: the length.
WriteLength(c, d) ==
    /\ ~crashed
    /\ d \in todo[c] /\ half[c] = None
    /\ CanWrite(d)
    /\ wire' = [wire EXCEPT ![d] = Append(@, Part(c, FALSE))]
    /\ half' = [half EXCEPT ![c] = d]
    /\ UNCHANGED <<vars, pkts, closed, loop, dest, sent, todo, due>>

\* Its second: the packet.
WriteBody(c) ==
    LET d == half[c] IN
    /\ ~crashed
    /\ d # None
    /\ CanWrite(d)
    /\ wire' = [wire EXCEPT ![d] = Append(@, Part(c, TRUE))]
    /\ half' = [half EXCEPT ![c] = None]
    /\ Continue(c, todo[c] \ {d})
    /\ UNCHANGED <<hubVars, pkts, closed, dest, sent, due>>

\* Either fails: this peer is passed over.
WriteFails(c, d) ==
    /\ ~crashed
    /\ d \in todo[c] /\ half[c] \in {None, d}
    /\ ~CanWrite(d)
    /\ half' = [half EXCEPT ![c] = None]
    /\ Continue(c, todo[c] \ {d})
    /\ UNCHANGED <<hubVars, pkts, closed, dest, sent, due, wire>>

\* The client or the session has closed the stream.
LoopEnds(c) ==
    /\ ~crashed
    /\ loop[c] = "read"
    /\ loop' = [loop EXCEPT ![c] = "ended"]
    /\ UNCHANGED <<vars, pkts, closed, dest, sent, todo, half, due, wire>>

-----------------------------------------------------------------------------

PacketStep(c) ==
    \/ OpenPackets(c) \/ FindPeer(c) \/ Attach(c) \/ AttachEnds(c) \/ WriteBody(c)
    \/ LoopEnds(c)
    \/ \E to \in Dests : ReadPacket(c, to)
    \/ \E d \in Conns : WriteLength(c, d) \/ WriteFails(c, d)

RoutingNext == HubStep \/ \E c \in Conns : PacketStep(c)

RoutingSpec == RoutingInit /\ [][RoutingNext]_allVars

-----------------------------------------------------------------------------
(* Safety *)

\* Part j of d's stream is the next from the sender of part i.
NextFrom(d, i, j) ==
    /\ i < j /\ wire[d][j].from = wire[d][i].from
    /\ \A k \in DOMAIN wire[d] : i < k /\ k < j => wire[d][k].from # wire[d][i].from

\* What a peer is sent comes from another peer of its own room, and a packet
\* for one address reaches the peer that was given the address, also when rooms
\* and addresses are given up and taken again meanwhile (room.go: route,
\* broadcast; "isolates broadcasts and unicast from other rooms").
StaysInRoom ==
    \A d \in Conns : \A i \in DOMAIN wire[d] :
        LET p == wire[d][i] IN
        /\ p.from # d /\ room[p.from] = room[d]
        /\ p.to \in {All, ip[d]}

\* From any one sender a peer receives lengths and packets in turn and in the
\* order sent, none of them twice, however the rounds of other senders fall in
\* between (protocol/vpn.go: WritePacket; vpn.go: readLoop).
SendersKeepOrder ==
    \A d \in Conns : \A i, j \in DOMAIN wire[d] : NextFrom(d, i, j) =>
        LET p == wire[d][i]  q == wire[d][j] IN
        \/ q.n = p.n /\ ~p.body /\ q.body
        \/ q.n > p.n /\ p.body /\ ~q.body

\* When a broadcast is over, everybody who was attached when it began and can
\* still be written to has the packet, though others may have failed and
\* though handlers of the room were waiting for its lock (room.go: broadcast's
\* continue).
BroadcastReachesAll ==
    \A c \in Conns : loop[c] = "read" =>
        \A d \in due[c] : CanWrite(d) =>
            \E i \in DOMAIN wire[d] : wire[d][i] = [from |-> c, n |-> sent[c], to |-> All, body |-> TRUE]

-----------------------------------------------------------------------------
(* What comments in the code say and the code does not do *)

\* protocol/vpn.go: "the stream is a sequence of length-prefixed frames": a
\* length is followed by its own packet.
FramesAreWhole ==
    \A d \in Conns : \A i \in 1..(Len(wire[d]) - 1) :
        ~wire[d][i].body =>
            wire[d][i + 1].body /\ wire[d][i + 1].from = wire[d][i].from
=============================================================================
