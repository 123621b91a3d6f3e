------------------------------ MODULE UdpTunnel ------------------------------
(***************************************************************************)
(* A UDP tunnel of the server with its visitors: serveUDP, pumpUDPBack and *)
(* evictUDP (src/internal/server/udp.go), the UDP part of closePublic      *)
(* (tunnel.go), and at the other end of each data stream the client's      *)
(* relayUDP (src/internal/client/client.go).                               *)
(*                                                                         *)
(* Goroutines: serveUDP, one pump per stream, and whoever calls            *)
(* closePublic.  They share the peer table under udpMu; what one of them   *)
(* does with the table under udpMu is one action.  serveUDP opens a stream *)
(* and writes its header under udpMu too.                                  *)
(*                                                                         *)
(* A peer's closeOnce runs evictUDP's body once; a second caller returns   *)
(* when the first has finished.                                            *)
(*                                                                         *)
(* yamux: Close stops the closer's writing and gives the other end EOF,    *)
(* and both may go on: the closer's reads wait for the other end to close  *)
(* too, or for yamux to give the stream up (StreamCloseTimeout).           *)
(***************************************************************************)
EXTENDS Integers

CONSTANTS
    Addrs,       \* addresses visitors send from
    MaxStreams,  \* bound: data streams the tunnel ever opens
    None         \* no stream

Streams == 1..MaxStreams

VARIABLES
    session,   \* the yamux session is alive
    udpLn,     \* the public socket is open
    inbox,     \* addresses with a datagram waiting in the socket
    udpPeers,  \* udpPeers[a]: the stream of peer a, None if it has none
    next,      \* the next stream to open
    addr,      \* addr[s]: udpPeer.addr, for a stream that has been opened
    once,      \* once[s]: udpPeer.closeOnce has begun
    closed,    \* closed[s]: the server has closed its end
    given,     \* given[s]: yamux has given the stream up
    serve,     \* where serveUDP is
    cur,       \* cur: the address serveUDP is working for
    target,    \* target: the stream it is about to write to
    pump,      \* pump[s]: where pumpUDPBack is
    closer,    \* the caller of closePublic: "idle", "table", "done"
    relay,     \* relay[s]: relayUDP at the client
    reply      \* reply[s]: a frame from the client waits in the stream

netVars == <<session, udpLn, inbox>>
tableVars == <<udpPeers, next, addr>>
streamVars == <<once, closed, given>>
serveVars == <<serve, cur, target>>
clientVars == <<relay, reply>>
vars == <<netVars, tableVars, streamVars, serveVars, pump, closer, clientVars>>

TypeOK ==
    /\ session \in BOOLEAN /\ udpLn \in BOOLEAN
    /\ inbox \subseteq Addrs
    /\ udpPeers \in [Addrs -> Streams \union {None}]
    /\ next \in 1..(MaxStreams + 1)
    /\ addr \in [Streams -> Addrs \union {None}]
    /\ once \in [Streams -> BOOLEAN]
    /\ closed \in [Streams -> BOOLEAN]
    /\ given \in [Streams -> BOOLEAN]
    /\ serve \in {"read", "lookup", "write", "evict", "close", "done"}
    /\ cur \in Addrs \union {None}
    /\ target \in Streams \union {None}
    /\ pump \in [Streams -> {"none", "read", "evict", "close", "done"}]
    /\ closer \in {"idle", "table", "done"}
    /\ relay \in [Streams -> {"none", "running", "done"}]
    /\ reply \in [Streams -> BOOLEAN]

Init ==
    /\ session = TRUE /\ udpLn = TRUE
    /\ inbox = {}
    /\ udpPeers = [a \in Addrs |-> None]
    /\ next = 1
    /\ addr = [s \in Streams |-> None]
    /\ once = [s \in Streams |-> FALSE]
    /\ closed = [s \in Streams |-> FALSE]
    /\ given = [s \in Streams |-> FALSE]
    /\ serve = "read" /\ cur = None /\ target = None
    /\ pump = [s \in Streams |-> "none"]
    /\ closer = "idle"
    /\ relay = [s \in Streams |-> "none"]
    /\ reply = [s \in Streams |-> FALSE]

-----------------------------------------------------------------------------
(* Visitors, the session, closePublic *)

Datagram(a) ==
    /\ udpLn
    /\ inbox' = inbox \union {a}
    /\ UNCHANGED <<session, udpLn, tableVars, streamVars, serveVars, pump, closer, clientVars>>

SessionEnds ==
    /\ session
    /\ session' = FALSE
    /\ UNCHANGED <<udpLn, inbox, tableVars, streamVars, serveVars, pump, closer, clientVars>>

\* closePublic: udpLn.Close, without udpMu.
CloseSocket ==
    /\ closer = "idle"
    /\ closer' = "table"
    /\ udpLn' = FALSE
    /\ inbox' = {}
    /\ UNCHANGED <<session, tableVars, streamVars, serveVars, pump, clientVars>>

\* Then, under udpMu, the streams of the table; closeOnce is not asked.
CloseTable ==
    /\ closer = "table"
    /\ closer' = "done"
    /\ closed' = [s \in Streams |-> closed[s] \/ \E a \in Addrs : udpPeers[a] = s]
    /\ udpPeers' = [a \in Addrs |-> None]
    /\ UNCHANGED <<netVars, next, addr, once, given, serveVars, pump, clientVars>>

\* StreamCloseTimeout: the client has not closed its end.
GiveUp(s) ==
    /\ closed[s] /\ relay[s] # "done" /\ ~given[s]
    /\ given' = [given EXCEPT ![s] = TRUE]
    /\ UNCHANGED <<netVars, tableVars, once, closed, serveVars, pump, closer, clientVars>>

-----------------------------------------------------------------------------
(* evictUDP *)

\* Variant: the entry is deleted whoever it belongs to.
ForgetAnyone(s) ==
    /\ once' = [once EXCEPT ![s] = TRUE]
    /\ udpPeers' = [udpPeers EXCEPT ![addr[s]] = None]

\* closeOnce's section under udpMu.
Forget(s) ==
    /\ once' = [once EXCEPT ![s] = TRUE]
    /\ udpPeers' = [udpPeers EXCEPT ![addr[s]] = IF @ = s THEN None ELSE @]

\* closeOnce has run to its end.
Evicted(s) ==
    /\ once[s] /\ closed[s]
    /\ ~(serve = "close" /\ target = s)
    /\ pump[s] # "close"

-----------------------------------------------------------------------------
(* serveUDP *)

\* Back at ReadFrom: the variables of one round are no longer in use.
NextDatagram == serve' = "read" /\ cur' = None /\ target' = None

Receive(a) ==
    /\ serve = "read"
    /\ a \in inbox
    /\ serve' = "lookup"
    /\ cur' = a
    /\ inbox' = inbox \ {a}
    /\ UNCHANGED <<session, udpLn, tableVars, streamVars, target, pump, closer, clientVars>>

SocketClosed ==
    /\ serve = "read"
    /\ ~udpLn
    /\ serve' = "done"
    /\ UNCHANGED <<netVars, tableVars, streamVars, cur, target, pump, closer, clientVars>>

Known ==
    /\ serve = "lookup"
    /\ udpPeers[cur] # None
    /\ serve' = "write"
    /\ target' = udpPeers[cur]
    /\ UNCHANGED <<netVars, tableVars, streamVars, cur, pump, closer, clientVars>>

\* A new peer: stream, header, table entry and pump, all under udpMu.
NewPeer ==
    /\ serve = "lookup"
    /\ udpPeers[cur] = None
    /\ session
    /\ next <= MaxStreams
    /\ serve' = "write"
    /\ target' = next
    /\ next' = next + 1
    /\ addr' = [addr EXCEPT ![next] = cur]
    /\ udpPeers' = [udpPeers EXCEPT ![cur] = next]
    /\ pump' = [pump EXCEPT ![next] = "read"]
    /\ UNCHANGED <<netVars, streamVars, cur, closer, clientVars>>

\* ymx.Open or one of the header's writes fails: the datagram is dropped.
OpenFails ==
    /\ serve = "lookup"
    /\ udpPeers[cur] = None
    /\ NextDatagram
    /\ UNCHANGED <<netVars, tableVars, streamVars, pump, closer, clientVars>>

WriteFrame ==
    /\ serve = "write"
    /\ session /\ ~closed[target]
    /\ NextDatagram
    /\ UNCHANGED <<netVars, tableVars, streamVars, pump, closer, clientVars>>

\* The stream or the session is closed, or yamux cannot send in time.
WriteFails ==
    /\ serve = "write"
    /\ serve' = "evict"
    /\ UNCHANGED <<netVars, tableVars, streamVars, cur, target, pump, closer, clientVars>>

ServeEvicts ==
    /\ serve = "evict"
    /\ \/ ~once[target] /\ Forget(target) /\ serve' = "close" /\ UNCHANGED <<cur, target>>
       \/ Evicted(target) /\ NextDatagram /\ UNCHANGED <<once, udpPeers>>
    /\ UNCHANGED <<netVars, next, addr, closed, given, pump, closer, clientVars>>

ServeCloses ==
    /\ serve = "close"
    /\ NextDatagram
    /\ closed' = [closed EXCEPT ![target] = TRUE]
    /\ UNCHANGED <<netVars, tableVars, once, given, pump, closer, clientVars>>

-----------------------------------------------------------------------------
(* pumpUDPBack *)

\* A frame from the client goes to the visitor.
PumpReply(s) ==
    /\ pump[s] = "read"
    /\ reply[s]
    /\ udpLn
    /\ reply' = [reply EXCEPT ![s] = FALSE]
    /\ UNCHANGED <<netVars, tableVars, streamVars, serveVars, pump, closer, relay>>

\* EOF or an error from the stream, or WriteTo on the closed socket.
PumpEnds(s) ==
    /\ pump[s] = "read"
    /\ ~session \/ given[s] \/ relay[s] = "done" \/ (reply[s] /\ ~udpLn)
    /\ pump' = [pump EXCEPT ![s] = "evict"]
    /\ UNCHANGED <<netVars, tableVars, streamVars, serveVars, closer, clientVars>>

PumpEvicts(s) ==
    /\ pump[s] = "evict"
    /\ \/ ~once[s] /\ Forget(s) /\ pump' = [pump EXCEPT ![s] = "close"]
       \/ /\ Evicted(s)
          /\ pump' = [pump EXCEPT ![s] = "done"]
          /\ UNCHANGED <<once, udpPeers>>
    /\ UNCHANGED <<netVars, next, addr, closed, given, serveVars, closer, clientVars>>

PumpCloses(s) ==
    /\ pump[s] = "close"
    /\ pump' = [pump EXCEPT ![s] = "done"]
    /\ closed' = [closed EXCEPT ![s] = TRUE]
    /\ UNCHANGED <<netVars, tableVars, once, given, serveVars, closer, clientVars>>

-----------------------------------------------------------------------------
(* relayUDP at the client *)

RelayStarts(s) ==
    /\ session
    /\ relay[s] = "none" /\ pump[s] # "none"
    /\ relay' = [relay EXCEPT ![s] = "running"]
    /\ UNCHANGED <<netVars, tableVars, streamVars, serveVars, pump, closer, reply>>

\* The local service answers, and the frame goes into the stream.
LocalAnswers(s) ==
    /\ relay[s] = "running"
    /\ session /\ ~given[s]
    /\ reply' = [reply EXCEPT ![s] = TRUE]
    /\ UNCHANGED <<netVars, tableVars, streamVars, serveVars, pump, closer, relay>>

\* No socket, an error from it, or an answer that can no longer be written;
\* handleData closes the stream.
RelayEnds(s) ==
    /\ relay[s] = "running"
    /\ relay' = [relay EXCEPT ![s] = "done"]
    /\ UNCHANGED <<netVars, tableVars, streamVars, serveVars, pump, closer, reply>>

-----------------------------------------------------------------------------

ServeStep ==
    \/ SocketClosed \/ Known \/ NewPeer \/ OpenFails \/ WriteFrame \/ WriteFails
    \/ ServeEvicts \/ ServeCloses
    \/ \E a \in Addrs : Receive(a)

PumpStep(s) == PumpReply(s) \/ PumpEnds(s) \/ PumpEvicts(s) \/ PumpCloses(s)

Next ==
    \/ SessionEnds \/ CloseSocket \/ CloseTable \/ ServeStep
    \/ \E a \in Addrs : Datagram(a)
    \/ \E s \in Streams :
           GiveUp(s) \/ PumpStep(s) \/ RelayStarts(s) \/ LocalAnswers(s) \/ RelayEnds(s)

Spec == Init /\ [][Next]_vars

(***************************************************************************)
(* Fairness: the goroutines of the server run and yamux's timer fires.     *)
(* Visitors, the local service and the caller of closePublic do as they    *)
(* like, but closePublic once called goes on.                              *)
(***************************************************************************)
Fairness ==
    /\ WF_vars(ServeStep)
    /\ WF_vars(CloseTable)
    /\ \A s \in Streams : WF_vars(PumpStep(s)) /\ WF_vars(GiveUp(s))

FairSpec == Spec /\ Fairness

-----------------------------------------------------------------------------
(* Safety *)

InTable(s) == \E a \in Addrs : udpPeers[a] = s

\* The table holds exactly the streams that nobody has begun to close, each
\* under its visitor's address: the next datagram finds the live stream and no
\* other, and an eviction that comes late does not take the entry of a successor
\* (udp.go: cur == p, and evictUDP deletes before it closes; tunnel.go:
\* closePublic does both under udpMu).
TableIsExact ==
    \A s \in Streams :
        /\ addr[s] # None /\ ~once[s] /\ ~closed[s] => udpPeers[addr[s]] = s
        /\ InTable(s) => ~closed[s] /\ ~once[s]

-----------------------------------------------------------------------------
(* Liveness, under FairSpec *)

\* No pump runs and the table is empty.
PeersFreed == \A s \in Streams : pump[s] \in {"none", "done"} /\ ~InTable(s)

\* The end of the session empties the table and ends the pumps (udp.go:
\* pumpUDPBack's deferred evictUDP).
SessionEndFreesPeers == ~session ~> PeersFreed

-----------------------------------------------------------------------------
(* What comments in the code say and the code does not do *)

\* tunnel.go: closePublic "stops the public listener and (for UDP) tears down
\* peer streams": when serveUDP has ended too, no stream is left open.
CloseTearsDown ==
    closer = "done" /\ serve = "done" =>
        \A s \in Streams : addr[s] # None => once[s] \/ closed[s]

\* connection.go: "UDP peer idle timeouts are handled per tunnel": a visitor
\* that has gone silent does not keep its stream for ever.
IdlePeersLeave ==
    \A a \in Addrs :
        <>[](a \notin inbox /\ cur # a) => []<>(udpPeers[a] = None)
=============================================================================
