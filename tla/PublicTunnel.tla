---------------------------- MODULE PublicTunnel ----------------------------
(***************************************************************************)
(* The public side of a granted tunnel: Tunnel.openPublic gives it a TCP   *)
(* listener or a UDP socket (src/internal/server/tunnel.go), and from then *)
(* on it is the one or the other: a public connection of TcpRelay, or the  *)
(* visitors of UdpTunnel.  Both hang on the same yamux session.  The       *)
(* variables of the protocol that was not chosen keep their initial values *)
(* and stand for nothing.                                                  *)
(***************************************************************************)
EXTENDS TcpRelay

CONSTANTS
    Addrs,       \* see UdpTunnel
    MaxStreams,
    None

ASSUME PublicAssumption ==
    /\ None \notin Addrs
    /\ MaxStreams \in Nat
    /\ None \notin 1..MaxStreams

VARIABLES
    proto,       \* Tunnel.proto
    udpLn, inbox, udpPeers, next, addr, once, closed, given, serve, cur, target,
    pump, closer, relay, reply

U == INSTANCE UdpTunnel

udpVars ==
    <<udpLn, inbox, udpPeers, next, addr, once, closed, given, serve, cur, target,
      pump, closer, relay, reply>>

tcpVars == <<visitor, service, up, down, serverVars, clientVars>>

publicVars == <<proto, session, tcpVars, udpVars>>

\* openPublic's switch.
PublicInit ==
    /\ proto \in {"tcp", "udp"}
    /\ Init
    /\ U!Init

PublicNext ==
    /\ UNCHANGED proto
    /\ \/ proto = "tcp" /\ Next /\ UNCHANGED udpVars
       \/ proto = "udp" /\ U!Next /\ UNCHANGED tcpVars

PublicSpec == PublicInit /\ [][PublicNext]_publicVars

\* Neither fairness asks anything of the protocol that was not chosen: none of
\* its goroutines has begun.
FairPublicSpec == PublicSpec /\ Fairness /\ U!Fairness

-----------------------------------------------------------------------------

\* UdpTunnel's table, for a UDP tunnel among the others (server/udp.go).
TableIsExact == U!TableIsExact

\* The end of the session ends all that a tunnel has started, be it the copies
\* of a connection or the pumps of UDP visitors (server/tunnel.go, server/udp.go,
\* client/tunnel.go); the copy from a service goes on until the service closes.
SessionEndFreesTunnel ==
    ~session ~> ServerFreed /\ (service = "closed" => ClientFreed) /\ U!PeersFreed
=============================================================================
