--------------------------- MODULE MCTunnelServer ---------------------------
(* Instances of TunnelServer for TLC. *)
EXTENDS TunnelServer

CONSTANTS c1, h1, h2

\* Two streams of one connection.
Pair == [h \in {h1, h2} |-> c1]

Auth(proto, port) ==
    [type |-> "auth", binds |-> TRUE, proto |-> proto, goodToken |-> TRUE, port |-> port]

\* Requests for two ports, one in the spelling of an old client.
GoodFrames == {Auth("", 1), Auth("udp", 2)}

\* One frame for each check of handleControl.
BadFrames == {[Auth("tcp", 1) EXCEPT !.type = "ping"],
              [Auth("tcp", 1) EXCEPT !.binds = FALSE],
              [Auth("tcp", 1) EXCEPT !.proto = "sctp"],
              [Auth("tcp", 1) EXCEPT !.proto = "vpn"],
              [Auth("tcp", 1) EXCEPT !.goodToken = FALSE],
              Auth("tcp", 0),
              Auth("udp", 3),   \* not in the whitelist
              Auth("tcp", 4)}   \* no port

Frames == GoodFrames \union BadFrames
=============================================================================
