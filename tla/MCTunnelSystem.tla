--------------------------- MODULE MCTunnelSystem ---------------------------
(* Instances of TunnelSystem for TLC. *)
EXTENDS TunnelSystem

CONSTANT t1

Auth(proto, port) ==
    [type |-> "auth", binds |-> TRUE, proto |-> proto, goodToken |-> TRUE, port |-> port]

\* One tunnel.
Single == [t \in {t1} |-> Auth("tcp", 1)]

\* Bound of the safety runs: nobody shuts the server or the client down.
BothStay == ~ctx /\ srv = "running" /\ ~cctx

\* The same, and no other program holds a port of this server.
PortsAreOurs ==
    /\ BothStay
    /\ \A h \in Streams : pc[h] = "undo" /\ ln[h] = "none" => Server!Busy(req[h])
=============================================================================
