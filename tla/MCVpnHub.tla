------------------------------ MODULE MCVpnHub ------------------------------
(* Instances of VpnHub for TLC. *)
EXTENDS VpnHub, TLC

CONSTANTS c1, c2, c3, lobby, dust, secret

Leaving == {c \in Conns : ~up[c] \/ pc[c] \in {"release", "cleanup", "done"}}

\* Bounds of the three-peer instance: at most one of the three leaves or has had
\* mixed lines, a pong is written only while somebody joins, and nobody sends
\* packets.
OneLeaves ==
    /\ Cardinality(Leaving \union {c \in Conns : deaf[c]}) <= 1
    /\ \A c \in Conns : pc[c] = "serve" /\ mid[c] = c =>
           \E d \in Conns : pc[d] \in {"notify", "telling"}
    /\ casting = {}

\* Bounds of the two-room instance: c1 asks first, either for the lobby or for a
\* private room of its own; c2 asks for the same, unless c1 is in the lobby and
\* c2 makes a public room; only c1 sends packets, and only in the lobby, and
\* there are no pongs and no mixed lines.
OneSends ==
    /\ pc[c1] = "auth" => pc[c2] = "auth"
    /\ \A c \in Conns : room[c] = lobby => given[c] = NoPassword
    /\ room[c1] = dust => given[c1] = secret
    /\ room[c2] \notin {None, room[c1]} => room[c1] = lobby /\ given[c2] = NoPassword
    /\ casting # {} => casting = {c1} /\ room[c1] = lobby
    /\ \A c \in Conns : ~deaf[c] /\ (pc[c] = "serve" => mid[c] = None)

AnyPeer == Permutations({c1, c2, c3})
=============================================================================
