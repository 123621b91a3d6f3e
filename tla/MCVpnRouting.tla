----------------------------- MODULE MCVpnRouting -----------------------------
(* Instances of VpnRouting for TLC. *)
EXTENDS VpnRouting, TLC, Functions

CONSTANTS c1, c2, c3, lobby, dust

\* NoPackets, but the peers of A have attached their packet streams.
NoPacketsBut(A) ==
    /\ pkts = [c \in Conns |-> IF c \in A THEN "attached" ELSE "none"]
    /\ closed = [c \in Conns |-> FALSE]
    /\ loop = [c \in Conns |-> IF c \in A THEN "read" ELSE "none"]
    /\ dest = [c \in Conns |-> All]
    /\ sent = [c \in Conns |-> 0]
    /\ todo = [c \in Conns |-> {}]
    /\ half = [c \in Conns |-> None]
    /\ due = [c \in Conns |-> {}]
    /\ wire = [c \in Conns |-> <<>>]

\* The peers of order, who came in this order, are served in the lobby, where the
\* search for an address goes on at next, and have heard of each other, a state
\* that all orders of the steps of their joins lead to; those of A have packet
\* streams; the others have not asked for anything.
Served(order, A, next) ==
    LET C == Range(order) IN
    /\ subnet = [r \in Rooms |-> IF r = Lobby THEN 0 ELSE None] /\ nextSubnet = 1 % SubnetSpace
    /\ password = [r \in Rooms |-> NoPassword]
    /\ peers = [r \in Rooms |-> [n \in HostNums |->
                   IF r = Lobby /\ n \in DOMAIN order THEN order[n] ELSE None]]
    /\ ip = [c \in Conns |-> IF c \in C THEN CHOOSE n \in DOMAIN order : order[n] = c ELSE None]
    /\ byConn = [r \in Rooms |-> IF r = Lobby THEN C ELSE {}]
    /\ nextIP = [r \in Rooms |-> IF r = Lobby THEN next ELSE 1]
    /\ up = [c \in Conns |-> TRUE] /\ run = [c \in Conns |-> "accept"]
    /\ pc = [c \in Conns |-> IF c \in C THEN "serve" ELSE "auth"]
    /\ room = [c \in Conns |-> IF c \in C THEN Lobby ELSE None]
    /\ given = [c \in Conns |-> NoPassword] /\ log = [c \in Conns |-> c \in C]
    /\ ctrl = [c \in Conns |-> IF c \in C THEN "visible" ELSE "nil"]
    /\ list = [c \in Conns |-> {}] /\ tell = [c \in Conns |-> {}]
    /\ mid = [c \in Conns |-> None] /\ deaf = [c \in Conns |-> FALSE]
    /\ told = [c \in Conns |-> IF c \in C THEN C ELSE {}]
    /\ casting = {} /\ crashed = FALSE
    /\ NoPacketsBut(A)

Leaving == {c \in Conns : ~up[c] \/ pc[c] \in {"release", "cleanup", "done"}}

\* Bounds.  Two peers are served, and c3 asks to join them or for a room of its
\* own.  While it joins them the session of c2 may end; c2 and c3 send a packet
\* each, c2 perhaps to the address that was its own, or c3 sends two.  In its own room only c3
\* leaves or sends.  Streams end with their session.  Of the control streams
\* there is nothing but what is written to join.
OneLeaves ==
    /\ Leaving \subseteq {IF room[c3] = dust THEN c3 ELSE c2}
    /\ \A c \in Leaving : ~up[c]
    /\ sent[c1] = 0 /\ sent[c2] <= IF room[c3] = dust THEN 0 ELSE 1
    /\ sent[c2] + sent[c3] <= 2
    /\ sent[c3] = 2 => Leaving = {}
    /\ dest[c2] = ip[c2] => ~up[c2]
    /\ dest[c3] # ip[c3]
    /\ \A c \in Conns : loop[c] = "ended" => ~up[c] \/ closed[c]
    /\ \A c \in Conns : ~deaf[c] /\ (pc[c] = "serve" => mid[c] = None)
NobodyLeaves ==
    /\ Leaving = {}
    /\ \A c \in Conns : mid[c] = None

AnyPeer == Permutations(Conns)

JoiningSpec == Served(<<c1, c2>>, {c1, c2}, 2) /\ [][RoutingNext]_allVars
ServedSpec ==
    /\ \E order \in [1..3 -> Conns] : Range(order) = Conns /\ Served(order, {}, 1)
    /\ [][RoutingNext]_allVars
=============================================================================
