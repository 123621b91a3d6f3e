----------------------------- MODULE PeerManager -----------------------------
(***************************************************************************)
(* The peer-to-peer manager of a VPN session (src/internal/client/quic.go) *)
(* and the QUIC connections that others make to it, here calls.  Every     *)
(* session may have a manager; that of an earlier one lives on in the      *)
(* goroutines it has started.                                              *)
(*                                                                         *)
(* The server side of the handshake asks for no certificate, so anybody's  *)
(* call is taken, and filed under the address its hello names.  That is    *)
(* the first of the two in it, which the one who dials fills with the      *)
(* address he is dialling.                                                 *)
(*                                                                         *)
(* A manager that dials is not here.  Dial asks for the fingerprint of the *)
(* peer first, and VpnClient shows that there is never one.                *)
(***************************************************************************)
EXTENDS Integers, Sequences

CONSTANTS
    Peers,        \* virtual addresses of the room's members, one's own among them
    MaxSessions,  \* bound: sessions a run ever has
    MaxCalls      \* bound: calls a run is ever made

ASSUME ManagerAssumption ==
    /\ MaxSessions \in Nat \ {0}
    /\ MaxCalls \in Nat

Sessions == 1..MaxSessions
Calls == 1..MaxCalls

VARIABLES
    listener,  \* listener[s]: the QUIC listener; the manager of s is stopped when it is closed
    conns,     \* conns[s][a]: p2pManager.conns, 0 for no entry
    call,      \* call[k]: "hello" until it is registered; "lost" is the caller's or the
               \* network's doing, "closed" the manager's
    owner,     \* owner[k]: the session whose handleIncoming has k, 0 for none
    route      \* route[s]: what the pump of s is about in Route: manager, address and call

managerVars == <<listener, conns, call, owner, route>>

NoRoute == <<>>
Routes == {NoRoute} \union (Sessions \X Peers \X Calls)

ManagerTypeOK ==
    /\ listener \in [Sessions -> {"none", "open", "closed"}]
    /\ conns \in [Sessions -> [Peers -> 0..MaxCalls]]
    /\ call \in [Calls -> {"none", "hello", "open", "lost", "closed"}]
    /\ owner \in [Calls -> 0..MaxSessions]
    /\ route \in [Sessions -> Routes]

ManagerInit ==
    /\ listener = [s \in Sessions |-> "none"]
    /\ conns = [s \in Sessions |-> [a \in Peers |-> 0]]
    /\ call = [k \in Calls |-> "none"]
    /\ owner = [k \in Calls |-> 0]
    /\ route = [s \in Sessions |-> NoRoute]

-----------------------------------------------------------------------------

\* acceptLoop: a call that came in while the listener was open.
Accept(m, k) ==
    /\ listener[m] = "open"
    /\ call[k] = "none" /\ \A j \in 1..(k - 1) : call[j] # "none"
    /\ call' = [call EXCEPT ![k] = "hello"]
    /\ owner' = [owner EXCEPT ![k] = m]
    /\ UNCHANGED <<listener, conns, route>>

\* handleIncoming: no stream in ten seconds, or no hello on it.
NoHello(k) ==
    /\ call[k] = "hello"
    /\ call' = [call EXCEPT ![k] = "closed"]
    /\ owner' = [owner EXCEPT ![k] = 0]
    /\ UNCHANGED <<listener, conns, route>>

\* Variant: the entry is overwritten.
RegisterOver(k, a) ==
    /\ call[k] = "hello"
    /\ call' = [call EXCEPT ![k] = "open"]
    /\ conns' = [conns EXCEPT ![owner[k]][a] = k]
    /\ owner' = [owner EXCEPT ![k] = 0]
    /\ UNCHANGED <<listener, route>>

\* register, under connMu, also when the manager has been stopped.
Register(k, a) ==
    /\ call[k] = "hello"
    /\ call' = [j \in Calls |-> IF j = k THEN "open"
                                ELSE IF j = conns[owner[k]][a] THEN "closed" ELSE call[j]]
    /\ conns' = [conns EXCEPT ![owner[k]][a] = k]
    /\ owner' = [owner EXCEPT ![k] = 0]
    /\ UNCHANGED <<listener, route>>

\* The caller hangs up, or thirty seconds without a sign of life.
CallLost(k) ==
    /\ call[k] = "open"
    /\ call' = [call EXCEPT ![k] = "lost"]
    /\ UNCHANGED <<listener, conns, owner, route>>

\* evict, whichever call is filed by now.
Evict(m, a) ==
    /\ call' = [k \in Calls |-> IF k = conns[m][a] THEN "closed" ELSE call[k]]
    /\ conns' = [conns EXCEPT ![m][a] = 0]
    /\ UNCHANGED <<listener, owner>>

\* reapLoop, until the manager is stopped: nothing sent to the peer for 90 seconds.
Reap(m, a) ==
    /\ listener[m] = "open"
    /\ conns[m][a] # 0
    /\ Evict(m, a)
    /\ UNCHANGED route

\* Route, of the pump of s, under connMu.
RouteFinds(s, m, a) ==
    /\ route[s] = NoRoute
    /\ conns[m][a] # 0
    /\ route' = [route EXCEPT ![s] = <<m, a, conns[m][a]>>]
    /\ UNCHANGED <<listener, conns, call, owner>>

\* The packet is written: to its destination directly.
RouteWrites(s) ==
    /\ route[s] # NoRoute
    /\ call[route[s][3]] = "open"
    /\ route' = [route EXCEPT ![s] = NoRoute]
    /\ UNCHANGED <<listener, conns, call, owner>>

\* The write fails, and the packet takes the way through the server.
RouteFails(s) ==
    /\ route[s] # NoRoute
    /\ call[route[s][3]] # "open"
    /\ Evict(route[s][1], route[s][2])
    /\ route' = [route EXCEPT ![s] = NoRoute]

\* Start, unless no port can be had.
StartManager(s) ==
    /\ listener' = [listener EXCEPT ![s] = "open"]
    /\ UNCHANGED <<conns, call, owner, route>>

\* Stop, if it was started: what is filed is closed, and stays on file.
StopManager(s) ==
    /\ listener' = [listener EXCEPT ![s] = IF @ = "open" THEN "closed" ELSE @]
    /\ call' = [k \in Calls |-> IF \E a \in Peers : k = conns[s][a] THEN "closed" ELSE call[k]]
    /\ UNCHANGED <<conns, owner, route>>

\* What happens to managers without RunVPN and its pumps.
ManagerStep ==
    \/ \E k \in Calls : NoHello(k) \/ CallLost(k) \/ \E a \in Peers : Register(k, a)
    \/ \E m \in Sessions :
           \/ \E k \in Calls : Accept(m, k)
           \/ \E a \in Peers : Reap(m, a)

-----------------------------------------------------------------------------

\* A call that is open can be reached: it is the one on file under its address,
\* so that Route, the reaper and Stop find it, though calls from the same
\* address replace one another and packets are sent to calls that have been
\* replaced or evicted meanwhile (quic.go: register, evict).
OpenIsFiled ==
    \A k \in Calls : call[k] = "open" => \E m \in Sessions, a \in Peers : conns[m][a] = k

\* s's pump writes to a call that was registered when its manager had been stopped:
\* nothing but the caller can end it.
WritesToLate(s) ==
    /\ route[s] # NoRoute
    /\ call[route[s][3]] = "open" /\ listener[route[s][1]] = "closed"

-----------------------------------------------------------------------------
(* What comments say and the code does not do *)

\* client/vpn.go: "On ctx cancel or stream/TUN error: gracefully close everything".
StopClosesAll ==
    \A m \in Sessions, a \in Peers :
        conns[m][a] # 0 /\ listener[m] = "closed" => call[conns[m][a]] # "open"
=============================================================================
