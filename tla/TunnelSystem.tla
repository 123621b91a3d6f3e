---------------------------- MODULE TunnelSystem ----------------------------
(***************************************************************************)
(* One tunelc in front of tunels: TunnelClient and TunnelServer joined by  *)
(* their yamux sessions.  A session of the client is a connection of the   *)
(* server, a control stream of the client has a handler in the server, and *)
(* a public connection that the server accepts becomes a data stream.      *)
(*                                                                         *)
(* The two ends of a session learn of its death separately, in any order   *)
(* and arbitrarily far apart: link[s] is the client's view, up[s] the      *)
(* server's.  A client that has lost its session may dial again while the  *)
(* server still holds the old one.                                         *)
(*                                                                         *)
(* A frame that was written and has not been read when a session dies may  *)
(* arrive or be lost.                                                      *)
(***************************************************************************)
EXTENDS Integers, FiniteSets

CONSTANTS
    Specs, MaxSessions, MaxAttempts, MaxDials,    \* see TunnelClient
    Want,                                         \* Want[t]: the Auth sent for tunnel t
    MaxPort, IdSpace, AllowedPorts,               \* see TunnelServer
    None,
    MaxData                                       \* bound: data streams a tunnel ever opens

VARIABLES
    cctx, main, attempt, wait, err, sess, link, cs, first, tuns,    \* TunnelClient
    ctx, srv, up, run, reaper, closed, all, tunnels, ports, nextID, \* TunnelServer
    pc, req, id, ln, once, reply,
    data,                                         \* tunnels with a data stream on its way
    opened                                        \* opened[h]: data streams opened so far

Client == INSTANCE TunnelClient WITH
              TunnelIds <- 0..(IdSpace - 1), Nobody <- None

Server == INSTANCE TunnelServer WITH
              Conns <- 1..MaxSessions,
              Streams <- (1..MaxSessions) \X Specs,
              ConnOf <- [h \in (1..MaxSessions) \X Specs |-> h[1]],
              AuthFrames <- {Want[t] : t \in Specs}

Sessions == 1..MaxSessions
Streams == Sessions \X Specs

\* A client asks for no more tunnels than there are ids, and None is nothing else.
ASSUME SystemAssumption ==
    /\ MaxSessions \in Nat /\ MaxAttempts \in Nat /\ MaxDials \in Nat
    /\ MaxPort \in Nat /\ IdSpace \in Nat \ {0, 1}
    /\ IsFiniteSet(Specs) /\ Cardinality(Specs) <= IdSpace
    /\ None \notin Specs /\ None \notin Streams /\ None \notin Server!Requests
    /\ None \notin {"auth_ok", "auth_err"}

clientVars == <<cctx, main, attempt, wait, err, sess, link, cs, first, tuns>>
serverVars == <<ctx, srv, up, run, reaper, closed, all, tunnels, ports, nextID,
                pc, req, id, ln, once, reply>>
dataVars == <<data, opened>>
vars == <<clientVars, serverVars, dataVars>>

Init ==
    /\ Client!ClientInit
    /\ Server!Init
    /\ data = {}
    /\ opened = [h \in Streams |-> 0]

-----------------------------------------------------------------------------
(* Steps of the client alone *)

ClientAlone ==
    /\ \/ Client!CancelClient
       \/ Client!StartAttempt \/ Client!StopBetweenSessions \/ Client!DialFails
       \/ Client!Serve \/ Client!SetupFails \/ Client!SessionLost
       \/ Client!StopServing \/ Client!Judge \/ Client!WaitOver
       \/ \E s \in Sessions : Client!LinkDies(s)
       \/ \E t \in Specs : Client!OpenControl(t) \/ Client!SendAuth(t) \/ Client!SetupError(t)
    /\ UNCHANGED <<serverVars, dataVars>>

\* Nothing accepts connections once Server.Run has left its loop.
Dial ==
    /\ srv = "running"
    /\ Client!Dial
    /\ UNCHANGED <<serverVars, dataVars>>

\* setupTunnel reads the server's answer.
ReadReply(t) ==
    LET h == <<sess, t>> IN
    /\ main = "setup"
    /\ \/ reply[h] = "auth_ok" /\ Client!Granted(t, id[h])
       \/ reply[h] = "auth_err" /\ Client!Rejected(t)
    /\ UNCHANGED <<serverVars, dataVars>>

-----------------------------------------------------------------------------
(* Steps of the server *)

ClosedByClient(h) == cs[h] \in {"unsent", "rejected"}

ServerAlone ==
    /\ \/ Server!ServerStep
       \/ \E c \in Sessions :
              \/ Server!StartConn(c) \/ Server!SessionEnds(c) \/ Server!RunEnds(c)
              \/ Server!ReaperFires(c) \/ Server!CloseNext(c) \/ Server!CloseDone(c)
       \/ \E h \in Streams :
              \/ Server!GrantRefused(h) \/ Server!Register(h) \/ Server!Listen(h)
              \/ Server!ListenFails(h) \/ Server!Store(h) \/ Server!AckSent(h)
              \/ Server!AckFails(h) \/ Server!CloseUnacked(h) \/ Server!Undo(h)
              \/ Server!Release(h) \/ Server!CloseReleased(h)
    /\ UNCHANGED <<clientVars, dataVars>>

\* What the client has to have done first.
ServerHears ==
    /\ \/ \E c \in Sessions : link[c] # "none" /\ Server!AcceptConn(c)
       \/ \E h \in Streams :
              \/ cs[h] \notin {"none", "unopened"} /\ Server!AcceptStream(h)
              \/ cs[h] \in {"sent", "unread"} /\ Server!ReadFrame(h, Want[h[2]])
              \/ (~up[h[1]] \/ ClosedByClient(h)) /\ Server!AuthUnreadable(h)
              \/ (~up[h[1]] \/ ClosedByClient(h)) /\ Server!ControlEnds(h)
    /\ UNCHANGED <<clientVars, dataVars>>

-----------------------------------------------------------------------------
(* Data streams *)

\* acceptTCP or serveUDP: the tunnel's listener has a connection or a new peer,
\* and the server opens a data stream and writes the tunnel's id on it.  This
\* may come before auth_ok has even been written.
PublicConn(h) ==
    /\ ln[h] = "open"
    /\ up[h[1]]
    /\ h \notin data
    /\ opened[h] < MaxData
    /\ data' = data \union {h}
    /\ opened' = [opened EXCEPT ![h] = @ + 1]
    /\ UNCHANGED <<clientVars, serverVars>>

\* serveData and handleData: the id is looked up in session.tuns.
HandleData(h) ==
    /\ h \in data
    /\ h[1] = sess
    /\ Client!AcceptsData
    /\ data' = data \ {h}
    /\ UNCHANGED <<clientVars, serverVars, opened>>

-----------------------------------------------------------------------------

Next ==
    \/ ClientAlone \/ Dial \/ \E t \in Specs : ReadReply(t)
    \/ ServerAlone \/ ServerHears
    \/ \E h \in Streams : PublicConn(h) \/ HandleData(h)

Spec == Init /\ [][Next]_vars

(***************************************************************************)
(* Fairness: the goroutines of both programs run, timers fire, and an end  *)
(* of a session whose other end is gone learns of it (keep-alive every     *)
(* 30 s on both sides).  Nobody has to cancel, to connect or to break a    *)
(* session.                                                                *)
(***************************************************************************)
ServerGone(s) ==
    \/ srv = "returned"
    \/ srv = "draining" /\ run[s] = "none"
    \/ run[s] # "none" /\ ~up[s]

ClientFairness ==
    /\ WF_vars(/\ \/ Client!StartAttempt \/ Client!StopBetweenSessions
                  \/ Client!Serve \/ Client!SetupFails \/ Client!SessionLost
                  \/ Client!StopServing \/ Client!Judge \/ Client!WaitOver
               /\ UNCHANGED <<serverVars, dataVars>>)
    /\ WF_vars((Client!DialFails /\ UNCHANGED <<serverVars, dataVars>>) \/ Dial)
    /\ \A t \in Specs :
           /\ WF_vars(/\ Client!OpenControl(t) \/ Client!SendAuth(t)
                      /\ UNCHANGED <<serverVars, dataVars>>)
           /\ WF_vars(ReadReply(t))
           /\ WF_vars(/\ main = "setup" /\ link[sess] = "down"
                      /\ Client!SetupError(t)
                      /\ UNCHANGED <<serverVars, dataVars>>)
    /\ \A s \in Sessions :
           WF_vars(/\ ServerGone(s)
                   /\ Client!LinkDies(s)
                   /\ UNCHANGED <<serverVars, dataVars>>)

ServerFairness ==
    \A s \in Sessions :
        /\ WF_vars(link[s] # "none" /\ Server!AcceptConn(s) /\ UNCHANGED <<clientVars, dataVars>>)
        /\ WF_vars(Server!StartConn(s) /\ UNCHANGED <<clientVars, dataVars>>)
        /\ WF_vars(link[s] = "down" /\ Server!SessionEnds(s) /\ UNCHANGED <<clientVars, dataVars>>)
        /\ WF_vars(Server!RunEnds(s) /\ UNCHANGED <<clientVars, dataVars>>)
        /\ WF_vars(Server!ReaperFires(s) /\ UNCHANGED <<clientVars, dataVars>>)
        /\ WF_vars((Server!CloseNext(s) \/ Server!CloseDone(s)) /\ UNCHANGED <<clientVars, dataVars>>)

HandlerFairness ==
    \A h \in Streams :
        /\ WF_vars(/\ \/ Server!GrantRefused(h) \/ Server!Register(h) \/ Server!Listen(h)
                      \/ Server!ListenFails(h) \/ Server!Store(h) \/ Server!AckSent(h)
                      \/ Server!AckFails(h) \/ Server!CloseUnacked(h) \/ Server!Undo(h)
                      \/ Server!Release(h) \/ Server!CloseReleased(h)
                   /\ UNCHANGED <<clientVars, dataVars>>)
        /\ WF_vars(/\ \/ cs[h] \notin {"none", "unopened"} /\ Server!AcceptStream(h)
                      \/ cs[h] \in {"sent", "unread"} /\ Server!ReadFrame(h, Want[h[2]])
                   /\ UNCHANGED <<clientVars, dataVars>>)
        /\ WF_vars(/\ ~up[h[1]] \/ ClosedByClient(h)
                   /\ Server!AuthUnreadable(h) \/ Server!ControlEnds(h)
                   /\ UNCHANGED <<clientVars, dataVars>>)

FairSpec == Spec /\ ClientFairness /\ ServerFairness /\ HandlerFairness

-----------------------------------------------------------------------------
(* Safety *)

\* The tunnel of stream h is what its client asked for and can be reached.
Reachable(h) ==
    /\ ln[h] = "open"
    /\ req[h] = [proto |-> Server!ValidProto(Want[h[2]].proto), port |-> Want[h[2]].port]
    /\ ports[h[1]][req[h].port] = h

\* What the client shows as connected is reachable: while it serves, and as
\* long as the server holds the session and has not shut its tunnels, each
\* tunnel has its public port (client.go: setupTunnel leaves the control
\* stream open on purpose; tunnel.go: serveControl).
ConnectedMeansReachable ==
    main = "serving" /\ up[sess] /\ ~closed[sess] =>
        \A t \in Specs : Reachable(<<sess, t>>)

\* Every data stream the client takes names a tunnel it knows, and the one
\* whose public port the connection came in by, although the server opens
\* data streams before the client has read auth_ok (client.go: serveData runs
\* after all of setupTunnel).
DataFindsItsTunnel ==
    \A h \in data :
        h[1] = sess /\ Client!AcceptsData => tuns[id[h]] = h[2]

-----------------------------------------------------------------------------
(* Liveness, under FairSpec *)

\* A client whose context is cancelled stops, wherever it was: waiting, dialling,
\* with some tunnels set up and others not (client.go: Run, although neither
\* dial nor wg.Wait looks at the context).
CancelStopsClient == cctx ~> Client!Over

-----------------------------------------------------------------------------
(* What the documentation says and the code does not do *)

\* README.md: "si el tunel cae, tunelc reintenta ... hasta 5 intentos": a client
\* that has been connected is not thrown out at its next attempt.
DropIsNotRejection ==
    main = "rejected" =>
        ~\E s \in Sessions : s < sess /\ \A t \in Specs : cs[<<s, t>>] = "ok"

\* README.md: green means "tuneles activos": a client whose tunnels are gone
\* does not stay connected for ever.
GreenMeansActive ==
    main = "serving" /\ (\E t \in Specs : ln[<<sess, t>>] # "open")
        ~> main # "serving" \/ (\A t \in Specs : ln[<<sess, t>>] = "open")
=============================================================================
