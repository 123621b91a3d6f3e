---------------------------- MODULE TunnelServer ----------------------------
(***************************************************************************)
(* The tunnel side of tunels: Server.Run and its connections               *)
(* (src/internal/server/server.go), the life of a Connection and of the    *)
(* tunnels its control streams ask for (connection.go), and the opening    *)
(* and closing of their public listeners (tunnel.go).                      *)
(*                                                                         *)
(* Goroutines.  One runs Server.Run.  Every connection has the goroutine   *)
(* of Connection.run and its reaper.  Every control stream has a handler   *)
(* (handleStream, handleControl, grantTunnel, serveControl), and creates   *)
(* at most one Tunnel, so a stream also names its tunnel.  An action is    *)
(* what one goroutine does between two points where others can run: a      *)
(* section under Connection.mu, a call to the network, a write another     *)
(* goroutine reads without a lock.                                         *)
(*                                                                         *)
(* closePublic is one action although it makes several calls: it runs once *)
(* (closeOnce; a second caller waits for the first), and all that others   *)
(* see of it is which listener, if any, it finds and closes.               *)
(*                                                                         *)
(* The store to Tunnel.tcpLn or udpLn that openPublic makes after          *)
(* net.Listen has returned is not ordered with the read in a closePublic   *)
(* that closeAll makes: it is an action of its own, Store, the moment the  *)
(* reference becomes visible to the other goroutines.                      *)
(*                                                                         *)
(* The VPN hub is absent, as in a server run without -vpn (see VpnHub).    *)
(***************************************************************************)
EXTENDS Integers, FiniteSets

CONSTANTS
    Conns,         \* connections that tunelc processes may make
    Streams,       \* control streams they may open
    ConnOf,        \* the connection a stream belongs to
    MaxPort,       \* the largest public port (65535 in the code)
    IdSpace,       \* number of tunnel ids (65536 in the code: uint16)
    AllowedPorts,  \* the -ports whitelist, {} when any port will do
    AuthFrames,    \* first frames a client may send on a control stream
    None           \* no tunnel, no request, no answer

ASSUME StreamsAssumption ==
    /\ IsFiniteSet(Streams)
    /\ None \notin Streams
    /\ ConnOf \in [Streams -> Conns]

ASSUME NumbersAssumption ==
    /\ MaxPort \in Nat
    /\ IdSpace \in Nat \ {0, 1}

Ports == 1..MaxPort
Ids == 0..(IdSpace - 1)
NoId == IdSpace
Protos == {"tcp", "udp"}
Requests == [proto : Protos, port : Ports]

ASSUME RequestsAssumption == None \notin Requests

VARIABLES
    ctx,      \* the context given to Server.Run has been cancelled
    srv,      \* Server.Run: "running", "draining" (in wg.Wait), "returned"
    up,       \* up[c]: the yamux session of c is alive
    run,      \* run[c]: goroutine of Connection.run
    reaper,   \* reaper[c]: goroutine of Connection.reaper
    closed,   \* closed[c]: Connection.closed
    all,      \* all[c]: closeAll's snapshot, the tunnels it has yet to close
    tunnels,  \* tunnels[c][id]: Connection.tunnels
    ports,    \* ports[c][port]: Connection.ports
    nextID,   \* nextID[c]: Connection.nextID
    pc,       \* pc[h]: where the handler of stream h is
    req,      \* req[h]: the accepted request, [proto, port]
    id,       \* id[h]: Tunnel.id
    ln,       \* ln[h]: the tunnel's public listener
    once,     \* once[h]: closePublic has run
    reply     \* reply[h]: the answer to Auth written to the client

connVars == <<up, run, reaper, closed, all>>
registry == <<tunnels, ports, nextID>>
streamVars == <<pc, req, id, ln, once, reply>>
vars == <<ctx, srv, connVars, registry, streamVars>>

PCs == {"none",      \* the stream does not exist yet
        "auth",      \* handleStream, handleControl: reading the first frame
        "grant",     \* grantTunnel, about to lock
        "listen",    \* registered, in net.Listen
        "store",     \* net.Listen has returned, the listener not yet stored
        "ack",       \* writing AuthOK
        "serve",     \* serveControl
        "unack",     \* AuthOK could not be written, about to closePublic
        "undo",      \* grantTunnel failed, about to unregister
        "release",   \* releaseTunnel, about to unregister
        "close",     \* releaseTunnel, about to closePublic
        "done"}

TypeOK ==
    /\ ctx \in BOOLEAN
    /\ srv \in {"running", "draining", "returned"}
    /\ up \in [Conns -> BOOLEAN]
    /\ run \in [Conns -> {"none", "accepted", "accepting", "closing", "returned"}]
    /\ reaper \in [Conns -> {"none", "waiting", "closing", "done"}]
    /\ closed \in [Conns -> BOOLEAN]
    /\ all \in [Conns -> SUBSET Streams]
    /\ tunnels \in [Conns -> [Ids -> Streams \union {None}]]
    /\ ports \in [Conns -> [Ports -> Streams \union {None}]]
    /\ nextID \in [Conns -> Ids]
    /\ pc \in [Streams -> PCs]
    /\ req \in [Streams -> Requests \union {None}]
    /\ id \in [Streams -> Ids \union {NoId}]
    /\ ln \in [Streams -> {"none", "bound", "open", "closed"}]
    /\ once \in [Streams -> BOOLEAN]
    /\ reply \in [Streams -> {None, "auth_ok", "auth_err"}]

Init ==
    /\ ctx = FALSE
    /\ srv = "running"
    /\ up = [c \in Conns |-> FALSE]
    /\ run = [c \in Conns |-> "none"]
    /\ reaper = [c \in Conns |-> "none"]
    /\ closed = [c \in Conns |-> FALSE]
    /\ all = [c \in Conns |-> {}]
    /\ tunnels = [c \in Conns |-> [i \in Ids |-> None]]
    /\ ports = [c \in Conns |-> [p \in Ports |-> None]]
    /\ nextID = [c \in Conns |-> 1]
    /\ pc = [h \in Streams |-> "none"]
    /\ req = [h \in Streams |-> None]
    /\ id = [h \in Streams |-> NoId]
    /\ ln = [h \in Streams |-> "none"]
    /\ once = [h \in Streams |-> FALSE]
    /\ reply = [h \in Streams |-> None]

-----------------------------------------------------------------------------
(* Helpers *)

Go(h, from, to) ==
    /\ pc[h] = from
    /\ pc' = [pc EXCEPT ![h] = to]

\* A socket on the same protocol and port is open in this process, whether or
\* not a Tunnel still refers to it: net.Listen answers "address in use".
Busy(r) == \E h \in Streams : ln[h] \in {"bound", "open"} /\ req[h] = r

\* Variant: the TCP listener is forgotten.
ClosePublicUdpOnly(h) ==
    /\ once' = [once EXCEPT ![h] = TRUE]
    /\ ln' = [ln EXCEPT ![h] =
                 IF ~once[h] /\ @ = "open" /\ req[h].proto = "udp" THEN "closed" ELSE @]

\* Tunnel.closePublic.
ClosePublic(h) ==
    /\ once' = [once EXCEPT ![h] = TRUE]
    /\ ln' = [ln EXCEPT ![h] = IF ~once[h] /\ @ = "open" THEN "closed" ELSE @]

\* Variant: the delete from the second map is missing.
UnregisterIdOnly(h) ==
    /\ tunnels' = [tunnels EXCEPT ![ConnOf[h]][id[h]] = None]
    /\ UNCHANGED <<ports, nextID>>

\* The two deletes that grantTunnel's error paths and releaseTunnel make:
\* they do not look whose entries these are.
Unregister(h) ==
    LET c == ConnOf[h] IN
    /\ tunnels' = [tunnels EXCEPT ![c][id[h]] = None]
    /\ ports' = [ports EXCEPT ![c][req[h].port] = None]
    /\ UNCHANGED nextID

\* Variant: the closed flag is not set.
CloseAllUnmarked(c) ==
    /\ all' = [all EXCEPT ![c] = {tunnels[c][i] : i \in Ids} \ {None}]
    /\ tunnels' = [tunnels EXCEPT ![c] = [i \in Ids |-> None]]
    /\ ports' = [ports EXCEPT ![c] = [p \in Ports |-> None]]
    /\ UNCHANGED <<closed, nextID>>

\* Connection.closeAll up to the end of its critical section, by the goroutine
\* whose state the caller sets; skipped when the other one came first.
CloseAll(c) ==
    /\ closed' = [closed EXCEPT ![c] = TRUE]
    /\ all' = [all EXCEPT ![c] = {tunnels[c][i] : i \in Ids} \ {None}]
    /\ tunnels' = [tunnels EXCEPT ![c] = [i \in Ids |-> None]]
    /\ ports' = [ports EXCEPT ![c] = [p \in Ports |-> None]]
    /\ UNCHANGED nextID

\* Variants: grantTunnel forgets one of its two checks.
GrantableThoughClosed(c, p) == ports[c][p] = None
GrantableThoughHeld(c, p) == ~closed[c]

\* What grantTunnel checks under the lock: the connection has not closed and
\* has no tunnel on that port, whatever its protocol.
Grantable(c, p) == ~closed[c] /\ ports[c][p] = None

\* Variant: the id is not advanced.
IdAfterSame(i) == i

\* c.nextID++ on a uint16.
IdAfter(i) == (i + 1) % IdSpace

\* server.go validProto: an old client leaves the protocol empty.
ValidProto(p) == IF p = "" THEN "tcp" ELSE p

\* server.go portAllowed: an empty whitelist allows every port.
PortAllowed(p) == AllowedPorts = {} \/ p \in AllowedPorts

\* handleControl's checks before grantTunnel; without a hub "vpn" is refused too.
Acceptable(f) ==
    /\ f.type = "auth"
    /\ f.binds
    /\ ValidProto(f.proto) \in Protos
    /\ f.goodToken
    /\ f.port \in Ports
    /\ PortAllowed(f.port)

\* The AuthErr of handleControl; that it cannot be written is ignored.
Refuse(h) == reply' = [reply EXCEPT ![h] = IF up[ConnOf[h]] THEN "auth_err" ELSE @]

-----------------------------------------------------------------------------
(* The server and its connections *)

\* The caller's context is cancelled (SIGINT, the service manager).
Cancel ==
    /\ ~ctx
    /\ ctx' = TRUE
    /\ UNCHANGED <<srv, connVars, registry, streamVars>>

\* tlsListener.Accept hands out a connection; wg.Add has not run yet.
AcceptConn(c) ==
    /\ srv = "running"
    /\ run[c] = "none"
    /\ run' = [run EXCEPT ![c] = "accepted"]
    /\ up' = [up EXCEPT ![c] = TRUE]
    /\ UNCHANGED <<ctx, srv, reaper, closed, all, registry, streamVars>>

\* wg.Add, handleConnection, newConnection, and run starts the reaper.
StartConn(c) ==
    /\ run[c] = "accepted"
    /\ run' = [run EXCEPT ![c] = "accepting"]
    /\ reaper' = [reaper EXCEPT ![c] = "waiting"]
    /\ UNCHANGED <<ctx, srv, up, closed, all, registry, streamVars>>

\* The client leaves, or keep-alive or a write timeout ends the yamux session.
SessionEnds(c) ==
    /\ up[c]
    /\ up' = [up EXCEPT ![c] = FALSE]
    /\ UNCHANGED <<ctx, srv, run, reaper, closed, all, registry, streamVars>>

\* Variant: run waits for a closeAll that the reaper has already made.
RunEndsUnlessClosed(c) ==
    /\ run[c] = "accepting"
    /\ ~up[c]
    /\ ~closed[c]
    /\ run' = [run EXCEPT ![c] = "closing"]
    /\ CloseAll(c)
    /\ UNCHANGED <<ctx, srv, up, reaper, streamVars>>

\* run: Accept fails and run calls closeAll, which returns at once when the
\* reaper has called it before.
RunEnds(c) ==
    /\ run[c] = "accepting"
    /\ ~up[c]
    /\ \/ /\ closed[c]
          /\ run' = [run EXCEPT ![c] = "returned"]
          /\ UNCHANGED <<closed, all, registry>>
       \/ /\ ~closed[c]
          /\ run' = [run EXCEPT ![c] = "closing"]
          /\ CloseAll(c)
    /\ UNCHANGED <<ctx, srv, up, reaper, streamVars>>

\* Variant: the reaper ends without closing anything.
ReaperOnlyEnds(c) ==
    /\ reaper[c] = "waiting"
    /\ ctx
    /\ reaper' = [reaper EXCEPT ![c] = "done"]
    /\ UNCHANGED <<ctx, srv, up, run, closed, all, registry, streamVars>>

\* reaper: ctx is done; the yamux session is left alone.
ReaperFires(c) ==
    /\ reaper[c] = "waiting"
    /\ ctx
    /\ \/ /\ closed[c]
          /\ reaper' = [reaper EXCEPT ![c] = "done"]
          /\ UNCHANGED <<closed, all, registry>>
       \/ /\ ~closed[c]
          /\ reaper' = [reaper EXCEPT ![c] = "closing"]
          /\ CloseAll(c)
    /\ UNCHANGED <<ctx, srv, up, run, streamVars>>

\* closeAll's loop over its snapshot, outside the lock.
CloseNext(c) ==
    \E h \in all[c] :
        /\ all' = [all EXCEPT ![c] = @ \ {h}]
        /\ ClosePublic(h)
        /\ UNCHANGED <<ctx, srv, up, run, reaper, closed, registry, pc, req, id, reply>>

CloseDone(c) ==
    /\ all[c] = {}
    /\ \/ /\ run[c] = "closing"
          /\ run' = [run EXCEPT ![c] = "returned"]
          /\ UNCHANGED reaper
       \/ /\ reaper[c] = "closing"
          /\ reaper' = [reaper EXCEPT ![c] = "done"]
          /\ UNCHANGED run
    /\ UNCHANGED <<ctx, srv, up, closed, all, registry, streamVars>>

\* Server.Run leaves its select: the context is done (and the listener is
\* closed), or the listener failed (and nobody accepts from it any more).
StopAccepting ==
    /\ srv = "running"
    /\ srv' = "draining"
    /\ UNCHANGED <<ctx, connVars, registry, streamVars>>

\* The deferred wg.Wait: every connection counted so far has been handled.
RunReturns ==
    /\ srv = "draining"
    /\ \A c \in Conns : run[c] \in {"none", "accepted", "returned"}
    /\ srv' = "returned"
    /\ UNCHANGED <<ctx, connVars, registry, streamVars>>

-----------------------------------------------------------------------------
(* The handler of a control stream *)

\* run accepts a stream the client has opened.  yamux may still deliver one
\* that was queued when the session ended.
AcceptStream(h) ==
    /\ run[ConnOf[h]] = "accepting"
    /\ Go(h, "none", "auth")
    /\ UNCHANGED <<ctx, srv, connVars, registry, req, id, ln, once, reply>>

\* No first byte or no envelope: the stream ended or carried garbage.
AuthUnreadable(h) ==
    /\ Go(h, "auth", "done")
    /\ UNCHANGED <<ctx, srv, connVars, registry, req, id, ln, once, reply>>

\* The first frame of the stream is f.
ReadFrame(h, f) ==
    /\ \/ /\ Acceptable(f)
          /\ Go(h, "auth", "grant")
          /\ req' = [req EXCEPT ![h] = [proto |-> ValidProto(f.proto), port |-> f.port]]
          /\ UNCHANGED reply
       \/ /\ ~Acceptable(f)
          /\ Go(h, "auth", "done")
          /\ Refuse(h)
          /\ UNCHANGED req
    /\ UNCHANGED <<ctx, srv, connVars, registry, id, ln, once>>

ReadAuth(h) == \E f \in AuthFrames : ReadFrame(h, f)

\* grantTunnel's section under Connection.mu when it refuses.
GrantRefused(h) ==
    /\ Go(h, "grant", "done")
    /\ ~Grantable(ConnOf[h], req[h].port)
    /\ Refuse(h)
    /\ UNCHANGED <<ctx, srv, connVars, registry, req, id, ln, once>>

\* The same section when the tunnel is registered.
Register(h) ==
    LET c == ConnOf[h] IN
    /\ Go(h, "grant", "listen")
    /\ Grantable(c, req[h].port)
    /\ id' = [id EXCEPT ![h] = nextID[c]]
    /\ nextID' = [nextID EXCEPT ![c] = IdAfter(@)]
    /\ tunnels' = [tunnels EXCEPT ![c][nextID[c]] = h]
    /\ ports' = [ports EXCEPT ![c][req[h].port] = h]
    /\ UNCHANGED <<ctx, srv, connVars, req, ln, once, reply>>

\* openPublic: net.Listen binds the port, unless this process already has.
Listen(h) ==
    /\ Go(h, "listen", "store")
    /\ ~Busy(req[h])
    /\ ln' = [ln EXCEPT ![h] = "bound"]
    /\ UNCHANGED <<ctx, srv, connVars, registry, req, id, once, reply>>

\* It may fail for other reasons too: another process, no more descriptors.
ListenFails(h) ==
    /\ Go(h, "listen", "undo")
    /\ UNCHANGED <<ctx, srv, connVars, registry, req, id, ln, once, reply>>

\* openPublic: t.tcpLn = ln (or t.udpLn = pc); the accept loop starts.
Store(h) ==
    /\ Go(h, "store", "ack")
    /\ ln' = [ln EXCEPT ![h] = "open"]
    /\ UNCHANGED <<ctx, srv, connVars, registry, req, id, once, reply>>

AckSent(h) ==
    /\ up[ConnOf[h]]
    /\ Go(h, "ack", "serve")
    /\ reply' = [reply EXCEPT ![h] = "auth_ok"]
    /\ UNCHANGED <<ctx, srv, connVars, registry, req, id, ln, once>>

AckFails(h) ==
    /\ Go(h, "ack", "unack")
    /\ UNCHANGED <<ctx, srv, connVars, registry, req, id, ln, once, reply>>

CloseUnacked(h) ==
    /\ Go(h, "unack", "undo")
    /\ ClosePublic(h)
    /\ UNCHANGED <<ctx, srv, connVars, registry, req, id, reply>>

\* grantTunnel's error return: unregister, and handleControl writes AuthErr.
Undo(h) ==
    /\ Go(h, "undo", "done")
    /\ Unregister(h)
    /\ Refuse(h)
    /\ UNCHANGED <<ctx, srv, connVars, req, id, ln, once>>

\* Variant: serveControl returns on a stream the client closed, not on an error.
ControlEndsOnEOF(h) ==
    /\ up[ConnOf[h]]
    /\ Go(h, "serve", "release")
    /\ UNCHANGED <<ctx, srv, connVars, registry, req, id, ln, once, reply>>

\* serveControl returns: the client closed the stream or the session ended.
\* Answering Ping changes nothing modelled here.
ControlEnds(h) ==
    /\ Go(h, "serve", "release")
    /\ UNCHANGED <<ctx, srv, connVars, registry, req, id, ln, once, reply>>

\* The deferred releaseTunnel: the deletes under the lock, then closePublic.
Release(h) ==
    /\ Go(h, "release", "close")
    /\ Unregister(h)
    /\ UNCHANGED <<ctx, srv, connVars, req, id, ln, once, reply>>

CloseReleased(h) ==
    /\ Go(h, "close", "done")
    /\ ClosePublic(h)
    /\ UNCHANGED <<ctx, srv, connVars, registry, req, id, reply>>

-----------------------------------------------------------------------------

ServerStep == Cancel \/ StopAccepting \/ RunReturns

ConnStep(c) ==
    \/ AcceptConn(c) \/ StartConn(c) \/ SessionEnds(c)
    \/ RunEnds(c) \/ ReaperFires(c) \/ CloseNext(c) \/ CloseDone(c)

StreamStep(h) ==
    \/ AcceptStream(h) \/ AuthUnreadable(h) \/ ReadAuth(h)
    \/ GrantRefused(h) \/ Register(h) \/ Listen(h) \/ ListenFails(h) \/ Store(h)
    \/ AckSent(h) \/ AckFails(h) \/ CloseUnacked(h) \/ Undo(h)
    \/ ControlEnds(h) \/ Release(h) \/ CloseReleased(h)

Next ==
    \/ ServerStep
    \/ \E c \in Conns : ConnStep(c)
    \/ \E h \in Streams : StreamStep(h)

Spec == Init /\ [][Next]_vars

(***************************************************************************)
(* Fairness.  Every goroutine that can run does, and a pending call to the *)
(* operating system or to yamux returns.  Nothing is assumed of clients:   *)
(* they need not connect, ask, answer or leave, and a handler that waits   *)
(* for a frame has to go on only once the session is gone.  Nothing is     *)
(* assumed of who cancels the context.                                     *)
(***************************************************************************)
ConnFairness(c) ==
    /\ WF_vars(StartConn(c))
    /\ WF_vars(RunEnds(c))
    /\ WF_vars(ReaperFires(c))
    /\ WF_vars(CloseNext(c) \/ CloseDone(c))

StreamFairness(h) ==
    /\ WF_vars(~up[ConnOf[h]] /\ (AuthUnreadable(h) \/ ControlEnds(h)))
    /\ WF_vars(\/ GrantRefused(h) \/ Register(h) \/ Listen(h) \/ ListenFails(h)
               \/ Store(h) \/ AckSent(h) \/ AckFails(h) \/ CloseUnacked(h)
               \/ Undo(h) \/ Release(h) \/ CloseReleased(h))

Fairness ==
    /\ WF_vars(ctx /\ StopAccepting)
    /\ WF_vars(RunReturns)
    /\ \A c \in Conns : ConnFairness(c)
    /\ \A h \in Streams : StreamFairness(h)

FairSpec == Spec /\ Fairness

-----------------------------------------------------------------------------
(* Safety *)

\* Between Register and the handler's own deletes, the tunnel's entries belong
\* in the registry as long as the connection is not closed.
Live(h) == pc[h] \in {"listen", "store", "ack", "serve", "unack", "undo", "release"}

\* The tunnels that got an id from c, and whether each got one of its own: the
\* counter goes through all ids, 0 the last, before it grants one again, and
\* the entry of the tunnel that had it is then overwritten.
Granted(c) == {h \in Streams : ConnOf[h] = c /\ id[h] # NoId}
FirstRound(c) == Cardinality(Granted(c)) <= IdSpace

\* The two maps of a connection describe the same tunnels: each is filed under
\* its own port and its own id in both, none of another connection is, and a
\* closed connection has none (connection.go: grantTunnel against the deletes
\* of its error paths and of releaseTunnel, against closeAll).  Once an id has
\* been granted twice, a port's tunnel may have lost its place under it.
RegistryAgrees ==
    \A c \in Conns :
        /\ \A p \in Ports : LET h == ports[c][p] IN
               h # None => /\ ~closed[c]
                           /\ ConnOf[h] = c
                           /\ req[h].port = p
                           /\ FirstRound(c) => tunnels[c][id[h]] = h
        /\ \A i \in Ids : LET h == tunnels[c][i] IN
               h # None => /\ id[h] = i
                           /\ ports[c][req[h].port] = h

\* A tunnel whose client was told auth_ok and whose control stream is served is
\* registered and listening until its connection closes: no failed or finished
\* neighbour takes its entries or its listener away (connection.go: the deletes
\* are unconditional).
ServedIsReachable ==
    \A h \in Streams :
        pc[h] = "serve" /\ ~closed[ConnOf[h]] =>
            /\ reply[h] = "auth_ok"
            /\ ln[h] = "open"
            /\ ports[ConnOf[h]][req[h].port] = h
            /\ FirstRound(ConnOf[h]) => tunnels[ConnOf[h]][id[h]] = h

\* closeAll misses nobody: once a connection is closed, each of its tunnels is
\* about to have, or has had, closePublic called on it, and no tunnel can slip
\* in behind the snapshot (connection.go: the closed flag in grantTunnel), as
\* long as no id has been granted twice.
CloseAllMissesNobody ==
    \A h \in Streams :
        closed[ConnOf[h]] /\ Live(h) /\ FirstRound(ConnOf[h]) =>
            h \in all[ConnOf[h]] \/ once[h]

\* Tunnels of one connection never share an id, so a data stream is never
\* taken for another tunnel's, until the connection has granted more tunnels
\* than there are ids: the counter may have wrapped, and 0 been granted too
\* (connection.go: nextID, a uint16 that nothing checks).
IdsDistinct ==
    \A g, h \in Streams :
        /\ g # h
        /\ ConnOf[g] = ConnOf[h]
        /\ id[g] # NoId
        /\ FirstRound(ConnOf[g])
        => id[g] # id[h]

\* A handler that is done has left nothing: its tunnel is in neither map and
\* its listener is closed, unless closeAll had already spent the tunnel's
\* closeOnce (connection.go: the error paths of grantTunnel, releaseTunnel).
NothingLeftBehind ==
    \A h \in Streams :
        pc[h] = "done" =>
            /\ \A p \in Ports : ports[ConnOf[h]][p] # h
            /\ \A i \in Ids : tunnels[ConnOf[h]][i] # h
            /\ ln[h] \in {"none", "closed"} \/ (closed[ConnOf[h]] /\ once[h])

LosesOnlyOwn ==
    \A c \in Conns, p \in Ports :
        LET h == ports[c][p] IN
        h # None /\ ports'[c][p] # h => pc'[h] # pc[h] \/ closed'[c]

\* An entry leaves the registry only by a step of its own tunnel's handler or
\* because the connection closes, though the deletes never look whose entry
\* they remove (connection.go: grantTunnel, releaseTunnel, closeAll).
UnregistersOnlyOwn == [][LosesOnlyOwn]_vars

\* The registry keeps the promise of PortRegistry.
Registry == INSTANCE PortRegistry WITH
                Tunnels <- Streams,
                PortNums <- Ports,
                open <- [c \in Conns |-> ~closed[c]],
                holder <- ports,
                used <- {h \in Streams : id[h] # NoId}

\* connection.go's maps implement PortRegistry: one holder per port, a tunnel
\* registered once, entries given up only by their tunnel, nothing registered
\* after closeAll.
RegistrySpec == Registry!Spec

-----------------------------------------------------------------------------
(* The inductive invariant behind the safety properties *)

\* The listener of a tunnel whose handler will not touch it again.
Settled(h) ==
    \/ ln[h] \in {"none", "closed"}
    \/ ln[h] = "open" /\ once[h] /\ closed[ConnOf[h]]

\* What a handler's place in grantTunnel says of its tunnel.
HandlerOK(h) ==
    /\ pc[h] \in {"none", "auth", "grant"} => id[h] = NoId
    /\ pc[h] = "grant" => req[h] # None
    /\ Live(h) \/ pc[h] = "close" => id[h] # NoId
    /\ id[h] # NoId => req[h] # None
    /\ id[h] = NoId => ln[h] = "none" /\ ~once[h]
    /\ pc[h] = "listen" => ln[h] = "none"
    /\ ln[h] = "bound" <=> pc[h] = "store"
    /\ pc[h] \in {"ack", "serve", "unack", "release", "close"} => ln[h] \in {"open", "closed"}
    /\ ln[h] = "closed" => once[h]
    /\ once[h] /\ ~closed[ConnOf[h]] => pc[h] \in {"undo", "done"}
    /\ pc[h] \in {"undo", "done"} => Settled(h)
    /\ pc[h] = "serve" => reply[h] = "auth_ok"

HandlerInv == \A h \in Streams : HandlerOK(h)

\* A tunnel is registered exactly while it is live in an open connection; one
\* granted after the ids came round may have lost its place to a later one.
RegistryInv ==
    /\ \A h \in Streams :
           Live(h) /\ ~closed[ConnOf[h]] =>
               /\ ports[ConnOf[h]][req[h].port] = h
               /\ FirstRound(ConnOf[h]) => tunnels[ConnOf[h]][id[h]] = h
    /\ \A c \in Conns, p \in Ports, h \in Streams :
           ports[c][p] = h => Live(h) /\ ~closed[c] /\ ConnOf[h] = c /\ req[h].port = p
    /\ \A c \in Conns, i \in Ids, h \in Streams :
           tunnels[c][i] = h => Live(h) /\ ~closed[c] /\ ConnOf[h] = c /\ id[h] = i

ClosingInv ==
    /\ CloseAllMissesNobody
    /\ \A c \in Conns : ~closed[c] => all[c] = {}
    /\ \A c \in Conns, h \in Streams : h \in all[c] => ConnOf[h] = c /\ id[h] # NoId

\* Ids are handed out in order until they come round again.
IdInv ==
    /\ \A c \in Conns : LET n == Cardinality(Granted(c)) IN
           n < IdSpace =>
               /\ nextID[c] = IF n + 1 = IdSpace THEN 0 ELSE n + 1
               /\ \A h \in Granted(c) : id[h] \in 1..n
    /\ IdsDistinct

IInv == TypeOK /\ HandlerInv /\ RegistryInv /\ ClosingInv /\ IdInv

-----------------------------------------------------------------------------
(* Liveness, under FairSpec *)

\* When a session ends, every handler of its control streams ends too, wherever
\* in grantTunnel or serveControl it was (connection.go: handleControl).
SessionEndDrains ==
    \A h \in Streams : ~up[ConnOf[h]] /\ pc[h] # "none" ~> pc[h] = "done"

\* After the context is cancelled every connection is closed and closeAll has
\* been through all its tunnels (connection.go: reaper).
CancelClosesTunnels ==
    \A c \in Conns : ctx /\ run[c] = "accepting" ~> closed[c] /\ all[c] = {}

\* Once the context is cancelled and every client has left, Server.Run returns:
\* no goroutine of a connection keeps wg.Wait waiting (server.go: Run).
RunReturnsOnceAlone ==
    <>[](ctx /\ \A c \in Conns : ~up[c]) => <>(srv = "returned")

-----------------------------------------------------------------------------
(* What comments in the code say and the code does not do *)

\* connection.go says of releaseTunnel that it "closes its public listener",
\* and of closeAll that it "terminates every tunnel": when a handler is done
\* its public port is free again.
NoOrphanListener ==
    \A h \in Streams : pc[h] = "done" => ln[h] \in {"none", "closed"}

\* connection.go files tunnels "by tunnel ID": without the proviso of
\* IdsDistinct, two tunnels of a connection never have the same id.
IdsAlwaysDistinct ==
    \A g, h \in Streams :
        g # h /\ ConnOf[g] = ConnOf[h] /\ id[g] # NoId => id[g] # id[h]

\* server.go: "Run blocks until ctx is canceled or the listener fails".
CancelEndsRun == ctx ~> srv = "returned"
=============================================================================
