------------------------------ MODULE VpnClient ------------------------------
(***************************************************************************)
(* tunelc --vpn: RunVPN's loop, runOnceVPN and the goroutines it starts    *)
(* (src/internal/client/vpn.go) and the registry of peers (client.go),     *)
(* with the peer-to-peer manager of each session (PeerManager).            *)
(*                                                                         *)
(* Goroutines: RunVPN; per session the two packet pumps and the reader of  *)
(* the control stream.  Nobody waits for the three when runOnceVPN         *)
(* returns: they end because what they block on has been closed, and may   *)
(* still run when the next session begins.  The server is what it may      *)
(* send: an answer to Auth, then room_members and peer_join frames, whose  *)
(* lines may be mixed so that one is no frame.  It never sends peer_leave  *)
(* (see VpnHub).                                                           *)
(*                                                                         *)
(* How long RunVPN waits between sessions is backoff, in TunnelClient.     *)
(***************************************************************************)
EXTENDS PeerManager

CONSTANTS
    MaxAttempts,  \* Config.MaxAttempts; 0 is "for ever"
    MaxDials,     \* bound: attempts a run ever makes
    MaxSignals    \* bound: signalling frames of a session

ASSUME VpnClientAssumption ==
    /\ MaxAttempts \in Nat
    /\ MaxDials \in Nat
    /\ MaxSignals \in Nat

VARIABLES
    ctx,       \* RunVPN's context is not cancelled
    main,      \* where RunVPN is, or runOnceVPN inside it
    attempt,   \* RunVPN's counter
    err,       \* what runOnceVPN returned
    sess,      \* the latest session, 0 before the first
    link,      \* link[s]: the yamux session, as the client sees it
    dev,       \* dev[s]: the TUN device
    mgr,       \* Client.p2pMgr: the session that made it, 0 for nil; never nil again
    out,       \* out[s]: tunToStream, "packet" when it has one of the device's
    in,        \* in[s]: streamToTun
    result,    \* what was first put in the errCh of the session that is served
    reader,    \* reader[s]: vpnControlReader
    frames,    \* frames[s]: signalling frames after auth_ok, unread; each a set of peers
    announced, \* history: peers named in frames
    known,     \* Client.p2pPeers: addresses
    keyed,     \* those whose Ed25519 key is known
    dialled    \* peers for which Dial has got beyond its first test

runVars == <<ctx, main, attempt, err, sess>>
pumpVars == <<out, in, result>>
signalVars == <<reader, frames, announced, known, keyed, dialled>>
vars == <<runVars, link, dev, mgr, pumpVars, signalVars, managerVars>>

Garbage == {}      \* a line that is no frame

VpnTypeOK ==
    /\ ManagerTypeOK
    /\ ctx \in BOOLEAN
    /\ main \in {"between", "dialing", "auth", "granted", "device", "configure", "serving",
                 "judge", "waiting", "stopped", "rejected", "gaveup"}
    /\ attempt \in 0..MaxDials
    /\ err \in {"nil", "lost", "rejected"}
    /\ sess \in 0..MaxSessions
    /\ link \in [Sessions -> {"none", "up", "down"}]
    /\ dev \in [Sessions -> {"none", "open", "closed"}]
    /\ mgr \in 0..MaxSessions
    /\ out \in [Sessions -> {"none", "run", "packet", "done"}]
    /\ in \in [Sessions -> {"none", "run", "done"}]
    /\ result \in {"none", "nil", "lost"}
    /\ reader \in [Sessions -> {"none", "run", "done"}]
    /\ frames \in [Sessions -> Seq(SUBSET Peers)]
    /\ announced \subseteq Peers
    /\ known \subseteq Peers
    /\ keyed \subseteq known
    /\ dialled \subseteq Peers

Init ==
    /\ ManagerInit
    /\ ctx = TRUE /\ main = "between" /\ attempt = 0 /\ err = "nil" /\ sess = 0
    /\ link = [s \in Sessions |-> "none"]
    /\ dev = [s \in Sessions |-> "none"]
    /\ mgr = 0
    /\ out = [s \in Sessions |-> "none"]
    /\ in = [s \in Sessions |-> "none"]
    /\ result = "none"
    /\ reader = [s \in Sessions |-> "none"]
    /\ frames = [s \in Sessions |-> <<>>]
    /\ announced = {}
    /\ known = {} /\ keyed = {} /\ dialled = {}

-----------------------------------------------------------------------------
(* The user, the network, the server *)

Cancel ==
    /\ ctx
    /\ ctx' = FALSE
    /\ UNCHANGED <<main, attempt, err, sess, link, dev, mgr, pumpVars, signalVars, managerVars>>

LinkDies(s) ==
    /\ link[s] = "up"
    /\ link' = [link EXCEPT ![s] = "down"]
    /\ UNCHANGED <<runVars, dev, mgr, pumpVars, signalVars, managerVars>>

\* room_members or peer_join follows auth_ok, which may itself be unread.  Each
\* frame names somebody new: a bound.
Announce(s, ps) ==
    /\ link[s] = "up"
    /\ Len(frames[s]) < MaxSignals
    /\ ps = Garbage \/ ~(ps \subseteq announced)
    /\ frames' = [frames EXCEPT ![s] = Append(@, ps)]
    /\ announced' = announced \union ps
    /\ UNCHANGED <<runVars, link, dev, mgr, pumpVars, reader, known, keyed, dialled, managerVars>>

-----------------------------------------------------------------------------
(* runOnceVPN: the way in *)

StartAttempt ==
    /\ main = "between" /\ ctx
    /\ attempt < MaxDials
    /\ main' = "dialing"
    /\ attempt' = attempt + 1
    /\ UNCHANGED <<ctx, err, sess, link, dev, mgr, pumpVars, signalVars, managerVars>>

StopBetweenSessions ==
    /\ main = "between" /\ ~ctx
    /\ main' = "stopped"
    /\ UNCHANGED <<ctx, attempt, err, sess, link, dev, mgr, pumpVars, signalVars, managerVars>>

DialFails ==
    /\ main = "dialing"
    /\ main' = "judge" /\ err' = "lost"
    /\ UNCHANGED <<ctx, attempt, sess, link, dev, mgr, pumpVars, signalVars, managerVars>>

\* dial, yamux.Client, the control stream, and Auth on it.
Dial ==
    /\ main = "dialing"
    /\ sess < MaxSessions
    /\ main' = "auth"
    /\ sess' = sess + 1
    /\ link' = [link EXCEPT ![sess + 1] = "up"]
    /\ UNCHANGED <<ctx, attempt, err, dev, mgr, pumpVars, signalVars, managerVars>>

\* Variant: the device is left to the operating system.
LeaveKeepingDevice(e) ==
    /\ main' = "judge"
    /\ err' = e
    /\ link' = [link EXCEPT ![sess] = "down"]
    /\ StopManager(sess)
    /\ result' = "none"
    /\ UNCHANGED <<ctx, attempt, sess, dev, mgr, out, in, signalVars>>

\* runOnceVPN returns e, after its deferred calls: p2pMgr.Stop, dev.Close,
\* control.Close, ymx.Close, conn.Close, as far as they were reached.
Leave(e) ==
    /\ main' = "judge"
    /\ err' = e
    /\ link' = [link EXCEPT ![sess] = "down"]
    /\ dev' = [dev EXCEPT ![sess] = IF @ = "open" THEN "closed" ELSE @]
    /\ StopManager(sess)
    /\ result' = "none"
    /\ UNCHANGED <<ctx, attempt, sess, mgr, out, in, signalVars>>

\* What is left for vpnControlReader's own decoder: the first one may have
\* buffered some frames, and a part of the next.
Remainder(fs) ==
    {SubSeq(fs, k, Len(fs)) : k \in 1..(Len(fs) + 1)} \union
    {<<Garbage>> \o SubSeq(fs, k + 1, Len(fs)) : k \in 1..Len(fs)}

ReadAuthOK ==
    /\ main = "auth" /\ link[sess] = "up"
    /\ main' = "granted"
    /\ \E rest \in Remainder(frames[sess]) : frames' = [frames EXCEPT ![sess] = rest]
    /\ UNCHANGED <<ctx, attempt, err, sess, link, dev, mgr, pumpVars,
                   reader, announced, known, keyed, dialled, managerVars>>

Rejected ==
    /\ main = "auth" /\ link[sess] = "up"
    /\ frames[sess] = <<>>
    /\ Leave("rejected")

\* The packet stream and its magic byte.
OpenPackets ==
    /\ main = "granted" /\ link[sess] = "up"
    /\ main' = "device"
    /\ UNCHANGED <<ctx, attempt, err, sess, link, dev, mgr, pumpVars, signalVars, managerVars>>

OpenTUN ==
    /\ main = "device"
    /\ main' = "configure"
    /\ dev' = [dev EXCEPT ![sess] = "open"]
    /\ UNCHANGED <<ctx, attempt, err, sess, link, mgr, pumpVars, signalVars, managerVars>>

\* A step of the way in fails: the session or the stream is gone, the answer is
\* of no use, or the operating system refuses the device or its address.
SetupFails ==
    /\ main \in {"auth", "granted", "device", "configure"}
    /\ Leave("lost")

\* If there is a key to start a manager with; Client.p2pMgr stays what it was if
\* there is none, and when Start fails.
HasManager ==
    \/ mgr' = sess /\ StartManager(sess)
    \/ UNCHANGED <<mgr, managerVars>>

\* configureTUN has worked: connected.  The goroutines start.
Serve ==
    /\ main = "configure"
    /\ main' = "serving"
    /\ HasManager
    /\ reader' = [reader EXCEPT ![sess] = "run"]
    /\ out' = [out EXCEPT ![sess] = "run"]
    /\ in' = [in EXCEPT ![sess] = "run"]
    /\ UNCHANGED <<ctx, attempt, err, sess, link, dev, result, frames, announced, known,
                   keyed, dialled>>

-----------------------------------------------------------------------------
(* The pumps, and the way out *)

\* errCh <- e, of which runOnceVPN, as long as it is there, receives the first.
Report(s, e) ==
    result' = IF main = "serving" /\ s = sess /\ result = "none" THEN e ELSE result

OutReads(s) ==
    /\ out[s] = "run" /\ dev[s] = "open"
    /\ out' = [out EXCEPT ![s] = "packet"]
    /\ UNCHANGED <<runVars, link, dev, mgr, in, result, signalVars, managerVars>>

\* Client.p2pMgr, which may by now be another session's than s, is asked first.
OutFinds(s) ==
    /\ out[s] = "packet"
    /\ \E a \in Peers : mgr # 0 /\ RouteFinds(s, mgr, a)
    /\ UNCHANGED <<runVars, link, dev, mgr, pumpVars, signalVars>>

\* The packet has gone to its destination, or else to the server, whether or not
\* a call was tried before.
OutSends(s) ==
    /\ out[s] = "packet"
    /\ \/ RouteWrites(s) \/ RouteFails(s)
       \/ route[s] = NoRoute /\ UNCHANGED managerVars
    /\ out' = [out EXCEPT ![s] = "run"]
    /\ UNCHANGED <<runVars, link, dev, mgr, in, result, signalVars>>

\* tunToStream: an error of the device ends it with nil, whatever it is; one of
\* the stream, which the server may reset, is an error.
OutEnds(s) ==
    /\ out[s] \in {"run", "packet"} /\ route[s] = NoRoute
    /\ \E e \in {"nil", "lost"} : Report(s, e)
    /\ out' = [out EXCEPT ![s] = "done"]
    /\ UNCHANGED <<runVars, link, dev, mgr, in, signalVars, managerVars>>

\* streamToTun: io.EOF is nil, be it a dead session or a server that has closed
\* the packet stream; a reset and a device that takes no packet are errors.
InEnds(s) ==
    /\ in[s] = "run"
    /\ \E e \in {"nil", "lost"} : Report(s, e)
    /\ in' = [in EXCEPT ![s] = "done"]
    /\ UNCHANGED <<runVars, link, dev, mgr, out, signalVars, managerVars>>

\* Variant: only a pump ends the session.
StopServingByPump ==
    /\ main = "serving"
    /\ result # "none"
    /\ Leave(IF ctx THEN result ELSE "nil")

\* The select at the end of runOnceVPN.
StopServing ==
    /\ main = "serving"
    /\ \/ result # "none" /\ Leave(IF ctx THEN result ELSE "nil")
       \/ ~ctx /\ Leave("nil")

-----------------------------------------------------------------------------
(* RunVPN: what comes after *)

GivesUp == MaxAttempts > 0 /\ attempt >= MaxAttempts

Outcome ==
    CASE err = "nil" \/ ~ctx -> "stopped"
      [] ctx /\ err = "rejected" -> "rejected"
      [] ctx /\ err = "lost" -> IF GivesUp THEN "gaveup" ELSE "waiting"

Judge ==
    /\ main = "judge"
    /\ main' = Outcome
    /\ UNCHANGED <<ctx, attempt, err, sess, link, dev, mgr, pumpVars, signalVars, managerVars>>

WaitOver ==
    /\ main = "waiting"
    /\ main' \in (IF ctx THEN {"between"} ELSE {"between", "stopped"})
    /\ UNCHANGED <<ctx, attempt, err, sess, link, dev, mgr, pumpVars, signalVars, managerVars>>

-----------------------------------------------------------------------------
(* vpnControlReader, storePeer, connectPeer, p2pManager.Dial *)

\* storePeer copies address, curve25519 key and endpoint.
StorePeers(ps) ==
    /\ known' = known \union ps
    /\ keyed' = keyed \ ps

\* peerFingerprint finds one if there is an Ed25519 key.
WithKey(ps) == ps \intersect keyed'

\* connectPeer, Dial: "not registered" without a fingerprint.
DialPeers(ps) == dialled' = dialled \union (IF mgr = 0 THEN {} ELSE WithKey(ps))

\* A frame is read, from a session that may be over.
ReadSignal(s) ==
    /\ reader[s] = "run"
    /\ frames[s] # <<>> /\ Head(frames[s]) # Garbage
    /\ StorePeers(Head(frames[s]))
    /\ DialPeers(Head(frames[s]))
    /\ frames' = [frames EXCEPT ![s] = Tail(@)]
    /\ UNCHANGED <<runVars, link, dev, mgr, pumpVars, reader, announced, managerVars>>

\* Variant: an error of the stream is passed over.
ReaderEndsWhenTold(s) ==
    /\ reader[s] = "run"
    /\ ~ctx
    /\ reader' = [reader EXCEPT ![s] = "done"]
    /\ frames' = [frames EXCEPT ![s] = <<>>]
    /\ UNCHANGED <<runVars, link, dev, mgr, pumpVars, announced, known, keyed, dialled, managerVars>>

\* The stream ends, or what is read is no frame, or the context is seen to be
\* cancelled; what has not been read never will be.
ReaderEnds(s) ==
    /\ reader[s] = "run"
    /\ \/ link[s] = "down" \/ ~ctx
       \/ frames[s] # <<>> /\ Head(frames[s]) = Garbage
    /\ reader' = [reader EXCEPT ![s] = "done"]
    /\ frames' = [frames EXCEPT ![s] = <<>>]
    /\ UNCHANGED <<runVars, link, dev, mgr, pumpVars, announced, known, keyed, dialled, managerVars>>

-----------------------------------------------------------------------------

RunStep ==
    \/ StartAttempt \/ StopBetweenSessions \/ DialFails \/ Dial
    \/ ReadAuthOK \/ Rejected \/ OpenPackets \/ OpenTUN \/ SetupFails \/ Serve
    \/ StopServing \/ Judge \/ WaitOver

\* Calls, the reaper, and what they do to the managers of sessions.
OthersStep == ManagerStep /\ UNCHANGED <<runVars, link, dev, mgr, pumpVars, signalVars>>

Next ==
    \/ Cancel \/ RunStep \/ OthersStep
    \/ \E s \in Sessions :
           \/ LinkDies(s) \/ OutReads(s) \/ OutFinds(s) \/ OutSends(s) \/ OutEnds(s) \/ InEnds(s)
           \/ ReadSignal(s) \/ ReaderEnds(s)
           \/ \E ps \in SUBSET Peers : Announce(s, ps)

Spec == Init /\ [][Next]_vars

\* Waiting for the answer to Auth, with neither a deadline nor a look at the context.
Asking == main = "auth" /\ link[sess] = "up"

\* The pump of s writes to the call on file at a manager that still reaps.
ReapsWriter(s, m, a) == route[s] # NoRoute /\ route[s] = <<m, a, conns[m][a]>> /\ Reap(m, a)

(***************************************************************************)
(* Fairness: RunVPN runs, and dialling and the commands that set the       *)
(* device up come to an end; nothing is assumed of the server, which may   *)
(* let the client wait for its answer as long as the session lives.  A     *)
(* pump and the reader end when what they read from has been closed, and a *)
(* write to a call that is closed fails.  A caller who does not read may   *)
(* hold up a write, but then nothing is sent to him, and the reaper closes *)
(* the call.  Nobody has to cancel or to send.                             *)
(***************************************************************************)
Fairness ==
    /\ WF_vars(~Asking /\ RunStep)
    /\ \A s \in Sessions :
           /\ WF_vars(dev[s] = "closed" /\ OutEnds(s))
           /\ WF_vars(OutSends(s) /\ RouteFails(s))
           /\ WF_vars(OthersStep /\ \E m \in Sessions, a \in Peers : ReapsWriter(s, m, a))
           /\ WF_vars(link[s] = "down" /\ InEnds(s))
           /\ WF_vars(link[s] = "down" /\ (ReadSignal(s) \/ ReaderEnds(s)))

FairSpec == Spec /\ Fairness

-----------------------------------------------------------------------------
(* Safety *)

\* There is one TUN device and one QUIC listener at a time, the present
\* session's, whatever step of the way in has failed and however many sessions
\* came before (vpn.go: runOnceVPN's deferred calls).
OneDevice ==
    \A s \in Sessions :
        dev[s] = "open" \/ listener[s] = "open" =>
            s = sess /\ main \in {"configure", "serving"}

\* Where RunVPN's caller sees it.
Phase ==
    CASE main \in {"between", "waiting"} -> "idle"
      [] main \in {"dialing", "auth", "granted", "device", "configure"} -> "trying"
      [] main = "serving" -> "connected"
      [] main = "judge" /\ err = "nil" -> "ended"
      [] main = "judge" /\ err = "rejected" -> "refused"
      [] main = "judge" /\ err = "lost" -> "failed"
      [] OTHER -> "over"

Loop == INSTANCE ReconnectLoop WITH
            QuietEnd <- TRUE, cancelled <- ~ctx, phase <- Phase, tries <- attempt

\* RunVPN implements ReconnectLoop, though what ends a session is an error of
\* three goroutines that outlive it (vpn.go: RunVPN, runOnceVPN).
LoopSpec == Loop!Spec

-----------------------------------------------------------------------------
(* Liveness, under FairSpec *)

\* runOnceVPN waits for none of its goroutines, but all three end after it, though
\* one may be writing to whoever has called, unless its write waits for ever for
\* a caller that was let in when the manager had been stopped (vpn.go: runOnceVPN,
\* tunToStream, streamToTun, vpnControlReader; quic.go: Stop, Route, reapLoop).
NothingRunsOn ==
    \A s \in Sessions :
        []<>~WritesToLate(s) =>
            (sess >= s /\ (main \in {"judge", "waiting", "between", "stopped"} \/ sess > s)
                ~> {out[s], in[s], reader[s]} \subseteq {"none", "done"})

\* A cancelled RunVPN returns, wherever it was, unless the server lets it wait for
\* the answer to Auth for ever (vpn.go: RunVPN, though only its own waits and the
\* last select look at the context).
CancelEndsVpn == []<>~Asking => (~ctx ~> main \in {"stopped", "rejected", "gaveup"})

-----------------------------------------------------------------------------
(* What comments and the documentation say and the code does not do *)

\* vpn.go: RunVPN is "the outer reconnection loop for VPN mode": it stops when
\* it is told to.
LossIsRetried == main = "stopped" => ~ctx

\* protocol.go: room_members "lists every other peer": whoever the server has
\* named is known once all frames have been read.
MembersAreHeard ==
    main = "serving" /\ reader[sess] = "run" /\ (\A s \in Sessions : frames[s] = <<>>)
        => announced \subseteq known

\* client.go: "Run blocks until ctx is canceled", and vpn.go: RunVPN is "equivalent
\* to Run()".
CancelAlwaysEnds == ~ctx ~> main \in {"stopped", "rejected", "gaveup"}

\* vpn.go: "closing the device cancels the pump".
CloseEndsPump == \A s \in Sessions : dev[s] = "closed" ~> out[s] \in {"none", "done"}
=============================================================================
