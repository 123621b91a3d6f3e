---------------------------- MODULE TunnelClient ----------------------------
(***************************************************************************)
(* tunelc without -vpn: Client.Run's reconnect loop, runOnce, the          *)
(* goroutines of setupTunnel and serveData (src/internal/client/client.go).*)
(*                                                                         *)
(* The server is outside: a dial succeeds or not, an Auth that was sent    *)
(* may be answered, and a session may die at any time.  TunnelSystem puts  *)
(* this client in front of TunnelServer.                                   *)
(*                                                                         *)
(* runOnce defers conn.Close and ymx.Close and Run looks at the outcome    *)
(* right after, in the same goroutine; what others can see between the two *)
(* is only that the session is over, so the end of runOnce is one action   *)
(* (main becomes "failed", or "stopped" when runOnce returned nil).        *)
(*                                                                         *)
(* controlPings has no action: when the stream fails it returns an error   *)
(* that setupTunnel drops, and nothing else of the client depends on it.   *)
(***************************************************************************)
EXTENDS Integers

CONSTANTS
    Specs,        \* the TunnelSpecs of Config.Tunnels
    MaxSessions,  \* bound: dials that succeed
    MaxAttempts,  \* Config.MaxAttempts, 0 for no limit
    MaxDials,     \* bound: attempts counted when MaxAttempts sets no limit
    TunnelIds,    \* ids a server may grant
    Nobody        \* no tunnel

ASSUME ClientAssumption ==
    /\ MaxSessions \in Nat /\ MaxAttempts \in Nat /\ MaxDials \in Nat
    /\ Nobody \notin Specs

Sessions == 1..MaxSessions

\* The control streams of all sessions: setupTunnel opens one per tunnel.
Controls == Sessions \X Specs

VARIABLES
    cctx,     \* the context given to Client.Run has been cancelled
    main,     \* where Run is
    attempt,  \* Run's attempt counter
    wait,     \* the last backoff in seconds; 0: the timer fires at once
    err,      \* the error runOnce returned
    sess,     \* the last session, 0 before the first
    link,     \* link[s]: the client's end of the yamux session s
    cs,       \* cs[<<s, t>>]: setupTunnel for tunnel t in session s
    first,    \* the first error sent to tunnelErrCh in this session
    tuns      \* tuns[i]: session.tuns of the last session

clientVars == <<cctx, main, attempt, wait, err, sess, link, cs, first, tuns>>

Errors == {"none", "io", "auth", "lost"}

ClientTypeOK ==
    /\ cctx \in BOOLEAN
    /\ main \in {"start", "dial", "setup", "serving", "failed", "waiting",
                 "stopped", "rejected", "gaveup"}
    /\ attempt \in Nat
    /\ wait \in 0..30
    /\ err \in Errors
    /\ sess \in 0..MaxSessions
    /\ link \in [Sessions -> {"none", "up", "down"}]
    /\ cs \in [Controls -> {"none", "unopened", "opened", "unsent", "sent", "unread",
                            "rejected", "ok"}]
    /\ first \in Errors
    /\ tuns \in [TunnelIds -> Specs \union {Nobody}]

ClientInit ==
    /\ cctx = FALSE
    /\ main = "start"
    /\ attempt = 0
    /\ wait = 0
    /\ err = "none"
    /\ sess = 0
    /\ link = [s \in Sessions |-> "none"]
    /\ cs = [h \in Controls |-> "none"]
    /\ first = "none"
    /\ tuns = [i \in TunnelIds |-> Nobody]

-----------------------------------------------------------------------------
(* backoff *)

\* The binary digits of 5^9: time.Second is 2^9 * 5^9 nanoseconds.
FiveToTheNinth == {0, 2, 5, 6, 8, 10, 11, 14, 15, 16, 18, 19, 20}

\* The digits of 2^(n-1) seconds in nanoseconds that an int64 keeps; 63 is
\* the sign.  What is left above 2^44 ns exceeds 30 s.
Kept(n) == {b + n + 8 : b \in FiveToTheNinth} \intersect 0..63

\* Variant: nothing caps the power.
BackoffUncapped(n) ==
    IF Kept(n) = {} \/ 63 \in Kept(n) THEN 0 ELSE 2^(n - 1)

\* backoff(n): without digits or with a sign the timer fires at once.
Backoff(n) ==
    IF Kept(n) = {} \/ 63 \in Kept(n) THEN 0
    ELSE IF n <= 5 THEN 2^(n - 1)
    ELSE 30

-----------------------------------------------------------------------------
(* Run and runOnce *)

CancelClient ==
    /\ ~cctx
    /\ cctx' = TRUE
    /\ UNCHANGED <<main, attempt, wait, err, sess, link, cs, first, tuns>>

\* The head of Run's loop.
StartAttempt ==
    /\ main = "start"
    /\ ~cctx
    /\ MaxAttempts = 0 => attempt < MaxDials
    /\ main' = "dial"
    /\ attempt' = attempt + 1
    /\ UNCHANGED <<cctx, wait, err, sess, link, cs, first, tuns>>

\* ctx.Err() at the head of the loop, or ctx.Done() in the select that waits.
StopBetweenSessions ==
    /\ main \in {"start", "waiting"}
    /\ cctx
    /\ main' = "stopped"
    /\ UNCHANGED <<cctx, attempt, wait, err, sess, link, cs, first, tuns>>

DialFails ==
    /\ main = "dial"
    /\ main' = "failed"
    /\ err' = "io"
    /\ UNCHANGED <<cctx, attempt, wait, sess, link, cs, first, tuns>>

\* A new session; one setupTunnel goroutine per tunnel.
Dial ==
    /\ main = "dial"
    /\ sess < MaxSessions
    /\ main' = "setup"
    /\ sess' = sess + 1
    /\ link' = [link EXCEPT ![sess + 1] = "up"]
    /\ first' = "none"
    /\ tuns' = [i \in TunnelIds |-> Nobody]
    /\ UNCHANGED <<cctx, attempt, wait, err, cs>>

\* The client learns that its session is over: a keep-alive or a write timed
\* out, or the server closed it.
LinkDies(s) ==
    /\ link[s] = "up"
    /\ link' = [link EXCEPT ![s] = "down"]
    /\ UNCHANGED <<cctx, main, attempt, wait, err, sess, cs, first, tuns>>

\* Variant: runOnce does not close the session.
LeaveSessionOpen == UNCHANGED link

\* The deferred closes of runOnce.
LeaveSession == link' = [link EXCEPT ![sess] = "down"]

SetupOver == \A t \in Specs : cs[<<sess, t>>] \in {"unopened", "unsent", "unread", "rejected", "ok"}

\* Variant: runOnce does not wait for all of setupTunnel.
ServeOnFirst ==
    /\ main = "setup"
    /\ \E t \in Specs : cs[<<sess, t>>] = "ok"
    /\ first = "none"
    /\ main' = "serving"
    /\ UNCHANGED <<cctx, attempt, wait, err, sess, link, cs, first, tuns>>

\* After wg.Wait no goroutine has sent an error: StateConnected.
Serve ==
    /\ main = "setup"
    /\ SetupOver
    /\ first = "none"
    /\ main' = "serving"
    /\ UNCHANGED <<cctx, attempt, wait, err, sess, link, cs, first, tuns>>

\* runOnce returns the error that was sent first.
SetupFails ==
    /\ main = "setup"
    /\ SetupOver
    /\ first # "none"
    /\ main' = "failed"
    /\ err' = first
    /\ LeaveSession
    /\ UNCHANGED <<cctx, attempt, wait, sess, cs, first, tuns>>

\* serveData's Accept fails.  Once the context is done runOnce returns nil.
SessionLost ==
    /\ main = "serving"
    /\ link[sess] = "down"
    /\ ~cctx
    /\ main' = "failed"
    /\ err' = "lost"
    /\ LeaveSession
    /\ UNCHANGED <<cctx, attempt, wait, sess, cs, first, tuns>>

\* Variant: serving, runOnce does not look at the context.
StopServingWhenLost ==
    /\ main = "serving"
    /\ cctx
    /\ link[sess] = "down"
    /\ main' = "stopped"
    /\ UNCHANGED <<cctx, attempt, wait, err, sess, link, cs, first, tuns>>

\* ctx.Done() in runOnce's last select: runOnce returns nil, and so does Run.
StopServing ==
    /\ main = "serving"
    /\ cctx
    /\ main' = "stopped"
    /\ LeaveSession
    /\ UNCHANGED <<cctx, attempt, wait, err, sess, cs, first, tuns>>

\* Variant: an explicit rejection is retried like any other error.
OutcomeRetryingRejection ==
    IF cctx THEN "stopped"
    ELSE IF MaxAttempts > 0 /\ attempt >= MaxAttempts THEN "gaveup"
    ELSE "waiting"

\* What Run makes of an error, in the order of its tests.
Outcome ==
    CASE cctx -> "stopped"
      [] ~cctx /\ err = "auth" -> "rejected"
      [] ~cctx /\ err # "auth" /\ MaxAttempts > 0 /\ attempt >= MaxAttempts -> "gaveup"
      [] OTHER -> "waiting"

Judge ==
    /\ main = "failed"
    /\ main' = Outcome
    /\ wait' = IF Outcome = "waiting" THEN Backoff(attempt) ELSE wait
    /\ UNCHANGED <<cctx, attempt, err, sess, link, cs, first, tuns>>

\* time.After(backoff).
WaitOver ==
    /\ main = "waiting"
    /\ main' = "start"
    /\ UNCHANGED <<cctx, attempt, wait, err, sess, link, cs, first, tuns>>

-----------------------------------------------------------------------------
(* setupTunnel, for tunnel t of the current session *)

SendError(e) == first' = IF first = "none" THEN e ELSE first

Setup(t, from, to) ==
    /\ main = "setup"
    /\ cs[<<sess, t>>] = from
    /\ cs' = [cs EXCEPT ![<<sess, t>>] = to]
    /\ UNCHANGED <<cctx, main, attempt, wait, err, sess, link>>

OpenControl(t) ==
    /\ Setup(t, "none", "opened")
    /\ link[sess] = "up"
    /\ UNCHANGED <<first, tuns>>

SendAuth(t) ==
    /\ Setup(t, "opened", "sent")
    /\ link[sess] = "up"
    /\ UNCHANGED <<first, tuns>>

\* ymx.Open, Encode (which is followed by control.Close) or ReadEnvelope fails:
\* the session has died, or yamux timed out.
SetupError(t) ==
    /\ \/ Setup(t, "none", "unopened")
       \/ Setup(t, "opened", "unsent")
       \/ Setup(t, "sent", "unread")
    /\ SendError("io")
    /\ UNCHANGED tuns

\* Variant: the control stream is closed when setupTunnel returns.
GrantedThenClosed(t, i) ==
    /\ Setup(t, "sent", "rejected")
    /\ tuns' = [tuns EXCEPT ![i] = t]
    /\ UNCHANGED first

\* auth_ok with tunnel id i.  The stream stays open for the server's sake.
Granted(t, i) ==
    /\ Setup(t, "sent", "ok")
    /\ tuns' = [tuns EXCEPT ![i] = t]
    /\ UNCHANGED first

\* auth_err: the stream is closed.
Rejected(t) ==
    /\ Setup(t, "sent", "rejected")
    /\ SendError("auth")
    /\ UNCHANGED tuns

\* Variant: serveData runs beside setupTunnel.
AcceptsEarly == main \in {"setup", "serving"} /\ link[sess] = "up"

\* serveData takes data streams.
AcceptsData == main = "serving" /\ link[sess] = "up"

-----------------------------------------------------------------------------

RunStep ==
    \/ StartAttempt \/ StopBetweenSessions \/ DialFails \/ Dial
    \/ Serve \/ SetupFails \/ SessionLost \/ StopServing \/ Judge \/ WaitOver

\* A server that grants each tunnel of a session an id of its own.
ClientNext ==
    \/ CancelClient
    \/ RunStep
    \/ \E s \in Sessions : LinkDies(s)
    \/ \E t \in Specs : OpenControl(t) \/ SendAuth(t) \/ SetupError(t) \/ Rejected(t)
    \/ \E t \in Specs, i \in TunnelIds : tuns[i] = Nobody /\ Granted(t, i)

ClientSpec == ClientInit /\ [][ClientNext]_clientVars

Over == main \in {"stopped", "rejected", "gaveup"}

-----------------------------------------------------------------------------
(* Safety *)

\* A session never outlives its runOnce: between attempts and when Run has
\* returned the client has no session open, and never two (client.go: the
\* deferred closes, whichever way runOnce ends).
SessionsAreClosed ==
    \A s \in Sessions :
        link[s] = "up" => s = sess /\ main \in {"setup", "serving"}

\* The client calls itself connected only when every tunnel of its
\* configuration was granted in this very session, each under an id by which
\* data streams find it (client.go: runOnce, setupTunnel).
ConnectedMeansGranted ==
    main = "serving" =>
        \A t \in Specs : cs[<<sess, t>>] = "ok" /\ \E i \in TunnelIds : tuns[i] = t

\* A tunnel the server has explicitly rejected is never asked for again: no
\* attempt follows a rejection that Run was told of (client.go: isAuthErr).
RejectionIsFinal ==
    [][err = "auth" => UNCHANGED <<attempt, sess>>]_clientVars

\* Between its first 34 attempts, at least a quarter of an hour, Run always waits,
\* and for 30 seconds at most; only later does the power overflow (client.go:
\* backoff, Run).
WaitsWhileExact == main = "waiting" /\ attempt <= 34 => wait \in 1..30

\* Where Run's caller sees it.
Phase ==
    CASE main \in {"start", "waiting"} -> "idle"
      [] main \in {"dial", "setup"} -> "trying"
      [] main = "serving" -> "connected"
      [] main = "failed" /\ err = "auth" -> "refused"
      [] main = "failed" /\ err # "auth" -> "failed"
      [] OTHER -> "over"

Loop == INSTANCE ReconnectLoop WITH
            QuietEnd <- FALSE, cancelled <- cctx, phase <- Phase, tries <- attempt

\* Run implements ReconnectLoop, whatever its goroutines, its sessions and the
\* server do: it tries no more often than it was told, not after a refusal and not
\* once it is cancelled, and gives up for no other reason (client.go: Run).
LoopSpec == Loop!Spec

-----------------------------------------------------------------------------
(* The inductive invariant *)

\* The loop's counters point where it is.
LoopInv ==
    /\ main \in {"setup", "serving"} => sess \in Sessions
    /\ main \in {"dial", "setup", "serving", "failed"} => attempt >= 1
    /\ err = "auth" => main \in {"failed", "rejected", "stopped"}

\* Control streams to come are untouched; a granted tunnel has its id; and a
\* tunnel that failed in this session has left an error for runOnce.
SetupInv ==
    /\ \A s \in Sessions, t \in Specs : s > sess => cs[<<s, t>>] = "none"
    /\ main \in {"setup", "serving"} =>
           \A t \in Specs : cs[<<sess, t>>] = "ok" => \E i \in TunnelIds : tuns[i] = t
    /\ main = "setup" /\ first = "none" =>
           \A t \in Specs : cs[<<sess, t>>] \notin {"unopened", "unsent", "unread", "rejected"}

\* Everything a client step relies on and preserves: the basis of the proofs
\* (client.go: runOnce, setupTunnel).
ClientInv ==
    ClientTypeOK /\ LoopInv /\ SetupInv /\ SessionsAreClosed /\ ConnectedMeansGranted

-----------------------------------------------------------------------------
(* What comments in the code say and the code does not do *)

\* client.go: "an exponential backoff (in seconds) capped at 30s".
WaitsBeforeRetry == main = "waiting" => wait \in 1..30

\* README.md: "si el tunel cae, tunelc reintenta": a session that worked and
\* was lost is followed by another attempt.
DropIsRetried ==
    [][main = "failed" /\ err = "lost" => main' # "gaveup"]_clientVars
=============================================================================
