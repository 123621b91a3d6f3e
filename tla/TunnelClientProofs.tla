------------------------- MODULE TunnelClientProofs -------------------------
(***************************************************************************)
(* Proofs about TunnelClient, for any configuration of tunnels, any number *)
(* of sessions and attempts, and any set of ids a server may grant.        *)
(***************************************************************************)
EXTENDS TunnelClient, TLAPS

-----------------------------------------------------------------------------
(* The backoff *)

LEMMA PowersOfTwo ==
    ASSUME NEW n \in 1..5
    PROVE  2^(n - 1) \in 0..30
<1>1. n - 1 = 0 \/ n - 1 = 1 \/ n - 1 = 2 \/ n - 1 = 3 \/ n - 1 = 4
  OBVIOUS
<1>2. 2^0 = 1 /\ 2^1 = 2 /\ 2^2 = 4 /\ 2^3 = 8 /\ 2^4 = 16
  OBVIOUS
<1>3. 2^(n - 1) \in {1, 2, 4, 8, 16}
  BY <1>1, <1>2
<1>4. {1, 2, 4, 8, 16} \subseteq 0..30
  OBVIOUS
<1> QED BY <1>3, <1>4

\* The timer Run sets never exceeds 30 seconds, whatever the attempt
\* (client.go: backoff).
LEMMA BackoffIsCapped ==
    ASSUME NEW n \in Nat, n >= 1
    PROVE  Backoff(n) \in 0..30
<1>1. CASE Kept(n) = {} \/ 63 \in Kept(n)
  BY <1>1 DEF Backoff
<1>2. CASE ~(Kept(n) = {} \/ 63 \in Kept(n)) /\ n <= 5
  <2>1. n \in 1..5
    BY <1>2
  <2>2. Backoff(n) = 2^(n - 1)
    BY <1>2 DEF Backoff
  <2> QED BY <2>1, <2>2, PowersOfTwo
<1>3. CASE ~(Kept(n) = {} \/ 63 \in Kept(n)) /\ ~(n <= 5)
  BY <1>3 DEF Backoff
<1> QED BY <1>1, <1>2, <1>3

-----------------------------------------------------------------------------
(* The inductive invariant *)

LEMMA InitInv == ClientInit => ClientInv
<1> SUFFICES ASSUME ClientInit PROVE ClientInv
  OBVIOUS
<1> USE ClientAssumption DEF ClientInit
<1>1. ClientTypeOK
  <2>1. wait \in 0..30 /\ sess \in 0..MaxSessions /\ attempt \in Nat
    OBVIOUS
  <2>2. link \in [Sessions -> {"none", "up", "down"}]
    OBVIOUS
  <2>3. cs \in [Controls -> {"none", "unopened", "opened", "unsent", "sent", "unread",
                             "rejected", "ok"}]
    OBVIOUS
  <2>4. tuns \in [TunnelIds -> Specs \union {Nobody}]
    OBVIOUS
  <2> QED BY <2>1, <2>2, <2>3, <2>4 DEF ClientTypeOK, Errors
<1>2. LoopInv /\ SessionsAreClosed /\ ConnectedMeansGranted
  BY DEF LoopInv, SessionsAreClosed, ConnectedMeansGranted
<1>3. SetupInv
  <2>1. \A s \in Sessions, t \in Specs : <<s, t>> \in Controls
    BY DEF Controls
  <2>2. \A s \in Sessions, t \in Specs : cs[<<s, t>>] = "none"
    BY <2>1
  <2> QED BY <2>2 DEF SetupInv
<1> QED BY <1>1, <1>2, <1>3 DEF ClientInv

LEMMA RunStepType ==
    ASSUME ClientInv, RunStep
    PROVE  ClientTypeOK'
<1> USE ClientAssumption DEF ClientInv, ClientTypeOK, LoopInv, Errors, Sessions
<1>1. CASE StartAttempt
  BY <1>1 DEF StartAttempt
<1>6. CASE StopBetweenSessions \/ WaitOver
  BY <1>6 DEF StopBetweenSessions, WaitOver
<1>7. CASE DialFails
  BY <1>7 DEF DialFails
<1>2. CASE Dial
  BY <1>2 DEF Dial
<1>3. CASE Serve \/ SetupFails
  BY <1>3 DEF Serve, SetupFails, LeaveSession
<1>4. CASE SessionLost \/ StopServing
  BY <1>4 DEF SessionLost, StopServing, LeaveSession
<1>5. CASE Judge
  <2>1. Outcome \in {"stopped", "rejected", "gaveup", "waiting"}
    BY DEF Outcome
  <2>2. Backoff(attempt) \in 0..30
    BY <1>5, BackoffIsCapped DEF Judge
  <2>3. wait' \in 0..30
    BY <1>5, <2>2 DEF Judge
  <2> QED BY <1>5, <2>1, <2>3 DEF Judge
<1> QED BY <1>1, <1>2, <1>3, <1>4, <1>5, <1>6, <1>7 DEF RunStep

\* The actions of Run and runOnce that set main and err and nothing else that
\* the invariant speaks of.
LEMMA LoopStepInv ==
    ASSUME ClientInv,
           StartAttempt \/ StopBetweenSessions \/ DialFails \/ WaitOver \/ Judge
    PROVE  LoopInv' /\ SetupInv' /\ SessionsAreClosed' /\ ConnectedMeansGranted'
<1> USE DEF ClientInv
<1>1. UNCHANGED <<sess, link, cs, first, tuns>>
  BY DEF StartAttempt, StopBetweenSessions, DialFails, WaitOver, Judge
<1>2. main \notin {"setup", "serving"} /\ main' \notin {"setup", "serving"}
  BY DEF StartAttempt, StopBetweenSessions, DialFails, WaitOver, Judge, Outcome
<1>3. LoopInv'
  <2>1. CASE StartAttempt \/ StopBetweenSessions \/ DialFails \/ WaitOver
    BY <1>2, <2>1 DEF LoopInv, ClientTypeOK, StartAttempt, StopBetweenSessions, DialFails,
         WaitOver
  <2>2. CASE Judge
    BY <1>2, <2>2 DEF LoopInv, Judge, Outcome
  <2> QED BY <2>1, <2>2
<1>4. SetupInv'
  BY <1>1, <1>2 DEF SetupInv
<1>5. SessionsAreClosed'
  BY <1>1, <1>2 DEF SessionsAreClosed
<1>6. ConnectedMeansGranted'
  BY <1>2 DEF ConnectedMeansGranted
<1> QED BY <1>3, <1>4, <1>5, <1>6

LEMMA DialInv ==
    ASSUME ClientInv, Dial
    PROVE  LoopInv' /\ SetupInv' /\ SessionsAreClosed' /\ ConnectedMeansGranted'
<1> USE ClientAssumption DEF ClientInv, ClientTypeOK, Dial, Sessions
<1>1. sess + 1 \in Sessions /\ sess' = sess + 1
  OBVIOUS
<1>2. LoopInv'
  BY <1>1 DEF LoopInv
<1>3. \A t \in Specs : cs'[<<sess', t>>] = "none"
  BY <1>1 DEF SetupInv
<1>4. SetupInv'
  <2>1. \A s \in Sessions, t \in Specs : s > sess' => cs'[<<s, t>>] = "none"
    BY <1>1 DEF SetupInv
  <2> QED BY <1>3, <2>1 DEF SetupInv
<1>5. SessionsAreClosed'
  BY <1>1 DEF SessionsAreClosed
<1>6. ConnectedMeansGranted'
  BY DEF ConnectedMeansGranted
<1> QED BY <1>2, <1>4, <1>5, <1>6

LEMMA ServeInv ==
    ASSUME ClientInv, Serve
    PROVE  LoopInv' /\ SetupInv' /\ SessionsAreClosed' /\ ConnectedMeansGranted'
<1> USE DEF ClientInv, Serve
<1>1. \A t \in Specs : cs[<<sess, t>>] = "ok"
  BY DEF SetupOver, SetupInv
<1>2. LoopInv'
  BY DEF LoopInv
<1>3. SetupInv'
  BY DEF SetupInv
<1>4. SessionsAreClosed'
  BY DEF SessionsAreClosed
<1>5. ConnectedMeansGranted'
  BY <1>1 DEF ConnectedMeansGranted, SetupInv
<1> QED BY <1>2, <1>3, <1>4, <1>5

\* runOnce returns: the session it leaves is the only one that could be open.
LEMMA LeaveInv ==
    ASSUME ClientInv, SetupFails \/ SessionLost \/ StopServing
    PROVE  LoopInv' /\ SetupInv' /\ SessionsAreClosed' /\ ConnectedMeansGranted'
<1> USE DEF ClientInv
<1>1. /\ UNCHANGED <<sess, cs, first, tuns, attempt>>
      /\ main \in {"setup", "serving"} /\ main' \in {"failed", "stopped"}
      /\ LeaveSession
  BY DEF SetupFails, SessionLost, StopServing
<1>2. LoopInv'
  BY <1>1 DEF LoopInv, SetupFails, SessionLost, StopServing
<1>3. SetupInv'
  BY <1>1 DEF SetupInv
<1>4. SessionsAreClosed'
  <2> SUFFICES ASSUME NEW s \in Sessions, link'[s] = "up" PROVE FALSE
    BY DEF SessionsAreClosed
  <2>1. link[s] = "up" /\ s # sess
    BY <1>1 DEF LeaveSession, ClientTypeOK, LoopInv
  <2> QED BY <2>1 DEF SessionsAreClosed
<1>5. ConnectedMeansGranted'
  BY <1>1 DEF ConnectedMeansGranted
<1> QED BY <1>2, <1>3, <1>4, <1>5

\* What a step of setupTunnel for tunnel t changes.
LEMMA SetupFrame ==
    ASSUME ClientInv, NEW t \in Specs, NEW from, NEW to, Setup(t, from, to)
    PROVE  /\ main = "setup" /\ main' = "setup" /\ sess \in Sessions
           /\ UNCHANGED <<cctx, attempt, wait, err, sess, link>>
           /\ cs'[<<sess, t>>] = to
           /\ \A h \in Controls \ {<<sess, t>>} : cs'[h] = cs[h]
           /\ DOMAIN cs' = Controls
<1> USE DEF ClientInv, Setup
<1>1. sess \in Sessions
  BY DEF LoopInv
<1>2. <<sess, t>> \in Controls
  BY <1>1 DEF Controls
<1> QED BY <1>1, <1>2 DEF ClientTypeOK

LEMMA SetupStepInv ==
    ASSUME ClientInv, NEW t \in Specs,
           OpenControl(t) \/ SendAuth(t) \/ SetupError(t) \/ Rejected(t)
             \/ \E i \in TunnelIds : tuns[i] = Nobody /\ Granted(t, i)
    PROVE  ClientInv'
<1> USE DEF ClientInv
<1> DEFINE Failed == {"unopened", "unsent", "unread", "rejected"}
<1>1. PICK from \in {"none", "opened", "sent"},
           to \in {"opened", "unopened", "unsent", "sent", "unread", "rejected", "ok"} :
          Setup(t, from, to)
  BY DEF OpenControl, SendAuth, SetupError, Rejected, Granted
<1>2. /\ main = "setup" /\ main' = "setup" /\ sess \in Sessions
      /\ UNCHANGED <<cctx, attempt, wait, err, sess, link>>
      /\ cs'[<<sess, t>>] = to
      /\ \A h \in Controls \ {<<sess, t>>} : cs'[h] = cs[h]
  BY <1>1, SetupFrame
<1>3. first' \in Errors /\ (first' = "none" => first = "none" /\ to \notin Failed)
  BY <1>2 DEF OpenControl, SendAuth, SetupError, Rejected, Granted, SendError, ClientTypeOK,
              Errors, Setup
<1>4. /\ tuns' \in [TunnelIds -> Specs \union {Nobody}]
      /\ \A i \in TunnelIds : tuns[i] # Nobody => tuns'[i] = tuns[i]
      /\ to = "ok" => \E i \in TunnelIds : tuns'[i] = t
  BY <1>2 DEF OpenControl, SendAuth, SetupError, Rejected, Granted, ClientTypeOK, Setup
<1>5. ClientTypeOK'
  BY <1>1, <1>2, <1>3, <1>4 DEF ClientTypeOK, Setup
<1>6. LoopInv' /\ SessionsAreClosed' /\ ConnectedMeansGranted'
  BY <1>2 DEF LoopInv, SessionsAreClosed, ConnectedMeansGranted
<1>7. SetupInv'
  <2>1. ASSUME NEW s \in Sessions, NEW u \in Specs, s > sess
        PROVE  cs'[<<s, u>>] = "none"
    <3>1. <<s, u>> \in Controls \ {<<sess, t>>}
      BY <1>2, <2>1 DEF Controls, Sessions
    <3> QED BY <1>2, <2>1, <3>1 DEF SetupInv
  <2>2. ASSUME NEW u \in Specs, cs'[<<sess, u>>] = "ok"
        PROVE  \E i \in TunnelIds : tuns'[i] = u
    <3>1. CASE u = t
      BY <1>2, <1>4, <2>2, <3>1
    <3>2. CASE u # t
      <4>1. cs[<<sess, u>>] = "ok"
        BY <1>2, <2>2, <3>2 DEF Controls
      <4>2. PICK i \in TunnelIds : tuns[i] = u
        BY <1>2, <4>1 DEF SetupInv
      <4> QED BY <1>4, <4>2, ClientAssumption
    <3> QED BY <3>1, <3>2
  <2>3. ASSUME NEW u \in Specs, first' = "none"
        PROVE  cs'[<<sess, u>>] \notin Failed
    <3>1. CASE u = t
      BY <1>2, <1>3, <2>3, <3>1
    <3>2. CASE u # t
      BY <1>2, <1>3, <2>3, <3>2 DEF Controls, SetupInv
    <3> QED BY <3>1, <3>2
  <2> QED BY <1>2, <2>1, <2>2, <2>3 DEF SetupInv
<1> QED BY <1>5, <1>6, <1>7

LEMMA LinkDiesInv ==
    ASSUME ClientInv, NEW s \in Sessions, LinkDies(s)
    PROVE  ClientInv'
BY DEF ClientInv, LinkDies, ClientTypeOK, LoopInv, SetupInv, SessionsAreClosed,
       ConnectedMeansGranted

LEMMA NextInv ==
    ASSUME ClientInv, [ClientNext]_clientVars
    PROVE  ClientInv'
<1>1. CASE RunStep
  <2>1. ClientTypeOK'
    BY <1>1, RunStepType
  <2>2. LoopInv' /\ SetupInv' /\ SessionsAreClosed' /\ ConnectedMeansGranted'
    BY <1>1, LoopStepInv, DialInv, ServeInv, LeaveInv DEF RunStep
  <2> QED BY <2>1, <2>2 DEF ClientInv
<1>2. CASE \E s \in Sessions : LinkDies(s)
  BY <1>2, LinkDiesInv
<1>3. CASE \/ \E t \in Specs : OpenControl(t) \/ SendAuth(t) \/ SetupError(t) \/ Rejected(t)
           \/ \E t \in Specs, i \in TunnelIds : tuns[i] = Nobody /\ Granted(t, i)
  BY <1>3, SetupStepInv
<1>4. CASE CancelClient \/ UNCHANGED clientVars
  <2>1. UNCHANGED <<main, attempt, wait, err, sess, link, cs, first, tuns>> /\ cctx' \in BOOLEAN
    BY <1>4 DEF CancelClient, clientVars, ClientInv, ClientTypeOK
  <2>2. ClientTypeOK'
    BY <2>1 DEF ClientInv, ClientTypeOK
  <2>3. LoopInv' /\ SetupInv' /\ SessionsAreClosed' /\ ConnectedMeansGranted'
    BY <2>1 DEF ClientInv, LoopInv, SetupInv, SessionsAreClosed, ConnectedMeansGranted
  <2> QED BY <2>2, <2>3 DEF ClientInv
<1> QED BY <1>1, <1>2, <1>3, <1>4 DEF ClientNext

-----------------------------------------------------------------------------
(* The theorems *)

\* Every client step preserves ClientInv.
THEOREM ClientInvariance == ClientSpec => []ClientInv
<1>1. ClientInv /\ [ClientNext]_clientVars => ClientInv'
  BY NextInv
<1> QED BY InitInv, <1>1, PTL DEF ClientSpec

\* A session never outlives its runOnce: Run has no session open between
\* attempts and after it has returned, and never two at once.
THEOREM NoSessionLeaks == ClientSpec => []SessionsAreClosed
<1>1. ClientInv => SessionsAreClosed
  BY DEF ClientInv
<1> QED BY <1>1, ClientInvariance, PTL

\* StateConnected is reported only with every tunnel granted in that session.
THEOREM ConnectedIsGranted == ClientSpec => []ConnectedMeansGranted
<1>1. ClientInv => ConnectedMeansGranted
  BY DEF ClientInv
<1> QED BY <1>1, ClientInvariance, PTL

\* No attempt and no session follows a rejection that Run was told of.
THEOREM RejectionsAreFinal == ClientSpec => RejectionIsFinal
<1>1. ClientInv /\ [ClientNext]_clientVars
        => [err = "auth" => UNCHANGED <<attempt, sess>>]_clientVars
  <2> SUFFICES ASSUME ClientInv, ClientNext, err = "auth" PROVE UNCHANGED <<attempt, sess>>
    OBVIOUS
  <2>1. main \notin {"start", "dial"}
    BY DEF ClientInv, LoopInv
  <2> QED BY <2>1 DEF ClientNext, CancelClient, RunStep, StartAttempt, StopBetweenSessions,
        DialFails, Dial, Serve, SetupFails, SessionLost, StopServing, Judge, WaitOver,
        LinkDies, OpenControl, SendAuth, SetupError, Rejected, Granted, Setup
<1> QED BY <1>1, ClientInvariance, PTL DEF ClientSpec, RejectionIsFinal

-----------------------------------------------------------------------------
(* The first waits *)

\* 2^(n-1) seconds keep a digit below the sign, and the sign is clear, up to 34.
LEMMA BackoffWaits ==
    ASSUME NEW n \in 1..34
    PROVE  Backoff(n) \in 1..30
<1>1. n + 8 \in Kept(n) /\ 63 \notin Kept(n)
  BY DEF Kept, FiveToTheNinth
<1>2. CASE n <= 5
  <2>1. 2^(n - 1) \in 1..30
    <3>1. n - 1 = 0 \/ n - 1 = 1 \/ n - 1 = 2 \/ n - 1 = 3 \/ n - 1 = 4
      BY <1>2
    <3>2. 2^0 = 1 /\ 2^1 = 2 /\ 2^2 = 4 /\ 2^3 = 8 /\ 2^4 = 16
      OBVIOUS
    <3>3. 2^(n - 1) \in {1, 2, 4, 8, 16}
      BY <3>1, <3>2
    <3>4. {1, 2, 4, 8, 16} \subseteq 1..30
      OBVIOUS
    <3> QED BY <3>3, <3>4
  <2> QED BY <1>1, <1>2, <2>1 DEF Backoff
<1>3. CASE ~(n <= 5)
  BY <1>1, <1>3 DEF Backoff
<1> QED BY <1>2, <1>3

\* The first 34 waits are real and no longer than 30 seconds.
THEOREM FirstWaitsAreExact == ClientSpec => []WaitsWhileExact
<1>1. ClientInit => WaitsWhileExact
  BY DEF ClientInit, WaitsWhileExact
<1>2. ClientInv /\ WaitsWhileExact /\ [ClientNext]_clientVars => WaitsWhileExact'
  <2> SUFFICES ASSUME ClientInv, WaitsWhileExact, [ClientNext]_clientVars,
                      main' = "waiting", attempt' <= 34
               PROVE  wait' \in 1..30
    BY DEF WaitsWhileExact
  <2>1. CASE Judge
    <3>1. attempt \in Nat /\ attempt >= 1 /\ attempt' = attempt
      BY <2>1 DEF Judge, ClientInv, ClientTypeOK, LoopInv
    <3>2. wait' = Backoff(attempt)
      BY <2>1 DEF Judge
    <3> QED BY <3>1, <3>2, BackoffWaits
  <2>2. CASE ~Judge
    <3>1. UNCHANGED <<main, attempt, wait>>
      BY <2>2 DEF ClientNext, CancelClient, RunStep, StartAttempt, StopBetweenSessions,
          DialFails, Dial, Serve, SetupFails, SessionLost, StopServing, WaitOver, LinkDies,
          OpenControl, SendAuth, SetupError, Rejected, Granted, Setup, clientVars
    <3> QED BY <3>1 DEF WaitsWhileExact
  <2> QED BY <2>1, <2>2
<1> QED BY <1>1, <1>2, ClientInvariance, PTL DEF ClientSpec

-----------------------------------------------------------------------------
(* The promise to the caller *)

\* The steps of Run that its caller can tell from one another.
LEMMA RunStepIsLoopStep ==
    ASSUME ClientInv, RunStep
    PROVE  [Loop!Next]_(Loop!vars)
<1> USE ClientAssumption DEF Phase, Loop!vars, Loop!Next, Loop!Move, Loop!UsedUp
<1>1. cctx \in BOOLEAN /\ attempt \in Nat
  BY DEF ClientInv, ClientTypeOK
<1>2. CASE StartAttempt
  <2>1. Loop!Begin
    BY <1>2 DEF StartAttempt, Loop!Begin
  <2> QED BY <2>1
<1>3. CASE StopBetweenSessions
  <2>1. Loop!Return
    BY <1>3 DEF StopBetweenSessions, Loop!Return
  <2> QED BY <2>1
<1>4. CASE DialFails
  <2>1. Loop!Fail
    BY <1>4 DEF DialFails, Loop!Fail
  <2> QED BY <2>1
<1>5. CASE Dial \/ WaitOver
  BY <1>5 DEF Dial, WaitOver
<1>6. CASE Serve
  <2>1. Loop!Connect
    BY <1>6 DEF Serve, Loop!Connect
  <2> QED BY <2>1
<1>7. CASE SetupFails
  <2>1. Loop!Fail \/ Loop!Refuse
    BY <1>7 DEF SetupFails, Loop!Fail, Loop!Refuse
  <2> QED BY <2>1
<1>8. CASE SessionLost
  <2>1. Loop!Fail
    BY <1>8 DEF SessionLost, Loop!Fail
  <2> QED BY <2>1
<1>9. CASE StopServing
  <2>1. Loop!Return
    BY <1>9 DEF StopServing, Loop!Return
  <2> QED BY <2>1
<1>10. CASE Judge
  <2>1. UNCHANGED <<cctx, attempt, err>> /\ main = "failed" /\ main' = Outcome
    BY <1>10 DEF Judge
  <2>2. CASE cctx
    <3>1. main' = "stopped"
      BY <2>1, <2>2 DEF Outcome
    <3>2. Loop!Return
      BY <2>1, <2>2, <3>1 DEF Loop!Return
    <3> QED BY <3>2
  <2>3. CASE ~cctx /\ err = "auth"
    <3>1. main' = "rejected"
      BY <2>1, <2>3 DEF Outcome
    <3>2. Loop!Return
      BY <2>1, <2>3, <3>1 DEF Loop!Return
    <3> QED BY <3>2
  <2>4. CASE ~cctx /\ err # "auth" /\ MaxAttempts > 0 /\ attempt >= MaxAttempts
    <3>1. main' = "gaveup"
      BY <2>1, <2>4 DEF Outcome
    <3>2. Loop!Return
      BY <2>1, <2>4, <3>1 DEF Loop!Return
    <3> QED BY <3>2
  <2>5. CASE ~cctx /\ err # "auth" /\ ~(MaxAttempts > 0 /\ attempt >= MaxAttempts)
    <3>1. main' = "waiting"
      BY <2>1, <2>5 DEF Outcome
    <3>2. Loop!Retry
      BY <2>1, <2>5, <3>1 DEF Loop!Retry
    <3> QED BY <3>2
  <2> QED BY <1>1, <2>2, <2>3, <2>4, <2>5
<1> QED BY <1>2, <1>3, <1>4, <1>5, <1>6, <1>7, <1>8, <1>9, <1>10 DEF RunStep

LEMMA ClientStepIsLoopStep ==
    ASSUME ClientInv, [ClientNext]_clientVars
    PROVE  [Loop!Next]_(Loop!vars)
<1>1. CASE RunStep
  BY <1>1, RunStepIsLoopStep
<1>2. CASE CancelClient
  <2>1. UNCHANGED Phase
    BY <1>2 DEF CancelClient, Phase
  <2>2. Loop!Cancel
    BY <1>2, <2>1 DEF CancelClient, Loop!Cancel
  <2> QED BY <2>2 DEF Loop!Next
<1>3. ASSUME UNCHANGED <<cctx, main, attempt, err>>
      PROVE  UNCHANGED Loop!vars
  BY <1>3 DEF Loop!vars, Phase
<1>4. CASE \E s \in Sessions : LinkDies(s)
  BY <1>3, <1>4 DEF LinkDies
<1>5. CASE \E t \in Specs : OpenControl(t) \/ SendAuth(t) \/ SetupError(t) \/ Rejected(t)
  BY <1>3, <1>5 DEF OpenControl, SendAuth, SetupError, Rejected, Setup
<1>6. CASE \E t \in Specs, i \in TunnelIds : tuns[i] = Nobody /\ Granted(t, i)
  BY <1>3, <1>6 DEF Granted, Setup
<1>7. CASE UNCHANGED clientVars
  BY <1>3, <1>7 DEF clientVars
<1> QED BY <1>1, <1>2, <1>4, <1>5, <1>6, <1>7 DEF ClientNext

\* Run implements ReconnectLoop (client.go: Run).
THEOREM LoopImplemented == ClientSpec => LoopSpec
<1>1. ClientInit => Loop!Init
  BY DEF ClientInit, Loop!Init, Phase
<1> QED BY <1>1, ClientStepIsLoopStep, ClientInvariance, PTL
        DEF ClientSpec, LoopSpec, Loop!Spec
=============================================================================
