--------------------------- MODULE VpnClientProofs ---------------------------
(***************************************************************************)
(* Proofs about VpnClient and PeerManager: types, one device and one       *)
(* listener at a time, and no open call off the books, for any peers,      *)
(* sessions, attempts and calls.                                           *)
(***************************************************************************)
EXTENDS VpnClient, SequenceTheorems, TLAPS

\* A call whose hello is awaited has a handler, of some session's manager.
ManagerInv ==
    /\ ManagerTypeOK
    /\ OpenIsFiled
    /\ \A k \in Calls : call[k] = "hello" => owner[k] # 0

\* On its way in runOnceVPN has a session; a device or a listener that is open
\* is that session's; no key is ever stored, and nobody dialled.
VpnInv ==
    /\ VpnTypeOK
    /\ main \in {"auth", "granted", "device", "configure", "serving"} => sess # 0
    /\ \A s \in Sessions :
           /\ dev[s] = "open" => s = sess /\ main \in {"configure", "serving"}
           /\ listener[s] = "open" => s = sess /\ main = "serving"
    /\ keyed = {} /\ dialled = {}
    /\ ManagerInv

\* A call that is filed takes the place of one that is closed.
LEMMA RegisterPreserves ==
    ASSUME ManagerInv, NEW k \in Calls, NEW a \in Peers, Register(k, a)
    PROVE  ManagerInv'
  <1> USE DEF ManagerInv, ManagerTypeOK
  <1>1. /\ call[k] = "hello" /\ owner[k] \in Sessions /\ k \in 1..MaxCalls
        /\ conns' = [conns EXCEPT ![owner[k]][a] = k]
        /\ call' = [j \in Calls |-> IF j = k THEN "open"
                                    ELSE IF j = conns[owner[k]][a] THEN "closed" ELSE call[j]]
        /\ owner' = [owner EXCEPT ![k] = 0]
        /\ UNCHANGED <<listener, route>>
    BY DEF Register, Sessions, Calls
  <1>2. \A m \in Sessions, b \in Peers :
            conns'[m][b] = IF m = owner[k] /\ b = a THEN k ELSE conns[m][b]
    BY <1>1
  <1>3. ManagerTypeOK'
    <2>1. conns' \in [Sessions -> [Peers -> 0..MaxCalls]]
      BY <1>1, ManagerAssumption
    <2>2. call' \in [Calls -> {"none", "hello", "open", "lost", "closed"}]
      BY <1>1
    <2>3. owner' \in [Calls -> 0..MaxSessions]
      BY <1>1, ManagerAssumption
    <2>4. QED
      BY <1>1, <2>1, <2>2, <2>3
  <1>4. OpenIsFiled'
    BY <1>1, <1>2 DEF OpenIsFiled
  <1>5. QED
    BY <1>1, <1>3, <1>4

\* So does one whose entry is deleted.
LEMMA EvictPreserves ==
    ASSUME ManagerInv, NEW m \in Sessions, NEW a \in Peers, Evict(m, a), route' \in [Sessions -> Routes]
    PROVE  ManagerInv'
  <1> USE DEF ManagerInv, ManagerTypeOK
  <1>1. /\ conns' = [conns EXCEPT ![m][a] = 0]
        /\ call' = [k \in Calls |-> IF k = conns[m][a] THEN "closed" ELSE call[k]]
        /\ UNCHANGED <<listener, owner>>
    BY DEF Evict
  <1>2. \A n \in Sessions, b \in Peers :
            conns'[n][b] = IF n = m /\ b = a THEN 0 ELSE conns[n][b]
    BY <1>1
  <1>3. ManagerTypeOK'
    <2>1. conns' \in [Sessions -> [Peers -> 0..MaxCalls]]
      BY <1>1, ManagerAssumption
    <2>2. QED
      BY <1>1, <2>1
  <1>4. OpenIsFiled'
    BY <1>1, <1>2 DEF OpenIsFiled, Calls
  <1>5. QED
    BY <1>1, <1>3, <1>4

\* What calls, the reaper and the managers' own goroutines do.
LEMMA ManagerStepPreserves ==
    ASSUME ManagerInv, ManagerStep
    PROVE  ManagerInv'
  <1> USE DEF ManagerInv, ManagerTypeOK
  <1>1. CASE \E k \in Calls : NoHello(k) \/ CallLost(k)
    <2>1. PICK k \in Calls : NoHello(k) \/ CallLost(k)
      BY <1>1
    <2>2. \E c \in {"closed", "lost"} : call' = [call EXCEPT ![k] = c]
      BY <2>1 DEF NoHello, CallLost
    <2>3. owner' = owner \/ owner' = [owner EXCEPT ![k] = 0]
      BY <2>1 DEF NoHello, CallLost
    <2>4. UNCHANGED <<listener, conns, route>>
      BY <2>1 DEF NoHello, CallLost
    <2>5. owner' \in [Calls -> 0..MaxSessions]
      BY <2>3, ManagerAssumption
    <2>6. call' \in [Calls -> {"none", "hello", "open", "lost", "closed"}]
      BY <2>2
    <2>7. OpenIsFiled'
      BY <2>2, <2>4 DEF OpenIsFiled
    <2>8. \A j \in Calls : call'[j] = "hello" => owner'[j] # 0
      BY <2>2, <2>3
    <2>9. QED
      BY <2>4, <2>5, <2>6, <2>7, <2>8
  <1>2. CASE \E k \in Calls, a \in Peers : Register(k, a)
    BY <1>2, RegisterPreserves
  <1>3. CASE \E m \in Sessions, k \in Calls : Accept(m, k)
    BY <1>3, ManagerAssumption DEF Accept, OpenIsFiled, Sessions
  <1>4. CASE \E m \in Sessions, a \in Peers : Reap(m, a)
    <2>1. PICK m \in Sessions, a \in Peers : Reap(m, a)
      BY <1>4
    <2>2. QED
      BY <2>1, EvictPreserves DEF Reap
  <1>5. QED
    BY <1>1, <1>2, <1>3, <1>4 DEF ManagerStep

\* What a pump does in Route.
LEMMA RoutePreserves ==
    ASSUME ManagerInv, NEW s \in Sessions, mgr \in 0..MaxSessions,
           \/ \E a \in Peers : mgr # 0 /\ RouteFinds(s, mgr, a)
           \/ RouteWrites(s) \/ RouteFails(s)
    PROVE  ManagerInv' /\ UNCHANGED listener
  <1> USE DEF ManagerInv, ManagerTypeOK
  <1>1. CASE \E a \in Peers : mgr # 0 /\ RouteFinds(s, mgr, a)
    <2>1. PICK a \in Peers : mgr \in Sessions /\ RouteFinds(s, mgr, a)
      BY <1>1 DEF Sessions
    <2>2. conns[mgr][a] \in Calls
      BY <2>1, ManagerAssumption DEF RouteFinds, Calls
    <2>3. <<mgr, a, conns[mgr][a]>> \in Routes
      BY <2>1, <2>2 DEF Routes
    <2>4. QED
      BY <2>1, <2>3 DEF RouteFinds, OpenIsFiled
  <1>2. CASE RouteWrites(s)
    BY <1>2 DEF RouteWrites, Routes, OpenIsFiled
  <1>3. CASE RouteFails(s)
    <2>1. route[s] \in Sessions \X Peers \X Calls /\ route' = [route EXCEPT ![s] = NoRoute]
      BY <1>3 DEF RouteFails, Routes
    <2>2. route[s][1] \in Sessions /\ route[s][2] \in Peers
      BY <2>1
    <2>3. route' \in [Sessions -> Routes]
      BY <2>1 DEF Routes
    <2>4. Evict(route[s][1], route[s][2])
      BY <1>3 DEF RouteFails
    <2>5. ManagerInv'
      BY <2>2, <2>3, <2>4, EvictPreserves
    <2>6. QED
      BY <2>4, <2>5 DEF Evict
  <1>4. QED
    BY <1>1, <1>2, <1>3

LEMMA StartStopPreserves ==
    ASSUME ManagerInv, NEW s \in Sessions, StartManager(s) \/ StopManager(s)
    PROVE  ManagerInv'
  <1> USE DEF ManagerInv, ManagerTypeOK
  <1>1. CASE StartManager(s)
    BY <1>1 DEF StartManager, OpenIsFiled
  <1>2. CASE StopManager(s)
    <2>1. /\ call' = [k \in Calls |-> IF \E a \in Peers : k = conns[s][a] THEN "closed" ELSE call[k]]
          /\ UNCHANGED <<conns, owner, route>>
          /\ \E l \in {"none", "open", "closed"} : listener' = [listener EXCEPT ![s] = l]
      BY <1>2 DEF StopManager
    <2>2. call' \in [Calls -> {"none", "hello", "open", "lost", "closed"}]
      BY <2>1
    <2>3. OpenIsFiled'
      BY <2>1 DEF OpenIsFiled
    <2>4. QED
      BY <2>1, <2>2, <2>3
  <1>3. QED
    BY <1>1, <1>2

LEMMA ManagerStays ==
    ASSUME ManagerInv, UNCHANGED managerVars
    PROVE  ManagerInv' /\ UNCHANGED listener
  BY DEF ManagerInv, ManagerTypeOK, OpenIsFiled, managerVars

\* What the first decoder leaves of the frames is frames again.
LEMMA RemainderType ==
    ASSUME NEW fs \in Seq(SUBSET Peers)
    PROVE  Remainder(fs) \subseteq Seq(SUBSET Peers)
  <1>1. ASSUME NEW k \in 1..(Len(fs) + 1) PROVE SubSeq(fs, k, Len(fs)) \in Seq(SUBSET Peers)
    BY SMT
  <1>2. ASSUME NEW k \in 1..Len(fs)
        PROVE  <<Garbage>> \o SubSeq(fs, k + 1, Len(fs)) \in Seq(SUBSET Peers)
    <2>1. SubSeq(fs, k + 1, Len(fs)) \in Seq(SUBSET Peers)
      BY <1>1
    <2>2. <<Garbage>> \in Seq(SUBSET Peers)
      BY DEF Garbage
    <2>3. QED
      BY <2>1, <2>2, ConcatProperties
  <1>3. QED
    BY <1>1, <1>2 DEF Remainder

\* All of the invariant but ManagerInv.
ClientInv ==
    /\ VpnTypeOK
    /\ main \in {"auth", "granted", "device", "configure", "serving"} => sess # 0
    /\ \A s \in Sessions :
           /\ dev[s] = "open" => s = sess /\ main \in {"configure", "serving"}
           /\ listener[s] = "open" => s = sess /\ main = "serving"
    /\ keyed = {} /\ dialled = {}

\* Leaving runOnceVPN closes the device and the listener of the session.
LEMMA LeavePreserves ==
    ASSUME VpnInv, NEW e \in {"nil", "lost", "rejected"}, sess # 0, Leave(e)
    PROVE  VpnInv'
  <1>1. sess \in Sessions
    BY VpnClientAssumption, ManagerAssumption DEF VpnInv, VpnTypeOK, Sessions
  <1>2. ManagerInv'
    BY <1>1, StartStopPreserves DEF VpnInv, Leave
  <1>3. ClientInv'
    BY <1>1, <1>2, VpnClientAssumption, ManagerAssumption
       DEF ClientInv, VpnInv, VpnTypeOK, ManagerInv, Sessions, Leave, StopManager, ManagerTypeOK, signalVars
  <1>4. QED
    BY <1>2, <1>3 DEF VpnInv, ClientInv

LEMMA VpnInit == Init => VpnInv
  <1> SUFFICES ASSUME Init PROVE VpnInv
    OBVIOUS
  <1>1. ManagerInv
    BY ManagerAssumption
       DEF Init, ManagerInit, ManagerInv, ManagerTypeOK, OpenIsFiled, Routes, Sessions, Calls
  <1>2. QED
    BY <1>1, VpnClientAssumption, ManagerAssumption, EmptySeq
       DEF Init, ManagerInit, VpnInv, VpnTypeOK, ManagerInv, Sessions

LEMMA VpnStep == VpnInv /\ [Next]_vars => VpnInv'
  <1> SUFFICES ASSUME VpnInv, [Next]_vars PROVE VpnInv'
    OBVIOUS
  <1>0. SUFFICES ManagerInv' /\ ClientInv'
    BY DEF VpnInv, ClientInv
  <1>a. ManagerInv /\ ClientInv /\ ManagerTypeOK
    BY DEF VpnInv, ClientInv, ManagerInv
  <1>b. ASSUME UNCHANGED managerVars PROVE ManagerInv' /\ UNCHANGED listener /\ ManagerTypeOK'
    BY <1>a, <1>b, ManagerStays DEF ManagerInv
  <1> USE VpnClientAssumption, ManagerAssumption
      DEF ClientInv, VpnTypeOK, Sessions, runVars, pumpVars, signalVars
  <1>1. CASE UNCHANGED vars
    BY <1>a, <1>b, <1>1 DEF vars
  <1>2. CASE Cancel
    BY <1>a, <1>b, <1>2 DEF Cancel
  <1>3. CASE RunStep
    <2>1. CASE StartAttempt
      BY <1>a, <1>b, <2>1 DEF StartAttempt
    <2>2. CASE StopBetweenSessions
      BY <1>a, <1>b, <2>2 DEF StopBetweenSessions
    <2>3. CASE DialFails
      BY <1>a, <1>b, <2>3 DEF DialFails
    <2>4. CASE Dial
      BY <1>a, <1>b, <2>4 DEF Dial
    <2>5. CASE ReadAuthOK
      <3>1. PICK rest \in Remainder(frames[sess]) : frames' = [frames EXCEPT ![sess] = rest]
        BY <2>5 DEF ReadAuthOK
      <3>2. frames[sess] \in Seq(SUBSET Peers)
        BY <1>a, <2>5 DEF ReadAuthOK
      <3>3. rest \in Seq(SUBSET Peers)
        BY <3>1, <3>2, RemainderType
      <3>4. frames' \in [Sessions -> Seq(SUBSET Peers)]
        BY <1>a, <3>1, <3>3
      <3>5. QED
        BY <1>a, <1>b, <2>5, <3>4 DEF ReadAuthOK
    <2>6. CASE Rejected \/ SetupFails \/ StopServing
      <3>1. sess # 0
        BY <1>a, <2>6 DEF Rejected, SetupFails, StopServing
      <3>2. \E e \in {"nil", "lost", "rejected"} : Leave(e)
        BY <1>a, <2>6 DEF Rejected, SetupFails, StopServing
      <3>3. VpnInv'
        BY <3>1, <3>2, LeavePreserves
      <3>4. QED
        BY <3>3 DEF VpnInv
    <2>7. CASE OpenPackets
      BY <1>a, <1>b, <2>7 DEF OpenPackets
    <2>8. CASE OpenTUN
      BY <1>a, <1>b, <2>8 DEF OpenTUN
    <2>9. CASE Serve
      <3>1. sess # 0 /\ sess \in Sessions
        BY <1>a, <2>9 DEF Serve
      <3>2. CASE mgr' = sess /\ StartManager(sess)
        <4>1. ManagerInv' /\ ManagerTypeOK'
          BY <1>a, <3>1, <3>2, StartStopPreserves DEF ManagerInv
        <4>2. listener' = [listener EXCEPT ![sess] = "open"] /\ mgr' = sess
          BY <3>2 DEF StartManager
        <4>3. QED
          BY <1>a, <2>9, <3>1, <4>1, <4>2 DEF Serve, ManagerTypeOK
      <3>3. CASE UNCHANGED <<mgr, managerVars>>
        BY <1>a, <1>b, <2>9, <3>1, <3>3 DEF Serve
      <3>4. QED
        BY <2>9, <3>2, <3>3 DEF Serve, HasManager
    <2>10. CASE Judge
      BY <1>a, <1>b, <2>10 DEF Judge, Outcome, GivesUp
    <2>11. CASE WaitOver
      BY <1>a, <1>b, <2>11 DEF WaitOver
    <2>12. QED
      BY <1>3, <2>1, <2>2, <2>3, <2>4, <2>5, <2>6, <2>7, <2>8, <2>9, <2>10, <2>11 DEF RunStep
  <1>4. CASE OthersStep
    <2>1. ManagerInv' /\ ManagerTypeOK'
      BY <1>a, <1>4, ManagerStepPreserves DEF OthersStep, ManagerInv
    <2>2. UNCHANGED listener
      BY <1>4 DEF OthersStep, ManagerStep, NoHello, CallLost, Register, Accept, Reap, Evict
    <2>3. QED
      BY <1>a, <1>4, <2>1, <2>2 DEF OthersStep
  <1>5. CASE \E s \in Sessions : OutFinds(s) \/ OutSends(s)
    <2>1. PICK s \in Sessions : OutFinds(s) \/ OutSends(s)
      BY <1>5
    <2>2. ManagerInv' /\ UNCHANGED listener
      <3>1. CASE UNCHANGED managerVars
        BY <1>b, <3>1
      <3>2. CASE \/ \E a \in Peers : mgr # 0 /\ RouteFinds(s, mgr, a)
                 \/ RouteWrites(s) \/ RouteFails(s)
        BY <1>a, <3>2, RoutePreserves
      <3>3. QED
        BY <2>1, <3>1, <3>2 DEF OutFinds, OutSends
    <2>3. ManagerTypeOK'
      BY <2>2 DEF ManagerInv
    <2>4. QED
      BY <1>a, <2>1, <2>2, <2>3 DEF OutFinds, OutSends
  <1>6. CASE \E s \in Sessions : LinkDies(s)
    BY <1>a, <1>b, <1>6 DEF LinkDies
  <1>7. CASE \E s \in Sessions : OutReads(s) \/ OutEnds(s) \/ InEnds(s)
    <2>1. PICK s \in Sessions : OutReads(s) \/ OutEnds(s) \/ InEnds(s)
      BY <1>7
    <2>2. /\ UNCHANGED <<runVars, link, dev, mgr, signalVars, managerVars>>
          /\ result' \in {"none", "nil", "lost"}
      BY <1>a, <2>1 DEF OutReads, OutEnds, InEnds, Report
    <2>3. out' \in [Sessions -> {"none", "run", "packet", "done"}]
      BY <1>a, <2>1 DEF OutReads, OutEnds, InEnds
    <2>4. in' \in [Sessions -> {"none", "run", "done"}]
      BY <1>a, <2>1 DEF OutReads, OutEnds, InEnds
    <2>5. QED
      BY <1>a, <1>b, <2>2, <2>3, <2>4
  <1>8. CASE \E s \in Sessions : ReadSignal(s)
    <2>1. PICK s \in Sessions : ReadSignal(s)
      BY <1>8
    <2>2. frames[s] \in Seq(SUBSET Peers) /\ frames[s] # <<>>
      BY <1>a, <2>1 DEF ReadSignal
    <2>3. Head(frames[s]) \subseteq Peers /\ Tail(frames[s]) \in Seq(SUBSET Peers)
      BY <2>2, HeadTailProperties
    <2>4. frames' \in [Sessions -> Seq(SUBSET Peers)]
      BY <1>a, <2>1, <2>3 DEF ReadSignal
    <2>5. known' \subseteq Peers /\ keyed' = {} /\ dialled' = {}
      BY <1>a, <2>1, <2>3 DEF ReadSignal, StorePeers, DialPeers, WithKey
    <2>6. QED
      BY <1>a, <1>b, <2>1, <2>4, <2>5 DEF ReadSignal
  <1>9. CASE \E s \in Sessions : ReaderEnds(s)
    BY <1>a, <1>b, <1>9, EmptySeq DEF ReaderEnds
  <1>10. CASE \E s \in Sessions : \E ps \in SUBSET Peers : Announce(s, ps)
    BY <1>a, <1>b, <1>10 DEF Announce
  <1>11. QED
    BY <1>1, <1>2, <1>3, <1>4, <1>5, <1>6, <1>7, <1>8, <1>9, <1>10 DEF Next

\* The inductive invariant, for any room, bounds, attempts and calls.
THEOREM VpnInvariance == Spec => []VpnInv
  BY VpnInit, VpnStep, PTL DEF Spec

\* Type correctness (client/vpn.go, client.go, quic.go).
THEOREM VpnTypeCorrect == Spec => []VpnTypeOK
  <1>1. VpnInv => VpnTypeOK
    BY DEF VpnInv
  <1>2. QED
    BY <1>1, VpnInvariance, PTL

\* One device and one listener at a time (vpn.go: runOnceVPN's deferred calls).
THEOREM DeviceCorrect == Spec => []OneDevice
  <1>1. VpnInv => OneDevice
    BY DEF VpnInv, OneDevice
  <1>2. QED
    BY <1>1, VpnInvariance, PTL

\* Whoever has called and is not closed can be found under his address
\* (quic.go: register, evict, Stop).
THEOREM OpenCallsAreFiled == Spec => []OpenIsFiled
  <1>1. VpnInv => OpenIsFiled
    BY DEF VpnInv, ManagerInv
  <1>2. QED
    BY <1>1, VpnInvariance, PTL

-----------------------------------------------------------------------------
(* The promise to the caller *)

\* What of a step RunVPN's caller can see is a step of ReconnectLoop.
LEMMA RunStepIsLoopStep ==
    ASSUME VpnInv, RunStep
    PROVE  [Loop!Next]_(Loop!vars)
  <1> USE VpnClientAssumption
      DEF Phase, Loop!vars, Loop!Next, Loop!Move, Loop!UsedUp, Leave
  <1>1. ctx \in BOOLEAN /\ attempt \in Nat /\ err \in {"nil", "lost", "rejected"}
    BY DEF VpnInv, VpnTypeOK
  <1>2. CASE StartAttempt
    <2>1. Loop!Begin
      BY <1>2 DEF StartAttempt, Loop!Begin
    <2>2. QED
      BY <2>1
  <1>3. CASE StopBetweenSessions
    <2>1. Loop!Return
      BY <1>3 DEF StopBetweenSessions, Loop!Return
    <2>2. QED
      BY <2>1
  <1>4. CASE DialFails \/ SetupFails
    <2>1. Loop!Fail
      BY <1>4 DEF DialFails, SetupFails, Loop!Fail
    <2>2. QED
      BY <2>1
  <1>5. CASE Dial \/ ReadAuthOK \/ OpenPackets \/ OpenTUN
    BY <1>5 DEF Dial, ReadAuthOK, OpenPackets, OpenTUN
  <1>6. CASE Rejected
    <2>1. Loop!Refuse
      BY <1>6 DEF Rejected, Loop!Refuse
    <2>2. QED
      BY <2>1
  <1>7. CASE Serve
    <2>1. Loop!Connect
      BY <1>7 DEF Serve, Loop!Connect
    <2>2. QED
      BY <2>1
  <1>8. CASE StopServing
    <2>1. result \in {"none", "nil", "lost"}
      BY DEF VpnInv, VpnTypeOK
    <2>2. Loop!Fail \/ Loop!End
      BY <1>1, <1>8, <2>1 DEF StopServing, Loop!Fail, Loop!End
    <2>3. QED
      BY <2>2
  <1>9. CASE Judge
    <2>1. UNCHANGED <<ctx, attempt, err>> /\ main = "judge" /\ main' = Outcome
      BY <1>9 DEF Judge
    <2>2. CASE err = "nil" \/ ~ctx
      <3>1. main' = "stopped"
        BY <2>1, <2>2 DEF Outcome
      <3>2. Loop!Return
        BY <1>1, <2>1, <2>2, <3>1 DEF Loop!Return
      <3>3. QED
        BY <3>2
    <2>3. CASE ctx /\ err = "rejected"
      <3>1. main' = "rejected"
        BY <2>1, <2>3 DEF Outcome
      <3>2. Loop!Return
        BY <2>1, <2>3, <3>1 DEF Loop!Return
      <3>3. QED
        BY <3>2
    <2>4. CASE ctx /\ err = "lost"
      <3>1. main' = IF GivesUp THEN "gaveup" ELSE "waiting"
        BY <2>1, <2>4 DEF Outcome
      <3>2. Loop!Return \/ Loop!Retry
        BY <2>1, <2>4, <3>1 DEF GivesUp, Loop!Return, Loop!Retry
      <3>3. QED
        BY <3>2
    <2>5. QED
      BY <1>1, <2>2, <2>3, <2>4
  <1>10. CASE WaitOver
    <2>1. UNCHANGED <<ctx, attempt>> /\ main = "waiting" /\ main' \in {"between", "stopped"}
          /\ (main' = "stopped" => ~ctx)
      BY <1>10 DEF WaitOver
    <2>2. UNCHANGED Loop!vars \/ Loop!Return
      BY <2>1 DEF Loop!Return
    <2>3. QED
      BY <2>2
  <1>11. QED
    BY <1>2, <1>3, <1>4, <1>5, <1>6, <1>7, <1>8, <1>9, <1>10 DEF RunStep

LEMMA VpnStepIsLoopStep ==
    ASSUME VpnInv, [Next]_vars
    PROVE  [Loop!Next]_(Loop!vars)
  <1>1. CASE RunStep
    BY <1>1, RunStepIsLoopStep
  <1>2. CASE Cancel
    <2>1. UNCHANGED Phase
      BY <1>2 DEF Cancel, Phase
    <2>2. Loop!Cancel
      BY <1>2, <2>1 DEF Cancel, Loop!Cancel
    <2>3. QED
      BY <2>2 DEF Loop!Next
  <1>3. ASSUME UNCHANGED runVars PROVE UNCHANGED Loop!vars
    BY <1>3 DEF runVars, Loop!vars, Phase
  <1>4. CASE \/ OthersStep
             \/ \E s \in Sessions :
                    \/ LinkDies(s) \/ OutReads(s) \/ OutFinds(s) \/ OutSends(s) \/ OutEnds(s)
                    \/ InEnds(s) \/ ReadSignal(s) \/ ReaderEnds(s)
                    \/ \E ps \in SUBSET Peers : Announce(s, ps)
    BY <1>3, <1>4 DEF OthersStep, LinkDies, OutReads, OutFinds, OutSends, OutEnds, InEnds,
       ReadSignal, ReaderEnds, Announce
  <1>5. CASE UNCHANGED vars
    BY <1>3, <1>5 DEF vars
  <1>6. QED
    BY <1>1, <1>2, <1>4, <1>5 DEF Next

\* RunVPN implements ReconnectLoop (vpn.go: RunVPN).
THEOREM VpnLoopImplemented == Spec => LoopSpec
  <1>1. Init => Loop!Init
    BY DEF Init, Loop!Init, Phase
  <1>2. QED
    BY <1>1, VpnStepIsLoopStep, VpnInvariance, PTL DEF Spec, LoopSpec, Loop!Spec
=============================================================================
