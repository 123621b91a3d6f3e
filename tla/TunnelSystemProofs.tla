------------------------- MODULE TunnelSystemProofs -------------------------
(***************************************************************************)
(* Proofs about TunnelSystem, from the inductive invariants of its parts:  *)
(* a step of the system is a step of the client, a step of the server or   *)
(* neither, so both invariants hold, and what ties the two ends together   *)
(* is added to them.  For any tunnels, sessions, ports and requests.       *)
(***************************************************************************)
EXTENDS TunnelSystem, FiniteSetTheorems, TLAPS

CP == INSTANCE TunnelClientProofs WITH
          TunnelIds <- 0..(IdSpace - 1), Nobody <- None

SP == INSTANCE TunnelServerProofs WITH
          Conns <- 1..MaxSessions,
          Streams <- (1..MaxSessions) \X Specs,
          ConnOf <- [h \in (1..MaxSessions) \X Specs |-> h[1]],
          AuthFrames <- {Want[t] : t \in Specs}

-----------------------------------------------------------------------------
(* The inductive invariant *)

\* Streams of a connection that the server has not accepted are untouched.
StartInv == \A h \in Streams : run[h[1]] = "none" => pc[h] = "none"

\* A client that was told auth_ok has a tunnel with an id, and what is accepted
\* is what it asked for.
ReplyInv ==
    \A h \in Streams :
        /\ reply[h] = "auth_ok" =>
               pc[h] \in {"serve", "release", "close", "done"} /\ id[h] # IdSpace
        /\ req[h] # None =>
               req[h] = [proto |-> Server!ValidProto(Want[h[2]].proto), port |-> Want[h[2]].port]

\* Its control stream is served as long as the server has the session and the
\* client does not close the stream.
ServeInv ==
    \A h \in Streams :
        reply[h] = "auth_ok" /\ up[h[1]] /\ ~ClosedByClient(h) => pc[h] = "serve"

\* The client's table of this session is the server's ids, one entry for each
\* tunnel that was granted.
TableInv ==
    main \in {"setup", "serving"} =>
        /\ \A t \in Specs :
               cs[<<sess, t>>] = "ok" =>
                   reply[<<sess, t>>] = "auth_ok" /\ tuns[id[<<sess, t>>]] = t
        /\ \A i \in 0..(IdSpace - 1) :
               tuns[i] # None =>
                   cs[<<sess, tuns[i]>>] = "ok" /\ id[<<sess, tuns[i]>>] = i

SystemInv ==
    CP!ClientInv /\ SP!IInv /\ StartInv /\ ReplyInv /\ ServeInv /\ TableInv

-----------------------------------------------------------------------------
(* The assumptions of the parts *)

\* What TunnelClient and TunnelServer assume of their constants holds of the
\* values given to them.
LEMMA ClientAssumed == CP!ClientAssumption
  BY SystemAssumption DEF CP!ClientAssumption

LEMMA StreamsAssumed == SP!StreamsAssumption
  <1> DEFINE S == (1..MaxSessions) \X Specs
  <1>1. IsFiniteSet(1..MaxSessions)
    BY SystemAssumption, FS_Interval
  <1>2. IsFiniteSet(S)
    BY <1>1, SystemAssumption, FS_Product
  <1>3. None \notin S
    BY SystemAssumption DEF Streams, Sessions
  <1>4. \A h \in S : h[1] \in 1..MaxSessions
    OBVIOUS
  <1>5. [h \in S |-> h[1]] \in [S -> 1..MaxSessions]
    BY <1>4
  <1>6. QED
    BY <1>2, <1>3, <1>5 DEF SP!StreamsAssumption, SP!IsFiniteSet, IsFiniteSet

LEMMA NumbersAssumed == SP!NumbersAssumption
  BY SystemAssumption DEF SP!NumbersAssumption

LEMMA RequestsAssumed == SP!RequestsAssumption
  BY SystemAssumption DEF SP!RequestsAssumption, Server!Requests, SP!Requests,
     Server!Ports, SP!Ports, Server!Protos, SP!Protos

\* So their inductive invariants are kept by their own steps.
LEMMA ClientStepInv ==
    ASSUME CP!ClientInv, [CP!ClientNext]_(CP!clientVars)
    PROVE  CP!ClientInv'
  BY ClientAssumed, CP!NextInv DEF CP!NextInv

LEMMA ServerStepInv ==
    ASSUME SP!IInv, [SP!Next]_(SP!vars)
    PROVE  SP!IInv'
  BY StreamsAssumed, NumbersAssumed, RequestsAssumed, SP!InvStep DEF SP!InvStep

\* The two instances of a part have the same actions: one is the model's, the
\* other that of the part's proofs.
LEMMA ClientActs ==
    /\ Client!CancelClient => CP!CancelClient
    /\ Client!StartAttempt => CP!StartAttempt
    /\ Client!StopBetweenSessions => CP!StopBetweenSessions
    /\ Client!DialFails => CP!DialFails
    /\ Client!Dial => CP!Dial
    /\ Client!Serve => CP!Serve
    /\ Client!SetupFails => CP!SetupFails
    /\ Client!SessionLost => CP!SessionLost
    /\ Client!StopServing => CP!StopServing
    /\ Client!Judge => CP!Judge
    /\ Client!WaitOver => CP!WaitOver
    /\ \A s \in Sessions : Client!LinkDies(s) => CP!LinkDies(s)
    /\ \A t \in Specs :
          /\ Client!OpenControl(t) => CP!OpenControl(t)
          /\ Client!SendAuth(t) => CP!SendAuth(t)
          /\ Client!SetupError(t) => CP!SetupError(t)
          /\ Client!Rejected(t) => CP!Rejected(t)
          /\ \A i \in 0..(IdSpace-1) : Client!Granted(t,i) => CP!Granted(t,i)
  BY DEF Client!CancelClient, CP!CancelClient, Client!StartAttempt, CP!StartAttempt,
     Client!StopBetweenSessions, CP!StopBetweenSessions, Client!DialFails, CP!DialFails,
     Client!Dial, CP!Dial, Client!Serve, CP!Serve, Client!SetupFails, CP!SetupFails,
     Client!SessionLost, CP!SessionLost, Client!StopServing, CP!StopServing, Client!Judge, CP!Judge,
     Client!WaitOver, CP!WaitOver, Client!LinkDies, CP!LinkDies, Client!OpenControl, CP!OpenControl,
     Client!SendAuth, CP!SendAuth, Client!SetupError, CP!SetupError, Client!Rejected, CP!Rejected,
     Client!Granted, CP!Granted, Client!Setup, CP!Setup, Client!SendError, CP!SendError,
     Client!SetupOver, CP!SetupOver, Client!LeaveSession, CP!LeaveSession, Client!Outcome, CP!Outcome,
     Client!Backoff, CP!Backoff, Client!Kept, CP!Kept, Client!FiveToTheNinth, CP!FiveToTheNinth

LEMMA ServerActs ==
    /\ Server!ServerStep => SP!ServerStep
    /\ \A c \in Sessions :
           /\ Server!StartConn(c) => SP!StartConn(c)
           /\ Server!SessionEnds(c) => SP!SessionEnds(c)
           /\ Server!RunEnds(c) => SP!RunEnds(c)
           /\ Server!ReaperFires(c) => SP!ReaperFires(c)
           /\ Server!CloseNext(c) => SP!CloseNext(c)
           /\ Server!CloseDone(c) => SP!CloseDone(c)
           /\ Server!AcceptConn(c) => SP!AcceptConn(c)
  BY DEF Sessions,
     Server!ServerStep, SP!ServerStep, Server!Cancel, SP!Cancel,
     Server!StopAccepting, SP!StopAccepting, Server!RunReturns, SP!RunReturns,
     Server!StartConn, SP!StartConn, Server!SessionEnds, SP!SessionEnds,
     Server!RunEnds, SP!RunEnds, Server!ReaperFires, SP!ReaperFires,
     Server!CloseNext, SP!CloseNext, Server!CloseDone, SP!CloseDone,
     Server!AcceptConn, SP!AcceptConn, Server!Go, SP!Go, Server!Busy, SP!Busy,
     Server!ClosePublic, SP!ClosePublic, Server!Unregister, SP!Unregister,
     Server!CloseAll, SP!CloseAll, Server!Grantable, SP!Grantable, Server!IdAfter,
     SP!IdAfter, Server!ValidProto, SP!ValidProto, Server!PortAllowed,
     SP!PortAllowed, Server!Acceptable, SP!Acceptable, Server!Refuse, SP!Refuse,
     Server!Ids, SP!Ids, Server!Ports, SP!Ports, Server!NoId, SP!NoId,
     Server!Protos, SP!Protos, Server!connVars, SP!connVars, Server!registry,
     SP!registry, Server!streamVars, SP!streamVars

LEMMA HandlerActs ==
    ASSUME NEW h \in Streams
    PROVE  /\ Server!ReadFrame(h, Want[h[2]]) => SP!ReadFrame(h, Want[h[2]])
           /\ Server!AcceptStream(h) => SP!AcceptStream(h)
           /\ Server!AuthUnreadable(h) => SP!AuthUnreadable(h)
           /\ Server!GrantRefused(h) => SP!GrantRefused(h)
           /\ Server!Register(h) => SP!Register(h)
           /\ Server!Listen(h) => SP!Listen(h)
           /\ Server!ListenFails(h) => SP!ListenFails(h)
           /\ Server!Store(h) => SP!Store(h)
           /\ Server!AckSent(h) => SP!AckSent(h)
           /\ Server!AckFails(h) => SP!AckFails(h)
           /\ Server!CloseUnacked(h) => SP!CloseUnacked(h)
           /\ Server!Undo(h) => SP!Undo(h)
           /\ Server!ControlEnds(h) => SP!ControlEnds(h)
           /\ Server!Release(h) => SP!Release(h)
           /\ Server!CloseReleased(h) => SP!CloseReleased(h)
  <1>1. Server!ReadFrame(h, Want[h[2]]) => SP!ReadFrame(h, Want[h[2]])
    BY DEF
       Server!ReadFrame, SP!ReadFrame, Server!Acceptable, SP!Acceptable,
       Server!ValidProto, SP!ValidProto, Server!Protos, SP!Protos, Server!Ports,
       SP!Ports, Server!PortAllowed, SP!PortAllowed, Server!Refuse, SP!Refuse,
       Server!Go, SP!Go, Server!connVars, SP!connVars, Server!registry, SP!registry,
       Server!streamVars, SP!streamVars
  <1>2. QED
    BY <1>1, ZenonT(60) DEF
       Server!AcceptStream, SP!AcceptStream, Server!AuthUnreadable,
       SP!AuthUnreadable, Server!GrantRefused, SP!GrantRefused, Server!Register,
       SP!Register, Server!Listen, SP!Listen, Server!ListenFails, SP!ListenFails,
       Server!Store, SP!Store, Server!AckSent, SP!AckSent, Server!AckFails,
       SP!AckFails, Server!CloseUnacked, SP!CloseUnacked, Server!Undo, SP!Undo,
       Server!ControlEnds, SP!ControlEnds, Server!Release, SP!Release,
       Server!CloseReleased, SP!CloseReleased, Server!Go, SP!Go, Server!Busy,
       SP!Busy, Server!Grantable, SP!Grantable, Server!IdAfter, SP!IdAfter,
       Server!Refuse, SP!Refuse, Server!ClosePublic, SP!ClosePublic,
       Server!Unregister, SP!Unregister, Server!connVars, SP!connVars,
       Server!registry, SP!registry, Server!streamVars, SP!streamVars

-----------------------------------------------------------------------------
(* Both parts keep their invariants *)

\* What the parts say of the types of what they share.
LEMMA Types ==
    ASSUME SystemInv
    PROVE  /\ sess \in 0..MaxSessions
           /\ main \in {"setup", "serving"} => sess \in Sessions
           /\ cs \in [Streams -> {"none", "unopened", "opened", "unsent", "sent", "unread",
                                  "rejected", "ok"}]
           /\ tuns \in [0..(IdSpace - 1) -> Specs \union {None}]
           /\ run \in [Sessions -> {"none", "accepted", "accepting", "closing", "returned"}]
           /\ up \in [Sessions -> BOOLEAN]
           /\ pc \in [Streams -> SP!PCs]
           /\ req \in [Streams -> SP!Requests \union {None}]
           /\ id \in [Streams -> 0..IdSpace]
           /\ reply \in [Streams -> {None, "auth_ok", "auth_err"}]
           /\ \A h \in Streams :
                  /\ h = <<h[1], h[2]>> /\ h[1] \in Sessions /\ h[2] \in Specs
                  /\ [g \in (1..MaxSessions) \X Specs |-> g[1]][h] = h[1]
  <1>1. CP!ClientTypeOK /\ CP!LoopInv /\ SP!TypeOK
    BY DEF SystemInv, CP!ClientInv, SP!IInv
  <1>2. /\ sess \in 0..MaxSessions
        /\ main \in {"setup", "serving"} => sess \in Sessions
        /\ cs \in [Streams -> {"none", "unopened", "opened", "unsent", "sent", "unread",
                               "rejected", "ok"}]
        /\ tuns \in [0..(IdSpace - 1) -> Specs \union {None}]
    BY <1>1 DEF CP!ClientTypeOK, CP!LoopInv, CP!Sessions, CP!Controls, Streams, Sessions
  <1>3. /\ run \in [Sessions -> {"none", "accepted", "accepting", "closing", "returned"}]
        /\ up \in [Sessions -> BOOLEAN]
        /\ pc \in [Streams -> SP!PCs]
        /\ req \in [Streams -> SP!Requests \union {None}]
        /\ reply \in [Streams -> {None, "auth_ok", "auth_err"}]
    BY <1>1 DEF SP!TypeOK, Streams, Sessions
  <1>4. id \in [Streams -> 0..IdSpace]
    <2>1. id \in [Streams -> SP!Ids \union {SP!NoId}]
      BY <1>1 DEF SP!TypeOK, Streams, Sessions
    <2>2. SP!Ids \union {SP!NoId} = 0..IdSpace
      BY SystemAssumption DEF SP!Ids, SP!NoId
    <2>3. QED
      BY <2>1, <2>2
  <1>5. \A h \in Streams :
            /\ h = <<h[1], h[2]>> /\ h[1] \in Sessions /\ h[2] \in Specs
            /\ [g \in (1..MaxSessions) \X Specs |-> g[1]][h] = h[1]
    BY DEF Streams, Sessions
  <1>6. QED
    BY <1>2, <1>3, <1>4, <1>5

\* A session opens one control stream for each tunnel, so its ids never come
\* round again.
LEMMA OneRound ==
    ASSUME NEW c \in Sessions
    PROVE  SP!FirstRound(c)
  <1> DEFINE S == {c} \X Specs
             G == SP!Granted(c)
  <1>1. /\ IsFiniteSet(S)
        /\ Cardinality(S) = Cardinality({c}) * Cardinality(Specs)
    BY SystemAssumption, FS_Singleton, FS_Product
  <1>2. Cardinality(S) = Cardinality(Specs)
    <2>1. Cardinality({c}) = 1
      BY FS_Singleton
    <2>2. Cardinality(Specs) \in Nat
      BY SystemAssumption, FS_CardinalityType
    <2>3. \A k \in Nat : 1 * k = k
      OBVIOUS
    <2> HIDE DEF S
    <2>4. QED
      BY <1>1, <2>1, <2>2, <2>3
  <1>3. G \subseteq S
    <2> SUFFICES ASSUME NEW h \in G PROVE h \in S
      OBVIOUS
    <2>1. h \in (1..MaxSessions) \X Specs
          /\ [g \in (1..MaxSessions) \X Specs |-> g[1]][h] = c
      BY DEF SP!Granted
    <2>2. h[1] = c /\ h = <<h[1], h[2]>> /\ h[2] \in Specs
      BY <2>1
    <2>3. QED
      BY <2>2
  <1>4. Cardinality(G) <= Cardinality(S) /\ Cardinality(G) \in Nat /\ Cardinality(S) \in Nat
    BY <1>1, <1>3, FS_Subset, FS_CardinalityType
  <1>5. Cardinality(G) <= IdSpace
    BY <1>2, <1>4, SystemAssumption
  <1>6. SP!Cardinality(SP!Granted(c)) <= IdSpace
    BY <1>5 DEF SP!Cardinality, Cardinality, SP!IsFiniteSet, IsFiniteSet
  <1>7. QED
    BY <1>6 DEF SP!FirstRound

\* An id the server has granted to a tunnel of this session names no other.
LEMMA GrantedIds ==
    ASSUME SystemInv, NEW g \in Streams, NEW h \in Streams, g # h, g[1] = h[1],
           id[g] # IdSpace
    PROVE  id[g] # id[h]
  <1>1. SP!IdsDistinct
    BY DEF SystemInv, SP!IInv, SP!IdInv
  <1>2. QED
    BY <1>1, OneRound, Types DEF SP!IdsDistinct, SP!NoId, Streams, Sessions

\* The client takes an id that is in its table for no other tunnel.
LEMMA ReadReplyIsClientStep ==
    ASSUME SystemInv, NEW t \in Specs, ReadReply(t)
    PROVE  CP!ClientNext
  <1> DEFINE h == <<sess, t>>
  <1>1. main = "setup" /\ sess \in Sessions /\ h \in Streams
    BY Types DEF ReadReply, Streams
  <1>2. CASE reply[h] = "auth_err" /\ Client!Rejected(t)
    BY <1>2, ClientActs DEF CP!ClientNext
  <1>3. CASE reply[h] = "auth_ok" /\ Client!Granted(t, id[h])
    <2>1. id[h] \in 0..(IdSpace - 1)
      <3>1. id[h] # IdSpace /\ id[h] \in 0..IdSpace
        BY <1>1, <1>3, Types DEF SystemInv, ReplyInv
      <3>2. QED
        BY <3>1, SystemAssumption
    <2>2. cs[h] = "sent"
      BY <1>3 DEF Client!Granted, Client!Setup
    <2>3. ASSUME tuns[id[h]] # None PROVE FALSE
      <3> DEFINE g == <<sess, tuns[id[h]]>>
      <3>1. cs[g] = "ok" /\ id[g] = id[h]
        BY <1>1, <2>1, <2>3 DEF SystemInv, TableInv
      <3>2. g \in Streams /\ g[1] = h[1]
        BY <1>1, <2>1, <2>3, Types DEF Streams
      <3>3. id[g] # IdSpace
        BY <2>1, <3>1, SystemAssumption
      <3>4. g # h
        BY <2>2, <3>1
      <3>5. QED
        BY <1>1, <3>1, <3>2, <3>3, <3>4, GrantedIds
    <2>4. CP!Granted(t, id[h])
      BY <1>3, <2>1, ClientActs
    <2>5. QED
      BY <2>1, <2>3, <2>4 DEF CP!ClientNext
  <1>4. QED
    BY <1>2, <1>3 DEF ReadReply

\* Each part by itself: a step of one leaves the other alone.
ClientMoves == ClientAlone \/ Dial \/ \E t \in Specs : ReadReply(t)

LEMMA ClientStepIsItsOwn ==
    ASSUME SystemInv, ClientMoves
    PROVE  CP!ClientNext /\ UNCHANGED serverVars
  <1>1. UNCHANGED serverVars
    BY DEF ClientMoves, ClientAlone, Dial, ReadReply
  <1>2. CASE ClientAlone
    BY <1>1, <1>2, ClientActs DEF ClientAlone, CP!ClientNext, CP!RunStep, CP!Sessions, Sessions
  <1>3. CASE Dial
    BY <1>1, <1>3, ClientActs DEF Dial, CP!ClientNext, CP!RunStep
  <1>4. QED
    BY <1>1, <1>2, <1>3, ReadReplyIsClientStep DEF ClientMoves

LEMMA ClientKeeps ==
    ASSUME SystemInv, ClientMoves
    PROVE  CP!ClientInv' /\ SP!IInv' /\ UNCHANGED serverVars
  <1>1. CP!ClientNext /\ UNCHANGED serverVars
    BY ClientStepIsItsOwn
  <1>2. CP!ClientInv'
    BY <1>1, ClientStepInv DEF SystemInv
  <1>3. UNCHANGED SP!vars
    BY <1>1 DEF serverVars, SP!vars, SP!connVars, SP!registry, SP!streamVars
  <1>4. SP!IInv'
    BY <1>3, ServerStepInv DEF SystemInv
  <1>5. QED
    BY <1>1, <1>2, <1>4

ServerMoves == ServerAlone \/ ServerHears

LEMMA ServerStepIsItsOwn ==
    ASSUME ServerMoves
    PROVE  SP!Next /\ UNCHANGED clientVars
  <1>1. UNCHANGED clientVars
    BY DEF ServerMoves, ServerAlone, ServerHears
  <1>2. ASSUME ServerAlone PROVE SP!Next
    <2>1. ASSUME Server!ServerStep PROVE SP!Next
      BY <2>1, ServerActs DEF SP!Next
    <2>2. ASSUME NEW c \in Sessions,
                 \/ Server!StartConn(c) \/ Server!SessionEnds(c) \/ Server!RunEnds(c)
                 \/ Server!ReaperFires(c) \/ Server!CloseNext(c) \/ Server!CloseDone(c)
          PROVE  SP!Next
      BY <2>2, ServerActs DEF SP!Next, SP!ConnStep, Sessions
    <2>3. ASSUME NEW h \in Streams,
                 \/ Server!GrantRefused(h) \/ Server!Register(h) \/ Server!Listen(h)
                 \/ Server!ListenFails(h) \/ Server!Store(h) \/ Server!AckSent(h)
                 \/ Server!AckFails(h) \/ Server!CloseUnacked(h) \/ Server!Undo(h)
                 \/ Server!Release(h) \/ Server!CloseReleased(h)
          PROVE  SP!Next
      <3>1. SP!StreamStep(h)
        BY <2>3, HandlerActs DEF SP!StreamStep
      <3>2. QED
        BY <3>1 DEF SP!Next, Streams, Sessions
    <2>4. QED
      BY <1>2, <2>1, <2>2, <2>3 DEF ServerAlone
  <1>3. ASSUME ServerHears PROVE SP!Next
    <2>1. ASSUME NEW c \in Sessions, Server!AcceptConn(c)
          PROVE  SP!Next
      BY <2>1, ServerActs DEF SP!Next, SP!ConnStep, Sessions
    <2>2. ASSUME NEW h \in Streams,
                 \/ Server!AcceptStream(h) \/ Server!ReadFrame(h, Want[h[2]])
                 \/ Server!AuthUnreadable(h) \/ Server!ControlEnds(h)
          PROVE  SP!Next
      <3>1. Server!ReadFrame(h, Want[h[2]]) => SP!ReadAuth(h)
        BY HandlerActs DEF SP!ReadAuth, Streams
      <3>2. SP!StreamStep(h)
        BY <2>2, <3>1, HandlerActs DEF SP!StreamStep
      <3>3. QED
        BY <3>2 DEF SP!Next, Streams, Sessions
    <2>3. QED
      BY <1>3, <2>1, <2>2 DEF ServerHears
  <1>4. QED
    BY <1>1, <1>2, <1>3 DEF ServerMoves

LEMMA ServerKeeps ==
    ASSUME SystemInv, ServerMoves
    PROVE  CP!ClientInv' /\ SP!IInv' /\ UNCHANGED clientVars
  <1>1. SP!Next /\ UNCHANGED clientVars
    BY ServerStepIsItsOwn
  <1>2. SP!IInv'
    BY <1>1, ServerStepInv DEF SystemInv
  <1>3. UNCHANGED CP!clientVars
    BY <1>1 DEF clientVars, CP!clientVars
  <1>4. CP!ClientInv'
    BY <1>3, ClientStepInv DEF SystemInv
  <1>5. QED
    BY <1>1, <1>2, <1>4

-----------------------------------------------------------------------------
(* What the client does *)

\* It moves on, dials, gets on with or gives up a control stream, or takes
\* auth_ok.
Elsewhere ==
    /\ UNCHANGED <<cs, sess, tuns>>
    /\ main' \in {"setup", "serving"} => main \in {"setup", "serving"}

OnControl(t) ==
    /\ UNCHANGED tuns
    /\ \E from \in {"none", "opened", "sent"} :
           \E to \in {"opened", "unopened", "sent", "unsent", "unread", "rejected"} :
               Client!Setup(t, from, to)

TakesGrant(t) == reply[<<sess, t>>] = "auth_ok" /\ Client!Granted(t, id[<<sess, t>>])

LEMMA ClientCases ==
    ASSUME ClientMoves
    PROVE  Elsewhere \/ Client!Dial \/ \E t \in Specs : OnControl(t) \/ TakesGrant(t)
  <1>1. CASE \/ Client!CancelClient \/ Client!StartAttempt \/ Client!StopBetweenSessions
             \/ Client!DialFails \/ Client!Serve \/ Client!SetupFails \/ Client!SessionLost
             \/ Client!StopServing \/ Client!Judge \/ Client!WaitOver
             \/ \E s \in Sessions : Client!LinkDies(s)
    BY <1>1 DEF Elsewhere, Client!CancelClient, Client!StartAttempt,
       Client!StopBetweenSessions, Client!DialFails, Client!Serve, Client!SetupFails,
       Client!SessionLost, Client!StopServing, Client!Judge, Client!Outcome,
       Client!WaitOver, Client!LinkDies
  <1>2. ASSUME NEW t \in Specs,
               \/ Client!OpenControl(t) \/ Client!SendAuth(t) \/ Client!SetupError(t)
               \/ Client!Rejected(t)
        PROVE  OnControl(t)
    BY <1>2 DEF OnControl, Client!OpenControl, Client!SendAuth, Client!SetupError,
       Client!Rejected
  <1>3. QED
    BY <1>1, <1>2 DEF ClientMoves, ClientAlone, Dial, ReadReply, TakesGrant

\* A control stream the client has closed stays closed.
LEMMA ClosedStays ==
    ASSUME SystemInv, ClientMoves, NEW h \in Streams, ClosedByClient(h)
    PROVE  ClosedByClient(h)'
  <1> USE Types DEF ClosedByClient, Streams
  <1>1. CASE Elsewhere \/ Client!Dial
    BY <1>1 DEF Elsewhere, Client!Dial
  <1>2. ASSUME NEW t \in Specs, OnControl(t) \/ TakesGrant(t)
        PROVE  cs'[h] = cs[h]
    BY <1>2 DEF OnControl, TakesGrant, Client!Granted, Client!Setup
  <1>3. QED
    BY <1>1, <1>2, ClientCases

\* A new session starts with an empty table; auth_ok adds an entry under an id
\* that no other tunnel of the session has.
LEMMA ClientKeepsTable ==
    ASSUME SystemInv, ClientMoves
    PROVE  TableInv'
  <1>1. UNCHANGED serverVars
    BY ClientKeeps
  <1> USE DEF serverVars
  <1>2. CASE Elsewhere
    BY <1>1, <1>2 DEF Elsewhere, SystemInv, TableInv
  <1>3. CASE Client!Dial
    <2>1. \A t \in Specs : cs[<<sess + 1, t>>] = "none"
      <3>1. \A s \in 1..MaxSessions, t \in Specs : s > sess => cs[<<s, t>>] = "none"
        BY DEF SystemInv, CP!ClientInv, CP!SetupInv, CP!Sessions
      <3>2. sess \in 0..MaxSessions /\ sess < MaxSessions
        BY <1>3, Types DEF Client!Dial
      <3>3. sess + 1 \in 1..MaxSessions /\ sess + 1 > sess
        BY <3>2, SystemAssumption
      <3>4. QED
        BY <3>1, <3>3
    <2>2. sess' = sess + 1 /\ cs' = cs /\ \A i \in 0..(IdSpace - 1) : tuns'[i] = None
      BY <1>3 DEF Client!Dial
    <2>3. QED
      BY <2>1, <2>2 DEF TableInv
  <1>4. ASSUME NEW t \in Specs, OnControl(t) \/ TakesGrant(t)
        PROVE  TableInv'
    <2> DEFINE h == <<sess, t>>
    <2>1. /\ main = "setup" /\ main' = main /\ sess' = sess /\ sess \in Sessions
          /\ h \in Streams /\ cs[h] # "ok"
          /\ \A u \in Specs : u # t => cs'[<<sess, u>>] = cs[<<sess, u>>]
      BY <1>4, Types DEF OnControl, TakesGrant, Client!Granted, Client!Setup, Streams
    <2>2. /\ \A u \in Specs : cs[<<sess, u>>] = "ok" =>
                 reply[<<sess, u>>] = "auth_ok" /\ tuns[id[<<sess, u>>]] = u
          /\ \A i \in 0..(IdSpace - 1) : tuns[i] # None =>
                 cs[<<sess, tuns[i]>>] = "ok" /\ id[<<sess, tuns[i]>>] = i
      BY <2>1 DEF SystemInv, TableInv
    <2>3. \A i \in 0..(IdSpace - 1) : tuns[i] # None => tuns[i] \in Specs \ {t}
      BY <2>1, <2>2, Types
    <2>4. CASE OnControl(t)
      <3>1. tuns' = tuns /\ cs'[h] # "ok"
        BY <2>1, <2>4, Types DEF OnControl, Client!Setup
      <3>2. QED
        BY <1>1, <2>1, <2>2, <2>3, <3>1 DEF TableInv
    <2>5. CASE TakesGrant(t)
      <3> DEFINE i == id[h]
      <3>1. reply[h] = "auth_ok" /\ tuns' = [tuns EXCEPT ![i] = t] /\ cs'[h] = "ok"
        BY <2>1, <2>5, Types DEF TakesGrant, Client!Granted, Client!Setup
      <3>2. i \in 0..(IdSpace - 1)
        <4>1. i # IdSpace /\ i \in 0..IdSpace
          BY <2>1, <3>1, Types DEF SystemInv, ReplyInv
        <4>2. QED
          BY <4>1, SystemAssumption
      <3>3. tuns'[i] = t /\ \A j \in 0..(IdSpace - 1) : j # i => tuns'[j] = tuns[j]
        BY <3>1, <3>2, Types
      <3>4. ASSUME NEW u \in Specs, u # t, cs'[<<sess, u>>] = "ok"
            PROVE  reply[<<sess, u>>] = "auth_ok" /\ tuns'[id[<<sess, u>>]] = u
        <4>1. reply[<<sess, u>>] = "auth_ok" /\ tuns[id[<<sess, u>>]] = u
          BY <2>1, <2>2, <3>4
        <4>2. <<sess, u>> \in Streams /\ id[<<sess, u>>] # IdSpace /\ id[<<sess, u>>] \in 0..IdSpace
          BY <2>1, <4>1, Types DEF SystemInv, ReplyInv, Streams
        <4>3. id[<<sess, u>>] # i
          BY <2>1, <3>4, <4>2, GrantedIds
        <4>4. id[<<sess, u>>] \in 0..(IdSpace - 1)
          BY <4>2, SystemAssumption
        <4>5. QED
          BY <3>3, <4>1, <4>3, <4>4
      <3>5. ASSUME NEW j \in 0..(IdSpace - 1), tuns'[j] # None
            PROVE  cs'[<<sess, tuns'[j]>>] = "ok" /\ id[<<sess, tuns'[j]>>] = j
        <4>1. CASE j = i
          BY <3>1, <3>3, <4>1
        <4>2. CASE j # i
          BY <2>1, <2>2, <2>3, <3>3, <3>5, <4>2
        <4>3. QED
          BY <4>1, <4>2
      <3>6. QED
        BY <1>1, <2>1, <3>1, <3>3, <3>4, <3>5 DEF TableInv
    <2>6. QED
      BY <1>4, <2>4, <2>5
  <1>5. QED
    BY <1>2, <1>3, <1>4, ClientCases

LEMMA ClientPreserves ==
    ASSUME SystemInv, ClientMoves
    PROVE  SystemInv'
  <1>1. CP!ClientInv' /\ SP!IInv' /\ UNCHANGED serverVars
    BY ClientKeeps
  <1>2. StartInv' /\ ReplyInv'
    BY <1>1 DEF serverVars, SystemInv, StartInv, ReplyInv
  <1>3. ServeInv'
    BY <1>1, ClosedStays DEF serverVars, SystemInv, ServeInv
  <1>4. QED
    BY <1>1, <1>2, <1>3, ClientKeepsTable DEF SystemInv

-----------------------------------------------------------------------------
(* What the server does *)

\* Connections: what they tell of their streams does not change.
LEMMA ConnPreserves ==
    ASSUME SystemInv,
           \/ Server!ServerStep
           \/ \E c \in Sessions :
                  \/ Server!AcceptConn(c) \/ Server!StartConn(c) \/ Server!SessionEnds(c)
                  \/ Server!RunEnds(c) \/ Server!ReaperFires(c) \/ Server!CloseNext(c)
                  \/ Server!CloseDone(c),
           UNCHANGED clientVars
    PROVE  StartInv' /\ ReplyInv' /\ ServeInv' /\ TableInv'
  <1>1. UNCHANGED <<pc, req, id, reply>>
    BY DEF Server!ServerStep, Server!Cancel, Server!StopAccepting, Server!RunReturns,
       Server!AcceptConn, Server!StartConn, Server!SessionEnds, Server!RunEnds,
       Server!ReaperFires, Server!CloseNext, Server!CloseDone, Server!streamVars
  <1>2. \A s \in Sessions :
            /\ run'[s] = "none" => run[s] = "none"
            /\ up'[s] => up[s] \/ run[s] = "none"
    <2>1. CASE Server!ServerStep
      BY <2>1 DEF Server!ServerStep, Server!Cancel, Server!StopAccepting, Server!RunReturns,
         Server!connVars
    <2>2. ASSUME NEW c \in Sessions,
                 \/ Server!AcceptConn(c) \/ Server!StartConn(c) \/ Server!SessionEnds(c)
                 \/ Server!RunEnds(c) \/ Server!ReaperFires(c) \/ Server!CloseNext(c)
                 \/ Server!CloseDone(c)
          PROVE  \A s \in Sessions :
                     /\ run'[s] = "none" => run[s] = "none"
                     /\ up'[s] => up[s] \/ run[s] = "none"
      <3> USE Types
      <3>1. CASE Server!AcceptConn(c)
        BY <3>1 DEF Server!AcceptConn
      <3>2. CASE Server!StartConn(c)
        BY <3>2 DEF Server!StartConn
      <3>3. CASE Server!SessionEnds(c)
        BY <3>3 DEF Server!SessionEnds
      <3>4. CASE Server!RunEnds(c)
        BY <3>4 DEF Server!RunEnds
      <3>5. CASE Server!ReaperFires(c)
        BY <3>5 DEF Server!ReaperFires
      <3>6. CASE Server!CloseNext(c)
        BY <3>6 DEF Server!CloseNext
      <3>7. CASE Server!CloseDone(c)
        BY <3>7 DEF Server!CloseDone
      <3>8. QED
        BY <2>2, <3>1, <3>2, <3>3, <3>4, <3>5, <3>6, <3>7
    <2>3. QED
      BY <2>1, <2>2
  <1> USE <1>1, <1>2, Types DEF clientVars, SystemInv
  <1>3. StartInv' /\ ReplyInv' /\ TableInv'
    BY DEF StartInv, ReplyInv, TableInv
  <1>4. ServeInv'
    BY DEF StartInv, ReplyInv, ServeInv, ClosedByClient
  <1>5. QED
    BY <1>3, <1>4

\* What a step of the handler of h may do to the rest, and what it has to leave.
HandlerMoves(h) ==
    /\ UNCHANGED <<run, up>>
    /\ \A g \in Streams \ {h} :
           pc'[g] = pc[g] /\ req'[g] = req[g] /\ id'[g] = id[g] /\ reply'[g] = reply[g]
    /\ pc'[h] # "none" => run[h[1]] # "none"
    /\ id[h] # IdSpace => id'[h] = id[h]
    /\ reply[h] = "auth_ok" => reply'[h] = "auth_ok"
    /\ reply'[h] = "auth_ok" =>
           pc'[h] \in {"serve", "release", "close", "done"} /\ id'[h] # IdSpace
    /\ req'[h] # req[h] =>
           req'[h] = [proto |-> Server!ValidProto(Want[h[2]].proto), port |-> Want[h[2]].port]
    /\ reply'[h] = "auth_ok" /\ up[h[1]] /\ ~ClosedByClient(h) => pc'[h] = "serve"

\* Every step of a handler is such a step.
LEMMA HandlerStepMoves ==
    ASSUME SystemInv, NEW h \in Streams,
           \/ Server!GrantRefused(h) \/ Server!Register(h) \/ Server!Listen(h)
           \/ Server!ListenFails(h) \/ Server!Store(h) \/ Server!AckSent(h)
           \/ Server!AckFails(h) \/ Server!CloseUnacked(h) \/ Server!Undo(h)
           \/ Server!Release(h) \/ Server!CloseReleased(h) \/ Server!AcceptStream(h)
           \/ Server!ReadFrame(h, Want[h[2]]) \/ Server!AuthUnreadable(h)
           \/ (~up[h[1]] \/ ClosedByClient(h)) /\ Server!ControlEnds(h)
    PROVE  HandlerMoves(h)
  <1>1. /\ pc[h] \in {"none", "auth", "grant"} => id[h] = IdSpace
        /\ pc[h] = "ack" => id[h] # IdSpace
    BY DEF SystemInv, SP!IInv, SP!HandlerInv, SP!HandlerOK, SP!Live, SP!NoId, Streams, Sessions
  <1>2. /\ pc[h] # "none" => run[h[1]] # "none"
        /\ reply[h] = "auth_ok" =>
               pc[h] \in {"serve", "release", "close", "done"} /\ id[h] # IdSpace
        /\ reply[h] = "auth_ok" /\ up[h[1]] /\ ~ClosedByClient(h) => pc[h] = "serve"
    BY DEF SystemInv, StartInv, ReplyInv, ServeInv
  <1> USE <1>1, <1>2, Types DEF HandlerMoves, Server!Go, Server!connVars, Server!registry
  <1>3. CASE Server!GrantRefused(h)
    BY <1>3 DEF Server!GrantRefused, Server!Refuse
  <1>4. CASE Server!Register(h)
    BY <1>4 DEF Server!Register
  <1>5. CASE \/ Server!Listen(h) \/ Server!ListenFails(h) \/ Server!Store(h)
             \/ Server!AckFails(h) \/ Server!CloseUnacked(h)
    BY <1>5 DEF Server!Listen, Server!ListenFails, Server!Store, Server!AckFails,
       Server!CloseUnacked
  <1>6. CASE Server!AckSent(h)
    BY <1>6 DEF Server!AckSent
  <1>7. CASE Server!Undo(h)
    BY <1>7 DEF Server!Undo, Server!Refuse
  <1>8. CASE Server!Release(h) \/ Server!CloseReleased(h)
    BY <1>8 DEF Server!Release, Server!CloseReleased
  <1>9. CASE Server!AcceptStream(h) \/ Server!AuthUnreadable(h)
    BY <1>9 DEF Server!AcceptStream, Server!AuthUnreadable
  <1>10. CASE Server!ReadFrame(h, Want[h[2]])
    BY <1>10 DEF Server!ReadFrame, Server!Refuse
  <1>11. CASE (~up[h[1]] \/ ClosedByClient(h)) /\ Server!ControlEnds(h)
    BY <1>11 DEF Server!ControlEnds
  <1>12. QED
    BY <1>3, <1>4, <1>5, <1>6, <1>7, <1>8, <1>9, <1>10, <1>11

LEMMA HandlerPreserves ==
    ASSUME SystemInv, NEW h \in Streams, HandlerMoves(h), UNCHANGED clientVars
    PROVE  StartInv' /\ ReplyInv' /\ ServeInv' /\ TableInv'
  <1> USE DEF HandlerMoves, clientVars, SystemInv
  <1>1. StartInv'
    BY DEF StartInv
  <1>2. ReplyInv'
    BY DEF ReplyInv
  <1>3. ServeInv'
    BY DEF ServeInv, ClosedByClient
  <1>4. TableInv'
    <2>1. \A g \in Streams : reply[g] = "auth_ok" => reply'[g] = "auth_ok" /\ id'[g] = id[g]
      BY DEF ReplyInv
    <2>2. ASSUME main \in {"setup", "serving"}
          PROVE  sess \in Sessions /\ tuns \in [0..(IdSpace - 1) -> Specs \union {None}]
      BY <2>2, Types
    <2>3. ASSUME main \in {"setup", "serving"}, NEW t \in Specs, cs[<<sess, t>>] = "ok"
          PROVE  /\ reply'[<<sess, t>>] = "auth_ok" /\ id'[<<sess, t>>] = id[<<sess, t>>]
                 /\ tuns[id[<<sess, t>>]] = t
      BY <2>1, <2>2, <2>3 DEF TableInv, Streams
    <2>4. ASSUME main \in {"setup", "serving"}, NEW i \in 0..(IdSpace - 1), tuns[i] # None
          PROVE  cs[<<sess, tuns[i]>>] = "ok" /\ id'[<<sess, tuns[i]>>] = i
      <3>1. tuns[i] \in Specs /\ cs[<<sess, tuns[i]>>] = "ok" /\ id[<<sess, tuns[i]>>] = i
        BY <2>2, <2>4 DEF TableInv
      <3>2. QED
        BY <2>3, <2>4, <3>1
    <2>5. QED
      BY <2>3, <2>4 DEF TableInv
  <1>5. QED
    BY <1>1, <1>2, <1>3, <1>4

LEMMA ServerPreserves ==
    ASSUME SystemInv, ServerMoves
    PROVE  SystemInv'
  <1>1. CP!ClientInv' /\ SP!IInv' /\ UNCHANGED clientVars
    BY ServerKeeps
  <1>2. StartInv' /\ ReplyInv' /\ ServeInv' /\ TableInv'
    <2>1. ASSUME NEW h \in Streams, HandlerMoves(h)
          PROVE  StartInv' /\ ReplyInv' /\ ServeInv' /\ TableInv'
      BY <1>1, <2>1, HandlerPreserves
    <2>2. CASE ServerAlone
      BY <1>1, <2>1, <2>2, ConnPreserves, HandlerStepMoves DEF ServerAlone
    <2>3. CASE ServerHears
      BY <1>1, <2>1, <2>3, ConnPreserves, HandlerStepMoves DEF ServerHears
    <2>4. QED
      BY <2>2, <2>3 DEF ServerMoves
  <1>3. QED
    BY <1>1, <1>2 DEF SystemInv

-----------------------------------------------------------------------------
(* The theorems *)

LEMMA PartsInit == Init => CP!ClientInit /\ SP!Init
  <1>1. Init => CP!ClientInit
    BY DEF Init, Client!ClientInit, CP!ClientInit, Client!Sessions, CP!Sessions,
       Client!Controls, CP!Controls
  <1>2. Init => SP!Init
    BY DEF Init, Server!Init, SP!Init, Server!Ids, SP!Ids, Server!Ports, SP!Ports,
       Server!NoId, SP!NoId
  <1>3. QED
    BY <1>1, <1>2

LEMMA SystemInit == Init => SystemInv
  <1> SUFFICES ASSUME Init PROVE SystemInv
    OBVIOUS
  <1>1. CP!ClientInv
    BY PartsInit, ClientAssumed, CP!InitInv DEF CP!InitInv
  <1>2. SP!IInv
    BY PartsInit, StreamsAssumed, NumbersAssumed, RequestsAssumed, SP!InitInv DEF SP!InitInv
  <1>3. StartInv /\ ReplyInv /\ ServeInv /\ TableInv
    <2>1. \A h \in Streams : pc[h] = "none" /\ req[h] = None /\ reply[h] = None
      BY DEF Init, Server!Init, Streams, Sessions
    <2>2. main \notin {"setup", "serving"}
      BY DEF Init, Client!ClientInit
    <2>3. \A h \in Streams : reply[h] # "auth_ok"
      BY <2>1, SystemAssumption
    <2>4. QED
      BY <2>1, <2>2, <2>3 DEF StartInv, ReplyInv, ServeInv, TableInv
  <1>4. QED
    BY <1>1, <1>2, <1>3 DEF SystemInv

LEMMA SystemStep == SystemInv /\ [Next]_vars => SystemInv'
  <1> SUFFICES ASSUME SystemInv, [Next]_vars PROVE SystemInv'
    OBVIOUS
  <1>1. CASE ClientMoves
    BY <1>1, ClientPreserves
  <1>2. CASE ServerMoves
    BY <1>2, ServerPreserves
  <1>3. CASE UNCHANGED <<clientVars, serverVars>>
    <2>1. UNCHANGED CP!clientVars
      BY <1>3 DEF clientVars, CP!clientVars
    <2>2. UNCHANGED SP!vars
      BY <1>3 DEF serverVars, SP!vars, SP!connVars, SP!registry, SP!streamVars
    <2>3. CP!ClientInv' /\ SP!IInv'
      BY <2>1, <2>2, ClientStepInv, ServerStepInv DEF SystemInv
    <2>4. StartInv' /\ ReplyInv' /\ ServeInv' /\ TableInv'
      BY <1>3 DEF clientVars, serverVars, SystemInv, StartInv, ReplyInv, ServeInv, TableInv,
         ClosedByClient
    <2>5. QED
      BY <2>3, <2>4 DEF SystemInv
  <1>4. QED
    BY <1>1, <1>2, <1>3 DEF Next, vars, ClientMoves, ServerMoves, PublicConn, HandleData

\* Both parts keep their own invariants in each other's company, and the
\* client's table is the server's registry as far as this session goes.
THEOREM SystemInvariance == Spec => []SystemInv
  BY SystemInit, SystemStep, PTL DEF Spec

\* While the client says connected and the server holds the session, every
\* tunnel is served at the port that was asked for (client.go: setupTunnel;
\* connection.go: serveControl).
THEOREM ConnectedIsReachable == Spec => []ConnectedMeansReachable
  <1>1. SystemInv => ConnectedMeansReachable
    <2> SUFFICES ASSUME SystemInv, main = "serving", up[sess], ~closed[sess], NEW t \in Specs
                 PROVE  Reachable(<<sess, t>>)
      BY DEF ConnectedMeansReachable
    <2> DEFINE h == <<sess, t>>
    <2>1. h \in Streams /\ h[1] = sess /\ h[2] = t
      BY Types DEF Streams
    <2>2. cs[h] = "ok"
      BY DEF SystemInv, CP!ClientInv, CP!ConnectedMeansGranted
    <2>3. reply[h] = "auth_ok"
      BY <2>2 DEF SystemInv, TableInv
    <2>4. pc[h] = "serve"
      BY <2>1, <2>2, <2>3 DEF SystemInv, ServeInv, ClosedByClient
    <2>5. /\ SP!HandlerOK(h) /\ SP!Live(h)
          /\ ports[sess][req[h].port] = h
      <3>1. h \in (1..MaxSessions) \X Specs /\ [g \in (1..MaxSessions) \X Specs |-> g[1]][h] = sess
        BY <2>1, Types DEF Streams, Sessions
      <3>2. SP!Live(h)
        BY <2>4 DEF SP!Live
      <3>3. QED
        BY <3>1, <3>2 DEF SystemInv, SP!IInv, SP!HandlerInv, SP!RegistryInv
    <2>6. ln[h] = "open" /\ req[h] # None
      <3>1. [g \in (1..MaxSessions) \X Specs |-> g[1]][h] = sess
        BY <2>1, Types DEF Streams, Sessions
      <3>2. QED
        BY <2>4, <2>5, <3>1 DEF SP!HandlerOK, SP!Live
    <2>7. QED
      BY <2>1, <2>5, <2>6 DEF SystemInv, ReplyInv, Reachable
  <1>2. QED
    BY <1>1, SystemInvariance, PTL

\* Every data stream that the client takes carries an id it knows, that of the
\* tunnel whose port the connection came in by (client.go: serveData, handleData).
THEOREM DataArrives == Spec => []DataFindsItsTunnel
  <1>1. SystemInv /\ data \subseteq Streams => DataFindsItsTunnel
    <2> SUFFICES ASSUME SystemInv, data \subseteq Streams, NEW h \in data, h[1] = sess,
                        Client!AcceptsData
                 PROVE  tuns[id[h]] = h[2]
      BY DEF DataFindsItsTunnel
    <2>1. h \in Streams /\ h = <<sess, h[2]>> /\ h[2] \in Specs /\ main = "serving"
      BY Types DEF Client!AcceptsData
    <2>2. cs[<<sess, h[2]>>] = "ok"
      BY <2>1 DEF SystemInv, CP!ClientInv, CP!ConnectedMeansGranted
    <2>3. QED
      BY <2>1, <2>2 DEF SystemInv, TableInv
  <1>2. Spec => [](data \subseteq Streams)
    <2>1. Init => data \subseteq Streams
      BY DEF Init
    <2>2. data \subseteq Streams /\ [Next]_vars => (data \subseteq Streams)'
      BY DEF Next, vars, dataVars, ClientAlone, Dial, ReadReply, ServerAlone, ServerHears,
         PublicConn, HandleData
    <2>3. QED
      BY <2>1, <2>2, PTL DEF Spec
  <1>3. QED
    BY <1>1, <1>2, SystemInvariance, PTL

-----------------------------------------------------------------------------
(* The system implements its parts *)

\* Seen from the client, and from the server, a step of the system is a step of
\* its own or none.
LEMMA StepOfTheParts ==
    ASSUME SystemInv, [Next]_vars
    PROVE  [CP!ClientNext]_(CP!clientVars) /\ [SP!Next]_(SP!vars)
  <1>1. UNCHANGED clientVars => UNCHANGED CP!clientVars
    BY DEF clientVars, CP!clientVars
  <1>2. UNCHANGED serverVars => UNCHANGED SP!vars
    BY DEF serverVars, SP!vars, SP!connVars, SP!registry, SP!streamVars
  <1>3. CASE ClientMoves
    BY <1>2, <1>3, ClientStepIsItsOwn
  <1>4. CASE ServerMoves
    BY <1>1, <1>4, ServerStepIsItsOwn
  <1>5. CASE UNCHANGED <<clientVars, serverVars>>
    BY <1>1, <1>2, <1>5
  <1>6. QED
    BY <1>3, <1>4, <1>5 DEF Next, vars, ClientMoves, ServerMoves, PublicConn, HandleData

\* The server in front of which TunnelClient was proved correct answers however
\* it likes; the real one is such a server (client.go: Run and what it calls).
THEOREM ClientImplemented == Spec => CP!ClientSpec
  BY PartsInit, SystemInvariance, StepOfTheParts, PTL DEF Spec, CP!ClientSpec

\* The clients of TunnelServer send what they like when they like; tunelc is such
\* a client (connection.go: Connection.run and what it calls).
THEOREM ServerImplemented == Spec => SP!Spec
  BY PartsInit, SystemInvariance, StepOfTheParts, PTL DEF Spec, SP!Spec

\* In front of the real server, too, Run keeps its promise to its caller and a
\* rejected tunnel is never asked for again (client.go: Run, isAuthErr).
THEOREM LoopKeptInSystem == Spec => CP!LoopSpec /\ CP!RejectionIsFinal
  BY ClientImplemented, ClientAssumed, CP!LoopImplemented, CP!RejectionsAreFinal, PTL
     DEF CP!LoopImplemented, CP!RejectionsAreFinal

\* With real clients, too, the server's maps keep the promise of PortRegistry,
\* and only its own handler, or closeAll, unregisters a tunnel (connection.go:
\* grantTunnel, releaseTunnel, closeAll).
THEOREM RegistryKeptInSystem == Spec => SP!RegistrySpec /\ SP!UnregistersOnlyOwn
  BY ServerImplemented, StreamsAssumed, NumbersAssumed, RequestsAssumed,
     SP!RegistryImplemented, SP!OnlyOwnIsUnregistered, PTL
     DEF SP!RegistryImplemented, SP!OnlyOwnIsUnregistered
=============================================================================
