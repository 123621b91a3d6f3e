------------------------- MODULE TunnelServerProofs -------------------------
(***************************************************************************)
(* Proofs about TunnelServer, for any number of connections and streams,   *)
(* any port range and any id space, also one smaller than the number of    *)
(* streams: what depends on ids not being granted twice says so itself, by *)
(* FirstRound.                                                             *)
(***************************************************************************)
EXTENDS TunnelServer, FiniteSetTheorems, TLAPS

-----------------------------------------------------------------------------
(* Type correctness *)

LEMMA IdAfterType ==
    ASSUME NEW i \in Ids
    PROVE  IdAfter(i) \in Ids
BY NumbersAssumption DEF IdAfter, Ids

LEMMA CloseAllType ==
    ASSUME TypeOK, NEW c \in Conns, CloseAll(c)
    PROVE  /\ closed' \in [Conns -> BOOLEAN]
           /\ all' \in [Conns -> SUBSET Streams]
           /\ tunnels' \in [Conns -> [Ids -> Streams \union {None}]]
           /\ ports' \in [Conns -> [Ports -> Streams \union {None}]]
           /\ nextID' \in [Conns -> Ids]
BY DEF TypeOK, CloseAll

LEMMA ClosePublicType ==
    ASSUME TypeOK, NEW h \in Streams, ClosePublic(h)
    PROVE  /\ ln' \in [Streams -> {"none", "bound", "open", "closed"}]
           /\ once' \in [Streams -> BOOLEAN]
BY DEF TypeOK, ClosePublic

LEMMA UnregisterType ==
    ASSUME TypeOK, NEW h \in Streams, Unregister(h)
    PROVE  /\ tunnels' \in [Conns -> [Ids -> Streams \union {None}]]
           /\ ports' \in [Conns -> [Ports -> Streams \union {None}]]
           /\ nextID' \in [Conns -> Ids]
BY StreamsAssumption DEF TypeOK, Unregister

LEMMA ConnStepType ==
    ASSUME TypeOK, NEW c \in Conns, ConnStep(c)
    PROVE  TypeOK'
<1> USE DEF connVars, registry, streamVars
<1>1. CASE AcceptConn(c) \/ StartConn(c) \/ SessionEnds(c)
  BY <1>1 DEF AcceptConn, StartConn, SessionEnds, TypeOK
<1>2. CASE RunEnds(c)
  <2>1. CASE closed[c]
    BY <1>2, <2>1 DEF RunEnds, CloseAll, TypeOK
  <2>2. CASE ~closed[c]
    BY <1>2, <2>2, CloseAllType DEF RunEnds, TypeOK
  <2> QED BY <2>1, <2>2
<1>3. CASE ReaperFires(c)
  <2>1. CASE closed[c]
    BY <1>3, <2>1 DEF ReaperFires, CloseAll, TypeOK
  <2>2. CASE ~closed[c]
    BY <1>3, <2>2, CloseAllType DEF ReaperFires, TypeOK
  <2> QED BY <2>1, <2>2
<1>4. CASE CloseNext(c)
  BY <1>4 DEF CloseNext, ClosePublic, TypeOK
<1>5. CASE CloseDone(c)
  BY <1>5 DEF CloseDone, TypeOK
<1> QED BY <1>1, <1>2, <1>3, <1>4, <1>5 DEF ConnStep

LEMMA GoType ==
    ASSUME TypeOK, NEW h \in Streams, NEW from, NEW to \in PCs, Go(h, from, to)
    PROVE  pc' \in [Streams -> PCs]
BY DEF TypeOK, Go

LEMMA StreamStepPc ==
    ASSUME TypeOK, NEW h \in Streams, StreamStep(h)
    PROVE  pc' \in [Streams -> PCs]
<1>1. PICK from, to \in PCs : Go(h, from, to)
  BY DEF StreamStep, AcceptStream, AuthUnreadable, ReadAuth, ReadFrame, GrantRefused, Register,
         Listen, ListenFails, Store, AckSent, AckFails, CloseUnacked, Undo,
         ControlEnds, Release, CloseReleased, PCs
<1> QED BY <1>1, GoType

\* A refusal touches only the answer of its own stream.
LEMMA RefuseFrame ==
    ASSUME TypeOK, NEW h \in Streams, Refuse(h)
    PROVE  /\ reply' \in [Streams -> {None, "auth_ok", "auth_err"}]
           /\ \A g \in Streams \ {h} : reply'[g] = reply[g]
BY DEF TypeOK, Refuse

LEMMA StreamStepType ==
    ASSUME TypeOK, NEW h \in Streams, StreamStep(h)
    PROVE  TypeOK'
<1> USE DEF connVars, registry, streamVars
<1>a. ConnOf[h] \in Conns
  BY StreamsAssumption
<1>b. pc' \in [Streams -> PCs]
  BY StreamStepPc
<1>1. CASE AcceptStream(h) \/ AuthUnreadable(h)
  BY <1>b, <1>1 DEF AcceptStream, AuthUnreadable, TypeOK
<1>10. CASE GrantRefused(h)
  BY <1>b, <1>10, RefuseFrame DEF GrantRefused, TypeOK
<1>2. CASE ReadAuth(h)
  <2>1. PICK f \in AuthFrames : ReadFrame(h, f)
    BY <1>2 DEF ReadAuth
  <2>2. Acceptable(f) => [proto |-> ValidProto(f.proto), port |-> f.port] \in Requests
    BY DEF Acceptable, Requests
  <2>3. CASE Acceptable(f)
    BY <1>b, <2>1, <2>2, <2>3 DEF ReadFrame, TypeOK
  <2>4. CASE ~Acceptable(f)
    BY <1>b, <2>1, <2>4, RefuseFrame DEF ReadFrame, TypeOK
  <2> QED BY <2>3, <2>4
<1>3. CASE Register(h)
  <2>1. IdAfter(nextID[ConnOf[h]]) \in Ids
    BY <1>a, IdAfterType DEF TypeOK
  <2> QED BY <1>a, <1>b, <1>3, <2>1 DEF Register, TypeOK
<1>4. CASE Listen(h)
  <2>1. ln' \in [Streams -> {"none", "bound", "open", "closed"}]
    BY <1>4 DEF Listen, TypeOK
  <2> QED BY <1>b, <1>4, <2>1 DEF Listen, TypeOK
<1>8. CASE ListenFails(h)
  BY <1>b, <1>8 DEF ListenFails, TypeOK
<1>9. CASE Store(h)
  <2>1. ln' \in [Streams -> {"none", "bound", "open", "closed"}]
    BY <1>9 DEF Store, TypeOK
  <2> QED BY <1>b, <1>9, <2>1 DEF Store, TypeOK
<1>5. CASE AckFails(h) \/ ControlEnds(h)
  BY <1>b, <1>5 DEF AckFails, ControlEnds, TypeOK
<1>0. CASE AckSent(h)
  <2>1. reply' \in [Streams -> {None, "auth_ok", "auth_err"}]
    BY <1>0 DEF AckSent, TypeOK
  <2> QED BY <1>b, <1>0, <2>1 DEF AckSent, TypeOK
<1>6. CASE CloseUnacked(h) \/ CloseReleased(h)
  <2>1. ClosePublic(h)
    BY <1>6 DEF CloseUnacked, CloseReleased
  <2> QED BY <1>b, <1>6, <2>1, ClosePublicType DEF CloseUnacked, CloseReleased, TypeOK
<1>7. CASE Undo(h) \/ Release(h)
  <2>1. Unregister(h)
    BY <1>7 DEF Undo, Release
  <2>2. reply' \in [Streams -> {None, "auth_ok", "auth_err"}]
    BY <1>7, RefuseFrame DEF Undo, Release, TypeOK
  <2> QED BY <1>b, <1>7, <2>1, <2>2, UnregisterType DEF Undo, Release, TypeOK
<1> QED BY <1>0, <1>1, <1>2, <1>3, <1>4, <1>5, <1>6, <1>7, <1>8, <1>9, <1>10 DEF StreamStep

LEMMA TypeStep ==
    ASSUME TypeOK, [Next]_vars
    PROVE  TypeOK'
<1>1. CASE ServerStep
  BY <1>1 DEF ServerStep, Cancel, StopAccepting, RunReturns, TypeOK,
              connVars, registry, streamVars
<1>2. CASE UNCHANGED vars
  BY <1>2 DEF vars, TypeOK, connVars, registry, streamVars
<1> QED BY <1>1, <1>2, ConnStepType, StreamStepType DEF Next

\* Every reachable state is well typed: in particular the registry's keys are
\* ports and ids, and only streams are ever stored in it.
THEOREM TypeCorrect == Spec => []TypeOK
<1>1. Init => TypeOK
  <2> SUFFICES ASSUME Init PROVE TypeOK
    OBVIOUS
  <2>1. nextID \in [Conns -> Ids]
    BY NumbersAssumption DEF Init, Ids
  <2>2. pc \in [Streams -> PCs]
    BY DEF Init, PCs
  <2> QED BY <2>1, <2>2 DEF Init, TypeOK
<1>2. TypeOK /\ [Next]_vars => TypeOK'
  BY TypeStep
<1> QED BY <1>1, <1>2, PTL DEF Spec

-----------------------------------------------------------------------------
(* The inductive invariant: what keeps each part of it *)

Parts == HandlerInv /\ RegistryInv /\ ClosingInv

\* Only a grant can bring the ids of a connection round.
LEMMA SameRound ==
    ASSUME UNCHANGED id
    PROVE  \A c \in Conns : Granted(c)' = Granted(c) /\ (FirstRound(c)' <=> FirstRound(c))
<1>1. \A c \in Conns : Granted(c)' = Granted(c)
  BY DEF Granted
<1> QED BY <1>1 DEF FirstRound

LEMMA GrantedFinite ==
    ASSUME NEW c \in Conns
    PROVE  /\ IsFiniteSet(Granted(c))
           /\ Cardinality(Granted(c)) \in Nat
<1>1. Granted(c) \subseteq Streams
  BY DEF Granted
<1> QED BY <1>1, StreamsAssumption, FS_Subset, FS_CardinalityType

\* What a grant does to the ids granted so far.
LEMMA GrantedMore ==
    ASSUME TypeOK, NEW h \in Streams, id[h] = NoId,
           NEW i \in Ids, id' = [id EXCEPT ![h] = i]
    PROVE  /\ \A d \in Conns : d # ConnOf[h] =>
                  Granted(d)' = Granted(d) /\ (FirstRound(d)' <=> FirstRound(d))
           /\ Granted(ConnOf[h])' = Granted(ConnOf[h]) \union {h}
           /\ Cardinality(Granted(ConnOf[h])') = Cardinality(Granted(ConnOf[h])) + 1
           /\ FirstRound(ConnOf[h])' <=> Cardinality(Granted(ConnOf[h])) < IdSpace
           /\ FirstRound(ConnOf[h])' => FirstRound(ConnOf[h])
<1> DEFINE c == ConnOf[h]
<1>1. c \in Conns
  BY StreamsAssumption
<1>2. /\ \A g \in Streams : g # h => id'[g] = id[g]
      /\ id'[h] # NoId
  <2>1. i # NoId
    BY NumbersAssumption DEF Ids, NoId
  <2> QED BY <2>1 DEF TypeOK
<1>3. \A d \in Conns : d # c => Granted(d)' = Granted(d)
  BY <1>2 DEF Granted
<1>4. \A d \in Conns : d # c => (FirstRound(d)' <=> FirstRound(d))
  BY <1>3 DEF FirstRound
<1>5. Granted(c)' = Granted(c) \union {h} /\ h \notin Granted(c)
  BY <1>1, <1>2 DEF Granted
<1> HIDE DEF c
<1>6. Cardinality(Granted(c)') = Cardinality(Granted(c)) + 1 /\ Cardinality(Granted(c)) \in Nat
  BY <1>1, <1>5, GrantedFinite, FS_AddElement
<1>7. /\ FirstRound(c)' <=> Cardinality(Granted(c)) < IdSpace
      /\ FirstRound(c)' => FirstRound(c)
  <2>1. FirstRound(c)' <=> Cardinality(Granted(c)') <= IdSpace
    BY DEF FirstRound
  <2> QED BY <1>6, <2>1, NumbersAssumption DEF FirstRound
<1> QED BY <1>3, <1>4, <1>5, <1>6, <1>7 DEF c

LEMMA NothingMoves ==
    ASSUME Parts, UNCHANGED <<closed, all, registry, streamVars>>
    PROVE  Parts'
<1>1. \A h \in Streams : FirstRound(ConnOf[h])' <=> FirstRound(ConnOf[h])
  BY SameRound, StreamsAssumption DEF streamVars
<1> QED BY <1>1 DEF Parts, HandlerInv, HandlerOK, RegistryInv, ClosingInv, CloseAllMissesNobody,
                    Live, Settled, registry, streamVars

LEMMA HandlerFrame ==
    ASSUME HandlerInv, NEW h \in Streams, HandlerOK(h)', closed' = closed,
           \A g \in Streams \ {h} :
               /\ pc'[g] = pc[g] /\ id'[g] = id[g] /\ req'[g] = req[g]
               /\ ln'[g] = ln[g] /\ once'[g] = once[g] /\ reply'[g] = reply[g]
    PROVE  HandlerInv'
<1> SUFFICES ASSUME NEW g \in Streams PROVE HandlerOK(g)'
  BY DEF HandlerInv
<1>1. CASE g = h
  BY <1>1
<1>2. CASE g # h
  BY <1>2 DEF HandlerInv, HandlerOK, Live, Settled
<1> QED BY <1>1, <1>2

LEMMA RegistryFrame ==
    ASSUME TypeOK, RegistryInv, UNCHANGED <<registry, closed, id>>,
           \A g \in Streams : /\ Live(g)' <=> Live(g)
                              /\ Live(g) => req'[g] = req[g]
    PROVE  RegistryInv'
<1>1. \A h \in Streams : FirstRound(ConnOf[h])' <=> FirstRound(ConnOf[h])
  BY SameRound, StreamsAssumption
<1> QED BY <1>1 DEF RegistryInv, TypeOK, registry

LEMMA ClosingFrame ==
    ASSUME ClosingInv, UNCHANGED <<closed, all, id>>,
           \A g \in Streams : /\ Live(g)' => Live(g)
                              /\ once[g] => once'[g]
    PROVE  ClosingInv'
<1>1. \A h \in Streams : FirstRound(ConnOf[h])' <=> FirstRound(ConnOf[h])
  BY SameRound, StreamsAssumption
<1> QED BY <1>1 DEF ClosingInv, CloseAllMissesNobody

\* The actions of a handler before it has a tunnel.
LEMMA BeforeTunnel ==
    ASSUME TypeOK, Parts, NEW h \in Streams,
           AcceptStream(h) \/ AuthUnreadable(h) \/ ReadAuth(h) \/ GrantRefused(h)
    PROVE  Parts'
<1>1. /\ pc[h] \in {"none", "auth", "grant"}
      /\ pc'[h] \in {"auth", "grant", "done"}
      /\ pc'[h] = "grant" => req'[h] # None
      /\ pc' = [pc EXCEPT ![h] = pc'[h]]
      /\ \A g \in Streams \ {h} : req'[g] = req[g] /\ reply'[g] = reply[g]
      /\ UNCHANGED <<closed, all, registry, id, ln, once>>
  <2>1. CASE ReadAuth(h)
    <3>1. PICK f \in AuthFrames : ReadFrame(h, f)
      BY <2>1 DEF ReadAuth
    <3>2. Acceptable(f) => [proto |-> ValidProto(f.proto), port |-> f.port] # None
      BY RequestsAssumption DEF Acceptable, Requests
    <3>3. CASE Acceptable(f)
      BY <3>1, <3>2, <3>3 DEF ReadFrame, Go, TypeOK, connVars
    <3>4. CASE ~Acceptable(f)
      BY <3>1, <3>4, RefuseFrame DEF ReadFrame, Go, TypeOK, connVars
    <3> QED BY <3>3, <3>4
  <2>2. CASE ~ReadAuth(h)
    BY <2>2, RefuseFrame DEF AcceptStream, AuthUnreadable, GrantRefused, Go, TypeOK, connVars,
                Parts, HandlerInv, HandlerOK
  <2> QED BY <2>1, <2>2
<1>2. \A g \in Streams : Live(g)' <=> Live(g)
  BY <1>1 DEF Live, TypeOK
<1>3. \A g \in Streams : Live(g) => req'[g] = req[g]
  BY <1>1 DEF Live
<1>4. HandlerOK(h)'
  BY <1>1 DEF Parts, HandlerInv, HandlerOK, Live, Settled
<1>5. HandlerInv'
  BY <1>1, <1>4, HandlerFrame DEF Parts, TypeOK
<1> QED BY <1>1, <1>2, <1>3, <1>5, RegistryFrame, ClosingFrame DEF Parts

\* A step of h that neither registers nor unregisters its tunnel only has to
\* keep HandlerOK(h).
LEMMA TunnelFrame ==
    ASSUME TypeOK, Parts, NEW h \in Streams, HandlerOK(h)', Live(h)' <=> Live(h),
           pc' = [pc EXCEPT ![h] = pc'[h]],
           UNCHANGED <<closed, all, registry, id, req>>,
           once[h] => once'[h],
           \A g \in Streams \ {h} :
               ln'[g] = ln[g] /\ once'[g] = once[g] /\ reply'[g] = reply[g]
    PROVE  Parts'
<1>1. HandlerInv'
  BY HandlerFrame DEF Parts, TypeOK
<1>2. \A g \in Streams : Live(g)' <=> Live(g)
  BY DEF Live, TypeOK
<1>3. RegistryInv'
  BY <1>2, RegistryFrame DEF Parts
<1>4. ClosingInv'
  BY <1>2, ClosingFrame DEF Parts
<1> QED BY <1>1, <1>3, <1>4 DEF Parts

\* The actions of a handler that has a tunnel, but for those on the registry.
LEMMA WithTunnel ==
    ASSUME TypeOK, Parts, NEW h \in Streams,
           \/ Listen(h) \/ ListenFails(h) \/ Store(h) \/ AckSent(h) \/ AckFails(h)
           \/ CloseUnacked(h) \/ ControlEnds(h) \/ CloseReleased(h)
    PROVE  Parts'
<1> USE DEF connVars, Go
<1>a. HandlerOK(h)
  BY DEF Parts, HandlerInv
<1>b. ClosePublic(h) => /\ once'[h]
                        /\ ~once[h] /\ ln[h] = "open" => ln'[h] = "closed"
                        /\ once[h] \/ ln[h] # "open" => ln'[h] = ln[h]
                        /\ \A g \in Streams \ {h} : ln'[g] = ln[g] /\ once'[g] = once[g]
  BY DEF ClosePublic, TypeOK
<1>1. CASE Listen(h)
  BY <1>1, <1>a, TunnelFrame DEF Listen, HandlerOK, Live, Settled, TypeOK
<1>2. CASE ListenFails(h)
  BY <1>2, <1>a, TunnelFrame DEF ListenFails, HandlerOK, Live, Settled, TypeOK
<1>3. CASE Store(h)
  BY <1>3, <1>a, TunnelFrame DEF Store, HandlerOK, Live, Settled, TypeOK
<1>4. CASE AckSent(h)
  BY <1>4, <1>a, TunnelFrame DEF AckSent, HandlerOK, Live, Settled, TypeOK
<1>5. CASE AckFails(h)
  BY <1>5, <1>a, TunnelFrame DEF AckFails, HandlerOK, Live, Settled, TypeOK
<1>6. CASE CloseUnacked(h)
  <2>1. /\ pc[h] = "unack" /\ pc'[h] = "undo" /\ pc' = [pc EXCEPT ![h] = pc'[h]]
        /\ UNCHANGED <<closed, all, registry, req, id, reply>>
        /\ ClosePublic(h)
    BY <1>6 DEF CloseUnacked, TypeOK
  <2>2. ln'[h] = "closed" \/ (ln'[h] = "open" /\ once[h] /\ closed[ConnOf[h]])
    BY <1>a, <1>b, <2>1 DEF HandlerOK
  <2>3. Live(h)' <=> Live(h)
    BY <2>1 DEF Live
  <2>4. HandlerOK(h)'
    BY <1>a, <1>b, <2>1, <2>2 DEF HandlerOK, Live, Settled
  <2> QED BY <1>b, <2>1, <2>3, <2>4, TunnelFrame
<1>7. CASE ControlEnds(h)
  BY <1>7, <1>a, TunnelFrame DEF ControlEnds, HandlerOK, Live, Settled, TypeOK
<1>8. CASE CloseReleased(h)
  <2>1. /\ pc[h] = "close" /\ pc'[h] = "done" /\ pc' = [pc EXCEPT ![h] = pc'[h]]
        /\ UNCHANGED <<closed, all, registry, req, id, reply>>
        /\ ClosePublic(h)
    BY <1>8 DEF CloseReleased, TypeOK
  <2>2. ln'[h] = "closed" \/ (ln'[h] = "open" /\ once[h] /\ closed[ConnOf[h]])
    BY <1>a, <1>b, <2>1 DEF HandlerOK
  <2>3. Live(h)' <=> Live(h)
    BY <2>1 DEF Live
  <2>4. HandlerOK(h)'
    BY <1>a, <1>b, <2>1, <2>2 DEF HandlerOK, Live, Settled
  <2> QED BY <1>b, <2>1, <2>3, <2>4, TunnelFrame
<1> QED BY <1>1, <1>2, <1>3, <1>4, <1>5, <1>6, <1>7, <1>8

\* grantTunnel registers the tunnel: no entry is there to be overwritten, under
\* the port because of the check, under the id because ids are fresh the first
\* time round.
LEMMA RegisterStep ==
    ASSUME TypeOK, Parts, NEW h \in Streams, Register(h),
           FirstRound(ConnOf[h])' =>
               \A g \in Streams : ConnOf[g] = ConnOf[h] /\ id[g] # NoId
                                      => id[g] # nextID[ConnOf[h]]
    PROVE  Parts'
<1> DEFINE c == ConnOf[h]
           p == req[h].port
           i == nextID[c]
<1>1. /\ c \in Conns /\ p \in Ports /\ i \in Ids
      /\ i # NoId /\ None \notin Streams
  <2>1. c \in Conns /\ None \notin Streams
    BY StreamsAssumption
  <2>2. req[h] \in Requests
    BY DEF Register, Go, Parts, HandlerInv, HandlerOK, TypeOK
  <2>3. i \in Ids
    BY <2>1 DEF TypeOK
  <2> QED BY <2>1, <2>2, <2>3, NumbersAssumption DEF Requests, Ids, NoId
<1>2. /\ ~closed[c] /\ ports[c][p] = None
      /\ pc[h] = "grant" /\ pc' = [pc EXCEPT ![h] = "listen"]
      /\ id' = [id EXCEPT ![h] = i]
      /\ tunnels' = [tunnels EXCEPT ![c][i] = h]
      /\ ports' = [ports EXCEPT ![c][p] = h]
      /\ UNCHANGED <<closed, all, req, ln, once, reply>>
  BY DEF Register, Go, Grantable, connVars
<1>3. id[h] = NoId /\ ln[h] = "none" /\ ~once[h] /\ req[h] # None /\ ~Live(h)
  BY <1>2 DEF Parts, HandlerInv, HandlerOK, Live
<1>4. FirstRound(c)' => tunnels[c][i] = None
  <2>1. tunnels[c][i] \in Streams \union {None}
    BY <1>1 DEF TypeOK
  <2>2. \A g \in Streams : tunnels[c][i] = g => ConnOf[g] = c /\ id[g] = i
    BY <1>1 DEF Parts, RegistryInv
  <2>3. FirstRound(c)' => \A g \in Streams : ConnOf[g] = c => id[g] # i
    BY <1>1
  <2> QED BY <2>1, <2>2, <2>3
<1>r. \A g \in Streams : FirstRound(ConnOf[g])' => FirstRound(ConnOf[g])
  BY <1>1, <1>2, <1>3, GrantedMore, StreamsAssumption
<1> HIDE DEF c, p, i
<1>5. Live(h)' /\ \A g \in Streams \ {h} : Live(g)' <=> Live(g)
  BY <1>2 DEF Live, TypeOK
<1>6. HandlerOK(h)'
  BY <1>1, <1>2, <1>3 DEF HandlerOK, Live, TypeOK
<1>7. HandlerInv'
  BY <1>2, <1>6, HandlerFrame DEF Parts, TypeOK
<1>8. RegistryInv'
  <2>1. \A g \in Streams : Live(g)' /\ ~closed'[ConnOf[g]] =>
               /\ ports'[ConnOf[g]][req'[g].port] = g
               /\ FirstRound(ConnOf[g])' => tunnels'[ConnOf[g]][id'[g]] = g
    BY <1>1, <1>2, <1>4, <1>5, <1>r DEF c, p, i, Parts, RegistryInv, TypeOK
  <2>2. \A d \in Conns, q \in Ports, g \in Streams : ports'[d][q] = g =>
               Live(g)' /\ ~closed'[d] /\ ConnOf[g] = d /\ req'[g].port = q
    BY <1>1, <1>2, <1>5 DEF c, p, i, Parts, RegistryInv, TypeOK
  <2>3. \A d \in Conns, j \in Ids, g \in Streams : tunnels'[d][j] = g =>
               Live(g)' /\ ~closed'[d] /\ ConnOf[g] = d /\ id'[g] = j
    BY <1>1, <1>2, <1>5 DEF c, p, i, Parts, RegistryInv, TypeOK
  <2> QED BY <2>1, <2>2, <2>3 DEF RegistryInv
<1>9. ClosingInv'
  BY <1>1, <1>2, <1>5, <1>r DEF c, Parts, ClosingInv, CloseAllMissesNobody, TypeOK
<1> QED BY <1>7, <1>8, <1>9 DEF Parts

\* A handler unregisters its tunnel: the entries it deletes without looking are
\* its own, or those of a closed connection and empty.
LEMMA UnregisterStep ==
    ASSUME TypeOK, Parts, NEW h \in Streams, Undo(h) \/ Release(h)
    PROVE  Parts'
<1> DEFINE c == ConnOf[h]
           p == req[h].port
<1>1. /\ c \in Conns /\ p \in Ports /\ id[h] \in Ids /\ None \notin Streams
      /\ Live(h)
  BY StreamsAssumption DEF Undo, Release, Go, Parts, HandlerInv, HandlerOK, TypeOK, Live, Requests
<1>2. /\ \/ pc[h] = "undo" /\ pc' = [pc EXCEPT ![h] = "done"]
         \/ pc[h] = "release" /\ pc' = [pc EXCEPT ![h] = "close"]
      /\ tunnels' = [tunnels EXCEPT ![c][id[h]] = None]
      /\ ports' = [ports EXCEPT ![c][p] = None]
      /\ UNCHANGED <<closed, all, req, id, ln, once>>
      /\ \A g \in Streams \ {h} : reply'[g] = reply[g]
  BY RefuseFrame DEF Undo, Release, Go, Unregister, connVars, TypeOK
<1> HIDE DEF c, p
<1>3. ~Live(h)' /\ \A g \in Streams \ {h} : Live(g)' <=> Live(g)
  BY <1>2 DEF Live, TypeOK
<1>4. HandlerOK(h)'
  BY <1>1, <1>2 DEF Parts, HandlerInv, HandlerOK, Live, Settled, TypeOK
<1>5. HandlerInv'
  BY <1>2, <1>4, HandlerFrame DEF Parts, TypeOK
<1>r. \A g \in Streams : FirstRound(ConnOf[g])' <=> FirstRound(ConnOf[g])
  BY <1>2, SameRound, StreamsAssumption
<1>6. RegistryInv'
  <2>1. \A g \in Streams : Live(g)' /\ ~closed'[ConnOf[g]] =>
               /\ ports'[ConnOf[g]][req'[g].port] = g
               /\ FirstRound(ConnOf[g])' => tunnels'[ConnOf[g]][id'[g]] = g
    <3> SUFFICES ASSUME NEW g \in Streams, Live(g)', ~closed'[ConnOf[g]]
                 PROVE  /\ ports'[ConnOf[g]][req'[g].port] = g
                        /\ FirstRound(ConnOf[g])' => tunnels'[ConnOf[g]][id'[g]] = g
      OBVIOUS
    <3>1. g # h /\ Live(g) /\ ConnOf[g] \in Conns
      BY <1>3, StreamsAssumption
    <3>2. /\ ports[ConnOf[g]][req[g].port] = g
          /\ FirstRound(ConnOf[g])' => tunnels[ConnOf[g]][id[g]] = g
      BY <1>2, <1>r, <3>1 DEF Parts, RegistryInv
    <3>3. ConnOf[g] = c => /\ req[g].port # p
                           /\ FirstRound(c)' => id[g] # id[h]
      BY <1>1, <1>2, <1>r, <3>1, <3>2 DEF Parts, RegistryInv, c, p
    <3> QED BY <1>1, <1>2, <3>1, <3>2, <3>3 DEF TypeOK
  <2>2. \A d \in Conns, q \in Ports, g \in Streams : ports'[d][q] = g =>
               Live(g)' /\ ~closed'[d] /\ ConnOf[g] = d /\ req'[g].port = q
    <3> SUFFICES ASSUME NEW d \in Conns, NEW q \in Ports, NEW g \in Streams,
                        ports'[d][q] = g
                 PROVE  Live(g)' /\ ~closed'[d] /\ ConnOf[g] = d /\ req'[g].port = q
      OBVIOUS
    <3>1. ports[d][q] = g /\ ~(d = c /\ q = p)
      BY <1>1, <1>2 DEF TypeOK
    <3>2. Live(g) /\ ~closed[d] /\ ConnOf[g] = d /\ req[g].port = q
      BY <3>1 DEF Parts, RegistryInv
    <3> QED BY <1>2, <1>3, <3>1, <3>2 DEF c, p
  <2>3. \A d \in Conns, j \in Ids, g \in Streams : tunnels'[d][j] = g =>
               Live(g)' /\ ~closed'[d] /\ ConnOf[g] = d /\ id'[g] = j
    <3> SUFFICES ASSUME NEW d \in Conns, NEW j \in Ids, NEW g \in Streams,
                        tunnels'[d][j] = g
                 PROVE  Live(g)' /\ ~closed'[d] /\ ConnOf[g] = d /\ id'[g] = j
      OBVIOUS
    <3>1. tunnels[d][j] = g /\ ~(d = c /\ j = id[h])
      BY <1>1, <1>2 DEF TypeOK
    <3>2. Live(g) /\ ~closed[d] /\ ConnOf[g] = d /\ id[g] = j
      BY <3>1 DEF Parts, RegistryInv
    <3> QED BY <1>2, <1>3, <3>1, <3>2 DEF c
  <2> QED BY <2>1, <2>2, <2>3 DEF RegistryInv
<1>7. ClosingInv'
  BY <1>1, <1>2, <1>3, <1>r DEF Parts, ClosingInv, CloseAllMissesNobody, TypeOK
<1> QED BY <1>5, <1>6, <1>7 DEF Parts

\* closeAll takes every live tunnel of the connection into its snapshot, since
\* a live tunnel of an open connection is in the map the first time round.
LEMMA CloseAllStep ==
    ASSUME TypeOK, Parts, NEW c \in Conns, ~closed[c], CloseAll(c), UNCHANGED streamVars
    PROVE  Parts'
<1>1. /\ closed' = [closed EXCEPT ![c] = TRUE]
      /\ all' = [all EXCEPT ![c] = {tunnels[c][i] : i \in Ids} \ {None}]
      /\ tunnels' = [tunnels EXCEPT ![c] = [i \in Ids |-> None]]
      /\ ports' = [ports EXCEPT ![c] = [q \in Ports |-> None]]
      /\ UNCHANGED <<pc, req, id, ln, once, reply>>
  BY DEF CloseAll, streamVars
<1>2. None \notin Streams /\ \A h \in Streams : ConnOf[h] \in Conns
  BY StreamsAssumption
<1>3. \A h \in Streams : Live(h)' <=> Live(h)
  BY <1>1 DEF Live
<1>4. HandlerInv'
  BY <1>1, <1>2 DEF Parts, HandlerInv, HandlerOK, Live, Settled, TypeOK
<1>r. \A h \in Streams : FirstRound(ConnOf[h])' <=> FirstRound(ConnOf[h])
  BY <1>1, SameRound, StreamsAssumption
<1>5. RegistryInv'
  BY <1>1, <1>2, <1>3, <1>r DEF Parts, RegistryInv, TypeOK
<1>6. \A h \in Streams : Live(h) /\ ConnOf[h] = c /\ FirstRound(c) => h \in all'[c]
  <2> SUFFICES ASSUME NEW h \in Streams, Live(h), ConnOf[h] = c, FirstRound(c)
               PROVE  h \in all'[c]
    OBVIOUS
  <2>1. id[h] \in Ids
    BY DEF Parts, HandlerInv, HandlerOK, TypeOK
  <2>2. tunnels[c][id[h]] = h /\ h # None
    BY <1>2 DEF Parts, RegistryInv
  <2> QED BY <1>1, <2>1, <2>2 DEF TypeOK
<1>7. \A h \in Streams : h \in all'[c] => ConnOf[h] = c /\ id[h] # NoId
  <2> SUFFICES ASSUME NEW h \in Streams, h \in all'[c]
               PROVE  ConnOf[h] = c /\ id[h] # NoId
    OBVIOUS
  <2>1. PICK i \in Ids : tunnels[c][i] = h
    BY <1>1 DEF TypeOK
  <2>2. Live(h) /\ ConnOf[h] = c
    BY <2>1 DEF Parts, RegistryInv
  <2> QED BY <2>2 DEF Parts, HandlerInv, HandlerOK
<1>8. ClosingInv'
  <2>1. \A d \in Conns : d # c => all'[d] = all[d] /\ closed'[d] = closed[d]
    BY <1>1 DEF TypeOK
  <2>2. closed'[c]
    BY <1>1 DEF TypeOK
  <2>3. CloseAllMissesNobody'
    BY <1>1, <1>2, <1>3, <1>6, <1>r, <2>1 DEF Parts, ClosingInv, CloseAllMissesNobody
  <2>4. \A d \in Conns : ~closed'[d] => all'[d] = {}
    BY <2>1, <2>2 DEF Parts, ClosingInv
  <2>5. \A d \in Conns, h \in Streams : h \in all'[d] => ConnOf[h] = d /\ id'[h] # NoId
    BY <1>1, <1>7, <2>1 DEF Parts, ClosingInv
  <2> QED BY <2>3, <2>4, <2>5 DEF ClosingInv
<1> QED BY <1>4, <1>5, <1>8 DEF Parts

\* closeAll's loop calls closePublic on a tunnel, wherever its handler is.
LEMMA CloseNextStep ==
    ASSUME TypeOK, Parts, NEW c \in Conns, CloseNext(c)
    PROVE  Parts'
<1>1. PICK h \in all[c] : CloseNext(c)!(h)
  BY DEF CloseNext
<1>2. /\ h \in Streams /\ closed[c] /\ ConnOf[h] = c /\ id[h] # NoId
  BY DEF TypeOK, Parts, ClosingInv
<1>3. /\ all' = [all EXCEPT ![c] = @ \ {h}]
      /\ UNCHANGED <<closed, registry, pc, req, id, reply>>
      /\ once' = [once EXCEPT ![h] = TRUE]
      /\ ln' = [ln EXCEPT ![h] = IF ~once[h] /\ @ = "open" THEN "closed" ELSE @]
  BY <1>1 DEF ClosePublic
<1>4. \A g \in Streams : Live(g)' <=> Live(g)
  BY <1>3 DEF Live
<1>5. HandlerInv'
  <2>1. \A g \in Streams \ {h} : ln'[g] = ln[g] /\ once'[g] = once[g]
    BY <1>3 DEF TypeOK
  <2>2. once'[h] /\ (ln'[h] = ln[h] \/ (ln[h] = "open" /\ ln'[h] = "closed"))
    BY <1>2, <1>3 DEF TypeOK
  <2>3. HandlerOK(h)'
    BY <1>2, <1>3, <2>2 DEF Parts, HandlerInv, HandlerOK, Live, Settled
  <2> QED BY <1>2, <1>3, <2>1, <2>3, HandlerFrame DEF Parts
<1>6. RegistryInv'
  BY <1>3, <1>4, RegistryFrame DEF Parts
<1>r. \A g \in Streams : FirstRound(ConnOf[g])' <=> FirstRound(ConnOf[g])
  BY <1>3, SameRound, StreamsAssumption
<1>7. ClosingInv'
  BY <1>2, <1>3, <1>4, <1>r DEF Parts, ClosingInv, CloseAllMissesNobody, TypeOK
<1> QED BY <1>5, <1>6, <1>7 DEF Parts

-----------------------------------------------------------------------------
(* Ids *)

\* While a connection has granted fewer tunnels than there are ids, the next id
\* is none of theirs.
LEMMA FreshId ==
    ASSUME IdInv, NEW c \in Conns, Cardinality(Granted(c)) < IdSpace
    PROVE  \A g \in Streams : ConnOf[g] = c /\ id[g] # NoId => id[g] # nextID[c]
<1> DEFINE n == Cardinality(Granted(c))
<1>1. n \in Nat /\ n < IdSpace
  BY GrantedFinite
<1>2. /\ nextID[c] = IF n + 1 = IdSpace THEN 0 ELSE n + 1
      /\ \A h \in Granted(c) : id[h] \in 1..n
  BY <1>1 DEF IdInv
<1> HIDE DEF n
<1>3. \A h \in Granted(c) : id[h] # nextID[c]
  BY <1>1, <1>2
<1> QED BY <1>3 DEF Granted

LEMMA RegisterIds ==
    ASSUME TypeOK, HandlerInv, IdInv, NEW h \in Streams, Register(h)
    PROVE  IdInv'
<1> DEFINE c == ConnOf[h]
           n == Cardinality(Granted(c))
<1>1. c \in Conns /\ id[h] = NoId /\ nextID[c] \in Ids /\ n \in Nat
  BY StreamsAssumption, GrantedFinite DEF Register, Go, HandlerInv, HandlerOK, TypeOK
<1>2. /\ id' = [id EXCEPT ![h] = nextID[c]]
      /\ nextID' = [nextID EXCEPT ![c] = IdAfter(@)]
  BY DEF Register
<1>3. /\ \A d \in Conns : d # c => Granted(d)' = Granted(d) /\ (FirstRound(d)' <=> FirstRound(d))
      /\ Granted(c)' = Granted(c) \union {h}
      /\ Cardinality(Granted(c)') = n + 1
      /\ FirstRound(c)' <=> n < IdSpace
  BY <1>1, <1>2, GrantedMore
<1>4. n < IdSpace => nextID[c] = IF n + 1 = IdSpace THEN 0 ELSE n + 1
  BY <1>1 DEF IdInv
<1>5. \A g \in Streams : g # h => id'[g] = id[g]
  BY <1>2 DEF TypeOK
<1>6. id'[h] = nextID[c] /\ nextID'[c] = IdAfter(nextID[c])
  BY <1>1, <1>2 DEF TypeOK
<1>7. \A d \in Conns : d # c => nextID'[d] = nextID[d]
  BY <1>2 DEF TypeOK
<1> HIDE DEF n
<1>8. ASSUME n + 1 < IdSpace
      PROVE  /\ nextID'[c] = IF (n + 1) + 1 = IdSpace THEN 0 ELSE (n + 1) + 1
             /\ \A g \in Granted(c)' : id'[g] \in 1..(n + 1)
  <2>1. n < IdSpace /\ n + 1 # IdSpace /\ nextID[c] = n + 1
    BY <1>1, <1>4, <1>8, NumbersAssumption
  <2>2. nextID'[c] = IF (n + 1) + 1 = IdSpace THEN 0 ELSE (n + 1) + 1
    <3>1. nextID'[c] = ((n + 1) + 1) % IdSpace
      BY <1>6, <2>1 DEF IdAfter
    <3>2. CASE (n + 1) + 1 = IdSpace
      BY <1>1, <3>1, <3>2, NumbersAssumption
    <3>3. CASE (n + 1) + 1 # IdSpace
      BY <1>1, <1>8, <3>1, <3>3, NumbersAssumption
    <3> QED BY <3>2, <3>3
  <2>3. ASSUME NEW g \in Granted(c)' PROVE id'[g] \in 1..(n + 1)
    <3>1. g = h \/ (g \in Granted(c) /\ g # h /\ g \in Streams)
      BY <1>1, <1>3, <2>3 DEF Granted
    <3>2. CASE g = h
      BY <1>1, <1>6, <2>1, <3>2
    <3>3. CASE g \in Granted(c) /\ g # h /\ g \in Streams
      <4>1. id[g] \in 1..n
        BY <1>1, <2>1, <3>3 DEF IdInv, n
      <4> QED BY <1>1, <1>5, <3>3, <4>1
    <3> QED BY <3>1, <3>2, <3>3
  <2> QED BY <2>2, <2>3
<1>9. ASSUME NEW d \in Conns, Cardinality(Granted(d)') < IdSpace
      PROVE  LET k == Cardinality(Granted(d)') IN
                 /\ nextID'[d] = IF k + 1 = IdSpace THEN 0 ELSE k + 1
                 /\ \A g \in Granted(d)' : id'[g] \in 1..k
  <2>1. CASE d = c
    BY <1>3, <1>8, <1>9, <2>1
  <2>2. CASE d # c
    <3>1. Granted(d)' = Granted(d) /\ nextID'[d] = nextID[d]
      BY <1>3, <1>7, <2>2
    <3>2. \A g \in Granted(d) : id'[g] = id[g]
      BY <1>5, <2>2 DEF Granted
    <3> QED BY <1>9, <3>1, <3>2 DEF IdInv
  <2> QED BY <2>1, <2>2
<1>10. IdsDistinct'
  <2> SUFFICES ASSUME NEW f \in Streams, NEW g \in Streams, f # g, ConnOf[f] = ConnOf[g],
                      id'[f] # NoId, FirstRound(ConnOf[f])'
               PROVE  id'[f] # id'[g]
    BY DEF IdsDistinct
  <2>1. CASE f # h /\ g # h
    <3>1. FirstRound(ConnOf[f])
      BY <1>1, <1>2, <1>3, GrantedMore, StreamsAssumption
    <3> QED BY <1>5, <2>1, <3>1 DEF IdInv, IdsDistinct
  <2>2. CASE f = h \/ g = h
    <3>1. n < IdSpace /\ ConnOf[f] = c /\ ConnOf[g] = c
      BY <1>3, <2>2
    <3>2. \A e \in Streams : ConnOf[e] = c /\ id[e] # NoId => id[e] # nextID[c]
      BY <1>1, <3>1, FreshId DEF n
    <3>3. nextID[c] # NoId
      BY <1>1, NumbersAssumption DEF Ids, NoId
    <3> QED BY <1>5, <1>6, <2>2, <3>1, <3>2, <3>3
  <2> QED BY <2>1, <2>2
<1> QED BY <1>9, <1>10 DEF IdInv

LEMMA SameIds ==
    ASSUME IdInv, UNCHANGED <<id, nextID>>
    PROVE  IdInv'
<1>1. \A c \in Conns : Granted(c)' = Granted(c) /\ (FirstRound(c)' <=> FirstRound(c))
  BY SameRound
<1>2. IdsDistinct'
  BY <1>1, StreamsAssumption DEF IdInv, IdsDistinct
<1> QED BY <1>1, <1>2 DEF IdInv

-----------------------------------------------------------------------------
(* The inductive invariant *)

LEMMA InitInv == Init => IInv
<1> SUFFICES ASSUME Init PROVE IInv
  OBVIOUS
<1>1. TypeOK
  <2>1. nextID \in [Conns -> Ids]
    BY NumbersAssumption DEF Init, Ids
  <2>2. pc \in [Streams -> PCs]
    BY DEF Init, PCs
  <2> QED BY <2>1, <2>2 DEF Init, TypeOK
<1>2. Parts
  BY StreamsAssumption DEF Init, Parts, HandlerInv, HandlerOK, RegistryInv, ClosingInv,
                           CloseAllMissesNobody, Live, Settled, Ports, Ids
<1>3. IdInv
  <2>1. \A c \in Conns : Granted(c) = {}
    BY DEF Init, Granted
  <2>2. Cardinality({}) = 0 /\ 0 + 1 = 1 /\ 1 # IdSpace
    BY FS_EmptySet, NumbersAssumption
  <2>3. IdsDistinct
    BY DEF Init, IdsDistinct
  <2>4. \A c \in Conns : /\ Cardinality(Granted(c)) + 1 = 1
                         /\ nextID[c] = 1
                         /\ \A h \in Granted(c) : id[h] \in 1..Cardinality(Granted(c))
    <3>1. ASSUME NEW c \in Conns PROVE Cardinality(Granted(c)) = 0
      BY <2>1, <2>2
    <3>2. \A c \in Conns : nextID[c] = 1
      BY DEF Init
    <3> QED BY <2>1, <2>2, <3>1, <3>2
  <2> QED BY <2>2, <2>3, <2>4 DEF IdInv
<1> QED BY <1>1, <1>2, <1>3 DEF IInv, Parts

LEMMA StreamStepInv ==
    ASSUME IInv, NEW h \in Streams, StreamStep(h)
    PROVE  Parts' /\ IdInv'
<1> USE DEF IInv, Parts
<1>1. CASE AcceptStream(h) \/ AuthUnreadable(h) \/ ReadAuth(h) \/ GrantRefused(h)
  <2>1. UNCHANGED <<id, nextID>>
    BY <1>1 DEF AcceptStream, AuthUnreadable, ReadAuth, ReadFrame, GrantRefused, registry
  <2> QED BY <1>1, <2>1, BeforeTunnel, SameIds
<1>2. CASE Register(h)
  <2>1. id[h] = NoId /\ ConnOf[h] \in Conns /\ nextID[ConnOf[h]] \in Ids
    BY <1>2, StreamsAssumption DEF Register, Go, HandlerInv, HandlerOK, TypeOK
  <2>2. id' = [id EXCEPT ![h] = nextID[ConnOf[h]]]
    BY <1>2 DEF Register
  <2>3. FirstRound(ConnOf[h])' =>
            \A g \in Streams : ConnOf[g] = ConnOf[h] /\ id[g] # NoId
                                   => id[g] # nextID[ConnOf[h]]
    BY <2>1, <2>2, FreshId, GrantedMore
  <2> QED BY <1>2, <2>3, RegisterStep, RegisterIds
<1>3. CASE \/ Listen(h) \/ ListenFails(h) \/ Store(h) \/ AckSent(h) \/ AckFails(h)
           \/ CloseUnacked(h) \/ ControlEnds(h) \/ CloseReleased(h)
  <2>1. UNCHANGED <<id, nextID>>
    BY <1>3 DEF Listen, ListenFails, Store, AckSent, AckFails, CloseUnacked, ControlEnds,
                CloseReleased, registry
  <2> QED BY <1>3, <2>1, WithTunnel, SameIds
<1>4. CASE Undo(h) \/ Release(h)
  <2>1. UNCHANGED <<id, nextID>>
    BY <1>4 DEF Undo, Release, Unregister
  <2> QED BY <1>4, <2>1, UnregisterStep, SameIds
<1> QED BY <1>1, <1>2, <1>3, <1>4 DEF StreamStep

LEMMA ConnStepInv ==
    ASSUME IInv, NEW c \in Conns, ConnStep(c)
    PROVE  Parts' /\ IdInv'
<1> USE DEF IInv, Parts
<1>1. CASE AcceptConn(c) \/ StartConn(c) \/ SessionEnds(c) \/ CloseDone(c)
  <2>1. UNCHANGED <<closed, all, registry, streamVars>>
    BY <1>1 DEF AcceptConn, StartConn, SessionEnds, CloseDone
  <2> QED BY <2>1, NothingMoves, SameIds DEF registry, streamVars
<1>2. CASE RunEnds(c) \/ ReaperFires(c)
  <2>1. CASE closed[c]
    <3>1. UNCHANGED <<closed, all, registry, streamVars>>
      BY <1>2, <2>1 DEF RunEnds, ReaperFires
    <3> QED BY <3>1, NothingMoves, SameIds DEF registry, streamVars
  <2>2. CASE ~closed[c]
    <3>1. CloseAll(c) /\ UNCHANGED streamVars
      BY <1>2, <2>2 DEF RunEnds, ReaperFires
    <3> QED BY <2>2, <3>1, CloseAllStep, SameIds DEF CloseAll, streamVars
  <2> QED BY <2>1, <2>2
<1>3. CASE CloseNext(c)
  <2>1. UNCHANGED <<id, nextID>>
    BY <1>3 DEF CloseNext, registry
  <2> QED BY <1>3, <2>1, CloseNextStep, SameIds
<1> QED BY <1>1, <1>2, <1>3 DEF ConnStep

LEMMA InvStep ==
    ASSUME IInv, [Next]_vars
    PROVE  IInv'
<1>1. TypeOK'
  BY TypeStep DEF IInv
<1>2. Parts' /\ IdInv'
  <2>1. CASE ServerStep
    <3>1. UNCHANGED <<closed, all, registry, streamVars>>
      BY <2>1 DEF ServerStep, Cancel, StopAccepting, RunReturns, connVars
    <3> QED BY <3>1, NothingMoves, SameIds DEF IInv, Parts, registry, streamVars
  <2>2. CASE UNCHANGED vars
    <3>1. UNCHANGED <<closed, all, registry, streamVars>>
      BY <2>2 DEF vars, connVars
    <3> QED BY <3>1, NothingMoves, SameIds DEF IInv, Parts, registry, streamVars
  <2> QED BY <2>1, <2>2, ConnStepInv, StreamStepInv DEF Next
<1> QED BY <1>1, <1>2 DEF IInv, Parts

\* The conjunction of type correctness with what ties a handler's place in the
\* code, the registry, closeAll's snapshot and the ids to one another.
THEOREM Invariance == Spec => []IInv
<1>1. IInv /\ [Next]_vars => IInv'
  BY InvStep
<1> QED BY InitInv, <1>1, PTL DEF Spec

\* Both maps of every connection agree, and a closed connection's are empty.
THEOREM RegistryCorrect == Spec => []RegistryAgrees
<1>1. IInv => RegistryAgrees
  <2> SUFFICES ASSUME IInv PROVE RegistryAgrees
    OBVIOUS
  <2> USE DEF IInv, TypeOK, HandlerInv, HandlerOK, RegistryInv
  <2>1. ASSUME NEW c \in Conns, NEW p \in Ports, ports[c][p] # None
        PROVE  /\ ~closed[c]
               /\ ConnOf[ports[c][p]] = c
               /\ req[ports[c][p]].port = p
               /\ FirstRound(c) => tunnels[c][id[ports[c][p]]] = ports[c][p]
    BY <2>1
  <2>2. ASSUME NEW c \in Conns, NEW i \in Ids, tunnels[c][i] # None
        PROVE  /\ id[tunnels[c][i]] = i
               /\ ports[c][req[tunnels[c][i]].port] = tunnels[c][i]
    BY <2>2
  <2> QED BY <2>1, <2>2 DEF RegistryAgrees
<1> QED BY Invariance, <1>1, PTL

\* A served tunnel is registered and listening until its connection closes.
THEOREM ServiceCorrect == Spec => []ServedIsReachable
<1>1. IInv => ServedIsReachable
  BY DEF IInv, HandlerInv, HandlerOK, RegistryInv, ServedIsReachable, Live
<1> QED BY Invariance, <1>1, PTL

\* No tunnel escapes closeAll the first time round the ids.
THEOREM ClosingCorrect == Spec => []CloseAllMissesNobody
<1>1. IInv => CloseAllMissesNobody
  BY DEF IInv, ClosingInv
<1> QED BY Invariance, <1>1, PTL

\* Tunnels of one connection have distinct ids until it has granted more of them
\* than there are ids, over the wrap of the counter to 0; nothing is assumed of
\* how many it grants.
THEOREM IdsCorrect == Spec => []IdsDistinct
<1>1. IInv => IdsDistinct
  BY DEF IInv, IdInv
<1> QED BY Invariance, <1>1, PTL

\* A handler that is done leaves nothing in the registry, and its listener is
\* closed or closeAll overtook it.
THEOREM CleanupCorrect == Spec => []NothingLeftBehind
<1>1. IInv => NothingLeftBehind
  <2> SUFFICES ASSUME IInv, NEW h \in Streams, pc[h] = "done"
               PROVE  /\ \A p \in Ports : ports[ConnOf[h]][p] # h
                      /\ \A i \in Ids : tunnels[ConnOf[h]][i] # h
                      /\ ln[h] \in {"none", "closed"} \/ (closed[ConnOf[h]] /\ once[h])
    BY DEF NothingLeftBehind
  <2>1. ~Live(h) /\ Settled(h) /\ ConnOf[h] \in Conns
    BY StreamsAssumption DEF Live, IInv, HandlerInv, HandlerOK
  <2> QED BY <2>1 DEF IInv, RegistryInv, Settled
<1> QED BY Invariance, <1>1, PTL

-----------------------------------------------------------------------------
(* What steps do to the registry *)

\* Every step leaves the ports alone, registers one tunnel, unregisters one, or
\* closes one connection.
LEMMA RegistryMoves ==
    ASSUME IInv, [Next]_vars
    PROVE  \/ UNCHANGED <<closed, ports, id>>
           \/ \E h \in Streams : Register(h)
           \/ \E h \in Streams : /\ Live(h) /\ pc'[h] # pc[h]
                                 /\ Unregister(h)
                                 /\ UNCHANGED <<closed, id>>
           \/ \E c \in Conns : ~closed[c] /\ CloseAll(c) /\ UNCHANGED id
<1>1. CASE ServerStep
  BY <1>1 DEF ServerStep, Cancel, StopAccepting, RunReturns, connVars, registry, streamVars
<1>2. CASE UNCHANGED vars
  BY <1>2 DEF vars, connVars, registry, streamVars
<1>3. ASSUME NEW c \in Conns, ConnStep(c)
      PROVE  \/ UNCHANGED <<closed, ports, id>>
             \/ ~closed[c] /\ CloseAll(c) /\ UNCHANGED id
  BY <1>3 DEF ConnStep, AcceptConn, StartConn, SessionEnds, RunEnds, ReaperFires, CloseNext,
              CloseDone, registry, streamVars
<1>4. ASSUME NEW h \in Streams, StreamStep(h)
      PROVE  \/ UNCHANGED <<closed, ports, id>>
             \/ Register(h)
             \/ /\ Live(h) /\ pc'[h] # pc[h]
                /\ Unregister(h)
                /\ UNCHANGED <<closed, id>>
  <2>1. CASE Undo(h) \/ Release(h)
    BY <2>1 DEF Undo, Release, Go, Live, connVars, IInv, TypeOK
  <2>2. CASE ~(Undo(h) \/ Release(h)) /\ ~Register(h)
    BY <1>4, <2>2 DEF StreamStep, AcceptStream, AuthUnreadable, ReadAuth, ReadFrame, GrantRefused, Listen,
                      ListenFails, Store, AckSent, AckFails, CloseUnacked, ControlEnds,
                      CloseReleased, connVars, registry
  <2> QED BY <2>1, <2>2
<1> QED BY <1>1, <1>2, <1>3, <1>4 DEF Next

\* The entry a handler deletes is its own, or there is none.
LEMMA DeletesOwn ==
    ASSUME IInv, NEW h \in Streams, Live(h)
    PROVE  /\ ConnOf[h] \in Conns /\ req[h].port \in Ports
           /\ \/ ~closed[ConnOf[h]] /\ ports[ConnOf[h]][req[h].port] = h
              \/ closed[ConnOf[h]] /\ ports[ConnOf[h]][req[h].port] = None
<1>1. ConnOf[h] \in Conns
  BY StreamsAssumption
<1>2. req[h].port \in Ports
  BY DEF IInv, HandlerInv, HandlerOK, TypeOK, Requests
<1>3. ports[ConnOf[h]][req[h].port] \in Streams \union {None}
  BY <1>1, <1>2 DEF IInv, TypeOK
<1> QED BY <1>1, <1>2, <1>3 DEF IInv, RegistryInv

\* An entry goes by its own handler's step or with its whole connection.
THEOREM OnlyOwnIsUnregistered == Spec => UnregistersOnlyOwn
<1>1. IInv /\ [Next]_vars => [LosesOnlyOwn]_vars
  <2> SUFFICES ASSUME IInv, [Next]_vars PROVE LosesOnlyOwn
    OBVIOUS
  <2>1. CASE UNCHANGED <<closed, ports, id>>
    BY <2>1 DEF LosesOnlyOwn
  <2>2. ASSUME NEW h \in Streams, Register(h) PROVE LosesOnlyOwn
    <3>1. /\ ports' = [ports EXCEPT ![ConnOf[h]][req[h].port] = h]
          /\ ports[ConnOf[h]][req[h].port] = None
      BY <2>2 DEF Register, Grantable
    <3> QED BY <3>1 DEF LosesOnlyOwn, IInv, TypeOK
  <2>3. ASSUME NEW h \in Streams, Live(h), pc'[h] # pc[h], Unregister(h)
        PROVE  LosesOnlyOwn
    <3>1. ports' = [ports EXCEPT ![ConnOf[h]][req[h].port] = None]
      BY <2>3 DEF Unregister
    <3> QED BY <2>3, <3>1, DeletesOwn DEF LosesOnlyOwn, IInv, TypeOK
  <2>4. ASSUME NEW c \in Conns, CloseAll(c) PROVE LosesOnlyOwn
    BY <2>4 DEF CloseAll, LosesOnlyOwn, IInv, TypeOK
  <2> QED BY <2>1, <2>2, <2>3, <2>4, RegistryMoves
<1> QED BY Invariance, <1>1, PTL DEF Spec, UnregistersOnlyOwn

\* The maps of connection.go implement the abstract registry: the blind deletes
\* are its GiveUp or change nothing, closeAll is its Close.
THEOREM RegistryImplemented == Spec => RegistrySpec
<1>1. Init => Registry!Init
  BY DEF Init, Registry!Init
<1>2. IInv /\ [Next]_vars => [Registry!Next]_Registry!vars
  <2> SUFFICES ASSUME IInv, [Next]_vars PROVE [Registry!Next]_Registry!vars
    OBVIOUS
  <2> USE DEF Registry!vars
  <2>1. CASE UNCHANGED <<closed, ports, id>>
    BY <2>1
  <2>2. ASSUME NEW h \in Streams, Register(h) PROVE Registry!Next
    <3>1. ConnOf[h] \in Conns /\ id[h] = NoId /\ req[h].port \in Ports /\ nextID[ConnOf[h]] # NoId
      <4>1. ConnOf[h] \in Conns
        BY StreamsAssumption
      <4>2. id[h] = NoId /\ req[h] \in Requests
        BY <2>2 DEF Register, Go, IInv, HandlerInv, HandlerOK, TypeOK
      <4>3. nextID[ConnOf[h]] \in Ids
        BY <4>1 DEF IInv, TypeOK
      <4> QED BY <4>1, <4>2, <4>3, NumbersAssumption DEF Requests, Ids, NoId
    <3>2. Registry!Acquire(ConnOf[h], req[h].port, h)
      <4>1. /\ ~closed[ConnOf[h]] /\ ports[ConnOf[h]][req[h].port] = None
            /\ ports' = [ports EXCEPT ![ConnOf[h]][req[h].port] = h]
            /\ closed' = closed
            /\ id' = [id EXCEPT ![h] = nextID[ConnOf[h]]]
        BY <2>2 DEF Register, Grantable, connVars
      <4>2. {g \in Streams : id'[g] # NoId} = {g \in Streams : id[g] # NoId} \union {h}
        BY <3>1, <4>1 DEF IInv, TypeOK
      <4> QED BY <3>1, <4>1, <4>2 DEF Registry!Acquire
    <3> QED BY <3>1, <3>2 DEF Registry!Next
  <2>3. ASSUME NEW h \in Streams, Live(h), Unregister(h), UNCHANGED <<closed, id>>
        PROVE  [Registry!Next]_Registry!vars
    <3>1. ports' = [ports EXCEPT ![ConnOf[h]][req[h].port] = None]
      BY <2>3 DEF Unregister
    <3>2. CASE closed[ConnOf[h]]
      <4>1. ports' = ports
        BY <2>3, <3>1, <3>2, DeletesOwn DEF IInv, TypeOK
      <4> QED BY <2>3, <4>1
    <3>3. CASE ~closed[ConnOf[h]]
      <4>1. Registry!GiveUp(ConnOf[h], req[h].port, h)
        BY <2>3, <3>1, <3>3, DeletesOwn DEF Registry!GiveUp
      <4> QED BY <2>3, <4>1, DeletesOwn DEF Registry!Next
    <3> QED BY <3>2, <3>3
  <2>4. ASSUME NEW c \in Conns, ~closed[c], CloseAll(c), UNCHANGED id PROVE Registry!Next
    <3>1. /\ closed' = [closed EXCEPT ![c] = TRUE]
          /\ ports' = [ports EXCEPT ![c] = [p \in Ports |-> None]]
      BY <2>4 DEF CloseAll
    <3>2. [d \in Conns |-> ~closed'[d]] = [[d \in Conns |-> ~closed[d]] EXCEPT ![c] = FALSE]
      BY <3>1 DEF IInv, TypeOK
    <3>3. Registry!Close(c)
      BY <2>4, <3>1, <3>2 DEF Registry!Close
    <3> QED BY <3>3 DEF Registry!Next
  <2> QED BY <2>1, <2>2, <2>3, <2>4, RegistryMoves
<1> QED BY Invariance, <1>1, <1>2, PTL DEF Spec, RegistrySpec, Registry!Spec
=============================================================================
