---------------------------- MODULE VpnHubProofs ----------------------------
(***************************************************************************)
(* Proofs about VpnHub and VpnRouting: what a room promises its members,   *)
(* and what it does with their packets, for every number of clients,       *)
(* rooms, passwords, addresses and packets, while peers come and go.       *)
(*                                                                         *)
(* The handler of a control stream only ever moves forward, so what each   *)
(* place of it knows (HandlerInv, MemberInv) ties the maps of a room to    *)
(* the peers.  The packets rest on the same invariant, HubInv: the room's  *)
(* table holds a peer only under its own address, and a peer that has an   *)
(* address keeps it and its room for good, so what a round has looked up   *)
(* stays true although the table changes while the round is written.       *)
(***************************************************************************)
EXTENDS VpnRouting, FiniteSetTheorems, WellFoundedInduction, TLAPS

-----------------------------------------------------------------------------
(* The inductive invariant *)

CreationTypeOK ==
    /\ subnet \in [Rooms -> Subnets \union {None}]
    /\ nextSubnet \in Subnets
    /\ password \in [Rooms -> Passwords]

TableTypeOK ==
    /\ peers \in [Rooms -> [HostNums -> Conns \union {None}]]
    /\ byConn \in [Rooms -> SUBSET Conns]
    /\ nextIP \in [Rooms -> HostNums]

SessionTypeOK ==
    /\ up \in [Conns -> BOOLEAN]
    /\ run \in [Conns -> {"accept", "cleanup", "returned"}]
    /\ casting \in SUBSET Conns
    /\ crashed \in BOOLEAN

HandlerTypeOK ==
    /\ pc \in [Conns -> Places]
    /\ room \in [Conns -> Rooms \union {None}]
    /\ given \in [Conns -> Passwords]
    /\ ip \in [Conns -> HostNums \union {None}]

NewsTypeOK ==
    /\ log \in [Conns -> BOOLEAN]
    /\ ctrl \in [Conns -> {"nil", "stored", "visible"}]
    /\ list \in [Conns -> SUBSET Conns]
    /\ tell \in [Conns -> SUBSET Conns]
    /\ mid \in [Conns -> Conns \union {None}]
    /\ told \in [Conns -> SUBSET Conns]
    /\ deaf \in [Conns -> BOOLEAN]

\* What the handler of c knows where it is.
HandlerInv ==
    \A c \in Conns :
        /\ pc[c] \in {"auth", "allocate"} => ip[c] = None
        /\ pc[c] \notin {"auth", "allocate", "done"} => room[c] \in Rooms /\ ip[c] \in HostNums
        /\ pc[c] = "allocate" \/ ip[c] # None => room[c] \in Rooms
        /\ pc[c] = "members" => ctrl[c] # "nil"
        /\ pc[c] \in {"list", "notify", "telling", "serve"} => ctrl[c] = "visible"

\* A message that lacks its newline is of a handler that writes one, and while
\* room_members is sent of its own client's stream.
LineInv ==
    \A c \in Conns :
        /\ pc[c] \notin {"list", "telling", "serve"} => mid[c] = None
        /\ pc[c] = "list" => mid[c] \in {None, c}

Joined == {"log", "ack", "ctrl", "members", "list", "notify", "telling", "serve", "release"}

\* Only a handler that has entered its peer and not released it has it in byConn.
MemberInv ==
    \A r \in Rooms : \A c \in byConn[r] : room[c] = r /\ pc[c] \in Joined

\* ensureRoom has let c in, and the room's password never changes again.
AdmittedInv ==
    \A c \in Conns : room[c] # None =>
        subnet[room[c]] # None /\ (password[room[c]] # NoPassword => given[c] = password[room[c]])

\* Whoever had its list taken has heard of those that took theirs before and have
\* begun to tell the others, or it is in a line still to be written: the one that
\* stored ctrl first is in the other's list or gets its peer_join.
HeardInv ==
    \A c, d \in Conns :
        /\ c # d /\ room[c] = room[d]
        /\ Registered(c) /\ Registered(d)
        /\ pc[c] \in {"telling", "serve"}
        /\ pc[d] \in {"list", "notify", "telling", "serve"}
        /\ up[d] /\ ~deaf[d]
        => \/ c \in told[d]
           \/ pc[d] = "list" /\ c \in list[d]
           \/ pc[c] = "telling" /\ d \in tell[c]

\* While the first round of a room's pool lasts, its k addresses so far are
\* 1..k, and nextIP is the one after them.
FirstRound(r) ==
    Cardinality(Allocated(r)) <= Hosts =>
        /\ Cardinality(Allocated(r)) < Hosts => nextIP[r] = Cardinality(Allocated(r)) + 1
        /\ \A c \in Allocated(r) : ip[c] \in 1..Cardinality(Allocated(r))
        /\ \A c, d \in Allocated(r) : c # d => ip[c] # ip[d]

FirstRoundInv == \A r \in Rooms : FirstRound(r)

HubTypeInv ==
    CreationTypeOK /\ TableTypeOK /\ SessionTypeOK /\ HandlerTypeOK /\ NewsTypeOK

HubInv ==
    /\ HubTypeInv
    /\ HandlerInv /\ LineInv /\ MemberInv /\ AdmittedInv
    /\ FiledUnderOwnAddress /\ HeardInv /\ FirstRoundInv

-----------------------------------------------------------------------------
(* Room.allocate *)

\* Every non-empty set of numbers has a least element.
LEMMA LeastNumber ==
    ASSUME NEW T \in SUBSET Nat, T # {}
    PROVE  \E x \in T : \A y \in T : x <= y
  <1>1. IsWellFoundedOn(OpToRel(<, Nat), Nat)
    BY NatLessThanWellFounded
  <1>2. PICK x \in T : \A y \in T : ~ (<<y, x>> \in OpToRel(<, Nat))
    BY <1>1, WFMin
  <1>3. \A y \in T : ~ (y < x)
    BY <1>2 DEF OpToRel
  <1>4. QED
    BY <1>3

\* In a room that is not full, allocate finds a free address.
LEMMA NextFreeIsFree ==
    ASSUME NEW r \in Rooms, TableTypeOK, Free(r) # {}
    PROVE  /\ NextFree(r) \in Free(r) /\ Free(r) \subseteq HostNums
           /\ \A m \in Free(r) : Distance(nextIP[r], NextFree(r)) <= Distance(nextIP[r], m)
  <1> USE SpaceAssumption DEF HostNums
  <1>1. nextIP[r] \in HostNums /\ Free(r) \subseteq HostNums
    BY DEF TableTypeOK, Free
  <1>2. \A n \in Free(r) : Distance(nextIP[r], n) \in Nat
    BY <1>1 DEF Distance
  <1> DEFINE T == {Distance(nextIP[r], n) : n \in Free(r)}
  <1>3. T \in SUBSET Nat /\ T # {}
    BY <1>2
  <1>4. PICK x \in T : \A y \in T : x <= y
    BY <1>3, LeastNumber
  <1>5. \E n \in Free(r) : \A m \in Free(r) : Distance(nextIP[r], n) <= Distance(nextIP[r], m)
    BY <1>4
  <1>6. QED
    BY <1>1, <1>5 DEF NextFree

\* When nextIP itself is free, it is what allocate returns.
LEMMA NextIPFirst ==
    ASSUME NEW r \in Rooms, TableTypeOK, nextIP[r] \in Free(r)
    PROVE  NextFree(r) = nextIP[r]
  <1> USE SpaceAssumption DEF HostNums
  <1>1. Free(r) \subseteq Int /\ nextIP[r] \in HostNums /\ \A n \in Free(r) : n \in HostNums
    BY DEF TableTypeOK, Free
  <1>2. Distance(nextIP[r], nextIP[r]) = 0
    BY <1>1 DEF Distance
  <1>3. \A n \in Free(r) : n # nextIP[r] => Distance(nextIP[r], n) > 0
    BY <1>1 DEF Distance
  <1>4. NextFree(r) \in Free(r)
        /\ Distance(nextIP[r], NextFree(r)) <= Distance(nextIP[r], nextIP[r])
    BY NextFreeIsFree
  <1>5. Distance(nextIP[r], NextFree(r)) \in Int
    BY <1>1, <1>4 DEF Distance
  <1>6. QED
    BY <1>2, <1>3, <1>4, <1>5

-----------------------------------------------------------------------------
(* What is written to control streams *)

\* Whoever writes to control streams leaves rooms, sessions and peers alone.
LEMMA LineKeeps ==
    ASSUME NEW c \in Conns, LineStep(c)
    PROVE  UNCHANGED <<subnet, nextSubnet, password, peers, byConn, nextIP, up, run, casting,
                       room, given, ip, log, crashed>>
  BY DEF LineStep, Snapshot, NotifyBegins, NotifyEnds, EncodeNewline, PassOver, EncodeBody,
     EncodeFails, Encoded, roomVars, connVars, peerVars, lineVars

\* It goes from the list of members to the pongs, and others come to see ctrl.
LEMMA LineMoves ==
    ASSUME HandlerTypeOK, NewsTypeOK, HandlerInv, NEW c \in Conns, LineStep(c)
    PROVE  /\ \/ pc' = pc
              \/ /\ pc[c] \in {"members", "list", "notify", "telling"}
                 /\ \E to \in {"list", "notify", "telling", "serve"} :
                        pc' = [pc EXCEPT ![c] = to]
           /\ ctrl' = ctrl \/ (pc[c] = "members" /\ ctrl' = [ctrl EXCEPT ![c] = "visible"])
           /\ pc' = pc \/ pc[c] # "members" \/ ctrl' = [ctrl EXCEPT ![c] = "visible"]
  <1>1. CASE Snapshot(c)
    BY <1>1 DEF Snapshot, Go
  <1>2. CASE NotifyBegins(c) \/ NotifyEnds(c)
    BY <1>2 DEF NotifyBegins, NotifyEnds, Go
  <1>3. ASSUME NEW d, Encoded(c, d)
        PROVE  /\ ctrl' = ctrl
               /\ pc' = pc \/ (pc[c] = "list" /\ pc' = [pc EXCEPT ![c] = "notify"])
    BY <1>3 DEF Encoded, HandlerTypeOK
  <1>4. ASSUME NEW d, PassOver(c, d) \/ EncodeBody(c, d)
        PROVE  ctrl' = ctrl /\ pc' = pc
    BY <1>4 DEF PassOver, EncodeBody, peerVars
  <1>5. QED
    BY <1>1, <1>2, <1>3, <1>4 DEF LineStep, EncodeNewline, EncodeFails

-----------------------------------------------------------------------------
(* Types *)

\* Rooms are made with a subnet and a password of the right kind.
LEMMA CreationStep ==
    ASSUME CreationTypeOK, NEW c \in Conns,
           HandlerStep(c) \/ RunStep(c)
    PROVE  CreationTypeOK'
  <1>1. CASE UNCHANGED <<subnet, nextSubnet, password>>
    BY <1>1 DEF CreationTypeOK
  <1>2. CASE Enter(c)
    <2>1. nextSubnet \in Subnets /\ SubnetAfter(nextSubnet) \in Subnets
      BY SpaceAssumption DEF CreationTypeOK, Subnets, SubnetAfter
    <2>2. PICK r \in Rooms, w \in Passwords : EnsureRoom(r, w)
      BY <1>2 DEF Enter
    <2>3. CASE subnet[r] # None
      <3>1. UNCHANGED <<subnet, nextSubnet, password>>
        BY <2>2, <2>3 DEF EnsureRoom, roomVars
      <3>2. QED
        BY <3>1 DEF CreationTypeOK
    <2>4. CASE subnet[r] = None
      <3>1. /\ subnet' = [subnet EXCEPT ![r] = nextSubnet]
            /\ nextSubnet' = SubnetAfter(nextSubnet)
            /\ password' = [password EXCEPT ![r] = w]
        BY <2>2, <2>4 DEF EnsureRoom
      <3>2. QED
        BY <2>1, <3>1 DEF CreationTypeOK
    <2>5. QED
      BY <2>3, <2>4
  <1>3. QED
    BY <1>1, <1>2, LineKeeps DEF HandlerStep, RunStep, Refused, Allocate, RoomFull, Publish,
           SetLog, AckSent, AckFails, StoreCtrl, ControlEnds, Release, Cleanup, SessionEnds,
           RunEnds, RunCleansUp, RemoveFrom, Go, roomVars, connVars, peerVars

\* What releasePeer's section makes of the maps.
LEMMA RemovalTypes ==
    ASSUME TableTypeOK, NEW r \in Rooms, NEW c, RemoveFrom(r, c)
    PROVE  TableTypeOK'
  <1>1. byConn' = [byConn EXCEPT ![r] = @ \ {c}] /\ nextIP' = nextIP
    BY DEF RemoveFrom
  <1>2. peers' = [peers EXCEPT ![r] = [peers[r] EXCEPT ![ip[c]] = None]]
    BY DEF RemoveFrom
  <1>3. QED
    BY <1>1, <1>2 DEF TableTypeOK

\* The maps of a room hold peers, and nextIP is an address.
LEMMA TableStep ==
    ASSUME TableTypeOK, HandlerTypeOK, HandlerInv, NEW c \in Conns,
           HandlerStep(c) \/ RunStep(c)
    PROVE  TableTypeOK'
  <1>1. CASE UNCHANGED <<peers, byConn, nextIP>>
    BY <1>1 DEF TableTypeOK
  <1>2. CASE Enter(c)
    BY <1>2 DEF Enter, EnsureRoom, TableTypeOK, Go, roomVars, connVars, peerVars
  <1>3. CASE Allocate(c)
    <2>1. pc[c] = "allocate" /\ Free(room[c]) # {} /\ UNCHANGED <<peers, byConn>>
      BY <1>3 DEF Allocate, Go
    <2>2. nextIP' = [nextIP EXCEPT ![room[c]] = After(NextFree(room[c]))]
      BY <1>3 DEF Allocate
    <2>3. room[c] \in Rooms
      BY <2>1 DEF HandlerInv
    <2>4. NextFree(room[c]) \in HostNums
      BY <2>1, <2>3, NextFreeIsFree
    <2>5. After(NextFree(room[c])) \in HostNums
      BY <2>4, SpaceAssumption DEF After, HostNums
    <2>6. QED
      BY <2>1, <2>2, <2>5 DEF TableTypeOK
  <1>4. CASE Publish(c)
    <2>1. room[c] \in Rooms
      BY <1>4 DEF Publish, Go, HandlerInv
    <2>2. peers' = [peers EXCEPT ![room[c]] = [peers[room[c]] EXCEPT ![ip[c]] = c]]
      BY <1>4 DEF Publish
    <2>3. byConn' = [byConn EXCEPT ![room[c]] = @ \union {c}] /\ nextIP' = nextIP
      BY <1>4 DEF Publish
    <2>4. peers[room[c]] \in [HostNums -> Conns \union {None}]
      BY <2>1 DEF TableTypeOK
    <2>5. [peers[room[c]] EXCEPT ![ip[c]] = c] \in [HostNums -> Conns \union {None}]
      BY <2>4
    <2>6. QED
      BY <2>1, <2>2, <2>3, <2>5 DEF TableTypeOK
  <1>5. CASE Release(c)
    <2>1. CASE UNCHANGED roomVars
      BY <2>1 DEF TableTypeOK, roomVars
    <2>2. CASE \E r \in Rooms : RemoveFrom(r, c)
      BY <2>2, RemovalTypes
    <2>3. QED
      BY <1>5, <2>1, <2>2 DEF Release
  <1>6. CASE RunEnds(c)
    <2>1. CASE UNCHANGED roomVars
      BY <2>1 DEF TableTypeOK, roomVars
    <2>2. CASE \E r \in Rooms : RemoveFrom(r, c)
      BY <2>2, RemovalTypes
    <2>3. QED
      BY <1>6, <2>1, <2>2 DEF RunEnds
  <1>7. QED
    BY <1>1, <1>2, <1>3, <1>4, <1>5, <1>6, LineKeeps DEF HandlerStep, RunStep, Refused, RoomFull,
           SetLog, AckSent, AckFails, StoreCtrl, ControlEnds, Cleanup, SessionEnds, RunCleansUp,
           Go, roomVars, connVars, peerVars

\* The session and Connection.run.
LEMMA SessionStep ==
    ASSUME SessionTypeOK, NewsTypeOK, NEW c \in Conns,
           HandlerStep(c) \/ RunStep(c)
    PROVE  SessionTypeOK'
  <1>1. CASE UNCHANGED <<up, run, casting, crashed>>
    BY <1>1 DEF SessionTypeOK
  <1>2. CASE SessionEnds(c)
    BY <1>2 DEF SessionEnds, SessionTypeOK
  <1>3. CASE RunEnds(c)
    BY <1>3 DEF RunEnds, SessionTypeOK
  <1>4. CASE Cleanup(c)
    <2>1. crashed' \in BOOLEAN /\ UNCHANGED <<up, run, casting>>
      BY <1>4 DEF Cleanup, connVars
    <2>2. QED
      BY <2>1 DEF SessionTypeOK
  <1>5. CASE RunCleansUp(c)
    <2>1. crashed' \in BOOLEAN /\ UNCHANGED <<up, casting>> /\ run' = [run EXCEPT ![c] = "returned"]
      BY <1>5 DEF RunCleansUp
    <2>2. QED
      BY <2>1 DEF SessionTypeOK
  <1>6. QED
    BY <1>1, <1>2, <1>3, <1>4, <1>5, LineKeeps DEF HandlerStep, RunStep, Enter, Refused,
           Allocate, RoomFull, Publish, SetLog, AckSent, AckFails, StoreCtrl, ControlEnds,
           Release, RemoveFrom, Go, roomVars, connVars, peerVars

\* The handler of a control stream and its peer.
LEMMA HandlerTypeStep ==
    ASSUME TableTypeOK, HandlerTypeOK, NewsTypeOK, HandlerInv, NEW c \in Conns,
           HandlerStep(c) \/ RunStep(c)
    PROVE  HandlerTypeOK'
  <1> USE DEF Places
  <1>1. CASE UNCHANGED <<pc, room, given, ip>>
    BY <1>1 DEF HandlerTypeOK
  <1>2. CASE Enter(c)
    BY <1>2 DEF Enter, Go, roomVars, connVars, peerVars, HandlerTypeOK
  <1>3. CASE Refused(c)
    BY <1>3 DEF Refused, Go, roomVars, connVars, peerVars, HandlerTypeOK
  <1>4. CASE Allocate(c)
    <2>1. pc[c] = "allocate" /\ Free(room[c]) # {}
      BY <1>4 DEF Allocate, Go
    <2>2. NextFree(room[c]) \in HostNums
      BY <2>1, NextFreeIsFree DEF HandlerInv
    <2>3. QED
      BY <1>4, <2>2 DEF Allocate, HandlerTypeOK, Go
  <1>5. CASE RoomFull(c)
    BY <1>5 DEF RoomFull, Go, roomVars, connVars, peerVars, HandlerTypeOK
  <1>6. CASE Publish(c)
    BY <1>6 DEF Publish, Go, roomVars, connVars, peerVars, HandlerTypeOK
  <1>7. CASE SetLog(c)
    BY <1>7 DEF SetLog, Go, roomVars, connVars, peerVars, HandlerTypeOK
  <1>8. CASE AckSent(c)
    BY <1>8 DEF AckSent, Go, roomVars, connVars, peerVars, HandlerTypeOK
  <1>9. CASE AckFails(c)
    BY <1>9 DEF AckFails, Go, roomVars, connVars, peerVars, HandlerTypeOK
  <1>10. CASE StoreCtrl(c)
    BY <1>10 DEF StoreCtrl, Go, roomVars, connVars, peerVars, HandlerTypeOK
  <1>11. CASE LineStep(c)
    BY <1>11, LineKeeps, LineMoves DEF HandlerTypeOK
  <1>13. CASE ControlEnds(c)
    BY <1>13 DEF ControlEnds, Go, roomVars, connVars, peerVars, HandlerTypeOK
  <1>14. CASE Release(c)
    BY <1>14 DEF Release, Go, roomVars, connVars, peerVars, HandlerTypeOK
  <1>15. CASE Cleanup(c)
    BY <1>15 DEF Cleanup, Go, roomVars, connVars, peerVars, HandlerTypeOK
  <1>16. QED
    BY <1>1, <1>2, <1>3, <1>4, <1>5, <1>6, <1>7, <1>8, <1>9, <1>10, <1>11, <1>13, <1>14,
           <1>15 DEF HandlerStep, RunStep, SessionEnds, RunEnds, RunCleansUp, RemoveFrom, Go,
           roomVars, connVars, peerVars

\* What is on its way to a client's stream.
LEMMA LineTypes ==
    ASSUME TableTypeOK, HandlerTypeOK, HandlerInv, NewsTypeOK, NEW c \in Conns, LineStep(c)
    PROVE  NewsTypeOK'
  <1> USE DEF NewsTypeOK
  <1>1. room[c] \in Rooms => Members(room[c]) \subseteq Conns
    BY DEF Members, TableTypeOK
  <1>2. log' = log
    BY LineKeeps
  <1>3. CASE Snapshot(c)
    <2>1. Members(room[c]) \subseteq Conns
      BY <1>1, <1>3 DEF Snapshot, Go, HandlerInv
    <2>2. QED
      BY <1>2, <1>3, <2>1 DEF Snapshot
  <1>4. CASE NotifyBegins(c)
    <2>1. Members(room[c]) \subseteq Conns
      BY <1>1, <1>4 DEF NotifyBegins, Go, HandlerInv
    <2>2. QED
      BY <1>2, <1>4, <2>1 DEF NotifyBegins
  <1>5. CASE NotifyEnds(c)
    BY <1>2, <1>5 DEF NotifyEnds, lineVars
  <1>6. ASSUME NEW d \in Conns, PassOver(c, d)
        PROVE  NewsTypeOK'
    BY <1>2, <1>6 DEF PassOver, peerVars
  <1>7. ASSUME NEW d \in Conns, EncodeBody(c, d)
        PROVE  NewsTypeOK'
    <2>1. (deaf[d] \/ \E w \in Conns : mid[w] = d) \in BOOLEAN
      OBVIOUS
    <2>2. deaf' \in [Conns -> BOOLEAN]
      BY <1>7, <2>1 DEF EncodeBody
    <2>3. mid' = [mid EXCEPT ![c] = d] /\ UNCHANGED <<ctrl, list, tell, told>>
      BY <1>7 DEF EncodeBody, peerVars
    <2>4. QED
      BY <1>2, <2>2, <2>3
  <1>8. ASSUME NEW d, Encoded(c, d)
        PROVE  /\ list' \in [Conns -> SUBSET Conns] /\ tell' \in [Conns -> SUBSET Conns]
               /\ mid' \in [Conns -> Conns \union {None}] /\ UNCHANGED <<ctrl, deaf>>
    BY <1>8 DEF Encoded
  <1>9. CASE EncodeNewline(c)
    <2>1. Encoded(c, mid[c]) /\ told' \in [Conns -> SUBSET Conns]
      BY <1>9 DEF EncodeNewline
    <2>2. QED
      BY <1>2, <1>8, <2>1
  <1>10. ASSUME NEW d \in Conns, EncodeFails(c, d)
         PROVE  NewsTypeOK'
    BY <1>2, <1>8, <1>10 DEF EncodeFails
  <1>11. QED
    BY <1>3, <1>4, <1>5, <1>6, <1>7, <1>9, <1>10 DEF LineStep

\* What a peer keeps and what its client has been told.
LEMMA NewsStep ==
    ASSUME TableTypeOK, HandlerTypeOK, HandlerInv, NewsTypeOK, NEW c \in Conns,
           HandlerStep(c) \/ RunStep(c)
    PROVE  NewsTypeOK'
  <1>1. CASE UNCHANGED <<log, ctrl, lineVars>>
    BY <1>1 DEF NewsTypeOK, lineVars
  <1>2. CASE SetLog(c)
    BY <1>2 DEF SetLog, NewsTypeOK, lineVars
  <1>3. CASE StoreCtrl(c)
    BY <1>3 DEF StoreCtrl, NewsTypeOK, lineVars
  <1>4. CASE LineStep(c)
    BY <1>4, LineTypes
  <1>5. QED
    BY <1>1, <1>2, <1>3, <1>4 DEF HandlerStep, RunStep, Enter, Refused, Allocate, RoomFull,
           Publish, AckSent, AckFails, ControlEnds, Release, Cleanup, SessionEnds, RunEnds,
           RunCleansUp, RemoveFrom, Go, peerVars

-----------------------------------------------------------------------------
(* The handler, the maps and the peers *)

\* A handler only moves forward.
LEMMA HandlerInvStep ==
    ASSUME TableTypeOK, HandlerTypeOK, NewsTypeOK, HandlerInv, NEW c \in Conns,
           HandlerStep(c) \/ RunStep(c)
    PROVE  HandlerInv'
  <1>1. CASE UNCHANGED <<pc, room, ip, ctrl>>
    BY <1>1 DEF HandlerInv
  <1>2. CASE Enter(c)
    BY <1>2 DEF Enter, Go, roomVars, connVars, peerVars, HandlerInv, HandlerTypeOK, NewsTypeOK
  <1>3. CASE Refused(c)
    BY <1>3 DEF Refused, Go, roomVars, connVars, peerVars, HandlerInv, HandlerTypeOK, NewsTypeOK
  <1>4. CASE Allocate(c)
    <2>1. pc[c] = "allocate" /\ Free(room[c]) # {} /\ room[c] \in Rooms
      BY <1>4 DEF Allocate, Go, HandlerInv
    <2>2. NextFree(room[c]) \in HostNums
      BY <2>1, NextFreeIsFree
    <2>3. QED
      BY <1>4, <2>1, <2>2 DEF Allocate, HandlerInv, HandlerTypeOK, Go
  <1>5. CASE RoomFull(c)
    BY <1>5 DEF RoomFull, Go, roomVars, connVars, peerVars, HandlerInv, HandlerTypeOK, NewsTypeOK
  <1>6. CASE Publish(c)
    BY <1>6 DEF Publish, Go, roomVars, connVars, peerVars, HandlerInv, HandlerTypeOK, NewsTypeOK
  <1>7. CASE SetLog(c)
    BY <1>7 DEF SetLog, Go, roomVars, connVars, peerVars, HandlerInv, HandlerTypeOK, NewsTypeOK
  <1>8. CASE AckSent(c)
    BY <1>8 DEF AckSent, Go, roomVars, connVars, peerVars, HandlerInv, HandlerTypeOK, NewsTypeOK
  <1>9. CASE AckFails(c)
    BY <1>9 DEF AckFails, Go, roomVars, connVars, peerVars, HandlerInv, HandlerTypeOK, NewsTypeOK
  <1>10. CASE StoreCtrl(c)
    BY <1>10 DEF StoreCtrl, Go, roomVars, connVars, peerVars, HandlerInv, HandlerTypeOK, NewsTypeOK
  <1>11. CASE LineStep(c)
    BY <1>11, LineKeeps, LineMoves DEF HandlerInv, HandlerTypeOK, NewsTypeOK
  <1>13. CASE ControlEnds(c)
    BY <1>13 DEF ControlEnds, Go, roomVars, connVars, peerVars, HandlerInv, HandlerTypeOK,
           NewsTypeOK
  <1>14. CASE Release(c)
    BY <1>14 DEF Release, Go, roomVars, connVars, peerVars, HandlerInv, HandlerTypeOK, NewsTypeOK
  <1>15. CASE Cleanup(c)
    BY <1>15 DEF Cleanup, Go, roomVars, connVars, peerVars, HandlerInv, HandlerTypeOK, NewsTypeOK
  <1>16. QED
    BY <1>1, <1>2, <1>3, <1>4, <1>5, <1>6, <1>7, <1>8, <1>9, <1>10, <1>11, <1>13, <1>14,
           <1>15 DEF HandlerStep, RunStep, SessionEnds, RunEnds, RunCleansUp, RemoveFrom, Go,
           roomVars, connVars, peerVars

\* A peer is in byConn of its own room only, and only while its handler is not done.
LEMMA MemberStep ==
    ASSUME TableTypeOK, HandlerTypeOK, NewsTypeOK, HandlerInv, MemberInv, NEW c \in Conns,
           HandlerStep(c) \/ RunStep(c)
    PROVE  MemberInv'
  <1>1. CASE UNCHANGED <<pc, room, byConn>>
    BY <1>1 DEF MemberInv
  <1>2. CASE Enter(c)
    BY <1>2 DEF Enter, EnsureRoom, Go, roomVars, connVars, peerVars, MemberInv, Joined,
           HandlerTypeOK, TableTypeOK
  <1>3. CASE Refused(c)
    BY <1>3 DEF Refused, Go, roomVars, connVars, peerVars, MemberInv, Joined, HandlerTypeOK,
           TableTypeOK
  <1>4. CASE Allocate(c)
    BY <1>4 DEF Allocate, Go, roomVars, connVars, peerVars, MemberInv, Joined, HandlerTypeOK,
           TableTypeOK
  <1>5. CASE RoomFull(c)
    BY <1>5 DEF RoomFull, Go, roomVars, connVars, peerVars, MemberInv, Joined, HandlerTypeOK,
           TableTypeOK
  <1>6. CASE Publish(c)
    BY <1>6 DEF Publish, Go, roomVars, connVars, peerVars, MemberInv, Joined, HandlerTypeOK,
           TableTypeOK, HandlerInv
  <1>7. CASE SetLog(c)
    BY <1>7 DEF SetLog, Go, roomVars, connVars, peerVars, MemberInv, Joined, HandlerTypeOK,
           TableTypeOK
  <1>8. CASE AckSent(c)
    BY <1>8 DEF AckSent, Go, roomVars, connVars, peerVars, MemberInv, Joined, HandlerTypeOK,
           TableTypeOK
  <1>9. CASE AckFails(c)
    BY <1>9 DEF AckFails, Go, roomVars, connVars, peerVars, MemberInv, Joined, HandlerTypeOK,
           TableTypeOK
  <1>10. CASE StoreCtrl(c)
    BY <1>10 DEF StoreCtrl, Go, roomVars, connVars, peerVars, MemberInv, Joined, HandlerTypeOK,
           TableTypeOK
  <1>11. CASE LineStep(c)
    BY <1>11, LineKeeps, LineMoves DEF MemberInv, Joined, HandlerTypeOK, TableTypeOK
  <1>13. CASE ControlEnds(c)
    BY <1>13 DEF ControlEnds, Go, roomVars, connVars, peerVars, MemberInv, Joined, HandlerTypeOK,
           TableTypeOK
  <1>14. CASE Release(c)
    <2>1. room' = room /\ (pc' = pc \/ \E p \in {"cleanup", "done"} : pc' = [pc EXCEPT ![c] = p])
      BY <1>14 DEF Release, Go, roomVars, connVars, peerVars
    <2>2. CASE \A r \in Rooms : c \notin byConn[r] /\ UNCHANGED byConn
      BY <2>1, <2>2 DEF MemberInv, HandlerTypeOK, TableTypeOK
    <2>3. CASE \E r \in Rooms : c \in byConn[r] /\ RemoveFrom(r, c)
      <3>1. PICK r \in Rooms : c \in byConn[r] /\ RemoveFrom(r, c)
        BY <2>3
      <3>2. \A q \in Rooms : byConn'[q] \subseteq byConn[q] /\ c \notin byConn'[q]
        BY <3>1 DEF RemoveFrom, MemberInv, TableTypeOK
      <3>3. QED
        BY <2>1, <3>2 DEF MemberInv, HandlerTypeOK, TableTypeOK
    <2>4. QED
      BY <1>14, <2>2, <2>3 DEF Release, roomVars
  <1>15. CASE Cleanup(c)
    BY <1>15 DEF Cleanup, Go, roomVars, connVars, peerVars, MemberInv, Joined, HandlerTypeOK,
           TableTypeOK
  <1>16. CASE RunEnds(c)
    <2>1. room' = room /\ (pc' = pc)
      BY <1>16 DEF RunEnds, Go, roomVars, connVars, peerVars
    <2>2. CASE \A r \in Rooms : c \notin byConn[r] /\ UNCHANGED byConn
      BY <2>1, <2>2 DEF MemberInv, HandlerTypeOK, TableTypeOK
    <2>3. CASE \E r \in Rooms : c \in byConn[r] /\ RemoveFrom(r, c)
      <3>1. PICK r \in Rooms : c \in byConn[r] /\ RemoveFrom(r, c)
        BY <2>3
      <3>2. \A q \in Rooms : byConn'[q] \subseteq byConn[q] /\ c \notin byConn'[q]
        BY <3>1 DEF RemoveFrom, MemberInv, TableTypeOK
      <3>3. QED
        BY <2>1, <3>2 DEF MemberInv, HandlerTypeOK, TableTypeOK
    <2>4. QED
      BY <1>16, <2>2, <2>3 DEF RunEnds, roomVars
  <1>17. QED
    BY <1>1, <1>2, <1>3, <1>4, <1>5, <1>6, <1>7, <1>8, <1>9, <1>10, <1>11, <1>13, <1>14,
           <1>15, <1>16 DEF HandlerStep, RunStep, SessionEnds, RunCleansUp, Go, roomVars, connVars,
           peerVars

\* The first to name a room sets its password, and later ones give the same.
LEMMA AdmittedStep ==
    ASSUME CreationTypeOK, HandlerTypeOK, AdmittedInv, NEW c \in Conns,
           HandlerStep(c) \/ RunStep(c)
    PROVE  AdmittedInv'
  <1>1. CASE UNCHANGED <<room, given, subnet, password>>
    BY <1>1 DEF AdmittedInv
  <1>2. CASE Enter(c)
    <2>1. PICK r \in Rooms, w \in Passwords :
             /\ subnet[r] = None \/ PasswordFits(r, w)
             /\ EnsureRoom(r, w)
             /\ room' = [room EXCEPT ![c] = r] /\ given' = [given EXCEPT ![c] = w]
      BY <1>2 DEF Enter
    <2>2. CASE subnet[r] # None
      <3>1. UNCHANGED <<subnet, password>> /\ PasswordFits(r, w)
        BY <2>1, <2>2 DEF EnsureRoom, roomVars
      <3>2. QED
        BY <2>1, <2>2, <3>1 DEF PasswordFits, AdmittedInv, HandlerTypeOK
    <2>3. CASE subnet[r] = None
      <3>1. nextSubnet # None
        BY SpaceAssumption DEF CreationTypeOK, Subnets
      <3>2. subnet' = [subnet EXCEPT ![r] = nextSubnet] /\ password' = [password EXCEPT ![r] = w]
        BY <2>1, <2>3 DEF EnsureRoom
      <3>3. ASSUME NEW d \in Conns, room'[d] # None
            PROVE  /\ subnet'[room'[d]] # None
                   /\ password'[room'[d]] # NoPassword => given'[d] = password'[room'[d]]
        <4>1. CASE d = c
          BY <2>1, <3>1, <3>2, <4>1 DEF CreationTypeOK, HandlerTypeOK
        <4>2. CASE d # c
          <5>1. room'[d] = room[d] /\ given'[d] = given[d] /\ subnet[room[d]] # None
            BY <2>1, <3>3, <4>2 DEF AdmittedInv, HandlerTypeOK
          <5>2. room[d] # r /\ room[d] \in Rooms
            BY <2>3, <3>3, <5>1 DEF HandlerTypeOK
          <5>3. QED
            BY <3>2, <3>3, <5>1, <5>2 DEF AdmittedInv, CreationTypeOK
        <4>3. QED
          BY <4>1, <4>2
      <3>4. QED
        BY <3>3 DEF AdmittedInv
    <2>4. QED
      BY <2>2, <2>3
  <1>3. QED
    BY <1>1, <1>2, LineKeeps DEF HandlerStep, RunStep, Refused, Allocate, RoomFull, Publish,
           SetLog, AckSent, AckFails, StoreCtrl, ControlEnds, Release, Cleanup, SessionEnds,
           RunEnds, RunCleansUp, RemoveFrom, Go, roomVars, connVars, peerVars

\* A removal only takes away.
Removed(r, c) ==
    \A q \in Rooms :
        /\ byConn'[q] = IF q = r THEN byConn[q] \ {c} ELSE byConn[q]
        /\ \A n \in HostNums :
               peers'[q][n] = IF q = r /\ n = ip[c] THEN None ELSE peers[q][n]

LEMMA RemovalOnlyRemoves ==
    ASSUME TableTypeOK, NEW r \in Rooms, NEW c \in Conns, ip[c] \in HostNums, RemoveFrom(r, c)
    PROVE  Removed(r, c)
  <1>1. peers' = [peers EXCEPT ![r] = [peers[r] EXCEPT ![ip[c]] = None]]
    BY DEF RemoveFrom
  <1>2. byConn' = [byConn EXCEPT ![r] = @ \ {c}]
    BY DEF RemoveFrom
  <1>3. QED
    BY <1>1, <1>2 DEF TableTypeOK, Removed

\* An entry of Room.peers stays where its peer's address is.
LEMMA FiledStep ==
    ASSUME TableTypeOK, HandlerTypeOK, HandlerInv, MemberInv, FiledUnderOwnAddress, NEW c \in Conns,
           HandlerStep(c) \/ RunStep(c)
    PROVE  FiledUnderOwnAddress'
  <1>1. CASE UNCHANGED <<peers, byConn, room, ip>>
    BY <1>1 DEF FiledUnderOwnAddress
  <1>2. CASE Enter(c)
    <2>1. \A r \in Rooms : c \notin byConn[r]
      BY <1>2 DEF Enter, Go, MemberInv, Joined
    <2>2. UNCHANGED <<peers, byConn>>
      BY <1>2 DEF Enter, EnsureRoom, roomVars
    <2>3. \A d \in Conns : d # c => room'[d] = room[d] /\ ip'[d] = ip[d]
      BY <1>2 DEF Enter, HandlerTypeOK
    <2>4. QED
      BY <2>1, <2>2, <2>3 DEF FiledUnderOwnAddress, TableTypeOK
  <1>3. CASE Allocate(c)
    <2>1. \A r \in Rooms : c \notin byConn[r]
      BY <1>3 DEF Allocate, Go, MemberInv, Joined
    <2>2. UNCHANGED <<peers, byConn>>
      BY <1>3 DEF Allocate, EnsureRoom, roomVars
    <2>3. \A d \in Conns : d # c => room'[d] = room[d] /\ ip'[d] = ip[d]
      BY <1>3 DEF Allocate, HandlerTypeOK
    <2>4. QED
      BY <2>1, <2>2, <2>3 DEF FiledUnderOwnAddress, TableTypeOK
  <1>4. CASE Publish(c)
    <2>1. room[c] \in Rooms /\ ip[c] \in HostNums
      BY <1>4 DEF Publish, Go, HandlerInv
    <2>2. peers' = [peers EXCEPT ![room[c]] = [peers[room[c]] EXCEPT ![ip[c]] = c]]
      BY <1>4 DEF Publish
    <2>3. byConn' = [byConn EXCEPT ![room[c]] = @ \union {c}] /\ UNCHANGED <<room, ip>>
      BY <1>4 DEF Publish
    <2>4. \A r \in Rooms, n \in HostNums :
           peers'[r][n] = IF r = room[c] /\ n = ip[c] THEN c ELSE peers[r][n]
      BY <2>1, <2>2 DEF TableTypeOK
    <2>5. \A r \in Rooms : byConn'[r] = IF r = room[c] THEN byConn[r] \union {c} ELSE byConn[r]
      BY <2>1, <2>3 DEF TableTypeOK
    <2>6. QED
      BY <2>1, <2>3, <2>4, <2>5 DEF FiledUnderOwnAddress
  <1>5. CASE Release(c)
    <2>1. UNCHANGED <<room, ip>>
      BY <1>5 DEF Release, peerVars
    <2>2. CASE UNCHANGED roomVars
      BY <2>1, <2>2 DEF FiledUnderOwnAddress, roomVars
    <2>3. CASE \E r \in Rooms : c \in byConn[r] /\ RemoveFrom(r, c)
      <3>1. PICK r \in Rooms : c \in byConn[r] /\ RemoveFrom(r, c)
        BY <2>3
      <3>2. ip[c] \in HostNums
        BY <3>1 DEF MemberInv, Joined, HandlerInv
      <3>3. Removed(r, c)
        BY <3>1, <3>2, RemovalOnlyRemoves
      <3>4. ASSUME NEW q \in Rooms, NEW n \in HostNums, peers'[q][n] # None
            PROVE  peers'[q][n] \in byConn'[q] /\ room'[peers'[q][n]] = q /\ ip'[peers'[q][n]] = n
        <4>1. /\ peers'[q][n] = IF q = r /\ n = ip[c] THEN None ELSE peers[q][n]
              /\ byConn'[q] = IF q = r THEN byConn[q] \ {c} ELSE byConn[q]
          BY <3>3 DEF Removed
        <4>2. ~(q = r /\ n = ip[c]) /\ peers'[q][n] = peers[q][n] /\ peers[q][n] # None
          BY <3>4, <4>1
        <4>3. peers[q][n] \in byConn[q] /\ room[peers[q][n]] = q /\ ip[peers[q][n]] = n
          BY <4>2 DEF FiledUnderOwnAddress
        <4>4. q # r \/ peers[q][n] # c
          BY <4>2, <4>3
        <4>5. QED
          BY <2>1, <4>1, <4>2, <4>3, <4>4
      <3>5. QED
        BY <3>4 DEF FiledUnderOwnAddress
    <2>4. QED
      BY <1>5, <2>2, <2>3 DEF Release
  <1>6. CASE RunEnds(c)
    <2>1. UNCHANGED <<room, ip>>
      BY <1>6 DEF RunEnds, peerVars
    <2>2. CASE UNCHANGED roomVars
      BY <2>1, <2>2 DEF FiledUnderOwnAddress, roomVars
    <2>3. CASE \E r \in Rooms : c \in byConn[r] /\ RemoveFrom(r, c)
      <3>1. PICK r \in Rooms : c \in byConn[r] /\ RemoveFrom(r, c)
        BY <2>3
      <3>2. ip[c] \in HostNums
        BY <3>1 DEF MemberInv, Joined, HandlerInv
      <3>3. Removed(r, c)
        BY <3>1, <3>2, RemovalOnlyRemoves
      <3>4. ASSUME NEW q \in Rooms, NEW n \in HostNums, peers'[q][n] # None
            PROVE  peers'[q][n] \in byConn'[q] /\ room'[peers'[q][n]] = q /\ ip'[peers'[q][n]] = n
        <4>1. /\ peers'[q][n] = IF q = r /\ n = ip[c] THEN None ELSE peers[q][n]
              /\ byConn'[q] = IF q = r THEN byConn[q] \ {c} ELSE byConn[q]
          BY <3>3 DEF Removed
        <4>2. ~(q = r /\ n = ip[c]) /\ peers'[q][n] = peers[q][n] /\ peers[q][n] # None
          BY <3>4, <4>1
        <4>3. peers[q][n] \in byConn[q] /\ room[peers[q][n]] = q /\ ip[peers[q][n]] = n
          BY <4>2 DEF FiledUnderOwnAddress
        <4>4. q # r \/ peers[q][n] # c
          BY <4>2, <4>3
        <4>5. QED
          BY <2>1, <4>1, <4>2, <4>3, <4>4
      <3>5. QED
        BY <3>4 DEF FiledUnderOwnAddress
    <2>4. QED
      BY <1>6, <2>2, <2>3 DEF RunEnds
  <1>7. QED
    BY <1>1, <1>2, <1>3, <1>4, <1>5, <1>6, LineKeeps DEF HandlerStep, RunStep, Refused, RoomFull,
           SetLog, AckSent, AckFails, StoreCtrl, ControlEnds, Cleanup, SessionEnds, RunCleansUp,
           Go, roomVars, connVars, peerVars

\* A peer is registered by Publish and by nothing else.
LEMMA RegisteredOnce ==
    ASSUME TableTypeOK, HandlerTypeOK, HandlerInv, MemberInv,
           NEW d \in Conns, Registered(d)', NEW c \in Conns,
           HandlerStep(c) \/ RunStep(c)
    PROVE  Registered(d) \/ pc'[d] = "log"
  <1>1. CASE UNCHANGED <<peers, byConn, room, ip>>
    BY <1>1 DEF Registered
  <1>2. CASE Enter(c)
    <2>1. \A r \in Rooms : c \notin byConn[r]
      BY <1>2 DEF Enter, Go, MemberInv, Joined
    <2>2. UNCHANGED <<peers, byConn, ip>>
      BY <1>2 DEF Enter, EnsureRoom, roomVars
    <2>3. d # c
      BY <1>2, <2>1, <2>2 DEF Enter, Registered, HandlerTypeOK
    <2>4. room'[d] = room[d]
      BY <1>2, <2>3 DEF Enter, HandlerTypeOK
    <2>5. QED
      BY <2>2, <2>4 DEF Registered
  <1>3. CASE Allocate(c)
    <2>1. \A r \in Rooms : c \notin byConn[r]
      BY <1>3 DEF Allocate, Go, MemberInv, Joined
    <2>2. UNCHANGED <<peers, byConn, room>>
      BY <1>3 DEF Allocate
    <2>3. d # c
      BY <2>1, <2>2 DEF Registered, HandlerTypeOK
    <2>4. ip'[d] = ip[d]
      BY <1>3, <2>3 DEF Allocate, HandlerTypeOK
    <2>5. QED
      BY <2>2, <2>4 DEF Registered
  <1>4. CASE Publish(c)
    <2>1. room[c] \in Rooms /\ ip[c] \in HostNums
      BY <1>4 DEF Publish, Go, HandlerInv
    <2>2. peers' = [peers EXCEPT ![room[c]] = [peers[room[c]] EXCEPT ![ip[c]] = c]]
      BY <1>4 DEF Publish
    <2>3. byConn' = [byConn EXCEPT ![room[c]] = @ \union {c}] /\ UNCHANGED <<room, ip>>
      BY <1>4 DEF Publish
    <2>4. \A r \in Rooms, n \in HostNums :
           peers'[r][n] = IF r = room[c] /\ n = ip[c] THEN c ELSE peers[r][n]
      BY <2>1, <2>2 DEF TableTypeOK
    <2>5. \A r \in Rooms : byConn'[r] = IF r = room[c] THEN byConn[r] \union {c} ELSE byConn[r]
      BY <2>1, <2>3 DEF TableTypeOK
    <2>6. CASE d = c
      BY <1>4, <2>6 DEF Publish, Go, HandlerTypeOK
    <2>7. CASE d # c
      <3>1. room[d] \in Rooms /\ d \in byConn[room[d]]
        BY <2>3, <2>5, <2>7 DEF Registered, HandlerTypeOK
      <3>2. ip[d] \in HostNums
        BY <3>1 DEF MemberInv, Joined, HandlerInv
      <3>3. peers[room[d]][ip[d]] = d
        BY <2>3, <2>4, <2>7, <3>1, <3>2 DEF Registered
      <3>4. QED
        BY <3>1, <3>3, HubAssumption DEF Registered
    <2>8. QED
      BY <2>6, <2>7
  <1>5. CASE Release(c)
    <2>1. UNCHANGED <<room, ip>>
      BY <1>5 DEF Release, peerVars
    <2>2. CASE UNCHANGED roomVars
      BY <2>1, <2>2 DEF Registered, roomVars
    <2>3. CASE \E r \in Rooms : c \in byConn[r] /\ RemoveFrom(r, c)
      <3>1. PICK r \in Rooms : c \in byConn[r] /\ RemoveFrom(r, c)
        BY <2>3
      <3>2. ip[c] \in HostNums
        BY <3>1 DEF MemberInv, Joined, HandlerInv
      <3>3. Removed(r, c)
        BY <3>1, <3>2, RemovalOnlyRemoves
      <3>4. room[d] \in Rooms /\ d \in byConn'[room[d]] /\ peers'[room[d]][ip[d]] = d
        BY <2>1 DEF Registered, HandlerTypeOK
      <3>5. d \in byConn[room[d]]
        BY <3>3, <3>4 DEF Removed
      <3>6. ip[d] \in HostNums
        BY <3>4, <3>5 DEF MemberInv, Joined, HandlerInv
      <3>7. peers[room[d]][ip[d]] = d
        <4>1. peers'[room[d]][ip[d]] = IF room[d] = r /\ ip[d] = ip[c] THEN None
                                       ELSE peers[room[d]][ip[d]]
          BY <3>3, <3>4, <3>6 DEF Removed
        <4>2. d # None
          BY HubAssumption
        <4>3. QED
          BY <3>4, <4>1, <4>2
      <3>8. QED
        BY <3>4, <3>5, <3>7, HubAssumption DEF Registered
    <2>4. QED
      BY <1>5, <2>2, <2>3 DEF Release
  <1>6. CASE RunEnds(c)
    <2>1. UNCHANGED <<room, ip>>
      BY <1>6 DEF RunEnds, peerVars
    <2>2. CASE UNCHANGED roomVars
      BY <2>1, <2>2 DEF Registered, roomVars
    <2>3. CASE \E r \in Rooms : c \in byConn[r] /\ RemoveFrom(r, c)
      <3>1. PICK r \in Rooms : c \in byConn[r] /\ RemoveFrom(r, c)
        BY <2>3
      <3>2. ip[c] \in HostNums
        BY <3>1 DEF MemberInv, Joined, HandlerInv
      <3>3. Removed(r, c)
        BY <3>1, <3>2, RemovalOnlyRemoves
      <3>4. room[d] \in Rooms /\ d \in byConn'[room[d]] /\ peers'[room[d]][ip[d]] = d
        BY <2>1 DEF Registered, HandlerTypeOK
      <3>5. d \in byConn[room[d]]
        BY <3>3, <3>4 DEF Removed
      <3>6. ip[d] \in HostNums
        BY <3>4, <3>5 DEF MemberInv, Joined, HandlerInv
      <3>7. peers[room[d]][ip[d]] = d
        <4>1. peers'[room[d]][ip[d]] = IF room[d] = r /\ ip[d] = ip[c] THEN None
                                       ELSE peers[room[d]][ip[d]]
          BY <3>3, <3>4, <3>6 DEF Removed
        <4>2. d # None
          BY HubAssumption
        <4>3. QED
          BY <3>4, <4>1, <4>2
      <3>8. QED
        BY <3>4, <3>5, <3>7, HubAssumption DEF Registered
    <2>4. QED
      BY <1>6, <2>2, <2>3 DEF RunEnds
  <1>7. QED
    BY <1>1, <1>2, <1>3, <1>4, <1>5, <1>6, LineKeeps DEF HandlerStep, RunStep, Refused, RoomFull,
           SetLog, AckSent, AckFails, StoreCtrl, ControlEnds, Cleanup, SessionEnds, RunCleansUp,
           Go, roomVars, connVars, peerVars

-----------------------------------------------------------------------------
(* The properties *)

\* The other steps neither bring a handler to these lines nor write any.
LEMMA OthersKeepLines ==
    ASSUME HandlerTypeOK, NEW c \in Conns, HandlerStep(c) \/ RunStep(c), ~LineStep(c)
    PROVE  /\ UNCHANGED lineVars
           /\ \A d \in Conns : pc'[d] \in {"list", "notify", "telling", "serve"} => pc'[d] = pc[d]
           /\ \A d \in Conns : pc[d] \in {"list", "telling", "serve"} =>
                  pc'[d] = pc[d] \/ mid[d] = None
  BY DEF HandlerTypeOK, HandlerStep, RunStep, Enter, Refused, Allocate, RoomFull,
       Publish, SetLog, AckSent, AckFails, StoreCtrl, ControlEnds, Release, Cleanup, SessionEnds,
       RunEnds, RunCleansUp, Go, peerVars, lineVars

\* A line is begun where it can be ended.
LEMMA LineInvStep ==
    ASSUME HubTypeInv, HandlerInv, LineInv, NEW c \in Conns, HandlerStep(c) \/ RunStep(c)
    PROVE  LineInv'
  <1> USE DEF HubTypeInv, HandlerTypeOK, NewsTypeOK
  <1>1. CASE ~LineStep(c)
    <2>1. mid' = mid
      BY <1>1, OthersKeepLines DEF lineVars
    <2>2. QED
      BY <1>1, <2>1, OthersKeepLines DEF LineInv
  <1>2. CASE Snapshot(c)
    BY <1>2 DEF Snapshot, Go, LineInv
  <1>3. CASE NotifyBegins(c) \/ NotifyEnds(c)
    BY <1>3 DEF NotifyBegins, NotifyEnds, Go, LineInv, lineVars
  <1>4. ASSUME NEW d \in Conns, PassOver(c, d)
        PROVE  LineInv'
    BY <1>4 DEF PassOver, LineInv, peerVars
  <1>5. ASSUME NEW d \in Conns, EncodeBody(c, d)
        PROVE  LineInv'
    <2>1. pc[c] \in {"list", "telling", "serve"} /\ (pc[c] = "list" => d = c)
      BY <1>5 DEF EncodeBody, Addressees
    <2>2. mid' = [mid EXCEPT ![c] = d] /\ pc' = pc
      BY <1>5 DEF EncodeBody, peerVars
    <2>3. QED
      BY <2>1, <2>2 DEF LineInv
  <1>6. ASSUME NEW d, Encoded(c, d)
        PROVE  LineInv'
    BY <1>6 DEF Encoded, LineInv
  <1>7. QED
    BY <1>1, <1>2, <1>3, <1>4, <1>5, <1>6 DEF LineStep, EncodeNewline, EncodeFails

\* Whoever comes to tell the others or to take its list second finds the other,
\* and what it finds becomes a line.
LEMMA HeardStep ==
    ASSUME HubTypeInv, HandlerInv, LineInv, MemberInv, HeardInv,
           NEW c \in Conns, HandlerStep(c) \/ RunStep(c)
    PROVE  HeardInv'
  <1> DEFINE At(x) == pc[x] \in {"list", "notify", "telling", "serve"}
             Tells(x) == pc[x] \in {"telling", "serve"}
             Known(x, y) == \/ x \in told[y]
                            \/ pc[y] = "list" /\ x \in list[y]
                            \/ pc[x] = "telling" /\ y \in tell[x]
  <1> SUFFICES ASSUME NEW a \in Conns, NEW b \in Conns, a # b, (room[a] = room[b])',
                      Registered(a)', Registered(b)',
                      Tells(a)', At(b)', up'[b], ~deaf'[b]
               PROVE  Known(a, b)'
    BY DEF HeardInv
  <1> USE DEF HubTypeInv
  <1>1. CASE ~LineStep(c)
    <2>1. UNCHANGED <<list, tell, told, deaf>> /\ pc'[a] = pc[a] /\ pc'[b] = pc[b]
      BY <1>1, OthersKeepLines DEF lineVars
    <2>2. Registered(a) /\ Registered(b)
      BY <2>1, RegisteredOnce
    <2>3. room'[a] = room[a] /\ room'[b] = room[b]
      BY <2>1, <1>1 DEF HandlerTypeOK, HandlerStep, RunStep, Enter, Refused, Allocate, RoomFull,
       Publish, SetLog, AckSent, AckFails, StoreCtrl, ControlEnds, Release, Cleanup, SessionEnds,
       RunEnds, RunCleansUp, Go, peerVars, lineVars
    <2>4. up[b]
      BY <1>1 DEF SessionTypeOK, HandlerStep, RunStep, Enter, Refused, Allocate, RoomFull,
       Publish, SetLog, AckSent, AckFails, StoreCtrl, ControlEnds, Release, Cleanup, SessionEnds,
       RunEnds, RunCleansUp, Go, peerVars, lineVars, connVars
    <2>5. Known(a, b)
      BY <2>1, <2>2, <2>3, <2>4 DEF HeardInv
    <2>6. QED
      BY <2>1, <2>5
  <1>2. ASSUME LineStep(c)
        PROVE  /\ Registered(a) /\ Registered(b) /\ room[a] = room[b] /\ up[b]
               /\ a \in Members(room[a]) /\ b \in Members(room[a])
               /\ ctrl[b] = "visible" \/ ~At(b)
    <2>1. UNCHANGED <<peers, byConn, room, ip, up>>
      BY <1>2, LineKeeps
    <2>2. Registered(a) /\ Registered(b) /\ room[a] = room[b] /\ up[b]
      BY <2>1 DEF Registered
    <2>3. ip[a] \in HostNums /\ ip[b] \in HostNums
      BY <2>2 DEF MemberInv, HandlerInv, Joined, Registered, HandlerTypeOK
    <2>4. a # None /\ b # None
      BY HubAssumption
    <2>5. QED
      BY <2>2, <2>3, <2>4 DEF HandlerInv, Members, Registered
  <1>3. CASE Snapshot(c)
    <2>1. pc'[c] = "list" /\ \A x \in Conns : x # c => pc'[x] = pc[x] /\ list'[x] = list[x]
      BY <1>3 DEF Snapshot, Go, HandlerTypeOK, NewsTypeOK
    <2>2. list'[c] = Members(room[c]) /\ UNCHANGED <<tell, told, deaf>>
      BY <1>3 DEF Snapshot, NewsTypeOK
    <2>3. CASE b = c
      BY <1>2, <1>3, <2>1, <2>2, <2>3 DEF LineStep
    <2>4. CASE b # c
      <3>1. Known(a, b)
        BY <1>2, <1>3, <2>1, <2>2, <2>4 DEF HeardInv, LineStep
      <3>2. QED
        BY <2>1, <2>2, <2>4, <3>1
    <2>5. QED
      BY <2>3, <2>4
  <1>4. CASE NotifyBegins(c)
    <2>1. pc[c] = "notify" /\ pc'[c] = "telling"
          /\ \A x \in Conns : x # c => pc'[x] = pc[x] /\ tell'[x] = tell[x]
      BY <1>4 DEF NotifyBegins, Go, HandlerTypeOK, NewsTypeOK
    <2>2. tell'[c] = Members(room[c]) \ {c} /\ UNCHANGED <<list, told, deaf>>
      BY <1>4 DEF NotifyBegins, NewsTypeOK
    <2>3. CASE a = c
      BY <1>2, <1>4, <2>1, <2>2, <2>3 DEF LineStep
    <2>4. CASE a # c
      <3>1. Known(a, b)
        BY <1>2, <1>4, <2>1, <2>2, <2>4 DEF HeardInv, LineStep
      <3>2. QED
        BY <2>1, <2>2, <2>4, <3>1
    <2>5. QED
      BY <2>3, <2>4
  <1>5. CASE NotifyEnds(c)
    <2>1. tell[c] = {} /\ pc[c] = "telling" /\ pc'[c] = "serve" /\ UNCHANGED lineVars
          /\ \A x \in Conns : x # c => pc'[x] = pc[x]
      BY <1>5 DEF NotifyEnds, Go, HandlerTypeOK
    <2>2. Known(a, b)
      BY <1>2, <1>5, <2>1 DEF HeardInv, LineStep, lineVars
    <2>3. QED
      BY <2>1, <2>2 DEF lineVars
  <1>6. ASSUME NEW d \in Conns, PassOver(c, d)
        PROVE  Known(a, b)'
    <2>1. ctrl[d] # "visible" /\ UNCHANGED <<pc, list, told, deaf>>
          /\ \A x \in Conns : tell[x] \ {d} \subseteq tell'[x]
      BY <1>6 DEF PassOver, NewsTypeOK, peerVars
    <2>2. Known(a, b) /\ b # d
      BY <1>2, <1>6, <2>1 DEF HeardInv, LineStep
    <2>3. QED
      BY <2>1, <2>2
  <1>7. ASSUME NEW d \in Conns, EncodeBody(c, d)
        PROVE  Known(a, b)'
    <2>1. UNCHANGED <<pc, list, tell, told>> /\ ~deaf[b]
      BY <1>7 DEF EncodeBody, NewsTypeOK, peerVars
    <2>2. Known(a, b)
      BY <1>2, <1>7, <2>1 DEF HeardInv, LineStep
    <2>3. QED
      BY <2>1, <2>2
  <1>8. ASSUME NEW d \in Conns, Encoded(c, d)
        PROVE  /\ UNCHANGED deaf
               /\ \A x \in Conns : pc'[x] = IF x = c /\ pc[x] = "list" THEN "notify" ELSE pc[x]
               /\ \A x \in Conns : x # c => list'[x] = list[x]
               /\ \A x \in Conns : tell[x] \ {d} \subseteq tell'[x]
               /\ \A x \in Conns : x # c => tell'[x] = tell[x]
    BY <1>8 DEF Encoded, HandlerTypeOK, NewsTypeOK
  <1>9. CASE EncodeNewline(c)
    <2> DEFINE d == mid[c]
    <2>1. d \in Conns /\ Encoded(c, d)
      BY <1>9 DEF EncodeNewline, NewsTypeOK
    <2>2. /\ \A x \in Conns : told[x] \subseteq told'[x]
          /\ ~deaf[d] => /\ c = d => list[c] \subseteq told'[d]
                         /\ c # d => c \in told'[d]
      BY <1>9, <2>1 DEF EncodeNewline, NewsTypeOK
    <2>3. pc[c] = "list" => d = c
      BY <2>1, HubAssumption DEF LineInv
    <2> HIDE DEF d
    <2>4. At(b) /\ Tells(a)
      BY <1>8, <2>1
    <2>5. ~deaf[b] /\ Known(a, b)
      BY <1>2, <1>8, <1>9, <2>1, <2>4 DEF HeardInv, LineStep
    <2>6. CASE a \in told[b]
      BY <2>2, <2>6
    <2>7. CASE pc[b] = "list" /\ a \in list[b]
      BY <1>8, <2>1, <2>2, <2>3, <2>5, <2>7
    <2>8. CASE pc[a] = "telling" /\ b \in tell[a]
      <3>1. CASE a = c /\ b = d
        BY <2>2, <2>5, <3>1
      <3>2. CASE a # c \/ b # d
        BY <1>8, <2>1, <2>8, <3>2
      <3>3. QED
        BY <3>1, <3>2
    <2>9. QED
      BY <2>5, <2>6, <2>7, <2>8
  <1>10. ASSUME NEW d \in Conns, EncodeFails(c, d)
         PROVE  Known(a, b)'
    <2>1. Encoded(c, d) /\ ~up[d] /\ told' = told /\ (pc[c] = "list" => d = c)
      BY <1>10 DEF EncodeFails, Addressees
    <2>2. b # d
      BY <1>2, <1>10, <2>1 DEF LineStep
    <2>3. At(b) /\ Tells(a)
      BY <1>8, <2>1
    <2>4. Known(a, b)
      BY <1>2, <1>8, <1>10, <2>1, <2>3 DEF HeardInv, LineStep
    <2>5. QED
      BY <1>8, <2>1, <2>2, <2>4
  <1>11. QED
    BY <1>1, <1>3, <1>4, <1>5, <1>6, <1>7, <1>9, <1>10 DEF LineStep

\* The address of the next peer is new as long as the pool's first round lasts.
LEMMA FirstRoundStep ==
    ASSUME HubTypeInv, HandlerInv, MemberInv, FiledUnderOwnAddress, FirstRoundInv,
           NEW c \in Conns, HandlerStep(c) \/ RunStep(c)
    PROVE  FirstRoundInv'
  <1> USE DEF HubTypeInv
  <1>1. CASE UNCHANGED <<room, ip, nextIP>>
    BY <1>1 DEF FirstRoundInv, FirstRound, Allocated
  <1>2. CASE Enter(c)
    <2>1. ip[c] = None /\ UNCHANGED <<ip, nextIP>>
      BY <1>2 DEF Enter, EnsureRoom, Go, roomVars, HandlerInv
    <2>2. \A d \in Conns : d # c => room'[d] = room[d]
      BY <1>2 DEF Enter, HandlerTypeOK
    <2>3. \A r \in Rooms : Allocated(r)' = Allocated(r)
      BY <2>1, <2>2 DEF Allocated
    <2>4. QED
      BY <2>1, <2>3 DEF FirstRoundInv, FirstRound
  <1>3. CASE Allocate(c)
    <2> DEFINE r == room[c]
               k == Cardinality(Allocated(r))
               n == NextFree(r)
    <2>1. r \in Rooms /\ ip[c] = None /\ Free(r) # {} /\ UNCHANGED <<room, peers>>
      BY <1>3 DEF Allocate, Go, HandlerInv
    <2>2. ip' = [ip EXCEPT ![c] = n] /\ nextIP' = [nextIP EXCEPT ![r] = After(n)]
      BY <1>3 DEF Allocate
    <2>3. n \in HostNums
      BY <2>1, NextFreeIsFree
    <2>4. ip'[c] = n /\ ip'[c] # None /\ \A d \in Conns : d # c => ip'[d] = ip[d]
      BY <2>2, <2>3, SpaceAssumption DEF HandlerTypeOK, HostNums
    <2>5. Allocated(r)' = Allocated(r) \union {c} /\ c \notin Allocated(r)
      BY <2>1, <2>4 DEF Allocated
    <2>6. \A q \in Rooms : q # r => Allocated(q)' = Allocated(q) /\ nextIP'[q] = nextIP[q]
      BY <2>1, <2>2, <2>4 DEF Allocated, TableTypeOK
    <2>7. IsFiniteSet(Allocated(r)) /\ k \in Nat
      BY HubAssumption, FS_Subset, FS_CardinalityType DEF Allocated
    <2>8. Cardinality(Allocated(r)') = k + 1
      BY <2>5, <2>7, FS_AddElement
    <2>9. ASSUME k + 1 <= Hosts
          PROVE  /\ n = k + 1
                 /\ \A d \in Allocated(r) : ip[d] \in 1..k
                 /\ \A d, e \in Allocated(r) : d # e => ip[d] # ip[e]
      <3>1. k <= Hosts /\ k < Hosts
        BY <2>7, <2>9, SpaceAssumption
      <3>2. /\ nextIP[r] = k + 1
            /\ \A d \in Allocated(r) : ip[d] \in 1..k
            /\ \A d, e \in Allocated(r) : d # e => ip[d] # ip[e]
        BY <2>1, <3>1 DEF FirstRoundInv, FirstRound
      <3>3. nextIP[r] \in HostNums /\ nextIP[r] \notin 1..k
        BY <2>1, <2>7, <3>2 DEF TableTypeOK
      <3>4. peers[r][nextIP[r]] = None
        <4> DEFINE d == peers[r][nextIP[r]]
        <4>1. SUFFICES ASSUME d # None PROVE FALSE
          OBVIOUS
        <4>2. d \in Conns /\ room[d] = r /\ ip[d] = nextIP[r]
          BY <2>1, <3>3, <4>1 DEF FiledUnderOwnAddress, TableTypeOK
        <4>3. d \in Allocated(r)
          BY <3>3, <4>2, SpaceAssumption DEF Allocated, HostNums
        <4>4. QED
          BY <3>2, <3>3, <4>2, <4>3
      <3>5. nextIP[r] \in Free(r)
        BY <3>3, <3>4, SpaceAssumption DEF Free, Distance, Passes, HostNums
      <3>6. QED
        BY <2>1, <3>2, <3>5, NextIPFirst
    <2>10. k + 1 < Hosts => After(k + 1) = k + 2
      BY <2>7, SpaceAssumption DEF After
    <2>11. nextIP'[r] = After(n)
      BY <2>1, <2>2 DEF TableTypeOK
    <2>12. FirstRound(r)'
      <3> SUFFICES ASSUME Cardinality(Allocated(r)') <= Hosts
                   PROVE  /\ Cardinality(Allocated(r)') < Hosts
                                => nextIP'[r] = Cardinality(Allocated(r)') + 1
                          /\ \A d \in Allocated(r)' : ip'[d] \in 1..Cardinality(Allocated(r)')
                          /\ \A d, e \in Allocated(r)' : d # e => ip'[d] # ip'[e]
        BY <2>1 DEF FirstRound
      <3>1. n = k + 1 /\ (\A d \in Allocated(r) : ip[d] \in 1..k)
            /\ \A d, e \in Allocated(r) : d # e => ip[d] # ip[e]
        BY <2>8, <2>9
      <3>2. \A d \in Allocated(r) : d \in Conns /\ d # c /\ ip'[d] = ip[d]
        BY <2>4, <2>5 DEF Allocated
      <3>3. Cardinality(Allocated(r)') < Hosts => nextIP'[r] = Cardinality(Allocated(r)') + 1
        BY <2>7, <2>8, <2>10, <2>11, <3>1
      <3>4. \A d \in Allocated(r)' : ip'[d] \in 1..Cardinality(Allocated(r)')
        BY <2>4, <2>5, <2>7, <2>8, <3>1, <3>2
      <3>5. \A d, e \in Allocated(r)' : d # e => ip'[d] # ip'[e]
        BY <2>4, <2>5, <2>7, <3>1, <3>2
      <3>6. QED
        BY <3>3, <3>4, <3>5
    <2>13. ASSUME NEW q \in Rooms, q # r PROVE FirstRound(q)'
      <3>1. Allocated(q)' = Allocated(q) /\ nextIP'[q] = nextIP[q]
        BY <2>6, <2>13
      <3>2. \A d \in Allocated(q) : ip'[d] = ip[d]
        BY <2>4, <2>13 DEF Allocated
      <3>3. QED
        BY <3>1, <3>2 DEF FirstRoundInv, FirstRound
    <2>14. \A q \in Rooms : FirstRound(q)'
      BY <2>1, <2>12, <2>13
    <2>15. QED
      BY <2>14 DEF FirstRoundInv
  <1>4. QED
    BY <1>1, <1>2, <1>3, LineKeeps DEF HandlerStep, RunStep, Refused, RoomFull, Publish, SetLog,
           AckSent, AckFails, StoreCtrl, ControlEnds, Release, Cleanup, SessionEnds, RunEnds,
           RunCleansUp, RemoveFrom, EnsureRoom, Go, roomVars, connVars, peerVars

-----------------------------------------------------------------------------
(* The theorems *)

LEMMA HubInit == Init => HubInv
  <1> SUFFICES ASSUME Init PROVE HubInv
    OBVIOUS
  <1> USE DEF Init, NoPeers, NothingWritten
  <1>1. CreationTypeOK
    <2>1. 0 \in Subnets /\ SubnetAfter(0) \in Subnets
      BY SpaceAssumption DEF Subnets, SubnetAfter
    <2>2. QED
      BY <2>1, HubAssumption DEF CreationTypeOK
  <1>2. TableTypeOK
    BY SpaceAssumption DEF TableTypeOK, HostNums
  <1>3. SessionTypeOK
    <2>1. crashed = FALSE
      OBVIOUS
    <2>2. QED
      BY <2>1 DEF SessionTypeOK
  <1>4. HandlerTypeOK
    BY HubAssumption DEF HandlerTypeOK, Places
  <1>5. NewsTypeOK
    BY DEF NewsTypeOK
  <1>6. HandlerInv /\ LineInv /\ MemberInv /\ AdmittedInv /\ HeardInv /\ FiledUnderOwnAddress
    BY DEF HandlerInv, LineInv, MemberInv, AdmittedInv, HeardInv, Registered, FiledUnderOwnAddress
  <1>7. FirstRoundInv
    <2>1. ASSUME NEW r \in Rooms PROVE Allocated(r) = {}
      BY DEF Allocated
    <2>2. Cardinality({}) = 0
      BY FS_EmptySet
    <2>3. ASSUME NEW r \in Rooms PROVE FirstRound(r)
      <3>1. Allocated(r) = {} /\ nextIP[r] = 1
        BY <2>1
      <3> HIDE DEF Init, NoPeers, NothingWritten
      <3>2. QED
        BY <2>2, <3>1 DEF FirstRound
    <2>4. QED
      BY <2>3 DEF FirstRoundInv
  <1>8. QED
    BY <1>1, <1>2, <1>3, <1>4, <1>5, <1>6, <1>7 DEF HubInv, HubTypeInv

\* Nothing of the invariant is about who is in broadcast.
LEMMA CastingIsFree ==
    ASSUME HubInv, casting' \in SUBSET Conns,
           UNCHANGED <<roomVars, up, run, peerVars, lineVars, crashed>>
    PROVE  HubInv'
  <1> USE DEF HubInv, HubTypeInv, roomVars, peerVars, lineVars
  <1>1. HubTypeInv'
    BY DEF CreationTypeOK, TableTypeOK, SessionTypeOK, HandlerTypeOK, NewsTypeOK
  <1>2. HandlerInv' /\ LineInv' /\ MemberInv' /\ AdmittedInv'
    BY DEF HandlerInv, LineInv, MemberInv, AdmittedInv
  <1>3. FiledUnderOwnAddress' /\ HeardInv' /\ FirstRoundInv'
    BY DEF FiledUnderOwnAddress, HeardInv, Registered, FirstRoundInv, FirstRound, Allocated
  <1>4. QED
    BY <1>1, <1>2, <1>3

LEMMA HubInvStep == HubInv /\ [Next]_vars => HubInv'
  <1> SUFFICES ASSUME HubInv, [Next]_vars PROVE HubInv'
    OBVIOUS
  <1>1. CASE UNCHANGED vars
    BY <1>1, CastingIsFree DEF HubInv, HubTypeInv, SessionTypeOK, vars, connVars
  <1>2. ASSUME NEW c \in Conns, HandlerStep(c) \/ RunStep(c) PROVE HubInv'
    <2>1. HubTypeInv'
      BY <1>2, CreationStep, TableStep, SessionStep, HandlerTypeStep, NewsStep
         DEF HubInv, HubTypeInv
    <2>2. HandlerInv' /\ LineInv' /\ MemberInv' /\ AdmittedInv'
      BY <1>2, HandlerInvStep, LineInvStep, MemberStep, AdmittedStep DEF HubInv, HubTypeInv
    <2>3. FiledUnderOwnAddress' /\ HeardInv' /\ FirstRoundInv'
      BY <1>2, FiledStep, HeardStep, FirstRoundStep DEF HubInv, HubTypeInv
    <2>4. QED
      BY <2>1, <2>2, <2>3 DEF HubInv
  <1>3. ASSUME NEW c \in Conns, LoopStep(c) PROVE HubInv'
    BY <1>3, CastingIsFree DEF LoopStep, CastBegins, CastEnds, HubInv, HubTypeInv, SessionTypeOK
  <1>4. QED
    BY <1>1, <1>2, <1>3 DEF Next

\* The inductive invariant of the hub: types, what each place of a handler
\* knows, and the agreement of a room's two maps with the peers (room.go, vpn.go).
THEOREM HubInvariance == Spec => []HubInv
  BY HubInit, HubInvStep, PTL DEF Spec

\* Type correctness of rooms, peers and handlers.
THEOREM HubTypeCorrect == Spec => []TypeOK
  <1>1. HubInv => TypeOK
    BY DEF HubInv, HubTypeInv, CreationTypeOK, TableTypeOK, SessionTypeOK, HandlerTypeOK,
           NewsTypeOK, TypeOK
  <1>2. QED
    BY HubInvariance, <1>1, PTL

\* Two members of a room that are being served have heard of each other, unless
\* messages have shared a line of the one's stream, for every number of clients,
\* every interleaving of their joins and of the halves of what they are sent.
THEOREM MembersMeet == Spec => []MutualDiscovery
  <1>1. HubInv => MutualDiscovery
    BY DEF HubInv, HeardInv, MutualDiscovery
  <1>2. QED
    BY HubInvariance, <1>1, PTL

\* When both goroutines are through, neither map of any room has the peer.
THEOREM NobodyHaunts == Spec => []NoGhost
  <1>1. HubInv => NoGhost
    <2> SUFFICES ASSUME HubInv, NEW c \in Conns, pc[c] = "done", NEW r \in Rooms
                 PROVE  c \notin byConn[r] /\ c \notin Members(r)
      BY DEF NoGhost
    <2>1. c \notin byConn[r]
      BY DEF HubInv, MemberInv, Joined
    <2>2. \A n \in HostNums : peers[r][n] # c \/ c = None
      BY <2>1 DEF HubInv, FiledUnderOwnAddress
    <2>3. QED
      BY <2>1, <2>2, HubAssumption DEF Members
  <1>2. QED
    BY HubInvariance, <1>1, PTL

\* A private room is entered with its creator's password only.
THEOREM PrivateStaysPrivate == Spec => []PrivateMeansPrivate
  <1>1. HubInv => PrivateMeansPrivate
    BY DEF HubInv, AdmittedInv, PrivateMeansPrivate
  <1>2. QED
    BY HubInvariance, <1>1, PTL

\* A step of the hub takes a member's entry for another peer only if the two were
\* given one address.
LEMMA EntryIsTaken ==
    ASSUME HubInv, NEW e \in Conns, HandlerStep(e) \/ RunStep(e),
           NEW r \in Rooms, NEW c \in byConn'[r], ~Filed(r, c)', c \notin byConn[r] \/ Filed(r, c)
    PROVE  \E d \in Conns \ {c} :
               room[d] = r /\ ip[d] = ip[c] /\ (pc[d] = "publish" \/ d \in byConn[r])
  <1> USE DEF HubInv, HubTypeInv
  <1>1. CASE UNCHANGED <<peers, byConn, ip>>
    BY <1>1 DEF Filed
  <1>2. CASE Enter(e)
    BY <1>1, <1>2 DEF Enter, EnsureRoom, roomVars
  <1>3. CASE Allocate(e)
    <2>1. UNCHANGED <<peers, byConn>> /\ \A d \in Conns : d # e => ip'[d] = ip[d]
      BY <1>3 DEF Allocate, HandlerTypeOK
    <2>2. c # e /\ c \in Conns
      BY <1>3, <2>1 DEF Allocate, Go, MemberInv, Joined, TableTypeOK
    <2>3. QED
      BY <2>1, <2>2 DEF Filed
  <1>4. CASE Publish(e)
    <2>1. room[e] \in Rooms /\ ip[e] \in HostNums /\ pc[e] = "publish" /\ ip' = ip
      BY <1>4 DEF Publish, Go, HandlerInv
    <2>2. peers' = [peers EXCEPT ![room[e]] = [peers[room[e]] EXCEPT ![ip[e]] = e]]
      BY <1>4 DEF Publish
    <2>3. byConn' = [byConn EXCEPT ![room[e]] = @ \union {e}]
      BY <1>4 DEF Publish
    <2>4. \A q \in Rooms, n \in HostNums :
              peers'[q][n] = IF q = room[e] /\ n = ip[e] THEN e ELSE peers[q][n]
      BY <2>1, <2>2 DEF TableTypeOK
    <2>5. \A q \in Rooms : e \notin byConn[q]
      BY <2>1 DEF MemberInv, Joined
    <2>6. (c = e /\ r = room[e]) \/ (c # e /\ c \in byConn[r])
      BY <2>1, <2>3, <2>5 DEF TableTypeOK
    <2>7. c # e /\ c \in byConn[r] /\ c \in Conns
      BY <2>1, <2>4, <2>6 DEF Filed, TableTypeOK
    <2>8. ip[c] \in HostNums
      BY <2>7 DEF MemberInv, Joined, HandlerInv
    <2>9. r = room[e] /\ ip[c] = ip[e]
      BY <2>1, <2>4, <2>7, <2>8 DEF Filed
    <2>10. QED
      BY <2>1, <2>7, <2>9
  <1>5. ASSUME NEW q \in Rooms, e \in byConn[q], RemoveFrom(q, e), ip' = ip
        PROVE  \E d \in Conns \ {c} : room[d] = r /\ ip[d] = ip[c] /\ d \in byConn[r]
    <2>1. room[e] = q /\ ip[e] \in HostNums
      BY <1>5 DEF MemberInv, Joined, HandlerInv
    <2>2. Removed(q, e)
      BY <1>5, <2>1, RemovalOnlyRemoves
    <2>3. c \in byConn[r] /\ c \in Conns /\ (r = q => c # e)
      <3>1. byConn'[r] = IF r = q THEN byConn[r] \ {e} ELSE byConn[r]
        BY <2>2 DEF Removed
      <3>2. byConn[r] \subseteq Conns
        BY DEF TableTypeOK
      <3>3. QED
        BY <3>1, <3>2
    <2>4. ip[c] \in HostNums
      BY <2>3 DEF MemberInv, Joined, HandlerInv
    <2>5. r = q /\ ip[c] = ip[e]
      BY <1>5, <2>2, <2>3, <2>4 DEF Removed, Filed
    <2>6. QED
      BY <1>5, <2>1, <2>3, <2>5
  <1>6. CASE Release(e) \/ RunEnds(e)
    <2>1. ip' = ip
      BY <1>6 DEF Release, RunEnds, peerVars
    <2>2. CASE UNCHANGED roomVars
      BY <1>1, <2>1, <2>2 DEF roomVars
    <2>3. QED
      BY <1>5, <1>6, <2>1, <2>2 DEF Release, RunEnds
  <1>7. QED
    BY <1>1, <1>2, <1>3, <1>4, <1>6, LineKeeps DEF HandlerStep, RunStep, Refused, RoomFull,
           SetLog, AckSent, AckFails, StoreCtrl, ControlEnds, Cleanup, SessionEnds,
           RunCleansUp, roomVars, peerVars

\* The entry of a member stays, but for what others that were given its address
\* do with it, for every number of peers and rooms.
THEOREM FiledCorrectly == Spec => MembersStayFiled
  <1>1. HubInv /\ [Next]_vars =>
            [\A r \in Rooms : \A c \in byConn'[r] :
                \/ Filed(r, c)'
                \/ c \in byConn[r] /\ ~Filed(r, c)
                \/ \E d \in Conns \ {c} :
                       /\ room[d] = r /\ ip[d] = ip[c]
                       /\ pc[d] = "publish" \/ d \in byConn[r]]_vars
    <2> SUFFICES ASSUME HubInv, Next, NEW r \in Rooms, NEW c \in byConn'[r],
                        ~Filed(r, c)', c \notin byConn[r] \/ Filed(r, c)
                 PROVE  \E d \in Conns \ {c} :
                            room[d] = r /\ ip[d] = ip[c] /\ (pc[d] = "publish" \/ d \in byConn[r])
      OBVIOUS
    <2>1. ASSUME NEW e \in Conns, LoopStep(e) PROVE FALSE
      BY <2>1 DEF LoopStep, CastBegins, CastEnds, roomVars, peerVars, Filed
    <2>2. QED
      BY <2>1, EntryIsTaken DEF Next
  <1>2. QED
    BY HubInvariance, <1>1, PTL DEF Spec, MembersStayFiled

\* The search for an address goes through all of them, for every size of the
\* pool and from everywhere in it.
THEOREM SearchIsWhole == Spec => FullMeansFull
  <1>1. HubInv /\ [Next]_vars =>
            [\A c \in Conns : pc[c] = "allocate" /\ pc'[c] = "done" =>
                 \A n \in HostNums : peers[room[c]][n] # None]_vars
    <2> SUFFICES ASSUME HubInv, Next, NEW c \in Conns, pc[c] = "allocate", pc'[c] = "done",
                        NEW n \in HostNums
                 PROVE  peers[room[c]][n] # None
      OBVIOUS
    <2> USE DEF HubInv, HubTypeInv
    <2>1. PICK e \in Conns : HandlerStep(e) \/ RunStep(e) \/ LoopStep(e)
      BY DEF Next
    <2>2. RoomFull(c)
      <3>1. LineStep(e) => pc'[c] = pc[c] \/ pc[c] # "allocate"
        BY LineMoves DEF HandlerTypeOK
      <3>2. ~RunStep(e) /\ ~LoopStep(e)
        BY DEF RunStep, SessionEnds, RunEnds, RunCleansUp, LoopStep, CastBegins, CastEnds, peerVars
      <3>3. RoomFull(e)
        BY <2>1, <3>1, <3>2 DEF HandlerTypeOK, HandlerStep, Enter, Refused, Allocate, Publish,
           SetLog, AckSent, AckFails, StoreCtrl, ControlEnds, Release, Cleanup, Go
      <3>4. QED
        BY <3>3 DEF RoomFull, Go, HandlerTypeOK
    <2>3. Free(room[c]) = {} /\ nextIP[room[c]] \in HostNums
      BY <2>2 DEF RoomFull, HandlerInv, TableTypeOK
    <2>4. Distance(nextIP[room[c]], n) \in Passes
      BY <2>3, SpaceAssumption DEF Distance, Passes, HostNums
    <2>5. QED
      BY <2>3, <2>4 DEF Free
  <1>2. QED
    BY HubInvariance, <1>1, PTL DEF Spec, FullMeansFull

\* No address is given twice before the pool has been handed out once, for
\* every size of the pool.
THEOREM FirstRoundDistinct == Spec => []DistinctUntilWrap
  <1>1. HubInv => DistinctUntilWrap
    BY DEF HubInv, FirstRoundInv, FirstRound, DistinctUntilWrap
  <1>2. QED
    BY HubInvariance, <1>1, PTL

-----------------------------------------------------------------------------
(* Subnets *)

\* While a byte can count the k rooms so far, their subnets are 0..k-1 and
\* nextSubnet is the one after them.
SubnetInv ==
    Cardinality(Created) <= SubnetSpace =>
        /\ Cardinality(Created) < SubnetSpace => nextSubnet = Cardinality(Created)
        /\ \A r \in Created : subnet[r] \in 0..(Cardinality(Created) - 1)
        /\ \A r, q \in Created : r # q => subnet[r] # subnet[q]

\* A room that is made takes the next subnet.
LEMMA RoomIsMade ==
    ASSUME CreationTypeOK, SubnetInv, NEW r \in Rooms, subnet[r] = None,
           subnet' = [subnet EXCEPT ![r] = nextSubnet],
           nextSubnet' = SubnetAfter(nextSubnet)
    PROVE  SubnetInv'
  <1> DEFINE k == Cardinality(Created)
  <1>1. nextSubnet \in Nat /\ nextSubnet # None
    BY SpaceAssumption DEF CreationTypeOK, Subnets
  <1>2. subnet'[r] = nextSubnet /\ \A q \in Rooms : q # r => subnet'[q] = subnet[q]
    BY DEF CreationTypeOK
  <1>3. Created' = Created \union {r} /\ r \notin Created
    BY <1>1, <1>2 DEF Created
  <1>4. IsFiniteSet(Created) /\ k \in Nat
    BY HubAssumption, FS_Subset, FS_CardinalityType DEF Created
  <1>5. Cardinality(Created') = k + 1
    BY <1>3, <1>4, FS_AddElement
  <1>6. SUFFICES ASSUME k + 1 <= SubnetSpace
                 PROVE  /\ k + 1 < SubnetSpace => nextSubnet' = k + 1
                        /\ \A q \in Created' : subnet'[q] \in 0..k
                        /\ \A q, p \in Created' : q # p => subnet'[q] # subnet'[p]
    BY <1>4, <1>5 DEF SubnetInv
  <1>7. /\ nextSubnet = k
        /\ \A q \in Created : subnet[q] \in 0..(k - 1)
        /\ \A q, p \in Created : q # p => subnet[q] # subnet[p]
    BY <1>4, <1>6, SpaceAssumption DEF SubnetInv
  <1>8. \A q \in Created : q \in Rooms /\ q # r /\ subnet'[q] = subnet[q]
    BY <1>2, <1>3 DEF Created
  <1>9. k + 1 < SubnetSpace => nextSubnet' = k + 1
    BY <1>4, <1>7, SpaceAssumption DEF SubnetAfter
  <1>10. \A q \in Created' : subnet'[q] \in 0..k
    BY <1>2, <1>3, <1>4, <1>7, <1>8
  <1>11. \A q, p \in Created' : q # p => subnet'[q] # subnet'[p]
    BY <1>2, <1>3, <1>4, <1>7, <1>8
  <1>12. QED
    BY <1>9, <1>10, <1>11

LEMMA SubnetStep == HubInv /\ SubnetInv /\ [Next]_vars => SubnetInv'
  <1> SUFFICES ASSUME HubInv, SubnetInv, [Next]_vars PROVE SubnetInv'
    OBVIOUS
  <1>1. CASE UNCHANGED <<subnet, nextSubnet>>
    BY <1>1 DEF SubnetInv, Created
  <1>2. ASSUME NEW c \in Conns, Enter(c) PROVE SubnetInv'
    <2>1. PICK r \in Rooms, w \in Passwords : EnsureRoom(r, w)
      BY <1>2 DEF Enter
    <2>2. CASE subnet[r] = None
      BY <2>1, <2>2, RoomIsMade DEF EnsureRoom, HubInv, HubTypeInv
    <2>3. CASE subnet[r] # None
      BY <1>1, <2>1, <2>3 DEF EnsureRoom, roomVars
    <2>4. QED
      BY <2>2, <2>3
  <1>3. QED
    BY <1>1, <1>2, LineKeeps DEF Next, HandlerStep, RunStep, Refused, Allocate, RoomFull,
           Publish, SetLog, AckSent, AckFails, StoreCtrl, ControlEnds, Release, Cleanup,
           SessionEnds, RunEnds, RunCleansUp, RemoveFrom, LoopStep, CastBegins, CastEnds, Go, roomVars, connVars,
           peerVars, vars

\* As long as a byte can count the rooms, each has its own subnet, for every
\* size of that byte.
THEOREM SubnetsDistinct == Spec => []OwnSubnetUntilWrap
  <1>1. Init => SubnetInv
    <2> SUFFICES ASSUME Init PROVE SubnetInv
      OBVIOUS
    <2>1. Created = {Lobby} /\ subnet[Lobby] = 0 /\ nextSubnet = 1 % SubnetSpace
      BY HubAssumption, SpaceAssumption DEF Init, Created, SubnetAfter
    <2>2. Cardinality({Lobby}) = 1
      BY FS_Singleton
    <2>3. QED
      BY <2>1, <2>2, SpaceAssumption DEF SubnetInv
  <1>2. SubnetInv => OwnSubnetUntilWrap
    BY DEF SubnetInv, OwnSubnetUntilWrap
  <1>3. QED
    BY <1>1, <1>2, HubInvariance, SubnetStep, PTL DEF Spec

-----------------------------------------------------------------------------
(* The hub's books *)

\* Nobody has a room before ensureRoom has let it in.
NewcomerInv == \A c \in Conns : pc[c] = "auth" => room[c] = None

LEMMA NewcomerStep ==
    ASSUME HubInv, NewcomerInv, [Next]_vars
    PROVE  NewcomerInv'
  <1> USE DEF NewcomerInv
  <1>1. /\ pc \in [Conns -> Places] /\ room \in [Conns -> Rooms \union {None}]
        /\ HandlerTypeOK /\ NewsTypeOK /\ HandlerInv
    BY DEF HubInv, HubTypeInv, HandlerTypeOK
  <1>2. ASSUME NEW c \in Conns, Enter(c) PROVE NewcomerInv'
    BY <1>1, <1>2 DEF Enter, Go
  <1>3. ASSUME NEW c \in Conns, HandlerStep(c), ~Enter(c)
        PROVE  room' = room /\ \A d \in Conns : pc'[d] = "auth" => pc[d] = "auth"
    BY <1>1, <1>3, LineKeeps, LineMoves DEF HandlerStep, Go, Refused, Allocate, RoomFull, Publish,
       SetLog, AckSent, AckFails, StoreCtrl, ControlEnds, Release, Cleanup
  <1>4. ASSUME NEW c \in Conns, RunStep(c) \/ LoopStep(c) PROVE UNCHANGED <<pc, room>>
    BY <1>4 DEF RunStep, SessionEnds, RunEnds, RunCleansUp, LoopStep, CastBegins, CastEnds, peerVars
  <1>5. QED
    BY <1>2, <1>3, <1>4 DEF Next, vars, peerVars

\* What a step of a handler does to the two sets.
LEMMA HandlerMoves ==
    ASSUME HubInv, NEW c \in Conns, NEW from, NEW to, Go(c, from, to), UNCHANGED up
    PROVE  /\ Spent' = IF to \in {"auth", "allocate", "publish"} THEN Spent \ {c}
                       ELSE Spent \union {c}
           /\ Gone' = IF ~up[c] \/ to \in {"release", "cleanup", "done"} THEN Gone \union {c}
                      ELSE Gone \ {c}
           /\ c \in Spent <=> from \notin {"auth", "allocate", "publish"}
           /\ c \in Gone <=> ~up[c] \/ from \in {"release", "cleanup", "done"}
  <1>1. pc[c] = from /\ pc'[c] = to /\ \A d \in Conns \ {c} : pc'[d] = pc[d]
    BY DEF Go, HubInv, HubTypeInv, HandlerTypeOK
  <1>2. QED
    BY <1>1 DEF Spent, Gone

\* Removing a peer from the room that has it is its leaving, if it is gone.
LEMMA RemovalIsLeaving ==
    ASSUME NEW c \in Conns, NEW r \in Rooms, c \in byConn[r], RemoveFrom(r, c), c \in Gone,
           UNCHANGED <<room, given, Spent, Gone>>
    PROVE  Book!Next
  <1>1. Book!Leave(c, r)
    BY DEF RemoveFrom, Book!Leave, Created
  <1>2. QED
    BY <1>1 DEF Book!Next

LEMMA HandlerIsBookStep ==
    ASSUME HubInv, NewcomerInv, NEW c \in Conns, HandlerStep(c)
    PROVE  [Book!Next]_(Book!vars)
  <1> USE DEF Book!vars
  <1>1. CASE Enter(c)
    <2>1. PICK r \in Rooms, w \in Passwords :
              /\ Go(c, "auth", "allocate")
              /\ subnet[r] = None \/ PasswordFits(r, w)
              /\ EnsureRoom(r, w)
              /\ room' = [room EXCEPT ![c] = r]
              /\ given' = [given EXCEPT ![c] = w]
      BY <1>1 DEF Enter
    <2>2. UNCHANGED <<up, byConn>> /\ room[c] = None
      BY <1>1, <2>1 DEF Enter, EnsureRoom, roomVars, connVars, NewcomerInv, Go
    <2>3. UNCHANGED <<Spent, Gone>>
      BY <2>1, <2>2, HandlerMoves
    <2>4. Book!Make(r, w) \/ Book!Knows(r, w)
      <3>1. CASE subnet[r] # None /\ UNCHANGED roomVars
        <4>1. r \in Created /\ Created' = Created /\ password' = password
          BY <3>1 DEF Created, roomVars
        <4>2. QED
          BY <2>1, <3>1, <4>1 DEF PasswordFits, Book!Knows
      <3>2. CASE subnet[r] = None /\ subnet' = [subnet EXCEPT ![r] = nextSubnet]
                 /\ password' = [password EXCEPT ![r] = w]
        <4>1. nextSubnet # None /\ subnet \in [Rooms -> Subnets \union {None}]
          BY SpaceAssumption DEF HubInv, HubTypeInv, CreationTypeOK, Subnets
        <4>2. r \notin Created /\ Created' = Created \union {r}
          BY <3>2, <4>1 DEF Created
        <4>3. QED
          BY <3>2, <4>2 DEF Book!Make
      <3>3. QED
        BY <2>1, <3>1, <3>2 DEF EnsureRoom
    <2>5. Book!Admit(c, r, w)
      BY <2>1, <2>2, <2>3, <2>4 DEF Book!Admit
    <2>6. QED
      BY <2>5 DEF Book!Next
  <1>2. CASE Refused(c) \/ RoomFull(c)
    <2>1. /\ Go(c, "auth", "done") \/ Go(c, "allocate", "done")
          /\ UNCHANGED <<up, subnet, password, byConn, room, given>>
      BY <1>2 DEF Refused, RoomFull, roomVars, connVars
    <2>2. c \notin Spent /\ Spent' = Spent \union {c} /\ Gone' = Gone \union {c}
      BY <2>1, HandlerMoves
    <2>3. Book!TurnAway(c)
      BY <2>1, <2>2 DEF Book!TurnAway, Created
    <2>4. QED
      BY <2>3 DEF Book!Next
  <1>3. CASE Publish(c)
    <2>1. /\ Go(c, "publish", "log")
          /\ byConn' = [byConn EXCEPT ![room[c]] = @ \union {c}]
          /\ UNCHANGED <<up, subnet, password, room, given>>
      BY <1>3 DEF Publish, connVars
    <2>2. room[c] \in Rooms /\ None \notin Rooms
      BY <2>1, HubAssumption DEF HubInv, HandlerInv, Go
    <2>3. c \notin Spent /\ Spent' = Spent \union {c} /\ Gone' = Gone
      BY <2>1, HandlerMoves
    <2>4. Book!Join(c)
      BY <2>1, <2>2, <2>3 DEF Book!Join, Created
    <2>5. QED
      BY <2>4 DEF Book!Next
  <1>4. CASE AckFails(c) \/ ControlEnds(c)
    <2>1. /\ Go(c, "ack", "release") \/ Go(c, "serve", "release")
          /\ UNCHANGED <<up, subnet, password, byConn, room, given>>
      BY <1>4 DEF AckFails, ControlEnds, roomVars, connVars
    <2>2. Spent' = Spent /\ Gone' = Gone \union {c}
      BY <2>1, HandlerMoves
    <2>3. CASE c \in Gone
      BY <2>1, <2>2, <2>3 DEF Created
    <2>4. CASE c \notin Gone
      <3>1. Book!Ends(c)
        BY <2>1, <2>2, <2>4 DEF Book!Ends, Created
      <3>2. QED
        BY <3>1 DEF Book!Next
    <2>5. QED
      BY <2>3, <2>4
  <1>5. CASE Release(c)
    <2>1. UNCHANGED <<up, room, given>>
      BY <1>5 DEF Release, connVars
    <2>2. ASSUME NEW r \in Rooms, c \in byConn[r], Go(c, "release", "cleanup"), RemoveFrom(r, c)
          PROVE  Book!Next
      <3>1. c \in Gone /\ UNCHANGED <<Spent, Gone>>
        BY <2>1, <2>2, HandlerMoves
      <3>2. QED
        BY <2>1, <2>2, <3>1, RemovalIsLeaving
    <2>3. CASE Go(c, "release", "done") /\ UNCHANGED roomVars
      <3>1. UNCHANGED <<Spent, Gone>>
        BY <2>1, <2>3, HandlerMoves
      <3>2. QED
        BY <2>1, <2>3, <3>1 DEF roomVars, Created
    <2>4. QED
      BY <1>5, <2>2, <2>3 DEF Release
  <1>6. CASE Allocate(c) \/ SetLog(c) \/ AckSent(c) \/ StoreCtrl(c) \/ Cleanup(c)
    <2>1. UNCHANGED <<up, subnet, password, byConn, room, given>>
      BY <1>6 DEF Allocate, SetLog, AckSent, StoreCtrl, Cleanup, roomVars, connVars
    <2>2. \/ Go(c, "allocate", "publish") \/ Go(c, "log", "ack") \/ Go(c, "ack", "ctrl")
          \/ Go(c, "ctrl", "members") \/ Go(c, "cleanup", "done")
      BY <1>6 DEF Allocate, SetLog, AckSent, StoreCtrl, Cleanup
    <2>3. UNCHANGED <<Spent, Gone>>
      BY <2>1, <2>2, HandlerMoves
    <2>4. QED
      BY <2>1, <2>3 DEF Created
  <1>7. CASE LineStep(c)
    <2>1. UNCHANGED <<up, subnet, password, byConn, room, given>>
      BY <1>7, LineKeeps
    <2>2. UNCHANGED <<Spent, Gone>>
      BY <1>7, <2>1, LineMoves DEF Spent, Gone, HubInv, HubTypeInv, HandlerTypeOK
    <2>3. QED
      BY <2>1, <2>2 DEF Created
  <1>8. QED
    BY <1>1, <1>2, <1>3, <1>4, <1>5, <1>6, <1>7 DEF HandlerStep

LEMMA RunIsBookStep ==
    ASSUME HubInv, NEW c \in Conns, RunStep(c)
    PROVE  [Book!Next]_(Book!vars)
  <1> USE DEF Book!vars
  <1>1. UNCHANGED <<pc, room, given, Spent>>
    BY DEF RunStep, SessionEnds, RunEnds, RunCleansUp, peerVars, Spent
  <1>2. CASE SessionEnds(c)
    <2>1. UNCHANGED <<subnet, password, byConn>> /\ up' = [up EXCEPT ![c] = FALSE]
      BY <1>2 DEF SessionEnds, roomVars
    <2>2. Gone' = Gone \union {c}
      BY <1>1, <2>1 DEF Gone, HubInv, HubTypeInv, SessionTypeOK
    <2>3. Gone' = Gone \/ Book!Ends(c)
      BY <1>1, <2>1, <2>2 DEF Book!Ends, Created
    <2>4. QED
      BY <1>1, <2>1, <2>3 DEF Book!Next, Created
  <1>3. CASE RunEnds(c)
    <2>1. UNCHANGED Gone /\ c \in Gone
      BY <1>1, <1>3 DEF RunEnds, Gone
    <2>2. ASSUME NEW r \in Rooms, c \in byConn[r], RemoveFrom(r, c)
          PROVE  Book!Next
      BY <1>1, <2>1, <2>2, RemovalIsLeaving
    <2>3. CASE UNCHANGED roomVars
      BY <1>1, <2>1, <2>3 DEF roomVars, Created
    <2>4. QED
      BY <1>3, <2>2, <2>3 DEF RunEnds
  <1>4. CASE RunCleansUp(c)
    BY <1>1, <1>4 DEF RunCleansUp, roomVars, Created, Gone
  <1>5. QED
    BY <1>2, <1>3, <1>4 DEF RunStep

\* The hub implements RoomBook, for any clients, rooms and passwords (vpn.go:
\* ensureRoom, releasePeer; room.go: grantPeer, releasePeer).
THEOREM BookKept == Spec => BookSpec
  <1>1. Init => NewcomerInv /\ Book!Init
    <2> SUFFICES ASSUME Init PROVE NewcomerInv /\ Book!Init
      OBVIOUS
    <2>1. Created = {Lobby}
      BY HubAssumption, SpaceAssumption DEF Init, Created
    <2>2. Spent = {} /\ Gone = {}
      BY DEF Init, Spent, Gone
    <2>3. QED
      BY <2>1, <2>2 DEF Init, NoPeers, NewcomerInv, Book!Init
  <1>2. HubInv /\ NewcomerInv /\ [Next]_vars => NewcomerInv' /\ [Book!Next]_(Book!vars)
    <2> SUFFICES ASSUME HubInv, NewcomerInv, [Next]_vars
                 PROVE  NewcomerInv' /\ [Book!Next]_(Book!vars)
      OBVIOUS
    <2>1. CASE UNCHANGED vars
      BY <2>1, NewcomerStep
         DEF vars, roomVars, connVars, peerVars, Book!vars, Created, Spent, Gone
    <2>2. ASSUME NEW c \in Conns, LoopStep(c)
          PROVE  UNCHANGED Book!vars
      BY <2>2 DEF LoopStep, CastBegins, CastEnds, roomVars, peerVars, Book!vars, Created, Spent,
         Gone
    <2>3. QED
      BY <2>1, <2>2, NewcomerStep, HandlerIsBookStep, RunIsBookStep DEF Next
  <1>3. QED
    BY <1>1, <1>2, HubInvariance, PTL DEF Spec, BookSpec, Book!Spec

-----------------------------------------------------------------------------
(* Packets: the inductive invariant *)

PathTypeOK ==
    /\ pkts \in [Conns -> {"none", "asking", "found", "stored", "attached", "rejected"}]
    /\ closed \in [Conns -> BOOLEAN]
    /\ loop \in [Conns -> {"none", "read", "send", "ended"}]
    /\ dest \in [Conns -> Dests]
    /\ sent \in [Conns -> 0..MaxPackets]

RoundTypeOK ==
    /\ todo \in [Conns -> SUBSET Conns]
    /\ half \in [Conns -> Conns \union {None}]
    /\ due \in [Conns -> SUBSET Conns]
    /\ wire \in [Conns -> Seq(Parts)]

\* The peer has its address, and so its room, for good.
Settled(c) == c \in Conns /\ ip[c] # None

\* Whoever has asked for a packet stream is settled; readLoop comes after it.
StreamInv ==
    \A c \in Conns :
        /\ pkts[c] # "none" => Settled(c)
        /\ pkts[c] \notin {"stored", "attached"} => loop[c] = "none"

\* Room.mu is held for a broadcast while readLoop is in a round, and only for
\* clients that have had auth_ok.
LockInv ==
    \A c \in Conns :
        /\ c \in casting => loop[c] = "send"
        /\ pkts[c] # "none" => pc[c] = "ctrl" \/ ctrl[c] # "nil"

\* A round is under way in the body of readLoop only; the peers still to be
\* written to are others of the sender's room, and the address fits.
RoundInv ==
    \A c \in Conns :
        /\ loop[c] # "none" => Settled(c)
        /\ loop[c] # "send" => todo[c] = {}
        /\ todo[c] # {} => sent[c] >= 1
        /\ half[c] # None => half[c] \in todo[c]
        /\ \A d \in todo[c] :
               d # c /\ Settled(d) /\ room[d] = room[c] /\ dest[c] \in {All, ip[d]}

WireInv ==
    \A d \in Conns : \A i \in DOMAIN wire[d] :
        LET p == wire[d][i] IN
        /\ p.from # d /\ Settled(p.from) /\ Settled(d)
        /\ room[p.from] = room[d]
        /\ p.to \in {All, ip[d]}

Has(d, p) == \E i \in DOMAIN wire[d] : wire[d][i] = p

\* Who was there when the broadcast began is still to be written to or has it.
CastInv ==
    \A c \in Conns : \A d \in due[c] :
        CanWrite(d) => dest[c] = All /\ (d \in todo[c] \/ Has(d, Part(c, TRUE)))

RoutingInv ==
    /\ HubInv /\ PathTypeOK /\ RoundTypeOK
    /\ StreamInv /\ LockInv /\ RoundInv /\ WireInv /\ CastInv

-----------------------------------------------------------------------------
(* Steps of the hub leave what a round has looked up as it was *)

LEMMA SettledStays ==
    ASSUME HubInv, NEW c \in Conns, HandlerStep(c) \/ RunStep(c)
    PROVE  /\ \A d \in Conns : ip[d] # None => ip'[d] = ip[d] /\ room'[d] = room[d]
           /\ \A d \in Conns : up'[d] => up[d]
  <1> USE DEF HubInv, HubTypeInv, SessionTypeOK, HandlerTypeOK, HandlerInv
  <1>2. CASE UNCHANGED <<ip, room, up>>
    BY <1>2
  <1>3. CASE Enter(c)
    BY <1>3 DEF Enter, Go, connVars
  <1>4. CASE Allocate(c)
    BY <1>4 DEF Allocate, Go, connVars
  <1>5. CASE SessionEnds(c)
    BY <1>5 DEF SessionEnds, peerVars
  <1>6. QED
    BY <1>2, <1>3, <1>4, <1>5, LineKeeps DEF HandlerStep, RunStep, Refused, RoomFull, Publish,
           SetLog, AckSent, AckFails, StoreCtrl, ControlEnds, Release, Cleanup, RunEnds,
           RunCleansUp, RemoveFrom, Go, roomVars, connVars, peerVars

LEMMA StreamsStayOpen ==
    ASSUME HubInv, NEW c \in Conns, HandlerStep(c) \/ RunStep(c)
    PROVE  /\ casting' = casting
           /\ \A d \in Conns : pc[d] = "ctrl" \/ ctrl[d] # "nil" => (pc[d] = "ctrl" \/ ctrl[d] # "nil")'
  <1> USE DEF HubInv, HubTypeInv, HandlerTypeOK, NewsTypeOK
  <1>1. CASE LineStep(c)
    BY <1>1, LineKeeps, LineMoves
  <1>2. CASE ctrl' = ctrl /\ casting' = casting /\ (pc' = pc \/ \E from, to : from # "ctrl" /\ Go(c, from, to))
    BY <1>2 DEF Go
  <1>3. CASE StoreCtrl(c)
    BY <1>3 DEF StoreCtrl, Go, connVars
  <1>4. QED
    BY <1>1, <1>2, <1>3 DEF HandlerStep, RunStep, Enter, Refused, Allocate, RoomFull, Publish,
           SetLog, AckSent, AckFails, ControlEnds, Release, Cleanup, SessionEnds, RunEnds,
           RunCleansUp, connVars, peerVars

LEMMA HubStepKeeps ==
    ASSUME RoutingInv, HubStep
    PROVE  RoutingInv'
  <1> USE DEF RoutingInv
  <1>0. PICK h \in Conns : HandlerStep(h) \/ RunStep(h)
    BY DEF HubStep
  <1>1. HubInv'
    BY <1>0, HubInvStep DEF Next
  <1>2. /\ \A d \in Conns : Settled(d) => Settled(d)' /\ ip'[d] = ip[d] /\ room'[d] = room[d]
        /\ \A d \in Conns : up'[d] => up[d]
    BY <1>0, SettledStays DEF Settled
  <1>3. UNCHANGED <<pkts, loop, dest, sent, todo, half, due, wire>>
    BY DEF HubStep
  <1>4. closed' \in [Conns -> BOOLEAN] /\ \A d \in Conns : closed[d] => closed'[d]
    <2>1. PICK seen : closed' = [d \in Conns |-> closed[d] \/ (CleansUp(d) /\ d \in Attached(seen))]
      BY DEF HubStep
    <2>2. ASSUME NEW d \in Conns
          PROVE  (closed[d] \/ (CleansUp(d) /\ d \in Attached(seen))) \in BOOLEAN
      OBVIOUS
    <2>3. QED
      BY <2>1, <2>2
  <1>5. PathTypeOK' /\ RoundTypeOK'
    BY <1>3, <1>4 DEF PathTypeOK, RoundTypeOK
  <1>6. StreamInv' /\ LockInv'
    BY <1>0, <1>2, <1>3, StreamsStayOpen DEF StreamInv, LockInv
  <1>7. RoundInv'
    <2>1. ASSUME NEW c \in Conns, loop[c] # "none" PROVE Settled(c)'
      BY <1>2, <2>1 DEF RoundInv
    <2>2. ASSUME NEW c \in Conns, NEW d \in todo[c]
          PROVE  d # c /\ Settled(d)' /\ room'[d] = room'[c] /\ dest[c] \in {All, ip'[d]}
      <3>1. loop[c] # "none"
        BY <2>2 DEF RoundInv
      <3>2. Settled(c) /\ Settled(d) /\ d # c /\ room[d] = room[c] /\ dest[c] \in {All, ip[d]}
        BY <3>1, <2>2 DEF RoundInv
      <3>3. QED
        BY <1>2, <3>2 DEF Settled
    <2>3. QED
      BY <1>3, <2>1, <2>2 DEF RoundInv
  <1>8. WireInv'
    <2> SUFFICES ASSUME NEW d \in Conns, NEW i \in DOMAIN wire[d]
                 PROVE  /\ wire[d][i].from # d /\ Settled(wire[d][i].from)' /\ Settled(d)'
                        /\ room'[wire[d][i].from] = room'[d]
                        /\ wire[d][i].to \in {All, ip'[d]}
      BY <1>3 DEF WireInv
    <2>1. /\ wire[d][i].from # d /\ Settled(wire[d][i].from) /\ Settled(d)
          /\ room[wire[d][i].from] = room[d]
          /\ wire[d][i].to \in {All, ip[d]}
      BY DEF WireInv
    <2>2. wire[d][i].from \in Conns
      BY <2>1 DEF Settled
    <2>3. QED
      BY <1>2, <1>3, <2>1, <2>2 DEF Settled
  <1>9. CastInv'
    <2>1. \A d \in Conns : CanWrite(d)' => CanWrite(d)
      BY <1>2, <1>4 DEF CanWrite, PathTypeOK
    <2>2. QED
      BY <1>3, <2>1 DEF CastInv, Has, Part, RoundTypeOK
  <1>10. QED
    BY <1>1, <1>5, <1>6, <1>7, <1>8, <1>9

-----------------------------------------------------------------------------
(* What one write does to a stream *)

Wrote(c, d, body) ==
    /\ wire' \in [Conns -> Seq(Parts)]
    /\ \A e \in Conns : \A i \in DOMAIN wire[e] :
           i \in DOMAIN wire'[e] /\ wire'[e][i] = wire[e][i]
    /\ \A e \in Conns : \A i \in DOMAIN wire'[e] :
           \/ i \in DOMAIN wire[e] /\ wire'[e][i] = wire[e][i]
           \/ e = d /\ wire'[e][i] = Part(c, body)
    /\ \E i \in DOMAIN wire'[d] : wire'[d][i] = Part(c, body)

LEMMA WriteIsOne ==
    ASSUME RoutingInv, NEW c \in Conns, NEW d \in todo[c], NEW body \in BOOLEAN,
           wire' = [wire EXCEPT ![d] = Append(@, Part(c, body))]
    PROVE  Wrote(c, d, body)
  <1>1. d \in Conns /\ wire \in [Conns -> Seq(Parts)] /\ wire[d] \in Seq(Parts)
    BY DEF RoutingInv, RoundTypeOK
  <1>2. Part(c, body) \in Parts
    <2>1. dest[c] \in Dests /\ sent[c] \in 0..MaxPackets /\ sent[c] >= 1
      BY DEF RoutingInv, PathTypeOK, RoundInv
    <2>2. sent[c] \in 1..MaxPackets
      BY <2>1, PacketAssumption
    <2>3. QED
      BY <2>1, <2>2 DEF Part, Parts
  <1> DEFINE new == Append(wire[d], Part(c, body))
  <1>3. new \in Seq(Parts) /\ DOMAIN new = 1..(Len(wire[d]) + 1)
        /\ DOMAIN wire[d] = 1..Len(wire[d]) /\ Len(wire[d]) \in Nat
        /\ new[Len(wire[d]) + 1] = Part(c, body)
        /\ \A i \in 1..Len(wire[d]) : new[i] = wire[d][i]
    BY <1>1, <1>2
  <1>4. wire'[d] = new /\ \A e \in Conns : e # d => wire'[e] = wire[e]
    BY <1>1
  <1>5. wire' \in [Conns -> Seq(Parts)]
    BY <1>1, <1>3
  <1> HIDE DEF new
  <1>6. \A i \in DOMAIN new : i \in DOMAIN wire[d] \/ i = Len(wire[d]) + 1
    BY <1>3
  <1>7. Len(wire[d]) + 1 \in DOMAIN new /\ DOMAIN wire[d] \subseteq DOMAIN new
    BY <1>3
  <1>8. QED
    BY <1>3, <1>4, <1>5, <1>6, <1>7 DEF Wrote

\* Addresses and rooms that a round looks up.
LEMMA LookedUp ==
    ASSUME HubInv, NEW c \in Conns, ip[c] # None, NEW seen \in SUBSET Conns
    PROVE  /\ \A d \in Others(c, seen) : d \in Conns /\ d # c /\ Settled(d) /\ room[d] = room[c]
           /\ \A n \in HostNums : \A d \in Targets(c, n, seen) :
                  d \in Conns /\ d # c /\ Settled(d) /\ room[d] = room[c] /\ ip[d] = n
  <1> USE DEF HubInv, HubTypeInv
  <1>1. room[c] \in Rooms
    BY DEF HandlerInv
  <1>2. ASSUME NEW n \in HostNums, peers[room[c]][n] # None
        PROVE  /\ peers[room[c]][n] \in Conns /\ Settled(peers[room[c]][n])
               /\ room[peers[room[c]][n]] = room[c] /\ ip[peers[room[c]][n]] = n
    <2>1. peers[room[c]][n] \in Conns
      BY <1>1, <1>2 DEF TableTypeOK
    <2>2. room[peers[room[c]][n]] = room[c] /\ ip[peers[room[c]][n]] = n
      BY <1>1, <1>2 DEF FiledUnderOwnAddress
    <2>3. n # None
      BY SpaceAssumption DEF HostNums
    <2>4. QED
      BY <2>1, <2>2, <2>3 DEF Settled
  <1>3. ASSUME NEW d \in Others(c, seen)
        PROVE  d # c /\ \E n \in HostNums : d = peers[room[c]][n] /\ d # None
    BY DEF Others, Members
  <1>4. ASSUME NEW n \in HostNums, NEW d \in Targets(c, n, seen)
        PROVE  d # c /\ d = peers[room[c]][n] /\ d # None
    BY HubAssumption DEF Targets, Attached
  <1>5. QED
    BY <1>2, <1>3, <1>4

-----------------------------------------------------------------------------
(* Steps of the packet streams *)

\* Of the hub a packet changes nothing but who is in broadcast.
LEMMA PacketsKeepHub ==
    ASSUME NEW c \in Conns, PacketStep(c)
    PROVE  /\ UNCHANGED hubVars
           /\ casting' \in {casting, casting \union {c}, casting \ {c}}
  <1>1. ASSUME NEW rest, Continue(c, rest) PROVE casting' \in {casting, casting \ {c}}
    BY <1>1 DEF Continue
  <1>2. ASSUME NEW to, ReadPacket(c, to)
        PROVE  UNCHANGED hubVars /\ casting' \in {casting, casting \union {c}}
    BY <1>2 DEF ReadPacket, hubVars
  <1>3. QED
    BY <1>1, <1>2 DEF PacketStep, OpenPackets, FindPeer, Attach, AttachEnds, WriteBody, LoopEnds,
       WriteLength, WriteFails, vars, connVars, hubVars

\* What a round starts with.
Round(c, to, targets, there) ==
    /\ there \subseteq targets /\ targets \subseteq Conns
    /\ \A d \in targets : d # c /\ Settled(d) /\ room[d] = room[c] /\ to \in {All, ip[d]}
    /\ loop[c] = "read" /\ Settled(c) /\ half[c] = None
    /\ sent' = [sent EXCEPT ![c] = sent[c] + 1] /\ sent[c] + 1 \in 1..MaxPackets
    /\ dest' = [dest EXCEPT ![c] = to]
    /\ todo' = [todo EXCEPT ![c] = targets]
    /\ loop' = [loop EXCEPT ![c] = IF targets = {} THEN "read" ELSE "send"]
    /\ due' = [due EXCEPT ![c] = IF to = All THEN there ELSE {}]
    /\ casting' = IF to = All /\ targets # {} THEN casting \union {c} ELSE casting
    /\ UNCHANGED <<pkts, closed, half, wire, ip, room, up>>

LEMMA RoundBegins ==
    ASSUME RoutingInv, NEW c \in Conns, NEW to \in Dests, ReadPacket(c, to)
    PROVE  \E targets, there : Round(c, to, targets, there)
  <1>1. PICK seen \in SUBSET Racing :
            LET targets == IF to = All THEN Others(c, seen) ELSE Targets(c, to, seen) IN
            /\ todo' = [todo EXCEPT ![c] = targets]
            /\ loop' = [loop EXCEPT ![c] = IF targets = {} THEN "read" ELSE "send"]
            /\ casting' = IF to = All /\ targets # {} THEN casting \union {c} ELSE casting
    BY DEF ReadPacket
  <1> DEFINE targets == IF to = All THEN Others(c, seen) ELSE Targets(c, to, seen)
             there == IF to = All THEN {d \in Members(room[c]) \ {c} : pkts[d] = "attached"} ELSE {}
  <1>2. /\ loop[c] = "read" /\ Settled(c) /\ half[c] = None
    BY DEF ReadPacket, RoutingInv, RoundInv, RoundTypeOK
  <1>3. sent' = [sent EXCEPT ![c] = sent[c] + 1] /\ sent[c] + 1 \in 1..MaxPackets
    BY PacketAssumption DEF ReadPacket, RoutingInv, PathTypeOK
  <1>4. \A d \in targets :
            d \in Conns /\ d # c /\ Settled(d) /\ room[d] = room[c] /\ to \in {All, ip[d]}
    <2>1. ip[c] # None /\ seen \subseteq Conns /\ HubInv
      BY <1>2 DEF Racing, RoutingInv, Settled
    <2>2. CASE to = All
      BY <2>1, <2>2, LookedUp
    <2>3. CASE to # All /\ to \in HostNums
      BY <2>1, <2>3, LookedUp
    <2>4. QED
      BY <2>2, <2>3 DEF Dests
  <1>5. there \subseteq targets
    <2>1. \A d \in Members(room[c]) : d \in Conns
      BY <1>2 DEF Members, RoutingInv, HubInv, HubTypeInv, TableTypeOK, HandlerInv, Settled
    <2>2. QED
      BY <2>1 DEF Others, Attached
  <1>6. /\ dest' = [dest EXCEPT ![c] = to] /\ UNCHANGED <<pkts, closed, half, wire, ip, room, up>>
        /\ due' = [due EXCEPT ![c] = IF to = All THEN there ELSE {}]
    BY DEF ReadPacket, hubVars, peerVars
  <1> HIDE DEF targets, there
  <1>7. todo' = [todo EXCEPT ![c] = targets]
        /\ loop' = [loop EXCEPT ![c] = IF targets = {} THEN "read" ELSE "send"]
        /\ casting' = IF to = All /\ targets # {} THEN casting \union {c} ELSE casting
    BY <1>1 DEF targets
  <1>8. Round(c, to, targets, there)
    BY <1>2, <1>3, <1>4, <1>5, <1>6, <1>7 DEF Round
  <1>9. QED
    BY <1>8

LEMMA PathTypeStep ==
    ASSUME RoutingInv, NEW c \in Conns, PacketStep(c)
    PROVE  PathTypeOK'
  <1> USE DEF RoutingInv
  <1>0. UNCHANGED hubVars
    BY PacketsKeepHub
  <1>1. CASE UNCHANGED <<pkts, closed, loop, dest, sent>>
    BY <1>0, <1>1 DEF PathTypeOK, hubVars, peerVars
  <1>2. CASE OpenPackets(c)
    BY <1>0, <1>2 DEF OpenPackets, PathTypeOK, hubVars, peerVars
  <1>3. CASE FindPeer(c)
    BY <1>0, <1>3 DEF FindPeer, PathTypeOK, hubVars, peerVars
  <1>4. CASE Attach(c) \/ AttachEnds(c)
    BY <1>0, <1>4 DEF Attach, AttachEnds, PathTypeOK, hubVars, peerVars
  <1>5. CASE \E to \in Dests : ReadPacket(c, to)
    <2>0. PICK to \in Dests : \E targets, there : Round(c, to, targets, there)
      BY <1>5, RoundBegins
    <2>1. PICK targets, there : Round(c, to, targets, there)
      BY <2>0
    <2>2. \E l \in {"read", "send"} : loop' = [loop EXCEPT ![c] = l]
      BY <2>1 DEF Round
    <2>3. QED
      BY <2>1, <2>2, PacketAssumption DEF Round, PathTypeOK
  <1>6. CASE WriteBody(c)
    <2>1. loop' = loop \/ loop' = [loop EXCEPT ![c] = "read"]
      BY <1>6 DEF WriteBody, Continue, RoundTypeOK, PathTypeOK
    <2>2. QED
      BY <1>6, <2>1 DEF WriteBody, PathTypeOK
  <1>7. CASE \E d \in Conns : WriteFails(c, d)
    <2>1. loop' = loop \/ loop' = [loop EXCEPT ![c] = "read"]
      BY <1>7 DEF WriteFails, Continue, PathTypeOK
    <2>2. QED
      BY <1>7, <2>1 DEF WriteFails, PathTypeOK
  <1>8. CASE LoopEnds(c)
    BY <1>0, <1>8 DEF LoopEnds, PathTypeOK, hubVars, peerVars
  <1>9. QED
    BY <1>1, <1>2, <1>3, <1>4, <1>5, <1>6, <1>7, <1>8 DEF PacketStep, WriteLength

LEMMA RoundTypeStep ==
    ASSUME RoutingInv, NEW c \in Conns, PacketStep(c)
    PROVE  RoundTypeOK'
  <1> USE DEF RoutingInv
  <1>0. UNCHANGED hubVars
    BY PacketsKeepHub
  <1>1. CASE UNCHANGED <<todo, half, due, wire>>
    BY <1>0, <1>1 DEF RoundTypeOK, hubVars, peerVars
  <1>2. CASE \E to \in Dests : ReadPacket(c, to)
    <2>0. PICK to \in Dests : \E targets, there : Round(c, to, targets, there)
      BY <1>2, RoundBegins
    <2>1. PICK targets, there : Round(c, to, targets, there)
      BY <2>0
    <2>2. there \in SUBSET Conns /\ targets \in SUBSET Conns
      BY <2>1 DEF Round
    <2>3. QED
      BY <2>1, <2>2 DEF Round, RoundTypeOK
  <1>3. CASE \E d \in Conns : WriteLength(c, d)
    <2>1. PICK d \in Conns : WriteLength(c, d)
      BY <1>3
    <2>2. d \in todo[c] /\ half[c] = None /\ half' = [half EXCEPT ![c] = d]
          /\ UNCHANGED <<pkts, closed, loop, dest, sent, todo, due>>
      BY <2>1 DEF WriteLength
    <2>3. Wrote(c, d, FALSE)
      BY <2>1, <2>2, WriteIsOne DEF WriteLength
    <2>4. QED
      BY <2>1, <2>2, <2>3 DEF RoundTypeOK, Wrote
  <1>4. CASE WriteBody(c)
    <2>1. PICK d \in Conns : d = half[c] /\ d \in todo[c]
      BY <1>4 DEF WriteBody, RoundInv, RoundTypeOK
    <2>2. half' = [half EXCEPT ![c] = None] /\ UNCHANGED <<pkts, closed, dest, sent, due>>
      BY <1>4 DEF WriteBody
    <2>3. Wrote(c, d, TRUE)
      BY <1>4, <2>1, WriteIsOne DEF WriteBody
    <2>4. todo' = [todo EXCEPT ![c] = todo[c] \ {d}]
          /\ loop' = [loop EXCEPT ![c] = IF todo[c] \ {d} = {} THEN "read" ELSE loop[c]]
      BY <1>4, <2>1 DEF WriteBody, Continue
    <2>5. QED
      BY <2>1, <2>2, <2>3, <2>4 DEF RoundTypeOK, Wrote
  <1>5. CASE \E d \in Conns : WriteFails(c, d)
    <2>1. PICK d \in Conns : WriteFails(c, d)
      BY <1>5
    <2>2. /\ d \in todo[c] /\ half[c] \in {None, d} /\ ~CanWrite(d)
          /\ half' = [half EXCEPT ![c] = None] /\ UNCHANGED <<pkts, closed, dest, sent, due, wire>>
      BY <2>1 DEF WriteFails
    <2>3. todo' = [todo EXCEPT ![c] = todo[c] \ {d}]
          /\ loop' = [loop EXCEPT ![c] = IF todo[c] \ {d} = {} THEN "read" ELSE loop[c]]
      BY <2>1 DEF WriteFails, Continue
    <2>4. QED
      BY <2>2, <2>3 DEF RoundTypeOK
  <1>6. QED
    BY <1>1, <1>2, <1>3, <1>4, <1>5 DEF PacketStep, OpenPackets, FindPeer, Attach, AttachEnds, LoopEnds

LEMMA StreamStep ==
    ASSUME RoutingInv, NEW c \in Conns, PacketStep(c)
    PROVE  StreamInv'
  <1> USE DEF RoutingInv
  <1>0. UNCHANGED hubVars
    BY PacketsKeepHub
  <1>1. CASE UNCHANGED <<pkts, loop>>
    BY <1>0, <1>1 DEF StreamInv, Settled, hubVars, peerVars
  <1>2. CASE OpenPackets(c)
    <2>1. ip[c] \in HostNums /\ pkts[c] = "none"
          /\ pkts' = [pkts EXCEPT ![c] = "asking"] /\ loop' = loop
      BY <1>2 DEF OpenPackets, HubInv, HandlerInv
    <2>2. ip[c] # None
      BY <2>1, SpaceAssumption DEF HostNums
    <2>3. QED
      BY <1>0, <2>1, <2>2 DEF StreamInv, Settled, PathTypeOK, hubVars, peerVars
  <1>3. CASE FindPeer(c)
    BY <1>0, <1>3 DEF FindPeer, StreamInv, Settled, hubVars, peerVars, PathTypeOK
  <1>4. CASE Attach(c) \/ AttachEnds(c)
    BY <1>0, <1>4 DEF Attach, AttachEnds, StreamInv, Settled, hubVars, peerVars, PathTypeOK
  <1>5. CASE \E to \in Dests : ReadPacket(c, to)
    <2>1. pkts[c] \in {"stored", "attached"} /\ pkts' = pkts
          /\ \A e \in Conns : e # c => loop'[e] = loop[e]
      BY <1>5 DEF ReadPacket, StreamInv, PathTypeOK
    <2>2. QED
      BY <1>0, <2>1 DEF StreamInv, Settled, PathTypeOK, hubVars, peerVars
  <1>6. CASE WriteBody(c)
    <2>1. PICK d \in Conns : d = half[c] /\ d \in todo[c]
      BY <1>6 DEF WriteBody, RoundInv, RoundTypeOK
    <2>2. pkts[c] \in {"stored", "attached"}
      BY <2>1 DEF RoundInv, StreamInv
    <2>3. pkts' = pkts /\ \E l \in {"read", loop[c]} : loop' = [loop EXCEPT ![c] = l]
      BY <1>6 DEF WriteBody, Continue
    <2>4. QED
      BY <1>0, <2>2, <2>3 DEF StreamInv, Settled, PathTypeOK, hubVars, peerVars
  <1>7. CASE \E d \in Conns : WriteFails(c, d)
    <2>1. PICK d \in Conns : WriteFails(c, d)
      BY <1>7
    <2>2. /\ d \in todo[c] /\ half[c] \in {None, d} /\ ~CanWrite(d)
          /\ half' = [half EXCEPT ![c] = None] /\ UNCHANGED <<pkts, closed, dest, sent, due, wire>>
      BY <2>1 DEF WriteFails
    <2>3. pkts[c] \in {"stored", "attached"}
      BY <2>2 DEF RoundInv, StreamInv
    <2>4. \E l \in {"read", loop[c]} : loop' = [loop EXCEPT ![c] = l]
      BY <2>1 DEF WriteFails, Continue
    <2>5. QED
      BY <1>0, <2>2, <2>3, <2>4 DEF StreamInv, Settled, PathTypeOK, hubVars, peerVars
  <1>8. CASE LoopEnds(c)
    BY <1>0, <1>8 DEF LoopEnds, StreamInv, Settled, hubVars, peerVars, PathTypeOK
  <1>9. QED
    BY <1>1, <1>2, <1>3, <1>4, <1>5, <1>6, <1>7, <1>8 DEF PacketStep, WriteLength

LEMMA LockStep ==
    ASSUME RoutingInv, NEW c \in Conns, PacketStep(c)
    PROVE  LockInv'
  <1> USE DEF RoutingInv
  <1>0. UNCHANGED <<pc, ctrl>>
    BY PacketsKeepHub DEF hubVars, peerVars
  <1>1. CASE OpenPackets(c)
    <2>1. pc[c] = "ctrl" \/ ctrl[c] # "nil"
      BY <1>1 DEF OpenPackets, HubInv, HandlerInv
    <2>2. QED
      BY <1>0, <1>1, <2>1 DEF OpenPackets, LockInv, PathTypeOK, vars, connVars
  <1>2. CASE FindPeer(c) \/ AttachEnds(c) \/ \E d \in Conns : WriteLength(c, d)
    <2>1. UNCHANGED <<casting, loop>> /\ \A d \in Conns : pkts'[d] # "none" => pkts[d] # "none"
      BY <1>2 DEF FindPeer, AttachEnds, WriteLength, PathTypeOK, vars, connVars
    <2>2. QED
      BY <1>0, <2>1 DEF LockInv
  <1>3. CASE Attach(c) \/ LoopEnds(c)
    <2>1. loop[c] # "send" /\ casting' = casting
          /\ (\A d \in Conns : d # c => loop'[d] = loop[d])
          /\ \A d \in Conns : pkts'[d] # "none" => pkts[d] # "none"
      BY <1>3 DEF Attach, LoopEnds, StreamInv, PathTypeOK, vars, connVars
    <2>2. QED
      BY <1>0, <2>1 DEF LockInv
  <1>4. CASE \E to \in Dests : ReadPacket(c, to)
    <2>0. PICK to \in Dests : \E targets, there : Round(c, to, targets, there)
      BY <1>4, RoundBegins
    <2>1. PICK targets, there : Round(c, to, targets, there)
      BY <2>0
    <2>2. c \in casting' => targets # {}
      BY <2>1 DEF Round, LockInv
    <2>3. QED
      BY <1>0, <2>1, <2>2 DEF Round, LockInv, PathTypeOK
  <1>5. ASSUME NEW rest, Continue(c, rest), pkts' = pkts
        PROVE  LockInv'
    BY <1>0, <1>5 DEF Continue, LockInv, PathTypeOK
  <1>6. QED
    BY <1>1, <1>2, <1>3, <1>4, <1>5 DEF PacketStep, WriteBody, WriteFails

LEMMA RoundStep ==
    ASSUME RoutingInv, NEW c \in Conns, PacketStep(c)
    PROVE  RoundInv'
  <1> USE DEF RoutingInv
  <1>0. UNCHANGED hubVars
    BY PacketsKeepHub
  <1>1. CASE UNCHANGED <<loop, todo, half, sent, dest>>
    BY <1>0, <1>1 DEF RoundInv, Settled, hubVars, peerVars
  <1>2. CASE Attach(c)
    <2>1. Settled(c) /\ loop' = [loop EXCEPT ![c] = "read"] /\ UNCHANGED <<dest, sent, todo, half>>
      BY <1>2 DEF Attach, StreamInv
    <2>2. UNCHANGED <<ip, room>>
      BY <1>0 DEF hubVars, peerVars
    <2>3. todo[c] = {}
      BY <1>2 DEF Attach, RoundInv, StreamInv
    <2>4. QED
      BY <2>1, <2>2, <2>3 DEF RoundInv, PathTypeOK, RoundTypeOK, Settled
  <1>3. CASE \E to \in Dests : ReadPacket(c, to)
    <2>0. PICK to \in Dests : \E targets, there : Round(c, to, targets, there)
      BY <1>3, RoundBegins
    <2>1. PICK targets, there : Round(c, to, targets, there)
      BY <2>0
    <2>2. sent'[c] >= 1 /\ (targets = {} \/ loop'[c] = "send") /\ loop'[c] # "none"
      BY <2>1, PacketAssumption DEF Round, PathTypeOK
    <2>3. QED
      BY <2>1, <2>2 DEF Round, RoundInv, PathTypeOK, RoundTypeOK, Settled
  <1>4. CASE \E d \in Conns : WriteLength(c, d)
    <2>1. PICK d \in Conns : WriteLength(c, d)
      BY <1>4
    <2>2. d \in todo[c] /\ half[c] = None /\ half' = [half EXCEPT ![c] = d]
          /\ UNCHANGED <<pkts, closed, loop, dest, sent, todo, due>>
      BY <2>1 DEF WriteLength
    <2>3. UNCHANGED <<ip, room>>
      BY <1>0 DEF hubVars, peerVars
    <2>4. QED
      BY <2>1, <2>2, <2>3 DEF RoundInv, RoundTypeOK, Settled
  <1>5. CASE WriteBody(c)
    <2>1. PICK d \in Conns : d = half[c] /\ d \in todo[c]
      BY <1>5 DEF WriteBody, RoundInv, RoundTypeOK
    <2>2. half' = [half EXCEPT ![c] = None] /\ UNCHANGED <<pkts, closed, dest, sent, due>>
      BY <1>5 DEF WriteBody
    <2>3. Wrote(c, d, TRUE)
      BY <1>5, <2>1, WriteIsOne DEF WriteBody
    <2>4. todo' = [todo EXCEPT ![c] = todo[c] \ {d}]
          /\ loop' = [loop EXCEPT ![c] = IF todo[c] \ {d} = {} THEN "read" ELSE loop[c]]
      BY <1>5, <2>1 DEF WriteBody, Continue
    <2>5. UNCHANGED <<ip, room>>
      BY <1>0 DEF hubVars, peerVars
    <2>6. loop[c] = "send"
      BY <2>1 DEF RoundInv
    <2>7. QED
      BY <2>1, <2>2, <2>4, <2>5, <2>6 DEF RoundInv, PathTypeOK, RoundTypeOK, Settled
  <1>6. CASE \E d \in Conns : WriteFails(c, d)
    <2>1. PICK d \in Conns : WriteFails(c, d)
      BY <1>6
    <2>2. /\ d \in todo[c] /\ half[c] \in {None, d} /\ ~CanWrite(d)
          /\ half' = [half EXCEPT ![c] = None] /\ UNCHANGED <<pkts, closed, dest, sent, due, wire>>
      BY <2>1 DEF WriteFails
    <2>3. todo' = [todo EXCEPT ![c] = todo[c] \ {d}]
          /\ loop' = [loop EXCEPT ![c] = IF todo[c] \ {d} = {} THEN "read" ELSE loop[c]]
      BY <2>1 DEF WriteFails, Continue
    <2>4. UNCHANGED <<ip, room>>
      BY <1>0 DEF hubVars, peerVars
    <2>5. loop[c] = "send"
      BY <2>2 DEF RoundInv
    <2>6. QED
      BY <2>2, <2>3, <2>4, <2>5 DEF RoundInv, PathTypeOK, RoundTypeOK, Settled
  <1>7. CASE LoopEnds(c)
    BY <1>0, <1>7 DEF LoopEnds, RoundInv, Settled, hubVars, peerVars, PathTypeOK
  <1>8. QED
    BY <1>1, <1>2, <1>3, <1>4, <1>5, <1>6, <1>7 DEF PacketStep, OpenPackets, FindPeer, AttachEnds

LEMMA WireStep ==
    ASSUME RoutingInv, NEW c \in Conns, PacketStep(c)
    PROVE  WireInv'
  <1> USE DEF RoutingInv
  <1>0. UNCHANGED hubVars
    BY PacketsKeepHub
  <1>1. CASE UNCHANGED <<wire>>
    BY <1>0, <1>1 DEF WireInv, Settled, hubVars, peerVars
  <1>2. CASE \E d \in Conns : WriteLength(c, d)
    <2>1. PICK d \in Conns : WriteLength(c, d)
      BY <1>2
    <2>2. d \in todo[c] /\ half[c] = None /\ half' = [half EXCEPT ![c] = d]
          /\ UNCHANGED <<pkts, closed, loop, dest, sent, todo, due>>
      BY <2>1 DEF WriteLength
    <2>3. Wrote(c, d, FALSE)
      BY <2>1, <2>2, WriteIsOne DEF WriteLength
    <2>5. UNCHANGED <<ip, room>>
      BY <1>0 DEF hubVars, peerVars
    <2>6. d # c /\ Settled(d) /\ Settled(c) /\ room[d] = room[c] /\ dest[c] \in {All, ip[d]}
      BY <2>2 DEF RoundInv
    <2>7. Part(c, FALSE).from = c /\ Part(c, FALSE).to = dest[c]
      BY DEF Part
    <2>8. ASSUME NEW e \in Conns, NEW i \in DOMAIN wire'[e]
          PROVE  LET p == wire'[e][i] IN
                 /\ p.from # e /\ Settled(p.from) /\ Settled(e)
                 /\ room[p.from] = room[e] /\ p.to \in {All, ip[e]}
      <3>1. CASE i \in DOMAIN wire[e] /\ wire'[e][i] = wire[e][i]
        BY <3>1 DEF WireInv
      <3>2. CASE e = d /\ wire'[e][i] = Part(c, FALSE)
        BY <2>6, <2>7, <3>2
      <3>3. QED
        BY <3>1, <3>2, <2>3 DEF Wrote
    <2>9. QED
      BY <2>5, <2>8 DEF WireInv, Settled
  <1>3. CASE WriteBody(c)
    <2>1. PICK d \in Conns : d = half[c] /\ d \in todo[c]
      BY <1>3 DEF WriteBody, RoundInv, RoundTypeOK
    <2>2. half' = [half EXCEPT ![c] = None] /\ UNCHANGED <<pkts, closed, dest, sent, due>>
      BY <1>3 DEF WriteBody
    <2>3. Wrote(c, d, TRUE)
      BY <1>3, <2>1, WriteIsOne DEF WriteBody
    <2>5. UNCHANGED <<ip, room>>
      BY <1>0 DEF hubVars, peerVars
    <2>6. d # c /\ Settled(d) /\ Settled(c) /\ room[d] = room[c] /\ dest[c] \in {All, ip[d]}
      BY <2>1 DEF RoundInv
    <2>7. Part(c, TRUE).from = c /\ Part(c, TRUE).to = dest[c]
      BY DEF Part
    <2>8. ASSUME NEW e \in Conns, NEW i \in DOMAIN wire'[e]
          PROVE  LET p == wire'[e][i] IN
                 /\ p.from # e /\ Settled(p.from) /\ Settled(e)
                 /\ room[p.from] = room[e] /\ p.to \in {All, ip[e]}
      <3>1. CASE i \in DOMAIN wire[e] /\ wire'[e][i] = wire[e][i]
        BY <3>1 DEF WireInv
      <3>2. CASE e = d /\ wire'[e][i] = Part(c, TRUE)
        BY <2>6, <2>7, <3>2
      <3>3. QED
        BY <3>1, <3>2, <2>3 DEF Wrote
    <2>9. QED
      BY <2>5, <2>8 DEF WireInv, Settled
  <1>4. QED
    BY <1>1, <1>2, <1>3 DEF PacketStep, OpenPackets, FindPeer, Attach, AttachEnds, LoopEnds, ReadPacket,
           WriteFails

LEMMA CastStep ==
    ASSUME RoutingInv, NEW c \in Conns, PacketStep(c)
    PROVE  CastInv'
  <1> USE DEF RoutingInv
  <1>0. UNCHANGED hubVars
    BY PacketsKeepHub
  <1>1. CASE UNCHANGED <<closed, due, dest, todo, wire, sent>>
    BY <1>0, <1>1 DEF CastInv, CanWrite, Has, Part, hubVars, peerVars
  <1>2. CASE FindPeer(c)
    <2>1. \A e \in Conns : CanWrite(e)' => CanWrite(e)
      BY <1>0, <1>2 DEF FindPeer, CanWrite, PathTypeOK, hubVars
    <2>2. UNCHANGED <<dest, sent, todo, due, wire>>
      BY <1>2 DEF FindPeer
    <2>3. QED
      BY <2>1, <2>2 DEF CastInv, Has, Part, RoundTypeOK
  <1>3. CASE \E to \in Dests : ReadPacket(c, to)
    <2>0. PICK to \in Dests : \E targets, there : Round(c, to, targets, there)
      BY <1>3, RoundBegins
    <2>1. PICK targets, there : Round(c, to, targets, there)
      BY <2>0
    <2>4. /\ todo' = [todo EXCEPT ![c] = targets] /\ UNCHANGED <<half, wire>>
          /\ due' = [due EXCEPT ![c] = IF to = All THEN there ELSE {}] /\ there \subseteq targets
      BY <2>1 DEF Round
    <2>5. sent' = [sent EXCEPT ![c] = sent[c] + 1] /\ dest' = [dest EXCEPT ![c] = to]
          /\ UNCHANGED closed
      BY <2>1 DEF Round
    <2>6. \A e \in Conns : CanWrite(e)' => CanWrite(e)
      BY <1>0, <2>5 DEF CanWrite, hubVars
    <2>7. ASSUME NEW e \in Conns, NEW d \in due'[e], CanWrite(d)'
          PROVE  dest'[e] = All /\ (d \in todo'[e] \/ Has(d, Part(e, TRUE))')
      <3>1. CASE e = c
        BY <2>4, <2>5, <2>7, <3>1 DEF PathTypeOK, RoundTypeOK
      <3>2. CASE e # c
        <4>1. due'[e] = due[e] /\ todo'[e] = todo[e] /\ dest'[e] = dest[e] /\ sent'[e] = sent[e]
          BY <2>4, <2>5, <3>2 DEF PathTypeOK, RoundTypeOK
        <4>2. CanWrite(d)
          BY <2>6, <2>7, <4>1 DEF RoundTypeOK
        <4>3. dest[e] = All /\ (d \in todo[e] \/ Has(d, Part(e, TRUE)))
          BY <2>7, <4>1, <4>2 DEF CastInv
        <4>4. QED
          BY <2>4, <4>1, <4>3 DEF Has, Part
      <3>3. QED
        BY <3>1, <3>2
    <2>8. QED
      BY <2>7 DEF CastInv
  <1>4. CASE \E d \in Conns : WriteLength(c, d)
    <2>1. PICK d \in Conns : WriteLength(c, d)
      BY <1>4
    <2>2. d \in todo[c] /\ half[c] = None /\ half' = [half EXCEPT ![c] = d]
          /\ UNCHANGED <<pkts, closed, loop, dest, sent, todo, due>>
      BY <2>1 DEF WriteLength
    <2>3. Wrote(c, d, FALSE)
      BY <2>1, <2>2, WriteIsOne DEF WriteLength
    <2>5. \A e \in Conns : CanWrite(e)' => CanWrite(e)
      BY <1>0, <2>2 DEF CanWrite, hubVars
    <2>6. \A e, f \in Conns : Has(e, Part(f, TRUE)) => Has(e, Part(f, TRUE))'
      BY <2>2, <2>3 DEF Has, Part, Wrote
    <2>7. QED
      BY <2>2, <2>5, <2>6 DEF CastInv, RoundTypeOK
  <1>5. CASE WriteBody(c)
    <2>1. PICK d \in Conns : d = half[c] /\ d \in todo[c]
      BY <1>5 DEF WriteBody, RoundInv, RoundTypeOK
    <2>2. half' = [half EXCEPT ![c] = None] /\ UNCHANGED <<pkts, closed, dest, sent, due>>
      BY <1>5 DEF WriteBody
    <2>3. Wrote(c, d, TRUE)
      BY <1>5, <2>1, WriteIsOne DEF WriteBody
    <2>4. todo' = [todo EXCEPT ![c] = todo[c] \ {d}]
          /\ loop' = [loop EXCEPT ![c] = IF todo[c] \ {d} = {} THEN "read" ELSE loop[c]]
      BY <1>5, <2>1 DEF WriteBody, Continue
    <2>5. \A e \in Conns : CanWrite(e)' => CanWrite(e)
      BY <1>0, <2>2 DEF CanWrite, hubVars
    <2>6. \A e, f \in Conns : Has(e, Part(f, TRUE)) => Has(e, Part(f, TRUE))'
      BY <2>2, <2>3 DEF Has, Part, Wrote
    <2>7. Has(d, Part(c, TRUE))'
      BY <2>2, <2>3 DEF Has, Part, Wrote
    <2>8. ASSUME NEW e \in Conns, NEW f \in due[e], CanWrite(f)
          PROVE  dest[e] = All /\ (f \in todo'[e] \/ Has(f, Part(e, TRUE))')
      <3>1. f \in Conns /\ dest[e] = All /\ (f \in todo[e] \/ Has(f, Part(e, TRUE)))
        BY <2>8 DEF CastInv, RoundTypeOK
      <3>2. CASE e = c /\ f = d
        BY <2>7, <3>1, <3>2
      <3>3. CASE e # c \/ f # d
        BY <2>4, <2>6, <3>1, <3>3 DEF RoundTypeOK
      <3>4. QED
        BY <3>2, <3>3
    <2>9. QED
      BY <2>2, <2>5, <2>8 DEF CastInv, RoundTypeOK
  <1>6. CASE \E d \in Conns : WriteFails(c, d)
    <2>1. PICK d \in Conns : WriteFails(c, d)
      BY <1>6
    <2>2. /\ d \in todo[c] /\ half[c] \in {None, d} /\ ~CanWrite(d)
          /\ half' = [half EXCEPT ![c] = None] /\ UNCHANGED <<pkts, closed, dest, sent, due, wire>>
      BY <2>1 DEF WriteFails
    <2>3. todo' = [todo EXCEPT ![c] = todo[c] \ {d}]
          /\ loop' = [loop EXCEPT ![c] = IF todo[c] \ {d} = {} THEN "read" ELSE loop[c]]
      BY <2>1 DEF WriteFails, Continue
    <2>4. \A e \in Conns : CanWrite(e)' <=> CanWrite(e)
      BY <1>0, <2>2 DEF CanWrite, hubVars
    <2>5. ASSUME NEW e \in Conns, NEW f \in due[e], CanWrite(f)
          PROVE  dest[e] = All /\ (f \in todo'[e] \/ Has(f, Part(e, TRUE)))
      <3>1. f # d /\ dest[e] = All /\ (f \in todo[e] \/ Has(f, Part(e, TRUE)))
        BY <2>2, <2>5 DEF CastInv
      <3>2. QED
        BY <2>3, <3>1 DEF RoundTypeOK
    <2>6. QED
      BY <2>2, <2>4, <2>5 DEF CastInv, Has, Part, RoundTypeOK
  <1>7. QED
    BY <1>1, <1>2, <1>3, <1>4, <1>5, <1>6 DEF PacketStep, OpenPackets, Attach, AttachEnds, LoopEnds

-----------------------------------------------------------------------------
(* Packets: the theorems *)

LEMMA RoutingInitially == RoutingInit => RoutingInv
  <1> SUFFICES ASSUME RoutingInit PROVE RoutingInv
    OBVIOUS
  <1>1. HubInv
    BY HubInit DEF RoutingInit
  <1>2. NoPackets
    BY DEF RoutingInit
  <1>3. PathTypeOK
    BY <1>2, PacketAssumption DEF NoPackets, PathTypeOK, Dests
  <1>4. RoundTypeOK
    BY <1>2 DEF NoPackets, RoundTypeOK
  <1>5. StreamInv /\ LockInv /\ RoundInv /\ CastInv
    BY <1>2 DEF NoPackets, StreamInv, LockInv, RoundInv, CastInv, RoutingInit, Init
  <1>6. WireInv
    BY <1>2 DEF NoPackets, WireInv
  <1>7. QED
    BY <1>1, <1>3, <1>4, <1>5, <1>6 DEF RoutingInv

\* The inductive invariant of the packets' way: a round only ever holds peers of
\* the sender's room, and what was due is written or still to be (room.go: route,
\* broadcast; vpn.go: readLoop).
THEOREM RoutingInvariance == RoutingSpec => []RoutingInv
  <1>1. RoutingInv /\ [RoutingNext]_allVars => RoutingInv'
    <2> SUFFICES ASSUME RoutingInv, [RoutingNext]_allVars PROVE RoutingInv'
      OBVIOUS
    <2>1. CASE UNCHANGED allVars
      <3>1. UNCHANGED vars /\ UNCHANGED packetVars
        BY <2>1 DEF allVars
      <3>2. HubInv'
        BY <3>1, HubInvStep DEF RoutingInv
      <3>3. PathTypeOK' /\ RoundTypeOK'
        BY <3>1 DEF RoutingInv, packetVars, PathTypeOK, RoundTypeOK
      <3>4. StreamInv' /\ LockInv' /\ RoundInv' /\ WireInv'
        BY <3>1 DEF RoutingInv, packetVars, vars, connVars, peerVars, StreamInv, LockInv, RoundInv,
           WireInv, Settled
      <3>5. CastInv'
        BY <3>1 DEF RoutingInv, packetVars, vars, connVars, CastInv, CanWrite, Has, Part
      <3>6. QED
        BY <3>2, <3>3, <3>4, <3>5 DEF RoutingInv
    <2>2. CASE HubStep
      BY <2>2, HubStepKeeps
    <2>3. ASSUME NEW c \in Conns, PacketStep(c) PROVE RoutingInv'
      <3>1. UNCHANGED hubVars /\ casting' \in SUBSET Conns
        BY <2>3, PacketsKeepHub DEF RoutingInv, HubInv, HubTypeInv, SessionTypeOK
      <3>2. HubInv'
        BY <3>1, CastingIsFree DEF RoutingInv, hubVars
      <3>3. /\ PathTypeOK' /\ RoundTypeOK' /\ StreamInv' /\ LockInv'
            /\ RoundInv' /\ WireInv' /\ CastInv'
        BY <2>3, PathTypeStep, RoundTypeStep, StreamStep, LockStep, RoundStep, WireStep, CastStep
      <3>4. QED
        BY <3>2, <3>3 DEF RoutingInv
    <2>4. QED
      BY <2>1, <2>2, <2>3 DEF RoutingNext
  <1>2. QED
    BY RoutingInitially, <1>1, PTL DEF RoutingSpec

\* Type correctness of packets and rounds.
THEOREM PacketTypeCorrect == RoutingSpec => []PacketTypeOK
  <1>1. RoutingInv => PacketTypeOK
    BY DEF RoutingInv, HubInv, HubTypeInv, CreationTypeOK, TableTypeOK, SessionTypeOK,
           HandlerTypeOK, NewsTypeOK, TypeOK, PathTypeOK, RoundTypeOK, PacketTypeOK
  <1>2. QED
    BY RoutingInvariance, <1>1, PTL

\* No packet leaves the room of its sender or reaches another address than its
\* own, for every number of rooms, peers and packets.
THEOREM PacketsStayInRoom == RoutingSpec => []StaysInRoom
  <1>1. RoutingInv => StaysInRoom
    BY DEF RoutingInv, WireInv, StaysInRoom
  <1>2. QED
    BY RoutingInvariance, <1>1, PTL

\* A broadcast that is over has reached everybody who was there when it began
\* and can still be written to.
THEOREM BroadcastIsComplete == RoutingSpec => []BroadcastReachesAll
  <1>1. RoutingInv => BroadcastReachesAll
    <2> SUFFICES ASSUME RoutingInv, NEW c \in Conns, loop[c] = "read",
                        NEW d \in due[c], CanWrite(d)
                 PROVE  \E i \in DOMAIN wire[d] :
                            wire[d][i] = [from |-> c, n |-> sent[c], to |-> All, body |-> TRUE]
      BY DEF BroadcastReachesAll
    <2>1. todo[c] = {}
      BY DEF RoutingInv, RoundInv
    <2>2. dest[c] = All /\ Has(d, Part(c, TRUE))
      BY <2>1 DEF RoutingInv, CastInv
    <2>3. QED
      BY <2>2 DEF Has, Part
  <1>2. QED
    BY RoutingInvariance, <1>1, PTL

-----------------------------------------------------------------------------
(* The order of the parts from one sender *)

\* Part i is the latest from its sender in d's stream.
LastFrom(d, i) == \A k \in DOMAIN wire[d] : i < k => wire[d][k].from # wire[d][i].from

\* What d has from a sender is not newer than the sender's round, and older
\* when d is still to be written to.  The latest part is the round's length if
\* the packet is to follow, and a packet otherwise, unless d cannot be written
\* to any more.
SenderInv ==
    \A d \in Conns : \A i \in DOMAIN wire[d] :
        LET p == wire[d][i]
            c == p.from IN
        /\ p.n <= sent[c]
        /\ d \in todo[c] /\ half[c] # d => p.n < sent[c]
        /\ LastFrom(d, i) =>
               IF half[c] = d THEN p.n = sent[c] /\ ~p.body ELSE p.body \/ ~CanWrite(d)

OrderInv == SenderInv /\ SendersKeepOrder

LEMMA SameWire ==
    ASSUME RoutingInv, OrderInv, UNCHANGED <<wire>>,
           \A c \in Conns : sent[c] <= sent'[c],
           \A c \in Conns : \A d \in todo'[c] :
               half'[c] # d => \/ d \in todo[c] /\ half[c] # d /\ sent'[c] = sent[c]
                               \/ sent'[c] > sent[c],
           \A c, d \in Conns : half'[c] = d => half[c] = d /\ sent'[c] = sent[c],
           \A c, d \in Conns : half'[c] # d /\ half[c] = d => ~CanWrite(d),
           \A d \in Conns : CanWrite(d)' => CanWrite(d),
           RoundTypeOK', PathTypeOK'
    PROVE  OrderInv'
  <1>1. ASSUME NEW d \in Conns, NEW i \in DOMAIN wire[d]
        PROVE  LET p == wire[d][i]
                   c == p.from IN
               /\ p.n <= sent'[c]
               /\ d \in todo'[c] /\ half'[c] # d => p.n < sent'[c]
               /\ LastFrom(d, i) =>
                      IF half'[c] = d THEN p.n = sent'[c] /\ ~p.body
                                      ELSE p.body \/ ~CanWrite(d)'
    <2> DEFINE p == wire[d][i]
               c == p.from
    <2>1. p \in Parts
      BY DEF RoutingInv, RoundTypeOK
    <2>2. c \in Conns /\ p.n \in Nat
      BY <2>1, PacketAssumption DEF Parts
    <2>3. sent[c] \in Nat /\ sent'[c] \in Nat
      BY <2>2, PacketAssumption DEF RoutingInv, PathTypeOK
    <2>4. /\ p.n <= sent[c]
          /\ d \in todo[c] /\ half[c] # d => p.n < sent[c]
          /\ LastFrom(d, i) =>
                 IF half[c] = d THEN p.n = sent[c] /\ ~p.body ELSE p.body \/ ~CanWrite(d)
      BY DEF OrderInv, SenderInv
    <2> HIDE DEF p, c
    <2>5. p.n <= sent'[c]
      BY <2>2, <2>3, <2>4
    <2>6. d \in todo'[c] /\ half'[c] # d => p.n < sent'[c]
      BY <2>2, <2>3, <2>4
    <2>7. LastFrom(d, i) =>
              IF half'[c] = d THEN p.n = sent'[c] /\ ~p.body ELSE p.body \/ ~CanWrite(d)'
      BY <2>2, <2>4
    <2>8. QED
      BY <2>5, <2>6, <2>7 DEF p, c
  <1>2. SenderInv'
    BY <1>1 DEF SenderInv, LastFrom
  <1>3. SendersKeepOrder'
    BY DEF OrderInv, SendersKeepOrder, NextFrom
  <1>4. QED
    BY <1>2, <1>3 DEF OrderInv

\* One more part at the end of a stream.
LEMMA WireGrows ==
    ASSUME RoutingInv, NEW c \in Conns, NEW d \in todo[c], NEW body \in BOOLEAN,
           wire' = [wire EXCEPT ![d] = Append(@, Part(c, body))]
    PROVE  /\ d \in Conns /\ \A e \in Conns : e # d => wire'[e] = wire[e]
           /\ Len(wire[d]) \in Nat /\ DOMAIN wire[d] = 1..Len(wire[d])
           /\ DOMAIN wire'[d] = 1..(Len(wire[d]) + 1)
           /\ wire'[d][Len(wire[d]) + 1] = Part(c, body)
           /\ \A i \in DOMAIN wire[d] : wire'[d][i] = wire[d][i]
  <1>1. d \in Conns /\ wire \in [Conns -> Seq(Parts)] /\ wire[d] \in Seq(Parts)
    BY DEF RoutingInv, RoundTypeOK
  <1>2. wire'[d] = Append(wire[d], Part(c, body)) /\ \A e \in Conns : e # d => wire'[e] = wire[e]
    BY <1>1
  <1>3. QED
    BY <1>1, <1>2

\* The part that is written follows the latest of its sender as it should.
LEMMA WriteInOrder ==
    ASSUME RoutingInv, OrderInv, NEW c \in Conns, NEW d \in todo[c], NEW body \in BOOLEAN,
           wire' = [wire EXCEPT ![d] = Append(@, Part(c, body))],
           CanWrite(d),
           \/ body = TRUE /\ half[c] = d
           \/ body = FALSE /\ half[c] # d
    PROVE  SendersKeepOrder'
  <1> DEFINE n == Len(wire[d])
             q == Part(c, body)
  <1>1. /\ d \in Conns /\ \A e \in Conns : e # d => wire'[e] = wire[e]
        /\ n \in Nat /\ DOMAIN wire[d] = 1..n /\ DOMAIN wire'[d] = 1..(n + 1)
        /\ wire'[d][n + 1] = q
        /\ \A i \in 1..n : wire'[d][i] = wire[d][i]
    BY WireGrows
  <1>2. q.from = c /\ q.n = sent[c] /\ q.body = body
    BY DEF Part
  <1> HIDE DEF n, q
  <1> SUFFICES ASSUME NEW e \in Conns, NEW i \in DOMAIN wire'[e], NEW j \in DOMAIN wire'[e],
                      NextFrom(e, i, j)'
               PROVE  \/ /\ wire'[e][j].n = wire'[e][i].n
                         /\ ~wire'[e][i].body /\ wire'[e][j].body
                      \/ /\ wire'[e][j].n > wire'[e][i].n
                         /\ wire'[e][i].body /\ ~wire'[e][j].body
    BY DEF SendersKeepOrder
  <1>3. CASE e # d
    <2>1. NextFrom(e, i, j)
      BY <1>1, <1>3 DEF NextFrom
    <2>2. QED
      BY <1>1, <1>3, <2>1 DEF OrderInv, SendersKeepOrder
  <1>4. CASE e = d /\ j # n + 1
    <2>1. /\ i < j /\ i \in 1..(n + 1) /\ j \in 1..(n + 1)
          /\ wire'[d][j].from = wire'[d][i].from
          /\ \A k \in 1..(n + 1) : i < k /\ k < j => wire'[d][k].from # wire'[d][i].from
      BY <1>1, <1>4 DEF NextFrom
    <2>2. i \in 1..n /\ j \in 1..n
      BY <1>1, <1>4, <2>1
    <2>3. \A k \in 1..n : k \in 1..(n + 1)
      BY <1>1
    <2>4. NextFrom(d, i, j)
      BY <1>1, <2>1, <2>2, <2>3 DEF NextFrom
    <2>5. QED
      BY <1>1, <1>4, <2>2, <2>4 DEF OrderInv, SendersKeepOrder
  <1>5. CASE e = d /\ j = n + 1
    <2>1. /\ i < n + 1 /\ i \in 1..(n + 1) /\ wire'[d][i].from = c
          /\ \A k \in 1..(n + 1) : i < k /\ k < n + 1 => wire'[d][k].from # wire'[d][i].from
      BY <1>1, <1>2, <1>5 DEF NextFrom
    <2>2. i \in 1..n
      BY <1>1, <2>1
    <2>3. wire[d][i].from = c
      BY <1>1, <2>1, <2>2
    <2>4. LastFrom(d, i)
      <3>1. \A k \in 1..n : k \in 1..(n + 1) /\ k < n + 1
        BY <1>1
      <3>2. QED
        BY <1>1, <2>1, <2>2, <3>1 DEF LastFrom
    <2>5. wire[d][i] \in Parts
      BY <1>1, <2>2 DEF RoutingInv, RoundTypeOK
    <2>6. /\ d \in todo[c] /\ half[c] # d => wire[d][i].n < sent[c]
          /\ IF half[c] = d THEN wire[d][i].n = sent[c] /\ ~wire[d][i].body
                            ELSE wire[d][i].body \/ ~CanWrite(d)
      BY <1>1, <2>2, <2>3, <2>4 DEF OrderInv, SenderInv
    <2>7. wire[d][i].n \in Nat /\ sent[c] \in Nat
      BY <2>5, PacketAssumption DEF Parts, RoutingInv, PathTypeOK
    <2>8. CASE half[c] = d
      BY <1>1, <1>2, <1>5, <2>2, <2>6, <2>8
    <2>9. CASE half[c] # d
      BY <1>1, <1>2, <1>5, <2>2, <2>6, <2>7, <2>9
    <2>10. QED
      BY <2>8, <2>9
  <1>6. QED
    BY <1>3, <1>4, <1>5

LEMMA WriteKeepsSender ==
    ASSUME RoutingInv, OrderInv, NEW c \in Conns, NEW d \in todo[c], NEW body \in BOOLEAN,
           wire' = [wire EXCEPT ![d] = Append(@, Part(c, body))],
           half' = [half EXCEPT ![c] = IF body THEN None ELSE d],
           body => todo' = [todo EXCEPT ![c] = todo[c] \ {d}],
           ~body => todo' = todo,
           half[c] = IF body THEN d ELSE None,
           UNCHANGED <<sent, closed, up>>
    PROVE  SenderInv'
  <1> DEFINE n == Len(wire[d])
             q == Part(c, body)
  <1>1. /\ d \in Conns /\ \A e \in Conns : e # d => wire'[e] = wire[e]
        /\ n \in Nat /\ DOMAIN wire[d] = 1..n /\ DOMAIN wire'[d] = 1..(n + 1)
        /\ wire'[d][n + 1] = q
        /\ \A i \in 1..n : wire'[d][i] = wire[d][i]
    BY WireGrows
  <1>2. q.from = c /\ q.n = sent[c] /\ q.body = body
    BY DEF Part
  <1> HIDE DEF n, q
  <1>3. /\ \A b \in Conns : b # c => half'[b] = half[b] /\ todo'[b] = todo[b]
        /\ half'[c] = IF body THEN None ELSE d
        /\ \A e \in todo'[c] : e \in todo[c] /\ (body => e # d)
    BY DEF RoutingInv, RoundTypeOK
  <1>4. \A e \in Conns : CanWrite(e)' <=> CanWrite(e)
    BY DEF CanWrite
  <1>5. None \notin Conns /\ sent[c] \in Nat
    BY HubAssumption, PacketAssumption DEF RoutingInv, PathTypeOK
  <1> SUFFICES ASSUME NEW e \in Conns, NEW i \in DOMAIN wire'[e], NEW b,
                      b = wire'[e][i].from
               PROVE  /\ wire'[e][i].n <= sent[b]
                      /\ e \in todo'[b] /\ half'[b] # e => wire'[e][i].n < sent[b]
                      /\ LastFrom(e, i)' =>
                             IF half'[b] = e
                             THEN wire'[e][i].n = sent[b] /\ ~wire'[e][i].body
                             ELSE wire'[e][i].body \/ ~CanWrite(e)
    BY <1>4 DEF SenderInv
  <1>6. CASE e # d \/ i # n + 1
    <2>1. i \in DOMAIN wire[e] /\ wire'[e][i] = wire[e][i]
      BY <1>1, <1>6
    <2>2. b \in Conns
      <3>1. wire[e] \in Seq(Parts)
        BY DEF RoutingInv, RoundTypeOK
      <3>2. wire[e][i] \in Parts
        BY <2>1, <3>1
      <3>3. QED
        BY <2>1, <3>2 DEF Parts
    <2>3. /\ wire[e][i].n <= sent[b]
          /\ e \in todo[b] /\ half[b] # e => wire[e][i].n < sent[b]
          /\ LastFrom(e, i) =>
                 IF half[b] = e THEN wire[e][i].n = sent[b] /\ ~wire[e][i].body
                                ELSE wire[e][i].body \/ ~CanWrite(e)
      BY <2>1 DEF OrderInv, SenderInv
    <2>4. LastFrom(e, i)' => LastFrom(e, i)
      BY <1>1, <2>1 DEF LastFrom
    <2>5. CASE e # d \/ b # c
      <3>1. /\ half'[b] = e <=> half[b] = e
            /\ e \in todo'[b] => e \in todo[b]
        BY <1>3, <1>5, <2>2, <2>5
      <3>2. QED
        BY <2>1, <2>3, <2>4, <3>1
    <2>6. CASE e = d /\ b = c
      <3>1. ~LastFrom(e, i)'
        <4>1. n + 1 \in DOMAIN wire'[e] /\ i < n + 1 /\ wire'[e][n + 1].from = c
          BY <1>1, <1>2, <1>6, <2>6
        <4>2. QED
          BY <2>6, <4>1 DEF LastFrom
      <3>2. ~(e \in todo'[b] /\ half'[b] # e)
        BY <1>3, <2>6
      <3>3. QED
        BY <2>1, <2>3, <3>1, <3>2
    <2>7. QED
      BY <2>5, <2>6
  <1>7. CASE e = d /\ i = n + 1
    <2>1. b = c /\ wire'[e][i] = q
      BY <1>1, <1>2, <1>7
    <2>2. QED
      BY <1>2, <1>3, <1>5, <1>7, <2>1
  <1>8. QED
    BY <1>6, <1>7

LEMMA OrderStep ==
    ASSUME RoutingInv, OrderInv, RoutingInv', NEW c \in Conns, PacketStep(c)
    PROVE  OrderInv'
  <1>0. UNCHANGED hubVars
    BY PacketsKeepHub
  <1>1. /\ up' = up /\ None \notin Conns
        /\ RoundTypeOK /\ PathTypeOK /\ RoundTypeOK' /\ PathTypeOK' /\ RoundInv
    BY <1>0, HubAssumption DEF hubVars, peerVars, connVars, RoutingInv
  <1>2. \A b \in Conns : sent[b] \in Nat
    BY <1>1, PacketAssumption DEF PathTypeOK
  <1>3. CASE OpenPackets(c) \/ FindPeer(c) \/ Attach(c) \/ AttachEnds(c) \/ LoopEnds(c)
    <2>1. UNCHANGED <<wire, sent, todo, half>>
      BY <1>3 DEF OpenPackets, FindPeer, Attach, AttachEnds, LoopEnds
    <2>2. \A d \in Conns : CanWrite(d)' => CanWrite(d)
      BY <1>1, <1>3 DEF OpenPackets, FindPeer, Attach, AttachEnds, LoopEnds, CanWrite, PathTypeOK
    <2>3. QED
      BY <1>1, <1>2, <2>1, <2>2, SameWire
  <1>4. ASSUME NEW to \in Dests, ReadPacket(c, to)
        PROVE  OrderInv'
    <2>1. /\ loop[c] = "read" /\ sent' = [sent EXCEPT ![c] = @ + 1]
          /\ UNCHANGED <<wire, half, closed>>
          /\ \A b \in Conns : b # c => todo'[b] = todo[b]
      BY <1>1, <1>4 DEF ReadPacket, RoundTypeOK
    <2>2. half[c] = None
      BY <1>1, <2>1 DEF RoundInv
    <2>3. sent'[c] = sent[c] + 1 /\ \A b \in Conns : b # c => sent'[b] = sent[b]
      BY <1>1, <2>1 DEF PathTypeOK
    <2>4. \A d \in Conns : CanWrite(d)' => CanWrite(d)
      BY <1>1, <2>1 DEF CanWrite
    <2>5. \A b \in Conns : sent[b] <= sent'[b] /\ (b = c => sent'[b] > sent[b])
      BY <1>2, <2>3
    <2>6. QED
      BY <1>1, <2>1, <2>2, <2>3, <2>4, <2>5, SameWire
  <1>5. ASSUME NEW d \in Conns, WriteFails(c, d)
        PROVE  OrderInv'
    <2>1. /\ half[c] \in {None, d} /\ ~CanWrite(d)
          /\ half' = [half EXCEPT ![c] = None] /\ todo' = [todo EXCEPT ![c] = todo[c] \ {d}]
          /\ UNCHANGED <<wire, sent, closed>>
      BY <1>5 DEF WriteFails, Continue
    <2>2. /\ half'[c] = None /\ todo'[c] = todo[c] \ {d}
          /\ \A b \in Conns : b # c => half'[b] = half[b] /\ todo'[b] = todo[b]
      BY <1>1, <2>1 DEF RoundTypeOK
    <2>3. \A e \in Conns : CanWrite(e)' => CanWrite(e)
      BY <1>1, <2>1 DEF CanWrite
    <2>4. QED
      BY <1>1, <1>2, <2>1, <2>2, <2>3, SameWire
  <1>6. ASSUME NEW d \in Conns, WriteLength(c, d)
        PROVE  OrderInv'
    <2>1. /\ d \in todo[c] /\ half[c] = None /\ CanWrite(d)
          /\ wire' = [wire EXCEPT ![d] = Append(@, Part(c, FALSE))]
          /\ half' = [half EXCEPT ![c] = d]
          /\ UNCHANGED <<todo, sent, closed>>
      BY <1>6 DEF WriteLength
    <2>2. SendersKeepOrder'
      <3>1. FALSE <=> half[c] = d
        BY <1>1, <2>1
      <3>2. QED
        BY <2>1, <3>1, WriteInOrder
    <2>3. SenderInv'
      BY <1>1, <2>1, WriteKeepsSender
    <2>4. QED
      BY <2>2, <2>3 DEF OrderInv
  <1>7. CASE WriteBody(c)
    <2>1. PICK d \in todo[c] : d = half[c]
      BY <1>1, <1>7 DEF WriteBody, RoundInv
    <2>2. /\ CanWrite(d) /\ wire' = [wire EXCEPT ![d] = Append(@, Part(c, TRUE))]
          /\ half' = [half EXCEPT ![c] = None] /\ todo' = [todo EXCEPT ![c] = todo[c] \ {d}]
          /\ UNCHANGED <<sent, closed>>
      BY <1>7, <2>1 DEF WriteBody, Continue
    <2>3. SendersKeepOrder'
      BY <2>1, <2>2, WriteInOrder
    <2>4. SenderInv'
      BY <1>1, <2>1, <2>2, WriteKeepsSender
    <2>5. QED
      BY <2>3, <2>4 DEF OrderInv
  <1>8. QED
    BY <1>3, <1>4, <1>5, <1>6, <1>7 DEF PacketStep

LEMMA OrderNext ==
    RoutingInv /\ OrderInv /\ [RoutingNext]_allVars /\ RoutingInv' => OrderInv'
  <1> SUFFICES ASSUME RoutingInv, OrderInv, [RoutingNext]_allVars, RoutingInv'
               PROVE  OrderInv'
    OBVIOUS
  <1>1. \A b \in Conns : sent[b] \in Nat
    BY PacketAssumption DEF RoutingInv, PathTypeOK
  <1>2. CASE UNCHANGED allVars
    <2>1. UNCHANGED <<wire, sent, todo, half, closed, up>>
      BY <1>2 DEF allVars, packetVars, vars, connVars, peerVars
    <2>2. \A d \in Conns : CanWrite(d)' => CanWrite(d)
      BY <2>1 DEF CanWrite
    <2>3. QED
      BY <1>1, <2>1, <2>2, SameWire DEF RoutingInv
  <1>3. CASE HubStep
    <2>1. UNCHANGED <<wire, sent, todo, half>>
      BY <1>3 DEF HubStep
    <2>2. \A d \in Conns : CanWrite(d)' => CanWrite(d)
      <3>1. PICK h \in Conns : HandlerStep(h) \/ RunStep(h)
        BY <1>3 DEF HubStep
      <3>2. \A d \in Conns : closed[d] => closed'[d]
        BY <1>3 DEF HubStep
      <3>3. QED
        BY <3>1, <3>2, SettledStays DEF CanWrite, RoutingInv
    <2>3. QED
      BY <1>1, <2>1, <2>2, SameWire DEF RoutingInv
  <1>4. QED
    BY <1>2, <1>3, OrderStep DEF RoutingNext

\* A sender's packets reach every other peer of the room in the order they were
\* sent, each length before its own packet and none twice, for every number of
\* senders whose rounds fall in between.
THEOREM SendersInOrder == RoutingSpec => []SendersKeepOrder
  <1>1. RoutingInit => OrderInv
    BY DEF RoutingInit, NoPackets, OrderInv, SenderInv, SendersKeepOrder
  <1>2. OrderInv => SendersKeepOrder
    BY DEF OrderInv
  <1>3. QED
    BY <1>1, <1>2, OrderNext, RoutingInvariance, PTL DEF RoutingSpec

\* With the packet streams the hub does nothing that VpnHub does not allow:
\* every step of a stream, or of a round, leaves the rooms and the sessions as
\* they are, or begins or ends a broadcast, so all that is proved of Spec holds
\* here as well.
THEOREM RoutingImplementsHub == RoutingSpec => Spec
  <1>1. RoutingInit => Init
    BY DEF RoutingInit
  <1>2. RoutingInv /\ [RoutingNext]_allVars => [Next]_vars
    <2> SUFFICES ASSUME RoutingInv, [RoutingNext]_allVars PROVE [Next]_vars
      OBVIOUS
    <2>1. ASSUME NEW c \in Conns, PacketStep(c)
          PROVE  [Next]_vars
      <3>1. UNCHANGED hubVars
        BY <2>1, PacketsKeepHub
      <3>2. CASE casting' = casting
        BY <3>1, <3>2 DEF hubVars, vars, connVars
      <3>3. CASE c \in casting /\ casting' = casting \ {c} /\ ~crashed
        <4>1. CastEnds(c)
          BY <3>1, <3>3 DEF CastEnds, hubVars
        <4>2. QED
          BY <4>1 DEF Next, LoopStep
      <3>4. ASSUME NEW to \in Dests, ReadPacket(c, to), casting' # casting
            PROVE  CastBegins(c)
        <4>1. loop[c] = "read" /\ ~crashed /\ casting' = casting \union {c}
          BY <3>4 DEF ReadPacket
        <4>2. c \notin casting /\ pkts[c] # "none"
          BY <4>1 DEF RoutingInv, LockInv, StreamInv
        <4>3. QED
          BY <3>1, <4>1, <4>2 DEF CastBegins, RoutingInv, LockInv, hubVars
      <3>5. ASSUME NEW rest, Continue(c, rest), ~crashed
            PROVE  casting' = casting \/ (c \in casting /\ casting' = casting \ {c})
        BY <3>5 DEF Continue
      <3>6. QED
        BY <2>1, <3>2, <3>3, <3>4, <3>5 DEF PacketStep, OpenPackets, FindPeer, Attach, AttachEnds,
           WriteBody, LoopEnds, WriteLength, WriteFails, vars, connVars, Next, LoopStep
    <2>2. HubStep => Next
      BY DEF HubStep, Next
    <2>3. UNCHANGED allVars => UNCHANGED vars
      BY DEF allVars
    <2>4. QED
      BY <2>1, <2>2, <2>3 DEF RoutingNext
  <1>3. QED
    BY <1>1, <1>2, RoutingInvariance, PTL DEF RoutingSpec, Spec
=============================================================================
