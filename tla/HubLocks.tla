------------------------------ MODULE HubLocks ------------------------------
(***************************************************************************)
(* Who waits for whom in the VPN hub: vpnHub.mu, the mu of each Room, and  *)
(* the peers' streams that some operations write to while they hold one    *)
(* (src/internal/server/vpn.go, room.go, dashboard.go).  What the locks    *)
(* protect is in VpnHub and VpnRouting; here an operation is the order in  *)
(* which it locks, writes and unlocks.                                     *)
(*                                                                         *)
(* The locks are sync.RWMutex: a writer that waits keeps out readers that  *)
(* come after it, and an Unlock lets in all the readers that wait, before  *)
(* the next writer.  A write blocks as long as its peer does not read: the *)
(* stream's window is full, and no deadline is set.  That peer may read    *)
(* again, or its session may end, and the write with it.                   *)
(***************************************************************************)
EXTENDS Naturals, FiniteSets, SequencesExt

CONSTANTS
    Workers, \* goroutines that are in an operation at a time: a bound
    Rooms,
    Hub,     \* vpnHub.mu
    Peers,   \* members that may stop reading
    RoomOf,  \* RoomOf[p]: the room of peer p
    Nobody

ASSUME HubLocksAssumption ==
    /\ Hub \notin Rooms
    /\ Nobody \notin Workers
    /\ IsFiniteSet(Rooms) /\ IsFiniteSet(Peers)
    /\ Peers \intersect (Rooms \union {Hub}) = {}
    /\ RoomOf \in [Peers -> Rooms]

Locks == Rooms \union {Hub}

Members(r) == {p \in Peers : RoomOf[p] = r}

VARIABLES
    todo,    \* todo[w]: what w has still to do, step by step
    readers, \* readers[l]: who holds l for reading
    parked,  \* parked[l]: who waits for it to read
    writer,  \* writer[l]: who holds l for writing, or is next to
    stalled  \* peers that do not read

vars == <<todo, readers, parked, writer, stalled>>

Acts == {"lock", "unlock", "rlock", "runlock", "write"}
Steps == [act : Acts, on : Locks \union Peers]

LocksTypeOK ==
    /\ todo \in [Workers -> Seq(Steps)]
    /\ readers \in [Locks -> SUBSET Workers]
    /\ parked \in [Locks -> SUBSET Workers]
    /\ writer \in [Locks -> Workers \union {Nobody}]
    /\ stalled \subseteq Peers

Init ==
    /\ todo = [w \in Workers |-> <<>>]
    /\ readers = [l \in Locks |-> {}]
    /\ parked = [l \in Locks |-> {}]
    /\ writer = [l \in Locks |-> Nobody]
    /\ stalled = {}

-----------------------------------------------------------------------------
(* The operations *)

Act(a, x) == <<[act |-> a, on |-> x]>>

Exclusive(l) == Act("lock", l) \o Act("unlock", l)
Shared(l, body) == Act("rlock", l) \o body \o Act("runlock", l)

\* One after the other, in the order of a map, that is in any: SetToSeqs.  Each
\* lock in o is taken and let go, each peer in o is written to.
Each(o, take, leave) ==
    [i \in 1..(2 * Len(o)) |->
        [act |-> IF i % 2 = 1 THEN take ELSE leave, on |-> o[(i + 1) \div 2]]]

Writes(o) == [i \in DOMAIN o |-> [act |-> "write", on |-> o[i]]]

Write(p) == Act("write", p)

EnsureRoom == {Exclusive(Hub)}

\* allocate, and then the entry of the peer.
GrantPeer(r) == {Exclusive(r) \o Exclusive(r)}

\* Rooms are searched until the connection's is found, and all if there is none.
Searched == UNION {SetToSeqs(S) : S \in (SUBSET Rooms) \ {{}}}

\* Variant: "defer r.mu.Unlock()" in the loop.
SearchDeferred ==
    {Shared(Hub, [i \in DOMAIN o |-> [act |-> "lock", on |-> o[i]]]
                 \o [i \in DOMAIN o |-> [act |-> "unlock", on |-> o[i]]]) : o \in Searched}

Search == {Shared(Hub, Each(o, "lock", "unlock")) : o \in Searched}

ReleasePeer == Search

AttachPacketStream == Search

\* peersSnapshot and lookupIP hold the lock while they look.  sendRoomMembers and
\* route then write.
SendRoomMembers(p) == {Shared(RoomOf[p], <<>>) \o Write(p)}

Route(p) == {Shared(RoomOf[p], <<>>) \o Write(p)}

\* notifyJoin and broadcast hold it while they write, to all but the one they
\* serve, who may be none of Peers.
TellRoom(r) ==
    {Shared(r, Writes(o)) : o \in UNION {SetToSeqs(S) :
        S \in {S \in SUBSET Members(r) : Cardinality(Members(r) \ S) <= 1}}}

\* Variant: the room is asked for each peer.
TellEach(r) == {Shared(r, Shared(r, <<>>) \o Writes(o)) : o \in SetToSeqs(Members(r))}

NotifyJoin(r) == TellRoom(r)

Broadcast(r) == TellRoom(r)

\* The dashboard's page: allPeers.
AllPeers == {Shared(Hub, Each(o, "rlock", "runlock")) : o \in SetToSeqs(Rooms)}

\* Its list of rooms: roomsList, and then collectRoomRows of each.
RenderRooms == {Shared(Hub, <<>>) \o Each(o, "rlock", "runlock") : o \in SetToSeqs(Rooms)}

Operations ==
    EnsureRoom \union ReleasePeer \union AttachPacketStream \union AllPeers
    \union RenderRooms
    \union (UNION {GrantPeer(r) \union NotifyJoin(r) \union Broadcast(r) : r \in Rooms})
    \union (UNION {SendRoomMembers(p) \union Route(p) : p \in Peers})

-----------------------------------------------------------------------------
(* The steps *)

Next1(w, a, l) == todo[w] # <<>> /\ Head(todo[w]) = [act |-> a, on |-> l]

Done(S) == todo' = [w \in Workers |-> IF w \in S THEN Tail(todo[w]) ELSE todo[w]]

Begin(w) ==
    /\ todo[w] = <<>>
    /\ \E op \in Operations : todo' = [todo EXCEPT ![w] = op]
    /\ UNCHANGED <<readers, parked, writer, stalled>>

\* Lock, first part: the writers take turns.
Announce(w, l) ==
    /\ Next1(w, "lock", l)
    /\ writer[l] = Nobody
    /\ writer' = [writer EXCEPT ![l] = w]
    /\ UNCHANGED <<todo, readers, parked, stalled>>

\* Second part: the readers that were there have gone.
Lock(w, l) ==
    /\ Next1(w, "lock", l)
    /\ writer[l] = w /\ readers[l] = {}
    /\ Done({w})
    /\ UNCHANGED <<readers, parked, writer, stalled>>

Unlock(w, l) ==
    /\ Next1(w, "unlock", l)
    /\ writer' = [writer EXCEPT ![l] = Nobody]
    /\ readers' = [readers EXCEPT ![l] = parked[l]]
    /\ parked' = [parked EXCEPT ![l] = {}]
    /\ Done({w} \union parked[l])
    /\ UNCHANGED stalled

RLock(w, l) ==
    /\ Next1(w, "rlock", l)
    /\ w \notin parked[l]
    /\ IF writer[l] = Nobody
       THEN readers' = [readers EXCEPT ![l] = @ \union {w}] /\ Done({w}) /\ UNCHANGED parked
       ELSE parked' = [parked EXCEPT ![l] = @ \union {w}] /\ UNCHANGED <<readers, todo>>
    /\ UNCHANGED <<writer, stalled>>

RUnlock(w, l) ==
    /\ Next1(w, "runlock", l)
    /\ readers' = [readers EXCEPT ![l] = @ \ {w}]
    /\ Done({w})
    /\ UNCHANGED <<parked, writer, stalled>>

WriteTo(w, p) ==
    /\ Next1(w, "write", p)
    /\ p \notin stalled
    /\ Done({w})
    /\ UNCHANGED <<readers, parked, writer, stalled>>

Stall(p) == p \notin stalled /\ stalled' = stalled \union {p}
            /\ UNCHANGED <<todo, readers, parked, writer>>

Resume(p) == p \in stalled /\ stalled' = stalled \ {p}
             /\ UNCHANGED <<todo, readers, parked, writer>>

Step(w) ==
    \/ \E l \in Locks : Lock(w, l) \/ Unlock(w, l) \/ RLock(w, l) \/ RUnlock(w, l)
    \/ \E p \in Peers : WriteTo(w, p)

Next ==
    \/ \E w \in Workers : Begin(w) \/ Step(w) \/ \E l \in Locks : Announce(w, l)
    \/ \E p \in Peers : Stall(p) \/ Resume(p)

Spec == Init /\ [][Next]_vars

-----------------------------------------------------------------------------

\* w is at a lock that v has to let go of first.
WaitsFor(w, v) ==
    \E l \in Locks :
        \/ Next1(w, "lock", l) /\ writer[l] = w /\ v \in readers[l]
        \/ Next1(w, "lock", l) /\ writer[l] = v /\ v # w
        \/ w \in parked[l] /\ writer[l] = v

\* w is in a write that its peer does not take.
AtStalled(w) == \E p \in stalled : Next1(w, "write", p)

\* What w has still to do concerns room r and nothing else.
Within(w, r) ==
    todo[w] # <<>> /\ \A i \in DOMAIN todo[w] : todo[w][i].on \in {r} \union Members(r)

\* However joins, departures, packets and the dashboard take the two levels of
\* locks, there are no goroutines each of which waits for another of them, the
\* readers that a waiting writer keeps out included: when peers read, every
\* operation ends (vpn.go, room.go, dashboard.go).
NoCircularWait ==
    \A S \in (SUBSET Workers) \ {{}} : \E w \in S : \A v \in S : ~WaitsFor(w, v)

\* Whoever waits, at any remove, for a peer that does not read.
HeldUp(S) == \A w \in S : AtStalled(w) \/ \E v \in S : WaitsFor(w, v)

\* A peer that does not read holds up its own room, but not the packets, the
\* entries and the look-ups of another (room.go: Room "isolates broadcasts and
\* unicast from other rooms").
OtherRoomsGoOn ==
    \A r \in Rooms, S \in SUBSET Workers :
        stalled \intersect Members(r) = {} /\ HeldUp(S) => \A w \in S : ~Within(w, r)

-----------------------------------------------------------------------------
(* What one would like to hold and does not *)

\* A peer that does not read holds up nobody who enters or leaves another room:
\* it does, since releasePeer keeps the hub's lock while it waits for the room's,
\* and ensureRoom, and whoever comes after, wait for the hub's.
OthersComeAndGo ==
    \A S \in SUBSET Workers : HeldUp(S) => \A w \in S : ~Next1(w, "lock", Hub)
=============================================================================
