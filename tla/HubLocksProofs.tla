--------------------------- MODULE HubLocksProofs ---------------------------
(***************************************************************************)
(* Proofs about HubLocks, for any number of goroutines, rooms and peers:   *)
(* the locks exclude, no goroutines wait for each other in a circle, and a *)
(* peer that does not read holds up its own room only.                     *)
(*                                                                         *)
(* What a goroutine has still to do says what it holds: the order in which *)
(* the operations take the two levels of locks (Ordered) becomes a fact    *)
(* about the state (HoldInv).                                              *)
(***************************************************************************)
EXTENDS HubLocks, FiniteSetTheorems, TLAPS

-----------------------------------------------------------------------------
(* The order of the locks *)

\* What may be done with l held for reading: with the hub's lock, other locks
\* are taken and let go; with a room's, its members are written to.
Allowed(l, a) ==
    IF l = Hub THEN a.act # "write" /\ a.on \in Rooms
    ELSE a.act = "write" /\ a.on \in Members(l)

\* From its i-th step on s does what is allowed, and then lets go of l.
Closes(s, i, l) ==
    \E j \in DOMAIN s :
        /\ i <= j /\ s[j] = [act |-> "runlock", on |-> l]
        /\ \A k \in i..(j - 1) : Allowed(l, s[k])

\* Nothing is done with a lock held for writing, and with one held for reading
\* only what is allowed.
Ordered(s) ==
    \A i \in DOMAIN s :
        /\ s[i].act = "rlock" => Closes(s, i + 1, s[i].on)
        /\ s[i].act = "lock" =>
               i + 1 \in DOMAIN s /\ s[i + 1] = [act |-> "unlock", on |-> s[i].on]
        /\ i + 1 \in DOMAIN s /\ s[i + 1].act = "unlock" => s[i].act = "lock"

-----------------------------------------------------------------------------
(* The inductive invariant *)

OrderInv == \A w \in Workers : Ordered(todo[w])

\* Who holds a lock, or waits for it, still has the steps to do that go with it.
HoldInv ==
    \A l \in Locks, w \in Workers :
        /\ w \in readers[l] => Closes(todo[w], 1, l)
        /\ w \in parked[l] => Next1(w, "rlock", l)
        /\ writer[l] = w => Next1(w, "lock", l) \/ Next1(w, "unlock", l)

\* Who writes is alone.
ExclusionInv ==
    \A l \in Locks, w \in Workers :
        Next1(w, "unlock", l) => writer[l] = w /\ readers[l] = {}

LockInv == LocksTypeOK /\ OrderInv /\ HoldInv /\ ExclusionInv

\* What VpnHub and VpnRouting take for granted: who has the lock for writing
\* has it alone.
LocksExclude ==
    \A l \in Locks : \A v, w \in Workers :
        Next1(w, "unlock", l) => v \notin readers[l] /\ (Next1(v, "unlock", l) => v = w)

-----------------------------------------------------------------------------
(* Sequences of steps *)

LEMMA TailFacts ==
    ASSUME NEW s \in Seq(Steps), s # <<>>
    PROVE  /\ Tail(s) \in Seq(Steps) /\ Head(s) = s[1] /\ 1 \in DOMAIN s
           /\ \A i \in DOMAIN Tail(s) : i + 1 \in DOMAIN s /\ Tail(s)[i] = s[i + 1]
           /\ \A i \in DOMAIN s : i # 1 => i - 1 \in DOMAIN Tail(s)
  OBVIOUS

LEMMA ClosesTail ==
    ASSUME NEW s \in Seq(Steps), s # <<>>, NEW i \in Nat \ {0}, NEW l, Closes(s, i + 1, l)
    PROVE  Closes(Tail(s), i, l)
  <1>1. PICK j \in DOMAIN s :
            /\ i + 1 <= j /\ s[j] = [act |-> "runlock", on |-> l]
            /\ \A k \in (i + 1)..(j - 1) : Allowed(l, s[k])
    BY DEF Closes
  <1>2. j - 1 \in DOMAIN Tail(s) /\ Tail(s)[j - 1] = s[j] /\ i <= j - 1
    BY <1>1, TailFacts
  <1>3. ASSUME NEW k \in i..((j - 1) - 1)
        PROVE  Allowed(l, Tail(s)[k])
    <2>1. k + 1 \in (i + 1)..(j - 1) /\ k \in DOMAIN Tail(s)
      BY <1>1, <1>2, <1>3
    <2>2. Tail(s)[k] = s[k + 1]
      BY <2>1, TailFacts
    <2>3. QED
      BY <1>1, <2>1, <2>2
  <1>4. QED
    BY <1>1, <1>2, <1>3 DEF Closes

LEMMA OrderedTail ==
    ASSUME NEW s \in Seq(Steps), s # <<>>, Ordered(s)
    PROVE  Ordered(Tail(s))
  <1> SUFFICES ASSUME NEW i \in DOMAIN Tail(s)
               PROVE  /\ Tail(s)[i].act = "rlock" => Closes(Tail(s), i + 1, Tail(s)[i].on)
                      /\ Tail(s)[i].act = "lock" =>
                             /\ i + 1 \in DOMAIN Tail(s)
                             /\ Tail(s)[i + 1] = [act |-> "unlock", on |-> Tail(s)[i].on]
                      /\ i + 1 \in DOMAIN Tail(s) /\ Tail(s)[i + 1].act = "unlock" =>
                             Tail(s)[i].act = "lock"
    BY DEF Ordered
  <1>1. i + 1 \in DOMAIN s /\ Tail(s)[i] = s[i + 1] /\ i \in Nat \ {0}
    BY TailFacts
  <1>2. ASSUME Tail(s)[i].act = "rlock" PROVE Closes(Tail(s), i + 1, Tail(s)[i].on)
    <2>1. Closes(s, (i + 1) + 1, s[i + 1].on)
      BY <1>1, <1>2 DEF Ordered
    <2>2. i + 1 \in Nat \ {0}
      BY <1>1
    <2>3. QED
      BY <1>1, <2>1, <2>2, ClosesTail
  <1>3. i + 1 \in DOMAIN Tail(s) <=> i + 2 \in DOMAIN s
    BY <1>1, TailFacts
  <1>4. i + 1 \in DOMAIN Tail(s) => Tail(s)[i + 1] = s[i + 2]
    BY <1>1, TailFacts
  <1>5. /\ s[i + 1].act = "lock" =>
               i + 2 \in DOMAIN s /\ s[i + 2] = [act |-> "unlock", on |-> s[i + 1].on]
        /\ i + 2 \in DOMAIN s /\ s[i + 2].act = "unlock" => s[i + 1].act = "lock"
    <2>1. (i + 1) + 1 = i + 2
      BY <1>1
    <2>2. QED
      BY <1>1, <2>1 DEF Ordered
  <1>6. QED
    BY <1>1, <1>2, <1>3, <1>4, <1>5

\* How an operation may begin.
Opens(s) == s # <<>> => s[1].act # "unlock"

LEMMA ConcatFacts ==
    ASSUME NEW s \in Seq(Steps), NEW t \in Seq(Steps)
    PROVE  /\ s \o t \in Seq(Steps) /\ Len(s \o t) = Len(s) + Len(t)
           /\ \A i \in DOMAIN s : i \in DOMAIN (s \o t) /\ (s \o t)[i] = s[i]
           /\ \A i \in DOMAIN t : Len(s) + i \in DOMAIN (s \o t) /\ (s \o t)[Len(s) + i] = t[i]
           /\ \A i \in DOMAIN (s \o t) : i \notin DOMAIN s => i - Len(s) \in DOMAIN t
  OBVIOUS

LEMMA OrderedConcat ==
    ASSUME NEW s \in Seq(Steps), NEW t \in Seq(Steps), Ordered(s), Ordered(t),
           Opens(s), Opens(t)
    PROVE  s \o t \in Seq(Steps) /\ Ordered(s \o t) /\ Opens(s \o t)
  <1> DEFINE u == s \o t
             n == Len(s)
  <1>0. u \in Seq(Steps) /\ n \in Nat /\ DOMAIN s = 1..n /\ DOMAIN t = 1..Len(t) /\ Len(t) \in Nat
        /\ DOMAIN u = 1..(n + Len(t))
    BY ConcatFacts
  <1>1. \A i \in DOMAIN s : u[i] = s[i]
    BY ConcatFacts
  <1>2. \A i \in DOMAIN t : u[n + i] = t[i]
    BY ConcatFacts
  <1> HIDE DEF u, n
  <1>3. ASSUME NEW i \in DOMAIN s
        PROVE  /\ u[i].act = "rlock" => Closes(u, i + 1, u[i].on)
               /\ u[i].act = "lock" =>
                      i + 1 \in DOMAIN u /\ u[i + 1] = [act |-> "unlock", on |-> u[i].on]
               /\ i + 1 \in DOMAIN u /\ u[i + 1].act = "unlock" => u[i].act = "lock"
    <2>1. /\ s[i].act = "rlock" => Closes(s, i + 1, s[i].on)
          /\ s[i].act = "lock" =>
                 i + 1 \in DOMAIN s /\ s[i + 1] = [act |-> "unlock", on |-> s[i].on]
          /\ i + 1 \in DOMAIN s /\ s[i + 1].act = "unlock" => s[i].act = "lock"
      BY DEF Ordered
    <2>2. ASSUME s[i].act = "rlock" PROVE Closes(u, i + 1, s[i].on)
      <3>1. PICK j \in DOMAIN s :
                /\ i + 1 <= j /\ s[j] = [act |-> "runlock", on |-> s[i].on]
                /\ \A k \in (i + 1)..(j - 1) : Allowed(s[i].on, s[k])
        BY <2>1, <2>2 DEF Closes
      <3>2. j \in DOMAIN u /\ u[j] = s[j] /\ \A k \in (i + 1)..(j - 1) : u[k] = s[k]
        BY <1>0, <1>1, <3>1
      <3>3. QED
        BY <3>1, <3>2 DEF Closes
    <2>3. ASSUME i + 1 \in DOMAIN u, i + 1 \notin DOMAIN s
          PROVE  u[i + 1] = t[1] /\ t # <<>>
      <3>1. i = n /\ 1 \in DOMAIN t
        BY <1>0, <2>3
      <3>2. QED
        BY <1>2, <3>1
    <2>4. QED
      BY <1>0, <1>1, <2>1, <2>2, <2>3 DEF Opens
  <1>4. ASSUME NEW i \in DOMAIN t
        PROVE  /\ u[n + i].act = "rlock" => Closes(u, n + i + 1, u[n + i].on)
               /\ u[n + i].act = "lock" =>
                      /\ n + i + 1 \in DOMAIN u
                      /\ u[n + i + 1] = [act |-> "unlock", on |-> u[n + i].on]
               /\ n + i + 1 \in DOMAIN u /\ u[n + i + 1].act = "unlock" => u[n + i].act = "lock"
    <2>1. /\ t[i].act = "rlock" => Closes(t, i + 1, t[i].on)
          /\ t[i].act = "lock" =>
                 i + 1 \in DOMAIN t /\ t[i + 1] = [act |-> "unlock", on |-> t[i].on]
          /\ i + 1 \in DOMAIN t /\ t[i + 1].act = "unlock" => t[i].act = "lock"
      BY DEF Ordered
    <2>2. ASSUME t[i].act = "rlock" PROVE Closes(u, n + i + 1, t[i].on)
      <3>1. PICK j \in DOMAIN t :
                /\ i + 1 <= j /\ t[j] = [act |-> "runlock", on |-> t[i].on]
                /\ \A k \in (i + 1)..(j - 1) : Allowed(t[i].on, t[k])
        BY <2>1, <2>2 DEF Closes
      <3>2. n + j \in DOMAIN u /\ u[n + j] = t[j] /\ n + i + 1 <= n + j
        BY <1>0, <1>2, <3>1
      <3>3. ASSUME NEW k \in (n + i + 1)..((n + j) - 1)
            PROVE  Allowed(t[i].on, u[k])
        <4>1. k - n \in (i + 1)..(j - 1) /\ k - n \in DOMAIN t /\ k = n + (k - n)
          BY <1>0, <3>1, <3>3
        <4>2. u[k] = t[k - n]
          BY <1>2, <4>1
        <4>3. QED
          BY <3>1, <4>1, <4>2
      <3>4. QED
        BY <3>1, <3>2, <3>3 DEF Closes
    <2>3. /\ u[n + i] = t[i]
          /\ n + i + 1 \in DOMAIN u <=> i + 1 \in DOMAIN t
          /\ i + 1 \in DOMAIN t => u[n + i + 1] = t[i + 1]
      <3>1. n + i + 1 = n + (i + 1)
        BY <1>0
      <3>2. QED
        BY <1>0, <1>2, <3>1
    <2>4. QED
      BY <2>1, <2>2, <2>3
  <1>5. Ordered(u)
    <2>1. \A i \in DOMAIN u : i \in DOMAIN s \/ \E m \in DOMAIN t : i = n + m
      <3>1. \A i \in DOMAIN u : i \notin DOMAIN s => i - n \in DOMAIN t /\ i = n + (i - n)
        BY <1>0
      <3>2. QED
        BY <3>1
    <2>2. QED
      BY <1>3, <1>4, <2>1 DEF Ordered
  <1>6. Opens(u)
    <2>1. CASE s = <<>>
      <3>1. u = t
        BY <2>1 DEF u
      <3>2. QED
        BY <3>1
    <2>2. CASE s # <<>>
      <3>1. 1 \in DOMAIN s /\ u[1] = s[1]
        BY <1>1, <2>2
      <3>2. QED
        BY <2>2, <3>1 DEF Opens
    <2>3. QED
      BY <2>1, <2>2
  <1>7. QED
    BY <1>0, <1>5, <1>6 DEF u

-----------------------------------------------------------------------------
(* The operations keep the order *)

LEMMA StepFacts ==
    ASSUME NEW a \in Acts, NEW x \in Locks \union Peers
    PROVE  /\ Act(a, x) \in Seq(Steps) /\ Act(a, x) # <<>> /\ Len(Act(a, x)) = 1
           /\ Act(a, x)[1] = [act |-> a, on |-> x]
  BY DEF Act, Steps

LEMMA EmptyOrdered == <<>> \in Seq(Steps) /\ Ordered(<<>>) /\ Opens(<<>>)
  BY DEF Ordered, Opens

LEMMA WriteOrdered ==
    ASSUME NEW p \in Peers
    PROVE  Write(p) \in Seq(Steps) /\ Ordered(Write(p)) /\ Opens(Write(p))
  <1>1. "write" \in Acts /\ p \in Locks \union Peers
    BY DEF Acts
  <1>2. Write(p) \in Seq(Steps) /\ Len(Write(p)) = 1 /\ Write(p)[1] = [act |-> "write", on |-> p]
    BY <1>1, StepFacts DEF Write
  <1>3. Write(p)[1].act = "write" /\ DOMAIN Write(p) = 1..1
    BY <1>2
  <1>4. QED
    BY <1>2, <1>3 DEF Ordered, Opens

LEMMA ExclusiveOrdered ==
    ASSUME NEW l \in Locks
    PROVE  Exclusive(l) \in Seq(Steps) /\ Ordered(Exclusive(l)) /\ Opens(Exclusive(l))
  <1> DEFINE s == Exclusive(l)
             first == Act("lock", l)
             last == Act("unlock", l)
  <1>1. /\ first \in Seq(Steps) /\ Len(first) = 1 /\ first[1] = [act |-> "lock", on |-> l]
        /\ last \in Seq(Steps) /\ Len(last) = 1 /\ last[1] = [act |-> "unlock", on |-> l]
    BY StepFacts DEF Acts
  <1>2. s = first \o last
    BY DEF Exclusive
  <1> HIDE DEF s, first, last
  <1>3. s \in Seq(Steps) /\ DOMAIN s = 1..2
        /\ s[1] = [act |-> "lock", on |-> l] /\ s[2] = [act |-> "unlock", on |-> l]
    <2>1. DOMAIN first = 1..1 /\ DOMAIN last = 1..1
      BY <1>1
    <2>2. s \in Seq(Steps) /\ Len(s) = 2
      <3>1. s \in Seq(Steps) /\ Len(s) = Len(first) + Len(last)
        BY <1>1, <1>2, ConcatFacts
      <3>2. QED
        BY <1>1, <3>1
    <2>3. s[1] = first[1]
      <3>1. 1 \in DOMAIN first
        BY <2>1
      <3>2. QED
        BY <1>1, <1>2, <3>1, ConcatFacts
    <2>4. s[2] = last[1]
      <3>1. 1 \in DOMAIN last /\ Len(first) + 1 = 2
        BY <1>1, <2>1
      <3>2. s[Len(first) + 1] = last[1]
        BY <1>1, <1>2, <3>1, ConcatFacts
      <3>3. QED
        BY <3>1, <3>2
    <2>5. QED
      BY <1>1, <2>2, <2>3, <2>4
  <1>4. Ordered(s) /\ Opens(s)
    BY <1>3 DEF Ordered, Opens
  <1>5. QED
    BY <1>3, <1>4 DEF s

\* A body that does what is allowed.
LEMMA SharedOrdered ==
    ASSUME NEW l \in Locks, NEW body \in Seq(Steps), Ordered(body), Opens(body),
           \A k \in DOMAIN body : Allowed(l, body[k])
    PROVE  /\ Shared(l, body) \in Seq(Steps) /\ Ordered(Shared(l, body))
           /\ Opens(Shared(l, body))
  <1> DEFINE first == Act("rlock", l)
             last == Act("runlock", l)
             s == body \o last
             u == first \o s
             n == Len(body)
  <1>1. /\ first \in Seq(Steps) /\ Len(first) = 1 /\ first[1] = [act |-> "rlock", on |-> l]
        /\ last \in Seq(Steps) /\ Len(last) = 1 /\ last[1] = [act |-> "runlock", on |-> l]
    BY StepFacts DEF Acts
  <1> HIDE DEF first, last
  <1>2. Ordered(last) /\ Opens(last)
    BY <1>1 DEF Ordered, Opens
  <1>3. s \in Seq(Steps) /\ Ordered(s) /\ Opens(s)
    BY <1>1, <1>2, OrderedConcat
  <1>4. /\ n \in Nat /\ DOMAIN body = 1..n /\ DOMAIN s = 1..(n + 1) /\ Len(s) = n + 1
        /\ s[n + 1] = [act |-> "runlock", on |-> l]
        /\ \A k \in 1..n : s[k] = body[k]
    BY <1>1, ConcatFacts
  <1> HIDE DEF s, n
  <1>5. /\ u \in Seq(Steps) /\ DOMAIN u = 1..(n + 2)
        /\ u[1] = [act |-> "rlock", on |-> l]
        /\ \A k \in 1..(n + 1) : u[k + 1] = s[k]
    <2>1. /\ u \in Seq(Steps) /\ Len(u) = 1 + (n + 1) /\ u[1] = first[1]
          /\ \A k \in DOMAIN s : u[1 + k] = s[k]
      <3>1. u \in Seq(Steps) /\ Len(u) = Len(first) + Len(s)
            /\ \A k \in DOMAIN s : u[Len(first) + k] = s[k]
        BY <1>1, <1>3, ConcatFacts
      <3>2. 1 \in DOMAIN first
        BY <1>1
      <3>3. u[1] = first[1]
        BY <1>1, <1>3, <3>2, ConcatFacts
      <3>4. QED
        BY <1>1, <1>4, <3>1, <3>3
    <2>2. ASSUME NEW k \in 1..(n + 1) PROVE u[k + 1] = s[k]
      <3>1. 1 + k = k + 1 /\ k \in DOMAIN s
        BY <1>4
      <3>2. QED
        BY <2>1, <3>1
    <2>3. DOMAIN u = 1..(n + 2)
      BY <1>4, <2>1
    <2>4. QED
      BY <1>1, <2>1, <2>2, <2>3
  <1> HIDE DEF u
  <1>7. Closes(u, 2, l)
    <2>1. n + 2 \in DOMAIN u /\ u[n + 2] = [act |-> "runlock", on |-> l] /\ 2 <= n + 2
      <3>1. n + 2 = (n + 1) + 1
        BY <1>4
      <3>2. QED
        BY <1>4, <1>5, <3>1
    <2>2. ASSUME NEW k \in 2..((n + 2) - 1) PROVE Allowed(l, u[k])
      <3>1. k - 1 \in 1..n /\ k = (k - 1) + 1
        BY <1>4, <2>2
      <3>2. u[k] = body[k - 1]
        BY <1>4, <1>5, <3>1
      <3>3. QED
        BY <1>4, <3>1, <3>2
    <2>3. QED
      BY <2>1, <2>2 DEF Closes
  <1>8. ASSUME NEW i \in DOMAIN u, i # 1
        PROVE  /\ u[i].act = "rlock" => Closes(u, i + 1, u[i].on)
               /\ u[i].act = "lock" =>
                      i + 1 \in DOMAIN u /\ u[i + 1] = [act |-> "unlock", on |-> u[i].on]
               /\ i + 1 \in DOMAIN u /\ u[i + 1].act = "unlock" => u[i].act = "lock"
    <2> DEFINE m == i - 1
    <2>1. m \in DOMAIN s /\ i = m + 1 /\ u[i] = s[m] /\ m \in Nat
      BY <1>4, <1>5, <1>8
    <2>2. i + 1 \in DOMAIN u <=> m + 1 \in DOMAIN s
      BY <1>4, <1>5, <2>1
    <2>3. m + 1 \in DOMAIN s => u[i + 1] = s[m + 1]
      BY <1>4, <1>5, <2>1
    <2> HIDE DEF m
    <2>4. ASSUME s[m].act = "rlock" PROVE Closes(u, i + 1, s[m].on)
      <3>1. PICK j \in DOMAIN s :
                /\ m + 1 <= j /\ s[j] = [act |-> "runlock", on |-> s[m].on]
                /\ \A k \in (m + 1)..(j - 1) : Allowed(s[m].on, s[k])
        BY <1>3, <2>1, <2>4 DEF Ordered, Closes
      <3>2. j + 1 \in DOMAIN u /\ u[j + 1] = s[j] /\ i + 1 <= j + 1
        BY <1>4, <1>5, <2>1, <3>1
      <3>3. ASSUME NEW k \in (i + 1)..((j + 1) - 1) PROVE Allowed(s[m].on, u[k])
        <4>1. k - 1 \in (m + 1)..(j - 1) /\ k - 1 \in 1..(n + 1) /\ k = (k - 1) + 1
          BY <1>4, <2>1, <3>1, <3>3
        <4>2. u[k] = s[k - 1]
          BY <1>5, <4>1
        <4>3. QED
          BY <3>1, <4>1, <4>2
      <3>4. QED
        BY <3>1, <3>2, <3>3 DEF Closes
    <2>5. /\ s[m].act = "lock" =>
                 m + 1 \in DOMAIN s /\ s[m + 1] = [act |-> "unlock", on |-> s[m].on]
          /\ m + 1 \in DOMAIN s /\ s[m + 1].act = "unlock" => s[m].act = "lock"
      BY <1>3, <2>1 DEF Ordered
    <2>6. QED
      BY <2>1, <2>2, <2>3, <2>4, <2>5
  <1>9. /\ u[1].act = "rlock" => Closes(u, 1 + 1, u[1].on)
        /\ u[1].act # "lock"
        /\ 1 + 1 \in DOMAIN u => u[1 + 1].act # "unlock"
    <2>1. u[2] = s[1] /\ s # <<>>
      BY <1>3, <1>4, <1>5
    <2>2. QED
      BY <1>3, <1>5, <1>7, <2>1 DEF Opens
  <1>10. Ordered(u) /\ Opens(u)
    <2>1. Ordered(u)
      BY <1>8, <1>9 DEF Ordered
    <2>2. QED
      BY <1>5, <2>1 DEF Opens
  <1>11. Shared(l, body) = u
    <2>1. Shared(l, body) = first \o body \o last
      BY DEF Shared, first, last
    <2>2. QED
      BY <1>1, <2>1 DEF u, s
  <1>12. QED
    BY <1>5, <1>10, <1>11

\* An empty one.
LEMMA LookOrdered ==
    ASSUME NEW l \in Locks
    PROVE  /\ Shared(l, <<>>) \in Seq(Steps) /\ Ordered(Shared(l, <<>>))
           /\ Opens(Shared(l, <<>>))
  <1>1. <<>> \in Seq(Steps) /\ \A k \in DOMAIN <<>> : Allowed(l, <<>>[k])
    OBVIOUS
  <1>2. QED
    BY <1>1, EmptyOrdered, SharedOrdered

LEMMA Parity ==
    ASSUME NEW n \in Nat, NEW i \in 1..(2 * n)
    PROVE  /\ i % 2 = 1 =>
                  /\ i + 1 \in 1..(2 * n) /\ (i + 1) % 2 = 0
                  /\ ((i + 1) + 1) \div 2 = (i + 1) \div 2
           /\ i % 2 # 1 => (i + 1) % 2 = 1
           /\ (i + 1) \div 2 \in 1..n
  OBVIOUS

LEMMA EachOrdered ==
    ASSUME NEW o \in Seq(Rooms), NEW a, NEW b,
           \/ a = "lock" /\ b = "unlock"
           \/ a = "rlock" /\ b = "runlock"
    PROVE  /\ Each(o, a, b) \in Seq(Steps) /\ Ordered(Each(o, a, b)) /\ Opens(Each(o, a, b))
           /\ \A k \in DOMAIN Each(o, a, b) : Allowed(Hub, Each(o, a, b)[k])
  <1> DEFINE s == Each(o, a, b)
             n == Len(o)
  <1>0. \/ a = "lock" /\ b = "unlock"
        \/ a = "rlock" /\ b = "runlock"
    OBVIOUS
  <1>1. n \in Nat /\ DOMAIN o = 1..n
    OBVIOUS
  <1>2. \A i \in 1..(2 * n) : (i + 1) \div 2 \in 1..n
    BY <1>1, Parity
  <1>3. \A i \in 1..(2 * n) : o[(i + 1) \div 2] \in Rooms
    BY <1>1, <1>2
  <1>4. /\ DOMAIN s = 1..(2 * n)
        /\ \A i \in 1..(2 * n) :
               s[i] = [act |-> IF i % 2 = 1 THEN a ELSE b, on |-> o[(i + 1) \div 2]]
    BY DEF Each
  <1>5. s \in Seq(Steps)
    <2>1. \A i \in 1..(2 * n) :
              [act |-> IF i % 2 = 1 THEN a ELSE b, on |-> o[(i + 1) \div 2]] \in Steps
      BY <1>0, <1>3 DEF Steps, Acts, Locks
    <2>2. s \in [1..(2 * n) -> Steps] /\ 2 * n \in Nat
      BY <1>1, <2>1 DEF Each
    <2>3. QED
      BY <2>2
  <1> HIDE DEF s
  <1>6. \A k \in DOMAIN s : Allowed(Hub, s[k])
    BY <1>0, <1>3, <1>4 DEF Allowed
  <1>7. ASSUME NEW i \in DOMAIN s
        PROVE  /\ s[i].act = "rlock" => Closes(s, i + 1, s[i].on)
               /\ s[i].act = "lock" =>
                      i + 1 \in DOMAIN s /\ s[i + 1] = [act |-> "unlock", on |-> s[i].on]
               /\ i + 1 \in DOMAIN s /\ s[i + 1].act = "unlock" => s[i].act = "lock"
    <2>1. i \in Nat /\ 1 <= i /\ i <= 2 * n
      BY <1>1, <1>4
    <2>2. CASE i % 2 = 1
      <3>1. i + 1 \in DOMAIN s /\ (i + 1) % 2 = 0 /\ ((i + 1) + 1) \div 2 = (i + 1) \div 2
        BY <1>1, <1>4, <2>2, Parity
      <3>2. s[i] = [act |-> a, on |-> o[(i + 1) \div 2]]
            /\ s[i + 1] = [act |-> b, on |-> o[(i + 1) \div 2]]
        <4>1. (i + 1) % 2 # 1
          BY <3>1
        <4>2. QED
          BY <1>4, <2>2, <3>1, <4>1
      <3>3. s[i].act = "rlock" => Closes(s, i + 1, s[i].on)
        <4>1. (i + 1)..((i + 1) - 1) = {} /\ i + 1 <= i + 1
          BY <2>1
        <4>2. QED
          BY <1>0, <3>1, <3>2, <4>1 DEF Closes
      <3>4. QED
        BY <1>0, <3>1, <3>2, <3>3
    <2>3. CASE i % 2 # 1
      <3>1. s[i].act = b
        BY <1>4, <2>3
      <3>2. i + 1 \in DOMAIN s => (i + 1) % 2 = 1
        BY <1>1, <1>4, <2>3, Parity
      <3>3. i + 1 \in DOMAIN s => s[i + 1].act = a
        BY <1>4, <3>2
      <3>4. QED
        BY <1>0, <3>1, <3>3
    <2>4. QED
      BY <2>2, <2>3
  <1>8. Ordered(s)
    BY <1>7 DEF Ordered
  <1>9. Opens(s)
    <2>1. s # <<>> => 1 \in DOMAIN s /\ s[1].act = a
      BY <1>1, <1>4, <1>5
    <2>2. QED
      BY <1>0, <2>1 DEF Opens
  <1>10. QED
    BY <1>5, <1>6, <1>8, <1>9 DEF s

LEMMA WritesOrdered ==
    ASSUME NEW r \in Rooms, NEW o \in Seq(Members(r))
    PROVE  /\ Writes(o) \in Seq(Steps) /\ Ordered(Writes(o)) /\ Opens(Writes(o))
           /\ \A k \in DOMAIN Writes(o) : Allowed(r, Writes(o)[k])
  <1> DEFINE s == Writes(o)
             n == Len(o)
  <1>1. n \in Nat /\ DOMAIN o = 1..n /\ \A k \in 1..n : o[k] \in Members(r)
    OBVIOUS
  <1>2. DOMAIN s = 1..n /\ \A k \in 1..n : s[k] = [act |-> "write", on |-> o[k]]
    BY <1>1 DEF Writes
  <1>3. s \in Seq(Steps)
    <2>1. \A k \in 1..n : [act |-> "write", on |-> o[k]] \in Steps
      BY <1>1 DEF Steps, Acts, Members
    <2>2. s \in [1..n -> Steps]
      BY <1>1, <2>1 DEF Writes
    <2>3. QED
      BY <1>1, <2>2
  <1>4. r # Hub
    BY HubLocksAssumption
  <1> HIDE DEF s
  <1>5. \A k \in DOMAIN s : Allowed(r, s[k]) /\ s[k].act = "write"
    BY <1>1, <1>2, <1>4 DEF Allowed
  <1>6. Ordered(s)
    BY <1>5 DEF Ordered
  <1>7. Opens(s)
    <2>1. s # <<>> => 1 \in DOMAIN s
      BY <1>3
    <2>2. QED
      BY <1>5, <2>1 DEF Opens
  <1>8. QED
    BY <1>3, <1>5, <1>6, <1>7 DEF s

LEMMA InAnyOrder ==
    ASSUME NEW T, IsFiniteSet(T), NEW S \in SUBSET T, NEW o \in SetToSeqs(S)
    PROVE  o \in Seq(T)
  <1>1. Cardinality(S) \in Nat
    BY FS_Subset, FS_CardinalityType
  <1>2. o \in [1..Cardinality(S) -> S]
    BY DEF SetToSeqs
  <1>3. o \in [1..Cardinality(S) -> T]
    BY <1>2
  <1>4. QED
    BY <1>1, <1>3

\* Every operation, from its beginning.
LEMMA OperationsOrdered ==
    ASSUME NEW op \in Operations
    PROVE  op \in Seq(Steps) /\ Ordered(op) /\ Opens(op)
  <1>0. /\ Hub \in Locks /\ Rooms \subseteq Locks /\ IsFiniteSet(Rooms)
        /\ \A p \in Peers : RoomOf[p] \in Rooms
        /\ \A r \in Rooms : IsFiniteSet(Members(r))
    <2>1. \A r \in Rooms : Members(r) \subseteq Peers
      BY DEF Members
    <2>2. QED
      BY <2>1, HubLocksAssumption, FS_Subset DEF Locks
  <1>1. ASSUME op \in EnsureRoom
        PROVE  op \in Seq(Steps) /\ Ordered(op) /\ Opens(op)
    BY <1>0, <1>1, ExclusiveOrdered DEF EnsureRoom
  <1>2. ASSUME NEW r \in Rooms, op \in GrantPeer(r)
        PROVE  op \in Seq(Steps) /\ Ordered(op) /\ Opens(op)
    <2>1. op = Exclusive(r) \o Exclusive(r)
      BY <1>2 DEF GrantPeer
    <2>2. QED
      BY <1>0, <2>1, ExclusiveOrdered, OrderedConcat
  <1>3. ASSUME op \in Search
        PROVE  op \in Seq(Steps) /\ Ordered(op) /\ Opens(op)
    <2>1. PICK o \in Searched : op = Shared(Hub, Each(o, "lock", "unlock"))
      BY <1>3 DEF Search
    <2>2. o \in Seq(Rooms)
      <3>1. PICK S \in SUBSET Rooms : o \in SetToSeqs(S)
        BY DEF Searched
      <3>2. QED
        BY <1>0, <3>1, InAnyOrder
    <2>3. QED
      BY <1>0, <2>1, <2>2, EachOrdered, SharedOrdered
  <1>4. ASSUME NEW r \in Rooms, op \in TellRoom(r)
        PROVE  op \in Seq(Steps) /\ Ordered(op) /\ Opens(op)
    <2>0. PICK S \in SUBSET Members(r) : \E o \in SetToSeqs(S) : op = Shared(r, Writes(o))
      BY <1>4 DEF TellRoom
    <2>1. PICK o \in SetToSeqs(S) : op = Shared(r, Writes(o))
      BY <2>0
    <2>2. o \in Seq(Members(r))
      BY <1>0, <2>1, InAnyOrder
    <2>3. QED
      BY <1>0, <2>1, <2>2, WritesOrdered, SharedOrdered
  <1>5. ASSUME NEW p \in Peers, op = Shared(RoomOf[p], <<>>) \o Write(p)
        PROVE  op \in Seq(Steps) /\ Ordered(op) /\ Opens(op)
    <2>1. RoomOf[p] \in Locks
      BY <1>0
    <2>2. QED
      BY <1>5, <2>1, LookOrdered, WriteOrdered, OrderedConcat
  <1>6. ASSUME op \in AllPeers \union RenderRooms
        PROVE  op \in Seq(Steps) /\ Ordered(op) /\ Opens(op)
    <2>1. PICK o \in SetToSeqs(Rooms) :
              \/ op = Shared(Hub, Each(o, "rlock", "runlock"))
              \/ op = Shared(Hub, <<>>) \o Each(o, "rlock", "runlock")
      BY <1>6 DEF AllPeers, RenderRooms
    <2>2. o \in Seq(Rooms)
      BY <1>0, <2>1, InAnyOrder
    <2>3. CASE op = Shared(Hub, Each(o, "rlock", "runlock"))
      BY <1>0, <2>2, <2>3, EachOrdered, SharedOrdered
    <2>4. CASE op = Shared(Hub, <<>>) \o Each(o, "rlock", "runlock")
      BY <1>0, <2>2, <2>4, LookOrdered, EachOrdered, OrderedConcat
    <2>5. QED
      BY <2>1, <2>3, <2>4
  <1>7. \/ op \in EnsureRoom \/ op \in Search \/ op \in AllPeers \union RenderRooms
        \/ \E r \in Rooms : op \in GrantPeer(r) \/ op \in TellRoom(r)
        \/ \E p \in Peers : op \in SendRoomMembers(p) \/ op \in Route(p)
    <2>1. \/ op \in EnsureRoom \/ op \in ReleasePeer \/ op \in AttachPacketStream
          \/ op \in AllPeers \/ op \in RenderRooms
          \/ \E r \in Rooms : op \in GrantPeer(r) \/ op \in NotifyJoin(r) \/ op \in Broadcast(r)
          \/ \E p \in Peers : op \in SendRoomMembers(p) \/ op \in Route(p)
      BY DEF Operations
    <2>2. QED
      BY <2>1 DEF ReleasePeer, AttachPacketStream, NotifyJoin, Broadcast
  <1>8. \A p \in Peers : op \in SendRoomMembers(p) \/ op \in Route(p) =>
            op = Shared(RoomOf[p], <<>>) \o Write(p)
    BY DEF SendRoomMembers, Route
  <1>9. QED
    BY <1>1, <1>2, <1>3, <1>4, <1>5, <1>6, <1>7, <1>8

-----------------------------------------------------------------------------
(* The invariant is inductive *)

\* What the first step of an ordered sequence says of the rest.
LEMMA HeadFacts ==
    ASSUME NEW s \in Seq(Steps), s # <<>>, Ordered(s)
    PROVE  /\ Head(s).act = "lock" =>
                  Tail(s) # <<>> /\ Head(Tail(s)) = [act |-> "unlock", on |-> Head(s).on]
           /\ Head(s).act = "rlock" => Closes(Tail(s), 1, Head(s).on)
           /\ \A l : Closes(s, 1, l) =>
                  \/ Head(s) = [act |-> "runlock", on |-> l]
                  \/ Allowed(l, Head(s)) /\ Closes(Tail(s), 1, l)
           /\ Tail(s) # <<>> /\ Head(Tail(s)).act = "unlock" => Head(s).act = "lock"
  <1>1. Tail(s) \in Seq(Steps) /\ Head(s) = s[1] /\ 1 \in DOMAIN s
    BY TailFacts
  <1>2. Tail(s) # <<>> => Head(Tail(s)) = s[2] /\ 2 \in DOMAIN s
    <2>1. Tail(s) # <<>> => 1 \in DOMAIN Tail(s) /\ Head(Tail(s)) = Tail(s)[1]
      BY <1>1
    <2>2. QED
      BY <2>1, TailFacts
  <1>3. 2 \in DOMAIN s => Tail(s) # <<>>
    <2>1. ASSUME 2 \in DOMAIN s PROVE DOMAIN Tail(s) # {}
      BY <2>1, TailFacts
    <2>2. Tail(s) = <<>> => DOMAIN Tail(s) = {}
      OBVIOUS
    <2>3. QED
      BY <2>1, <2>2
  <1>4. /\ s[1].act = "rlock" => Closes(s, 1 + 1, s[1].on)
        /\ s[1].act = "lock" => 2 \in DOMAIN s /\ s[2] = [act |-> "unlock", on |-> s[1].on]
        /\ 2 \in DOMAIN s /\ s[2].act = "unlock" => s[1].act = "lock"
    <2>1. 1 + 1 = 2
      OBVIOUS
    <2>2. QED
      BY <1>1, <2>1 DEF Ordered
  <1>5. \A l : Closes(s, 1 + 1, l) => Closes(Tail(s), 1, l)
    BY ClosesTail
  <1>6. ASSUME NEW l, Closes(s, 1, l), s[1] # [act |-> "runlock", on |-> l]
        PROVE  Allowed(l, s[1]) /\ Closes(s, 1 + 1, l)
    <2>1. PICK j \in DOMAIN s :
              /\ 1 <= j /\ s[j] = [act |-> "runlock", on |-> l]
              /\ \A k \in 1..(j - 1) : Allowed(l, s[k])
      BY <1>6 DEF Closes
    <2>2. j \in Nat /\ 1 + 1 <= j /\ 1 \in 1..(j - 1)
      BY <1>6, <2>1
    <2>3. \A k \in (1 + 1)..(j - 1) : k \in 1..(j - 1)
      BY <2>2
    <2>4. QED
      BY <2>1, <2>2, <2>3 DEF Closes
  <1>7. QED
    BY <1>1, <1>2, <1>3, <1>4, <1>5, <1>6

LEMMA StepIs ==
    ASSUME NEW s \in Seq(Steps), s # <<>>, NEW a, NEW l
    PROVE  Head(s) = [act |-> a, on |-> l] <=> Head(s).act = a /\ Head(s).on = l
  <1>1. Head(s) \in Steps
    OBVIOUS
  <1>2. \A x \in Steps : x = [act |-> a, on |-> l] <=> x.act = a /\ x.on = l
    BY DEF Steps
  <1>3. QED
    BY <1>1, <1>2

LEMMA NextFacts ==
    ASSUME LocksTypeOK, NEW w \in Workers, NEW a, NEW l
    PROVE  Next1(w, a, l) <=> todo[w] # <<>> /\ Head(todo[w]).act = a /\ Head(todo[w]).on = l
  <1>1. todo[w] \in Seq(Steps)
    BY DEF LocksTypeOK
  <1>2. QED
    BY <1>1, StepIs DEF Next1

\* What the invariant says of the next step of who holds a lock, or waits for it.
LEMMA HeldFacts ==
    ASSUME LockInv, NEW w \in Workers, NEW l \in Locks
    PROVE  /\ w \in readers[l] =>
                  /\ todo[w] # <<>>
                  /\ \/ Head(todo[w]).act = "runlock" /\ Head(todo[w]).on = l
                     \/ Allowed(l, Head(todo[w])) /\ Closes(Tail(todo[w]), 1, l)
           /\ w \in parked[l] =>
                  todo[w] # <<>> /\ Head(todo[w]).act = "rlock" /\ Head(todo[w]).on = l
           /\ writer[l] = w =>
                  /\ todo[w] # <<>> /\ Head(todo[w]).on = l
                  /\ Head(todo[w]).act = "lock" \/ Head(todo[w]).act = "unlock"
  <1>1. todo[w] \in Seq(Steps) /\ Ordered(todo[w]) /\ LocksTypeOK
    BY DEF LockInv, LocksTypeOK, OrderInv
  <1>2. /\ w \in readers[l] => Closes(todo[w], 1, l)
        /\ w \in parked[l] => Next1(w, "rlock", l)
        /\ writer[l] = w => Next1(w, "lock", l) \/ Next1(w, "unlock", l)
    BY DEF LockInv, HoldInv
  <1>3. ASSUME Closes(todo[w], 1, l)
        PROVE  /\ todo[w] # <<>>
               /\ \/ Head(todo[w]).act = "runlock" /\ Head(todo[w]).on = l
                  \/ Allowed(l, Head(todo[w])) /\ Closes(Tail(todo[w]), 1, l)
    <2>1. todo[w] # <<>>
      <3>1. DOMAIN todo[w] # {}
        BY <1>3 DEF Closes
      <3>2. QED
        BY <3>1
    <2>2. \/ Head(todo[w]) = [act |-> "runlock", on |-> l]
          \/ Allowed(l, Head(todo[w])) /\ Closes(Tail(todo[w]), 1, l)
      BY <1>1, <1>3, <2>1, HeadFacts
    <2>3. QED
      BY <2>1, <2>2
  <1>4. QED
    BY <1>1, <1>2, <1>3, NextFacts

\* And of the step after.
LEMMA RestFacts ==
    ASSUME LockInv, NEW w \in Workers, todo[w] # <<>>
    PROVE  /\ Head(todo[w]).act = "lock" =>
                  /\ Tail(todo[w]) # <<>>
                  /\ Head(Tail(todo[w])).act = "unlock"
                  /\ Head(Tail(todo[w])).on = Head(todo[w]).on
           /\ Head(todo[w]).act = "rlock" => Closes(Tail(todo[w]), 1, Head(todo[w]).on)
           /\ Tail(todo[w]) # <<>> /\ Head(Tail(todo[w])).act = "unlock" =>
                  Head(todo[w]).act = "lock"
  <1>1. todo[w] \in Seq(Steps) /\ Ordered(todo[w])
    BY DEF LockInv, LocksTypeOK, OrderInv
  <1>2. \A s : s = [act |-> "unlock", on |-> Head(todo[w]).on] =>
            s.act = "unlock" /\ s.on = Head(todo[w]).on
    OBVIOUS
  <1>3. QED
    BY <1>1, <1>2, HeadFacts

LEMMA DoneFacts ==
    ASSUME LocksTypeOK, OrderInv, NEW S \in SUBSET Workers, \A w \in S : todo[w] # <<>>, Done(S)
    PROVE  /\ todo' \in [Workers -> Seq(Steps)] /\ OrderInv'
           /\ \A w \in Workers \ S : todo'[w] = todo[w]
           /\ \A w \in S : todo'[w] = Tail(todo[w])
  <1>1. \A w \in S : Tail(todo[w]) \in Seq(Steps) /\ Ordered(Tail(todo[w]))
    BY TailFacts, OrderedTail DEF LocksTypeOK, OrderInv
  <1>2. todo' = [w \in Workers |-> IF w \in S THEN Tail(todo[w]) ELSE todo[w]]
    BY DEF Done
  <1>3. \A w \in Workers : todo[w] \in Seq(Steps) /\ Ordered(todo[w])
    BY DEF LocksTypeOK, OrderInv
  <1>4. QED
    BY <1>1, <1>2, <1>3 DEF OrderInv

LEMMA LockInit == Init => LockInv
  <1> SUFFICES ASSUME Init PROVE LockInv
    OBVIOUS
  <1>1. LocksTypeOK
    BY DEF Init, LocksTypeOK
  <1>2. OrderInv
    BY EmptyOrdered DEF Init, OrderInv
  <1>3. HoldInv
    BY HubLocksAssumption DEF Init, HoldInv
  <1>4. ExclusionInv
    BY DEF Init, ExclusionInv, Next1
  <1>5. QED
    BY <1>1, <1>2, <1>3, <1>4 DEF LockInv

LEMMA BeginStep ==
    ASSUME LockInv, NEW w \in Workers, Begin(w)
    PROVE  LockInv'
  <1>1. PICK op \in Operations : todo' = [todo EXCEPT ![w] = op]
    BY DEF Begin
  <1>2. op \in Seq(Steps) /\ Ordered(op) /\ Opens(op)
    BY OperationsOrdered
  <1>3. todo[w] = <<>> /\ UNCHANGED <<readers, parked, writer, stalled>>
    BY DEF Begin
  <1>4. todo'[w] = op /\ \A v \in Workers : v # w => todo'[v] = todo[v]
    BY <1>1 DEF LockInv, LocksTypeOK
  <1>5. LocksTypeOK'
    BY <1>1, <1>2, <1>3 DEF LockInv, LocksTypeOK
  <1>6. OrderInv'
    BY <1>2, <1>4 DEF LockInv, OrderInv
  <1>7. \A l \in Locks : w \notin readers[l] /\ w \notin parked[l] /\ writer[l] # w
    <2>1. \A l \in Locks : ~Closes(todo[w], 1, l)
      BY <1>3 DEF Closes
    <2>2. QED
      BY <1>3, <2>1 DEF LockInv, HoldInv, Next1
  <1>8. HoldInv'
    BY <1>3, <1>4, <1>7 DEF LockInv, HoldInv, Next1
  <1>9. ExclusionInv'
    <2>1. \A l \in Locks : ~Next1(w, "unlock", l)'
      <3>1. op # <<>> => Head(op) = op[1]
        BY <1>2
      <3>2. QED
        BY <1>2, <1>4, <3>1 DEF Next1, Opens
    <2>2. QED
      BY <1>3, <1>4, <2>1 DEF LockInv, ExclusionInv, Next1
  <1>10. QED
    BY <1>5, <1>6, <1>8, <1>9 DEF LockInv

LEMMA AnnounceStep ==
    ASSUME LockInv, NEW w \in Workers, NEW l \in Locks, Announce(w, l)
    PROVE  LockInv'
  <1>1. LocksTypeOK' /\ OrderInv'
    BY DEF LockInv, LocksTypeOK, OrderInv, Announce
  <1>2. HoldInv'
    BY DEF LockInv, LocksTypeOK, HoldInv, Announce, Next1
  <1>3. ExclusionInv'
    BY HubLocksAssumption DEF LockInv, LocksTypeOK, ExclusionInv, Announce, Next1
  <1>4. QED
    BY <1>1, <1>2, <1>3 DEF LockInv

LEMMA LockStep ==
    ASSUME LockInv, NEW w \in Workers, NEW l \in Locks, Lock(w, l)
    PROVE  LockInv'
  <1>0. LocksTypeOK
    BY DEF LockInv
  <1>1. /\ todo[w] # <<>> /\ Head(todo[w]).act = "lock" /\ Head(todo[w]).on = l
        /\ writer[l] = w /\ readers[l] = {}
        /\ Done({w}) /\ UNCHANGED <<readers, parked, writer, stalled>>
    BY <1>0, NextFacts DEF Lock
  <1>2. /\ todo' \in [Workers -> Seq(Steps)] /\ OrderInv'
        /\ \A v \in Workers \ {w} : todo'[v] = todo[v]
        /\ todo'[w] = Tail(todo[w])
    BY <1>1, DoneFacts DEF LockInv
  <1>3. LocksTypeOK'
    BY <1>1, <1>2 DEF LockInv, LocksTypeOK
  <1>4. todo'[w] # <<>> /\ Head(todo'[w]).act = "unlock" /\ Head(todo'[w]).on = l
    BY <1>1, <1>2, RestFacts
  <1>5. \A v \in Workers : \A a, m : v # w => (Next1(v, a, m)' <=> Next1(v, a, m))
    BY <1>2 DEF Next1
  <1>6. \A a, m : Next1(w, a, m)' <=> a = "unlock" /\ m = l
    <2>1. ASSUME NEW a, NEW m PROVE Next1(w, a, m)' <=> a = "unlock" /\ m = l
      <3>1. Next1(w, a, m)' <=>
                todo'[w] # <<>> /\ Head(todo'[w]).act = a /\ Head(todo'[w]).on = m
        <4>1. todo'[w] \in Seq(Steps)
          BY <1>2
        <4>2. todo'[w] # <<>> =>
                  (Head(todo'[w]) = [act |-> a, on |-> m] <=>
                      Head(todo'[w]).act = a /\ Head(todo'[w]).on = m)
          BY <4>1, StepIs
        <4>3. QED
          BY <4>2 DEF Next1
      <3>2. QED
        BY <1>4, <3>1
    <2>2. QED
      BY <2>1
  <1>7. HoldInv'
    <2> SUFFICES ASSUME NEW m \in Locks, NEW v \in Workers
                 PROVE  /\ v \in readers[m] => Closes(todo'[v], 1, m)
                        /\ v \in parked[m] => Next1(v, "rlock", m)'
                        /\ writer[m] = v => Next1(v, "lock", m)' \/ Next1(v, "unlock", m)'
      BY <1>1 DEF HoldInv
    <2>1. CASE v # w
      BY <1>2, <1>5, <2>1 DEF LockInv, HoldInv
    <2>2. CASE v = w
      <3>1. w \in readers[m] => Closes(Tail(todo[w]), 1, m)
        BY <1>1, HeldFacts
      <3>2. v \notin parked[m]
        BY <1>1, <2>2, HeldFacts
      <3>3. writer[m] = v => Next1(v, "unlock", m)'
        BY <1>1, <1>6, <2>2, HeldFacts
      <3>4. QED
        BY <1>2, <2>2, <3>1, <3>2, <3>3
    <2>3. QED
      BY <2>1, <2>2
  <1>8. ExclusionInv'
    <2> SUFFICES ASSUME NEW m \in Locks, NEW v \in Workers, Next1(v, "unlock", m)'
                 PROVE  writer[m] = v /\ readers[m] = {}
      BY <1>1 DEF ExclusionInv
    <2>1. QED
      BY <1>1, <1>5, <1>6 DEF LockInv, ExclusionInv
  <1>9. QED
    BY <1>2, <1>3, <1>7, <1>8 DEF LockInv

\* Nobody comes to an unlock but by a lock.
LEMMA NoUnlockNext ==
    ASSUME LockInv, NEW v \in Workers, todo[v] # <<>>, Head(todo[v]).act # "lock",
           todo'[v] = Tail(todo[v]), NEW m
    PROVE  ~Next1(v, "unlock", m)'
  <1>1. Tail(todo[v]) # <<>> => Head(Tail(todo[v])).act # "unlock"
    BY RestFacts
  <1>2. Next1(v, "unlock", m)' <=>
            todo'[v] # <<>> /\ Head(todo'[v]) = [act |-> "unlock", on |-> m]
    BY DEF Next1
  <1>3. \A x : x = [act |-> "unlock", on |-> m] => x.act = "unlock"
    OBVIOUS
  <1>4. QED
    BY <1>1, <1>2, <1>3

LEMMA UnlockStep ==
    ASSUME LockInv, NEW w \in Workers, NEW l \in Locks, Unlock(w, l)
    PROVE  LockInv'
  <1> DEFINE S == {w} \union parked[l]
  <1>0. LocksTypeOK
    BY DEF LockInv
  <1>1. /\ todo[w] # <<>> /\ Head(todo[w]).act = "unlock" /\ Head(todo[w]).on = l
        /\ writer' = [writer EXCEPT ![l] = Nobody]
        /\ readers' = [readers EXCEPT ![l] = parked[l]]
        /\ parked' = [parked EXCEPT ![l] = {}]
        /\ Done(S) /\ stalled' = stalled
    BY <1>0, NextFacts DEF Unlock
  <1>2. S \in SUBSET Workers
    BY <1>0 DEF LocksTypeOK
  <1>3. \A v \in parked[l] :
            todo[v] # <<>> /\ Head(todo[v]).act = "rlock" /\ Head(todo[v]).on = l
    BY <1>2, HeldFacts
  <1>4. \A v \in S : /\ todo[v] # <<>> /\ Head(todo[v]).on = l
                     /\ Head(todo[v]).act \in {"unlock", "rlock"}
    BY <1>1, <1>3
  <1>5. /\ todo' \in [Workers -> Seq(Steps)] /\ OrderInv'
        /\ \A v \in Workers \ S : todo'[v] = todo[v]
        /\ \A v \in S : todo'[v] = Tail(todo[v])
    BY <1>1, <1>2, <1>4, DoneFacts DEF LockInv
  <1>6. writer[l] = w /\ readers[l] = {}
    <2>1. Next1(w, "unlock", l)
      BY DEF Unlock
    <2>2. QED
      BY <2>1 DEF LockInv, ExclusionInv
  <1> HIDE DEF S
  <1>7. LocksTypeOK'
    BY <1>0, <1>1, <1>5 DEF LocksTypeOK
  <1>8. \A v \in Workers \ S : \A a, m : Next1(v, a, m)' <=> Next1(v, a, m)
    BY <1>5 DEF Next1
  <1>9. \A v \in S : \A m : ~Next1(v, "unlock", m)'
    BY <1>2, <1>4, <1>5, NoUnlockNext
  <1>10. HoldInv'
    <2> SUFFICES ASSUME NEW m \in Locks, NEW v \in Workers
                 PROVE  /\ v \in readers'[m] => Closes(todo'[v], 1, m)
                        /\ v \in parked'[m] => Next1(v, "rlock", m)'
                        /\ writer'[m] = v => Next1(v, "lock", m)' \/ Next1(v, "unlock", m)'
      BY DEF HoldInv
    <2>0. /\ m = l => readers'[m] = parked[l] /\ parked'[m] = {} /\ writer'[m] = Nobody
          /\ m # l => /\ readers'[m] = readers[m] /\ parked'[m] = parked[m]
                      /\ writer'[m] = writer[m]
      BY <1>0, <1>1 DEF LocksTypeOK
    <2>1. v \in readers'[m] => Closes(todo'[v], 1, m)
      <3>1. CASE m = l
        <4>1. ASSUME v \in parked[l] PROVE Closes(Tail(todo[v]), 1, l) /\ v \in S
          BY <1>3, <4>1, RestFacts DEF S
        <4>2. QED
          BY <1>5, <2>0, <3>1, <4>1
      <3>2. CASE m # l
        <4>1. CASE v \in S
          <5>1. v \in readers[m] => Closes(Tail(todo[v]), 1, m)
            BY <1>4, <4>1, HeldFacts
          <5>2. QED
            BY <1>5, <2>0, <3>2, <4>1, <5>1
        <4>2. CASE v \notin S
          BY <1>5, <2>0, <3>2, <4>2 DEF LockInv, HoldInv
        <4>3. QED
          BY <4>1, <4>2
      <3>3. QED
        BY <3>1, <3>2
    <2>2. v \in parked[m] \/ writer[m] = v => Head(todo[v]).on = m
      BY HeldFacts
    <2>3. CASE m # l /\ (v \in parked[m] \/ writer[m] = v)
      <3>1. v \notin S
        BY <1>4, <2>2, <2>3
      <3>2. QED
        BY <1>8, <2>0, <2>1, <2>3, <3>1 DEF LockInv, HoldInv
    <2>4. CASE ~(m # l /\ (v \in parked[m] \/ writer[m] = v))
      <3>1. v # Nobody
        BY HubLocksAssumption
      <3>2. QED
        BY <2>0, <2>1, <2>4, <3>1
    <2>5. QED
      BY <2>3, <2>4
  <1>11. ExclusionInv'
    <2> SUFFICES ASSUME NEW m \in Locks, NEW v \in Workers, Next1(v, "unlock", m)'
                 PROVE  writer'[m] = v /\ readers'[m] = {}
      BY DEF ExclusionInv
    <2>1. v \notin S
      BY <1>9
    <2>2. Next1(v, "unlock", m)
      BY <1>8, <2>1
    <2>3. writer[m] = v /\ readers[m] = {}
      BY <2>2 DEF LockInv, ExclusionInv
    <2>4. m # l
      BY <1>6, <2>1, <2>3 DEF S
    <2>5. QED
      BY <1>1, <2>3, <2>4
  <1>12. QED
    BY <1>5, <1>7, <1>10, <1>11 DEF LockInv

LEMMA RLockStep ==
    ASSUME LockInv, NEW w \in Workers, NEW l \in Locks, RLock(w, l)
    PROVE  LockInv'
  <1>0. LocksTypeOK
    BY DEF LockInv
  <1>1. /\ todo[w] # <<>> /\ Head(todo[w]).act = "rlock" /\ Head(todo[w]).on = l
        /\ Next1(w, "rlock", l) /\ UNCHANGED <<writer, stalled>>
    BY <1>0, NextFacts DEF RLock
  <1>2. CASE writer[l] = Nobody
    <2>1. /\ readers' = [readers EXCEPT ![l] = @ \union {w}]
          /\ Done({w}) /\ UNCHANGED parked
      BY <1>2 DEF RLock
    <2>2. /\ todo' \in [Workers -> Seq(Steps)] /\ OrderInv'
          /\ \A v \in Workers \ {w} : todo'[v] = todo[v]
          /\ todo'[w] = Tail(todo[w])
      BY <1>1, <2>1, DoneFacts DEF LockInv
    <2>3. LocksTypeOK'
      BY <1>0, <1>1, <2>1, <2>2 DEF LocksTypeOK
    <2>4. \A v \in Workers : \A a, m : v # w => (Next1(v, a, m)' <=> Next1(v, a, m))
      BY <2>2 DEF Next1
    <2>5. HoldInv'
      <3> SUFFICES ASSUME NEW m \in Locks, NEW v \in Workers
                   PROVE  /\ v \in readers'[m] => Closes(todo'[v], 1, m)
                          /\ v \in parked'[m] => Next1(v, "rlock", m)'
                          /\ writer'[m] = v => Next1(v, "lock", m)' \/ Next1(v, "unlock", m)'
        BY DEF HoldInv
      <3>1. v \in readers'[m] => v \in readers[m] \/ (v = w /\ m = l)
        BY <1>0, <2>1 DEF LocksTypeOK
      <3>2. CASE v # w
        BY <1>1, <2>1, <2>2, <2>4, <3>1, <3>2 DEF LockInv, HoldInv
      <3>3. CASE v = w
        <4>1. w \in readers[m] => Closes(Tail(todo[w]), 1, m)
          BY <1>1, HeldFacts
        <4>2. Closes(Tail(todo[w]), 1, l)
          BY <1>1, RestFacts
        <4>3. w \notin parked[m]
          <5>1. w \notin parked[l]
            BY DEF RLock
          <5>2. QED
            BY <1>1, <5>1, HeldFacts
        <4>4. writer[m] # w
          BY <1>1, HeldFacts
        <4>5. QED
          BY <1>1, <2>1, <2>2, <3>1, <3>3, <4>1, <4>2, <4>3, <4>4
      <3>4. QED
        BY <3>2, <3>3
    <2>6. ExclusionInv'
      <3> SUFFICES ASSUME NEW m \in Locks, NEW v \in Workers, Next1(v, "unlock", m)'
                   PROVE  writer'[m] = v /\ readers'[m] = {}
        BY DEF ExclusionInv
      <3>1. v # w
        BY <1>1, <2>2, NoUnlockNext
      <3>2. writer[m] = v /\ readers[m] = {}
        BY <2>4, <3>1 DEF LockInv, ExclusionInv
      <3>3. m # l
        BY <1>2, <3>2, HubLocksAssumption
      <3>4. QED
        BY <1>1, <2>1, <3>2, <3>3
    <2>7. QED
      BY <2>2, <2>3, <2>5, <2>6 DEF LockInv
  <1>3. CASE writer[l] # Nobody
    <2>1. /\ parked' = [parked EXCEPT ![l] = @ \union {w}]
          /\ UNCHANGED <<readers, todo>>
      BY <1>3 DEF RLock
    <2>2. LocksTypeOK' /\ OrderInv'
      BY <1>1, <2>1 DEF LockInv, LocksTypeOK, OrderInv
    <2>3. \A v, a, m : Next1(v, a, m)' <=> Next1(v, a, m)
      BY <2>1 DEF Next1
    <2>4. HoldInv' /\ ExclusionInv'
      <3>1. \A m \in Locks : \A v \in parked'[m] : v \in parked[m] \/ (v = w /\ m = l)
        BY <1>0, <2>1 DEF LocksTypeOK
      <3>2. QED
        BY <1>1, <2>1, <2>3, <3>1 DEF LockInv, HoldInv, ExclusionInv
    <2>5. QED
      BY <2>2, <2>4 DEF LockInv
  <1>4. QED
    BY <1>2, <1>3

\* A read lock let go, or a peer written to.
LEMMA OwnStep ==
    ASSUME LockInv, NEW w \in Workers, todo[w] # <<>>,
           Head(todo[w]).act = "runlock" \/ Head(todo[w]).act = "write",
           Done({w}), UNCHANGED <<parked, writer, stalled>>,
           readers' \in [Locks -> SUBSET Workers],
           \A m \in Locks : readers'[m] \subseteq readers[m],
           \A m \in Locks : Head(todo[w]).act = "runlock" /\ Head(todo[w]).on = m =>
                              w \notin readers'[m]
    PROVE  LockInv'
  <1>1. /\ todo' \in [Workers -> Seq(Steps)] /\ OrderInv'
        /\ \A v \in Workers \ {w} : todo'[v] = todo[v]
        /\ todo'[w] = Tail(todo[w])
    BY DoneFacts DEF LockInv
  <1>2. LocksTypeOK'
    BY <1>1 DEF LockInv, LocksTypeOK
  <1>3. \A v \in Workers : \A a, m : v # w => (Next1(v, a, m)' <=> Next1(v, a, m))
    BY <1>1 DEF Next1
  <1>4. HoldInv'
    <2> SUFFICES ASSUME NEW m \in Locks, NEW v \in Workers
                 PROVE  /\ v \in readers'[m] => Closes(todo'[v], 1, m)
                        /\ v \in parked[m] => Next1(v, "rlock", m)'
                        /\ writer[m] = v => Next1(v, "lock", m)' \/ Next1(v, "unlock", m)'
      BY DEF HoldInv
    <2>1. v \in readers'[m] => v \in readers[m]
      OBVIOUS
    <2>2. CASE v # w
      BY <1>1, <1>3, <2>1, <2>2 DEF LockInv, HoldInv
    <2>3. CASE v = w
      <3>1. w \in readers'[m] => Closes(Tail(todo[w]), 1, m)
        BY <2>1, <2>3, HeldFacts
      <3>2. w \notin parked[m] /\ writer[m] # w
        BY HeldFacts
      <3>3. QED
        BY <1>1, <2>3, <3>1, <3>2
    <2>4. QED
      BY <2>2, <2>3
  <1>5. ExclusionInv'
    <2> SUFFICES ASSUME NEW m \in Locks, NEW v \in Workers, Next1(v, "unlock", m)'
                 PROVE  writer[m] = v /\ readers'[m] = {}
      BY DEF ExclusionInv
    <2>1. v # w
      BY <1>1, NoUnlockNext
    <2>2. writer[m] = v /\ readers[m] = {}
      BY <1>3, <2>1 DEF LockInv, ExclusionInv
    <2>3. QED
      BY <2>2
  <1>6. QED
    BY <1>1, <1>2, <1>4, <1>5 DEF LockInv

LEMMA RUnlockStep ==
    ASSUME LockInv, NEW w \in Workers, NEW l \in Locks, RUnlock(w, l)
    PROVE  LockInv'
  <1>0. LocksTypeOK
    BY DEF LockInv
  <1>1. /\ todo[w] # <<>> /\ Head(todo[w]).act = "runlock" /\ Head(todo[w]).on = l
        /\ readers' = [readers EXCEPT ![l] = @ \ {w}]
        /\ Done({w}) /\ UNCHANGED <<parked, writer, stalled>>
    BY <1>0, NextFacts DEF RUnlock
  <1>2. /\ readers' \in [Locks -> SUBSET Workers]
        /\ \A m \in Locks : readers'[m] \subseteq readers[m]
        /\ w \notin readers'[l]
    BY <1>0, <1>1 DEF LocksTypeOK
  <1>3. QED
    BY <1>1, <1>2, OwnStep

LEMMA WriteStep ==
    ASSUME LockInv, NEW w \in Workers, NEW p \in Peers, WriteTo(w, p)
    PROVE  LockInv'
  <1>0. LocksTypeOK
    BY DEF LockInv
  <1>1. /\ todo[w] # <<>> /\ Head(todo[w]).act = "write"
        /\ Done({w}) /\ UNCHANGED <<readers, parked, writer, stalled>>
    BY <1>0, NextFacts DEF WriteTo
  <1>2. readers' \in [Locks -> SUBSET Workers]
    BY <1>0, <1>1 DEF LocksTypeOK
  <1>3. QED
    BY <1>1, <1>2, OwnStep

LEMMA SameLocks ==
    ASSUME LockInv, UNCHANGED <<todo, readers, parked, writer>>,
           stalled' \subseteq Peers
    PROVE  LockInv'
  <1>1. LocksTypeOK' /\ OrderInv'
    BY DEF LockInv, LocksTypeOK, OrderInv
  <1>2. HoldInv' /\ ExclusionInv'
    BY DEF LockInv, HoldInv, ExclusionInv, Next1
  <1>3. QED
    BY <1>1, <1>2 DEF LockInv

LEMMA LockNext == LockInv /\ [Next]_vars => LockInv'
  <1> SUFFICES ASSUME LockInv, [Next]_vars PROVE LockInv'
    OBVIOUS
  <1>1. CASE UNCHANGED vars
    BY <1>1, SameLocks DEF vars, LockInv, LocksTypeOK
  <1>2. ASSUME NEW p \in Peers, Stall(p) \/ Resume(p)
        PROVE  LockInv'
    BY <1>2, SameLocks DEF Stall, Resume, LockInv, LocksTypeOK
  <1>3. ASSUME NEW w \in Workers, Step(w)
        PROVE  LockInv'
    BY <1>3, LockStep, UnlockStep, RLockStep, RUnlockStep, WriteStep DEF Step
  <1>4. QED
    BY <1>1, <1>2, <1>3, BeginStep, AnnounceStep DEF Next

\* In every state, who holds a lock, for reading or writing, or waits for one,
\* has before it the steps that let it go, in the order of the two levels:
\* whatever it still takes or writes to is of the level below.
THEOREM LockInvariance == Spec => []LockInv
  <1>1. QED
    BY LockInit, LockNext, PTL DEF Spec

\* Every step of every goroutine is one of the five, of a lock or a peer that is.
THEOREM LocksTypeCorrect == Spec => []LocksTypeOK
  <1>1. LockInv => LocksTypeOK
    BY DEF LockInv
  <1>2. QED
    BY <1>1, LockInvariance, PTL

\* Who has locked a room or the hub for writing is alone in it: what VpnHub and
\* VpnRouting do in one step under a lock, nobody sees half done.
THEOREM LocksExcludeOthers == Spec => []LocksExclude
  <1>1. LockInv => LocksExclude
    BY DEF LockInv, LocksTypeOK, ExclusionInv, LocksExclude
  <1>2. QED
    BY <1>1, LockInvariance, PTL

-----------------------------------------------------------------------------
(* Who waits for whom *)

\* w is at lock l, which v has to let go of first.
WaitsAt(w, v, l) ==
    \/ Next1(w, "lock", l) /\ writer[l] = w /\ v \in readers[l]
    \/ Next1(w, "lock", l) /\ writer[l] = v /\ v # w
    \/ w \in parked[l] /\ writer[l] = v

LEMMA WaitingHead ==
    ASSUME LockInv, NEW w \in Workers, NEW v, NEW l \in Locks, WaitsAt(w, v, l)
    PROVE  /\ todo[w] # <<>> /\ Head(todo[w]).on = l
           /\ Head(todo[w]).act = "lock" \/ Head(todo[w]).act = "rlock"
           /\ v \in readers[l] \/ writer[l] = v
  <1>1. LocksTypeOK
    BY DEF LockInv
  <1>2. Next1(w, "lock", l) =>
            todo[w] # <<>> /\ Head(todo[w]).act = "lock" /\ Head(todo[w]).on = l
    BY <1>1, NextFacts
  <1>3. QED
    BY <1>2, HeldFacts DEF WaitsAt

\* A reader waits only with the hub's lock, for a room's; with a room's, it
\* writes to a member, or lets go.
LEMMA ReaderGoesDown ==
    ASSUME LockInv, NEW v \in Workers, NEW l \in Locks, v \in readers[l]
    PROVE  /\ \A u : \A m \in Locks : WaitsAt(v, u, m) => l = Hub /\ m \in Rooms
           /\ l # Hub => \A p \in Peers : Next1(v, "write", p) => p \in Members(l)
  <1>1. LocksTypeOK
    BY DEF LockInv
  <1>2. \/ Head(todo[v]).act = "runlock"
        \/ Allowed(l, Head(todo[v]))
    BY HeldFacts
  <1>3. ASSUME NEW u, NEW m \in Locks, WaitsAt(v, u, m)
        PROVE  l = Hub /\ m \in Rooms
    <2>1. /\ Head(todo[v]).on = m
          /\ Head(todo[v]).act = "lock" \/ Head(todo[v]).act = "rlock"
      BY <1>3, WaitingHead
    <2>2. QED
      BY <1>2, <2>1 DEF Allowed
  <1>4. ASSUME l # Hub, NEW p \in Peers, Next1(v, "write", p)
        PROVE  p \in Members(l)
    <2>1. Head(todo[v]).act = "write" /\ Head(todo[v]).on = p
      BY <1>1, <1>4, NextFacts
    <2>2. QED
      BY <1>2, <1>4, <2>1 DEF Allowed
  <1>5. QED
    BY <1>3, <1>4

\* A writer that waits for its turn has taken nothing else: it waits for the
\* readers, and writes to nobody.
LEMMA WriterWaitsForReaders ==
    ASSUME LockInv, NEW v \in Workers, NEW l \in Locks, writer[l] = v
    PROVE  /\ \A u : \A m \in Locks : WaitsAt(v, u, m) => m = l /\ u \in readers[l]
           /\ \A p \in Peers : ~Next1(v, "write", p)
  <1>1. LocksTypeOK
    BY DEF LockInv
  <1>2. /\ Head(todo[v]).on = l
        /\ Head(todo[v]).act = "lock" \/ Head(todo[v]).act = "unlock"
    BY HeldFacts
  <1>3. ASSUME NEW u, NEW m \in Locks, WaitsAt(v, u, m)
        PROVE  m = l /\ u \in readers[l]
    <2>1. m = l
      BY <1>2, <1>3, WaitingHead
    <2>2. v \notin parked[l]
      BY <1>2, HeldFacts
    <2>3. QED
      BY <1>3, <2>1, <2>2 DEF WaitsAt
  <1>4. \A p \in Peers : ~Next1(v, "write", p)
    BY <1>1, <1>2, NextFacts
  <1>5. QED
    BY <1>3, <1>4

\* Among goroutines that all wait for one another, nobody is at a room's lock.
LEMMA NobodyAtARoom ==
    ASSUME LockInv, NEW S \in SUBSET Workers,
           \A w \in S : \E v \in S, l \in Locks : WaitsAt(w, v, l),
           NEW w \in S, NEW v \in S, NEW l \in Rooms, WaitsAt(w, v, l)
    PROVE  FALSE
  <1>1. l \in Locks /\ l # Hub
    BY HubLocksAssumption DEF Locks
  <1>2. ASSUME NEW u \in S, u \in readers[l]
        PROVE  FALSE
    <2>1. PICK x \in S, m \in Locks : WaitsAt(u, x, m)
      OBVIOUS
    <2>2. QED
      BY <1>1, <1>2, <2>1, ReaderGoesDown
  <1>3. writer[l] = v
    BY <1>1, <1>2, WaitingHead
  <1>4. PICK u \in S, m \in Locks : WaitsAt(v, u, m)
    OBVIOUS
  <1>5. u \in readers[l]
    BY <1>1, <1>3, <1>4, WriterWaitsForReaders
  <1>6. QED
    BY <1>2, <1>5

LEMMA NoCircle == LockInv => NoCircularWait
  <1> SUFFICES ASSUME LockInv, NEW S \in SUBSET Workers, S # {},
                      \A w \in S : \E v \in S : WaitsFor(w, v)
               PROVE  FALSE
    BY DEF NoCircularWait
  <1>1. \A w \in S : \E v \in S, l \in Locks : WaitsAt(w, v, l)
    BY DEF WaitsFor, WaitsAt
  <1>2. \A w \in S, v \in S, l \in Locks : WaitsAt(w, v, l) => l \notin Rooms
    BY <1>1, NobodyAtARoom
  <1>3. ASSUME NEW u \in S, NEW l \in Locks, u \in readers[l]
        PROVE  FALSE
    <2>1. PICK x \in S, m \in Locks : WaitsAt(u, x, m)
      BY <1>1
    <2>2. m \in Rooms
      BY <1>3, <2>1, ReaderGoesDown
    <2>3. QED
      BY <1>2, <2>1, <2>2
  <1>4. PICK w \in S : TRUE
    OBVIOUS
  <1>5. PICK v \in S, l \in Locks : WaitsAt(w, v, l)
    BY <1>1
  <1>6. writer[l] = v
    BY <1>3, <1>5, WaitingHead
  <1>7. PICK u \in S, m \in Locks : WaitsAt(v, u, m)
    BY <1>1
  <1>8. u \in readers[l]
    BY <1>6, <1>7, WriterWaitsForReaders
  <1>9. QED
    BY <1>3, <1>8

LEMMA OthersFree == LockInv => OtherRoomsGoOn
  <1> SUFFICES ASSUME LockInv, NEW r \in Rooms, NEW S \in SUBSET Workers,
                      stalled \intersect Members(r) = {}, HeldUp(S),
                      NEW w \in S, Within(w, r)
               PROVE  FALSE
    BY DEF OtherRoomsGoOn
  <1>0. /\ r \in Locks /\ r # Hub /\ LocksTypeOK
        /\ \A x \in Locks : x \notin Peers
    BY HubLocksAssumption DEF Locks, LockInv
  <1>1. \A u \in S : AtStalled(u) \/ \E v \in S, l \in Locks : WaitsAt(u, v, l)
    BY DEF HeldUp, WaitsFor, WaitsAt
  <1>2. todo[w] # <<>> /\ Head(todo[w]).on \in {r} \union Members(r)
    <2>1. todo[w] \in Seq(Steps) /\ todo[w] # <<>>
      BY <1>0 DEF LocksTypeOK, Within
    <2>2. 1 \in DOMAIN todo[w] /\ Head(todo[w]) = todo[w][1]
      BY <2>1, TailFacts
    <2>3. QED
      BY <2>1, <2>2 DEF Within
  <1>3. ASSUME NEW u \in S, u \in readers[r]
        PROVE  FALSE
    <2>1. ~AtStalled(u)
      BY <1>0, <1>3, ReaderGoesDown DEF AtStalled, LocksTypeOK
    <2>2. QED
      BY <1>0, <1>1, <1>3, <2>1, ReaderGoesDown
  <1>4. ~AtStalled(w)
    <2>1. ASSUME NEW p \in stalled, Next1(w, "write", p)
          PROVE  FALSE
      <3>1. p \in Peers /\ Head(todo[w]).on = p
        BY <1>0, <2>1, NextFacts DEF LocksTypeOK
      <3>2. p \in Members(r)
        BY <1>0, <1>2, <3>1
      <3>3. QED
        BY <3>2
    <2>2. QED
      BY <2>1 DEF AtStalled
  <1>5. PICK v \in S, l \in Locks : WaitsAt(w, v, l)
    BY <1>1, <1>4
  <1>6. l = r
    <2>1. Head(todo[w]).on = l /\ l \notin Peers
      BY <1>0, <1>5, WaitingHead
    <2>2. QED
      BY <1>2, <2>1 DEF Members
  <1>7. writer[r] = v
    BY <1>3, <1>5, <1>6, WaitingHead
  <1>8. ~AtStalled(v)
    BY <1>0, <1>7, WriterWaitsForReaders DEF AtStalled, LocksTypeOK
  <1>9. PICK u \in S, m \in Locks : WaitsAt(v, u, m)
    BY <1>1, <1>8
  <1>10. u \in readers[r]
    BY <1>0, <1>7, <1>9, WriterWaitsForReaders
  <1>11. QED
    BY <1>3, <1>10

\* No goroutines, however many, wait for one another in a circle at the locks of
\* the hub and the rooms.
THEOREM NobodyWaitsInACircle == Spec => []NoCircularWait
  <1>1. QED
    BY LockInvariance, NoCircle, PTL

\* A peer that does not read holds up, at any remove, nobody who has to do with
\* another room only.
THEOREM OtherRoomsUnaffected == Spec => []OtherRoomsGoOn
  <1>1. QED
    BY LockInvariance, OthersFree, PTL
====
