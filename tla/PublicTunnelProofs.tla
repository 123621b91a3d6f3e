------------------------- MODULE PublicTunnelProofs -------------------------
(***************************************************************************)
(* Proofs about PublicTunnel: what TcpRelay and UdpTunnel promise holds of *)
(* every public tunnel, for every number of bytes, visitors and streams.   *)
(***************************************************************************)
EXTENDS PublicTunnel, TLAPS

-----------------------------------------------------------------------------
(* The invariants, by induction *)

\* A direction is over only after what it still had to pass on: a copy that is
\* done while the session lives has seen the end of its source.
TcpInv ==
    /\ TypeOK
    /\ down[2] <= down[1] /\ down[3] <= down[2]
    /\ service = "none" => down[1] = 0
    /\ client \in {"none", "dial"} => service = "none"
    /\ client # "copying" /\ fromDst # "done" => fromDst = "none" /\ service = "none"
    /\ closedByC => client = "done"
    /\ client = "done" => fromDst \in {"none", "done"}
    /\ fromDst = "done" /\ session => service \in {"fin", "closed"} /\ down[2] = down[1]
    /\ toPub = "done" /\ session /\ visitor # "closed" => closedByC /\ down[3] = down[2]

\* The table and the streams name each other, and whoever is about to close a
\* stream has begun its closeOnce.
UdpInv ==
    /\ U!TypeOK
    /\ \A s \in U!Streams : s < next <=> addr[s] # None
    /\ \A s \in U!Streams : pump[s] # "none" \/ once[s] \/ closed[s] => s < next
    /\ \A s \in U!Streams : pump[s] = "close" => once[s]
    /\ serve \in {"write", "evict", "close"} => target \in U!Streams /\ target < next
    /\ serve = "close" => once[target]
    /\ serve = "lookup" => cur \in Addrs
    /\ \A a \in Addrs : \A s \in U!Streams :
           udpPeers[a] = s => addr[s] = a /\ ~once[s] /\ ~closed[s]
    /\ \A s \in U!Streams :
           addr[s] # None /\ ~once[s] /\ ~closed[s] => udpPeers[addr[s]] = s

LEMMA TcpInit == Init => TcpInv
  <1> SUFFICES ASSUME Init PROVE TcpInv
    OBVIOUS
  <1>1. TypeOK
    <2>1. session \in BOOLEAN /\ closedByS \in BOOLEAN /\ closedByC \in BOOLEAN
      BY DEF Init
    <2>2. QED
      BY <2>1, MaxBytesAssumption DEF Init, TypeOK, Ends, Copies
  <1>2. ~closedByC /\ down = [k \in 1..3 |-> 0]
    BY DEF Init
  <1>3. QED
    BY <1>1, <1>2 DEF Init, TcpInv

LEMMA TcpStep == TcpInv /\ [Next]_vars => TcpInv'
  <1> SUFFICES ASSUME TcpInv, [Next]_vars PROVE TcpInv'
    OBVIOUS
  <1> USE MaxBytesAssumption DEF TcpInv, TypeOK, Ends, Copies, Waiting,
          endVars, serverVars, clientVars
  <1>1. CASE UNCHANGED vars
    BY <1>1 DEF vars
  <1>2. CASE Environment
    <2>1. CASE Connect
      BY <2>1 DEF Connect
    <2>2. CASE VisitorSends
      BY <2>2 DEF VisitorSends
    <2>3. CASE VisitorEnds
      BY <2>3 DEF VisitorEnds
    <2>4. CASE ServiceSends
      BY <2>4 DEF ServiceSends
    <2>5. CASE ServiceEnds
      BY <2>5 DEF ServiceEnds
    <2>6. CASE SessionEnds
      <3>1. ~session' /\ session' \in BOOLEAN
        BY <2>6 DEF SessionEnds
      <3>2. QED
        BY <2>6, <3>1 DEF SessionEnds
    <2>7. QED
      BY <1>2, <2>1, <2>2, <2>3, <2>4, <2>5, <2>6 DEF Environment
  <1>3. CASE ServerStep
    <2>1. CASE OpenStream
      BY <2>1 DEF OpenStream
    <2>2. CASE OpenFails
      BY <2>2 DEF OpenFails
    <2>3. CASE CopyToStream
      BY <2>3 DEF CopyToStream
    <2>4. CASE ToStreamEnds
      BY <2>4 DEF ToStreamEnds
    <2>5. CASE CopyToPub
      BY <2>5 DEF CopyToPub
    <2>6. CASE ToPubEnds
      BY <2>6 DEF ToPubEnds
    <2>7. CASE ServerReturns
      BY <2>7 DEF ServerReturns
    <2>8. QED
      BY <1>3, <2>1, <2>2, <2>3, <2>4, <2>5, <2>6, <2>7 DEF ServerStep
  <1>4. CASE ClientStep
    <2>1. CASE AcceptStream
      BY <2>1 DEF AcceptStream
    <2>2. CASE DialFails
      BY <2>2 DEF DialFails
    <2>3. CASE Dial
      BY <2>3 DEF Dial
    <2>4. CASE CopyToDst
      BY <2>4 DEF CopyToDst
    <2>5. CASE ToDstEnds
      BY <2>5 DEF ToDstEnds
    <2>6. CASE CopyFromDst
      BY <2>6 DEF CopyFromDst
    <2>7. CASE FromDstEnds
      BY <2>7 DEF FromDstEnds
    <2>8. CASE ClientReturns
      BY <2>8 DEF ClientReturns
    <2>9. QED
      BY <1>4, <2>1, <2>2, <2>3, <2>4, <2>5, <2>6, <2>7, <2>8 DEF ClientStep
  <1>5. QED
    BY <1>1, <1>2, <1>3, <1>4 DEF Next

LEMMA UdpInit == U!Init => UdpInv
  <1> SUFFICES ASSUME U!Init PROVE UdpInv
    OBVIOUS
  <1>1. U!TypeOK
    <2>1. session \in BOOLEAN /\ udpLn \in BOOLEAN
      BY DEF U!Init
    <2>2. QED
      BY <2>1, PublicAssumption DEF U!Init, U!TypeOK, U!Streams
  <1>2. QED
    BY <1>1, PublicAssumption DEF U!Init, UdpInv, U!Streams

\* What evictUDP's section under udpMu does to the table and to closeOnce.
Forgotten(s) ==
    /\ once' = [once EXCEPT ![s] = TRUE]
    /\ udpPeers' = [a \in Addrs |-> IF udpPeers[a] = s THEN None ELSE udpPeers[a]]

LEMMA ForgetForgets ==
    ASSUME UdpInv, NEW s \in U!Streams, addr[s] \in Addrs, U!Forget(s)
    PROVE  Forgotten(s)
  <1>1. udpPeers \in [Addrs -> U!Streams \union {None}]
        /\ \A a \in Addrs : udpPeers[a] = s => addr[s] = a
    BY DEF UdpInv, U!TypeOK
  <1>2. udpPeers' = [udpPeers EXCEPT ![addr[s]] = IF @ = s THEN None ELSE @]
    BY DEF U!Forget
  <1>3. \A a \in Addrs :
            udpPeers'[a] = IF udpPeers[a] = s THEN None ELSE udpPeers[a]
    BY <1>1, <1>2
  <1>4. udpPeers' = [a \in Addrs |-> udpPeers'[a]]
    BY <1>1, <1>2
  <1>5. QED
    BY <1>3, <1>4 DEF Forgotten, U!Forget

\* The invariant's clauses on the table, after it.
TableKept(s) ==
    /\ once' \in [U!Streams -> BOOLEAN] /\ once'[s]
    /\ \A t \in U!Streams : once[t] => once'[t]
    /\ \A t \in U!Streams : once'[t] => once[t] \/ t = s
    /\ \A a \in Addrs : \A t \in U!Streams :
           udpPeers'[a] = t => addr[t] = a /\ ~once'[t] /\ ~closed[t]
    /\ \A t \in U!Streams :
           addr[t] # None /\ ~once'[t] /\ ~closed[t] => udpPeers'[addr[t]] = t

LEMMA ForgottenKeepsTable ==
    ASSUME UdpInv, NEW s \in U!Streams, s < next, Forgotten(s), UNCHANGED <<addr, closed>>
    PROVE  TableKept(s)
  <1> USE DEF UdpInv, U!TypeOK, U!Streams, Forgotten
  <1>1. once' \in [U!Streams -> BOOLEAN] /\ once'[s]
    OBVIOUS
  <1>2. ASSUME NEW t \in U!Streams PROVE (once[t] => once'[t]) /\ (once'[t] => once[t] \/ t = s)
    OBVIOUS
  <1>3. ASSUME NEW a \in Addrs, NEW t \in U!Streams, udpPeers'[a] = t
        PROVE  addr[t] = a /\ ~once'[t] /\ ~closed[t]
    <2>1. udpPeers'[a] = IF udpPeers[a] = s THEN None ELSE udpPeers[a]
      OBVIOUS
    <2>2. udpPeers[a] = t /\ t # s
      BY <1>3, <2>1, PublicAssumption
    <2>3. QED
      BY <1>2, <2>2
  <1>4. ASSUME NEW t \in U!Streams, addr[t] # None, ~once'[t], ~closed[t]
        PROVE  udpPeers'[addr[t]] = t
    <2>1. t # s /\ ~once[t] /\ addr[t] \in Addrs
      BY <1>1, <1>2, <1>4
    <2>2. udpPeers[addr[t]] = t
      BY <1>4, <2>1
    <2>3. QED
      BY <2>1, <2>2
  <1>5. QED
    BY <1>1, <1>2, <1>3, <1>4 DEF TableKept

LEMMA UdpStep == UdpInv /\ [U!Next]_U!vars => UdpInv'
  <1> SUFFICES ASSUME UdpInv, [U!Next]_U!vars PROVE UdpInv'
    OBVIOUS
  <1> USE PublicAssumption DEF UdpInv, U!TypeOK, U!Streams, U!netVars, U!tableVars, U!streamVars,
          U!serveVars, U!clientVars, U!NextDatagram
  <1>1. CASE UNCHANGED U!vars
    BY <1>1 DEF U!vars
  <1>2. CASE U!SessionEnds
    BY <1>2 DEF U!SessionEnds
  <1>3. CASE U!CloseSocket
    BY <1>3 DEF U!CloseSocket
  <1>4. CASE U!CloseTable
    <2>1. closed' \in [U!Streams -> BOOLEAN]
      BY <1>4 DEF U!CloseTable
    <2>2. ASSUME NEW s \in U!Streams, ~closed'[s]
          PROVE  ~closed[s] /\ (addr[s] # None => once[s])
      BY <1>4, <2>2 DEF U!CloseTable
    <2>3. udpPeers' = [a \in Addrs |-> None]
      BY <1>4 DEF U!CloseTable
    <2>4. UNCHANGED <<session, udpLn, inbox, next, addr, once, given, serve, cur, target,
                      pump, relay, reply>> /\ closer' = "done"
      BY <1>4 DEF U!CloseTable
    <2>5. \A s \in U!Streams : closed'[s] => s < next
      BY <1>4 DEF U!CloseTable
    <2> HIDE DEF UdpInv
    <2>6. U!TypeOK'
      BY <2>1, <2>3, <2>4 DEF UdpInv
    <2>7. QED
      BY <2>2, <2>3, <2>4, <2>5, <2>6 DEF UdpInv
  <1>5. CASE U!ServeStep
    <2>1. CASE U!SocketClosed
      BY <2>1 DEF U!SocketClosed
    <2>2. CASE U!Known
      BY <2>2 DEF U!Known
    <2>3. CASE U!NewPeer
      BY <2>3 DEF U!NewPeer
    <2>4. CASE U!OpenFails
      BY <2>4 DEF U!OpenFails
    <2>5. CASE U!WriteFrame
      BY <2>5 DEF U!WriteFrame
    <2>6. CASE U!WriteFails
      BY <2>6 DEF U!WriteFails
    <2>7. CASE U!ServeEvicts
      <3>1. CASE U!Evicted(target) /\ U!NextDatagram /\ UNCHANGED <<once, udpPeers>>
        BY <2>7, <3>1 DEF U!ServeEvicts
      <3>2. CASE ~once[target] /\ U!Forget(target) /\ serve' = "close" /\ UNCHANGED <<cur, target>>
        <4>1. target \in U!Streams /\ target < next /\ addr[target] \in Addrs
          BY <2>7 DEF U!ServeEvicts
        <4>2. Forgotten(target)
          BY <3>2, <4>1, ForgetForgets
        <4>3. UNCHANGED <<session, udpLn, inbox, next, addr, closed, given, pump, closer,
                          relay, reply>>
          BY <2>7 DEF U!ServeEvicts
        <4>4. TableKept(target)
          BY <4>1, <4>2, <4>3, ForgottenKeepsTable
        <4>5. udpPeers' \in [Addrs -> U!Streams \union {None}]
          BY <4>2 DEF Forgotten
        <4>6. serve' = "close" /\ cur' = cur /\ target' = target
          BY <3>2
        <4>7. QED
          BY <4>1, <4>3, <4>4, <4>5, <4>6 DEF TableKept
      <3>3. QED
        BY <2>7, <3>1, <3>2 DEF U!ServeEvicts
    <2>8. CASE U!ServeCloses
      BY <2>8 DEF U!ServeCloses
    <2>9. CASE \E a \in Addrs : U!Receive(a)
      BY <2>9 DEF U!Receive
    <2>10. QED
      BY <1>5, <2>1, <2>2, <2>3, <2>4, <2>5, <2>6, <2>7, <2>8, <2>9 DEF U!ServeStep
  <1>6. CASE \E a \in Addrs : U!Datagram(a)
    BY <1>6 DEF U!Datagram
  <1>7. CASE \E s \in U!Streams : U!GiveUp(s)
    BY <1>7 DEF U!GiveUp
  <1>8. CASE \E s \in U!Streams : U!PumpReply(s)
    BY <1>8 DEF U!PumpReply
  <1>9. CASE \E s \in U!Streams : U!PumpEnds(s)
    BY <1>9 DEF U!PumpEnds
  <1>10. CASE \E s \in U!Streams : U!PumpEvicts(s)
    <2>1. PICK s \in U!Streams : U!PumpEvicts(s)
      BY <1>10
    <2>2. UNCHANGED <<session, udpLn, inbox, next, addr, closed, given, serve, cur, target,
                      closer, relay, reply>>
      BY <2>1 DEF U!PumpEvicts
    <2>3. CASE U!Evicted(s) /\ pump' = [pump EXCEPT ![s] = "done"] /\ UNCHANGED <<once, udpPeers>>
      <3>1. pump[s] = "evict" /\ s < next
        BY <2>1 DEF U!PumpEvicts
      <3>2. QED
        BY <2>2, <2>3, <3>1
    <2>4. CASE ~once[s] /\ U!Forget(s) /\ pump' = [pump EXCEPT ![s] = "close"]
      <3>1. s < next /\ addr[s] \in Addrs
        BY <2>1 DEF U!PumpEvicts
      <3>2. Forgotten(s)
        BY <2>4, <3>1, ForgetForgets
      <3>3. TableKept(s)
        BY <2>2, <3>1, <3>2, ForgottenKeepsTable
      <3>4. udpPeers' \in [Addrs -> U!Streams \union {None}]
        BY <3>2 DEF Forgotten
      <3>5. pump' = [pump EXCEPT ![s] = "close"]
        BY <2>4
      <3>6. QED
        BY <2>2, <3>1, <3>3, <3>4, <3>5 DEF TableKept
    <2>5. QED
      BY <2>1, <2>3, <2>4 DEF U!PumpEvicts
  <1>11. CASE \E s \in U!Streams : U!PumpCloses(s)
    BY <1>11 DEF U!PumpCloses
  <1>12. CASE \E s \in U!Streams : U!RelayStarts(s)
    BY <1>12 DEF U!RelayStarts
  <1>13. CASE \E s \in U!Streams : U!LocalAnswers(s)
    BY <1>13 DEF U!LocalAnswers
  <1>14. CASE \E s \in U!Streams : U!RelayEnds(s)
    BY <1>14 DEF U!RelayEnds
  <1>15. QED
    BY <1>1, <1>2, <1>3, <1>4, <1>5, <1>6, <1>7, <1>8, <1>9, <1>10, <1>11, <1>12, <1>13, <1>14 DEF U!Next, U!PumpStep

-----------------------------------------------------------------------------
(* What visitor and service see *)

\* Where the ends of the two programs are, and that what has been told an end is
\* given nothing more.
EndInv ==
    /\ up[2] <= up[1] /\ up[3] <= up[2]
    /\ visitor = "none" => server = "none"
    /\ server \in {"none", "accepted"} =>
           toPub = "none" /\ pub = "open" /\ ~closedByS /\ client = "none"
    /\ server = "copying" \/ client # "none" => toPub # "none"
    /\ toPub = "copying" => pub = "open"
    /\ toPub = "done" => pub # "open"
    /\ closedByS => toPub = "done"
    /\ client \in {"none", "dial"} => toDst = "none"
    /\ client = "done" => toDst # "copying"
    /\ toDst = "copying" => service # "none"
    /\ dst = "open" <=> toDst # "done"
    /\ toPub = "done" /\ session => closedByC \/ (visitor = "closed" /\ service # "none")

LEMMA EndInit == Init => EndInv
  BY DEF Init, EndInv

LEMMA EndStep == TcpInv /\ EndInv /\ [Next]_vars => EndInv'
  <1> SUFFICES ASSUME TcpInv, EndInv, [Next]_vars PROVE EndInv'
    OBVIOUS
  <1> USE MaxBytesAssumption DEF TcpInv, EndInv, TypeOK, Ends, Copies, Waiting,
          endVars, serverVars, clientVars
  <1>1. CASE UNCHANGED vars
    BY <1>1 DEF vars
  <1>2. CASE Environment
    <2>1. CASE Connect
      BY <2>1 DEF Connect
    <2>2. CASE VisitorSends
      BY <2>2 DEF VisitorSends
    <2>3. CASE VisitorEnds
      BY <2>3 DEF VisitorEnds
    <2>4. CASE ServiceSends
      BY <2>4 DEF ServiceSends
    <2>5. CASE ServiceEnds
      BY <2>5 DEF ServiceEnds
    <2>6. CASE SessionEnds
      BY <2>6 DEF SessionEnds
    <2>7. QED
      BY <1>2, <2>1, <2>2, <2>3, <2>4, <2>5, <2>6 DEF Environment
  <1>3. CASE ServerStep
    <2>1. CASE OpenStream
      BY <2>1 DEF OpenStream
    <2>2. CASE OpenFails
      BY <2>2 DEF OpenFails
    <2>3. CASE CopyToStream
      BY <2>3 DEF CopyToStream
    <2>4. CASE ToStreamEnds
      BY <2>4 DEF ToStreamEnds
    <2>5. CASE CopyToPub
      BY <2>5 DEF CopyToPub
    <2>6. CASE ToPubEnds
      BY <2>6 DEF ToPubEnds
    <2>7. CASE ServerReturns
      BY <2>7 DEF ServerReturns
    <2>8. QED
      BY <1>3, <2>1, <2>2, <2>3, <2>4, <2>5, <2>6, <2>7 DEF ServerStep
  <1>4. CASE ClientStep
    <2>1. CASE AcceptStream
      BY <2>1 DEF AcceptStream
    <2>2. CASE DialFails
      BY <2>2 DEF DialFails
    <2>3. CASE Dial
      BY <2>3 DEF Dial
    <2>4. CASE CopyToDst
      BY <2>4 DEF CopyToDst
    <2>5. CASE ToDstEnds
      BY <2>5 DEF ToDstEnds
    <2>6. CASE CopyFromDst
      BY <2>6 DEF CopyFromDst
    <2>7. CASE FromDstEnds
      BY <2>7 DEF FromDstEnds
    <2>8. CASE ClientReturns
      BY <2>8 DEF ClientReturns
    <2>9. QED
      BY <1>4, <2>1, <2>2, <2>3, <2>4, <2>5, <2>6, <2>7, <2>8 DEF ClientStep
  <1>5. QED
    BY <1>1, <1>2, <1>3, <1>4 DEF Next

LEMMA DirectInit == Init => Direct!Init
  BY DEF Init, Direct!Init

\* Each step is one of the direct connection, or nobody sees it.
LEMMA DirectStep == TcpInv /\ EndInv /\ [Next]_vars => [Direct!Next]_(Direct!vars)
  <1> SUFFICES ASSUME TcpInv, EndInv, [Next]_vars PROVE [Direct!Next]_(Direct!vars)
    OBVIOUS
  <1> USE MaxBytesAssumption DEF TcpInv, EndInv, TypeOK, Ends, Copies, Waiting,
          endVars, serverVars, clientVars, Direct!vars, Direct!bytes, Direct!told
  <1>1. CASE UNCHANGED vars
    BY <1>1 DEF vars
  <1>2. CASE Environment
    <2>1. ASSUME Connect PROVE Direct!VisitorArrives
      BY <2>1 DEF Connect, Direct!VisitorArrives
    <2>2. ASSUME VisitorSends PROVE Direct!VisitorSends
      BY <2>2 DEF VisitorSends, Direct!VisitorSends
    <2>3. ASSUME VisitorEnds PROVE Direct!VisitorLeaves
      BY <2>3 DEF VisitorEnds, Direct!VisitorLeaves
    <2>4. ASSUME ServiceSends PROVE Direct!ServiceSends
      BY <2>4 DEF ServiceSends, Direct!ServiceSends
    <2>5. ASSUME ServiceEnds PROVE Direct!ServiceLeaves
      BY <2>5 DEF ServiceEnds, Direct!ServiceLeaves
    <2>6. ASSUME SessionEnds PROVE Direct!Break
      BY <2>6 DEF SessionEnds, Direct!Break
    <2>7. QED
      BY <1>2, <2>1, <2>2, <2>3, <2>4, <2>5, <2>6 DEF Environment, Direct!Next
  <1>3. CASE ServerStep
    <2>1. CASE OpenStream
      BY <2>1 DEF OpenStream
    <2>2. ASSUME OpenFails PROVE Direct!EndForVisitor
      BY <2>2 DEF OpenFails, Direct!EndForVisitor
    <2>3. CASE CopyToStream
      BY <2>3 DEF CopyToStream
    <2>4. CASE ToStreamEnds
      BY <2>4 DEF ToStreamEnds
    <2>5. ASSUME CopyToPub PROVE Direct!VisitorGets
      BY <2>5 DEF CopyToPub, Direct!VisitorGets
    <2>6. ASSUME ToPubEnds PROVE Direct!EndForVisitor
      BY <2>6 DEF ToPubEnds, Direct!EndForVisitor
    <2>7. CASE ServerReturns
      BY <2>7 DEF ServerReturns
    <2>8. QED
      BY <1>3, <2>1, <2>2, <2>3, <2>4, <2>5, <2>6, <2>7 DEF ServerStep, Direct!Next
  <1>4. CASE ClientStep
    <2>1. CASE AcceptStream
      BY <2>1 DEF AcceptStream
    <2>2. CASE DialFails
      BY <2>2 DEF DialFails
    <2>3. ASSUME Dial PROVE Direct!ServiceReached
      BY <2>3 DEF Dial, Direct!ServiceReached
    <2>4. ASSUME CopyToDst PROVE Direct!ServiceGets
      BY <2>4 DEF CopyToDst, Direct!ServiceGets
    <2>5. ASSUME ToDstEnds PROVE Direct!EndForService
      BY <2>5 DEF ToDstEnds, Direct!EndForService
    <2>6. CASE CopyFromDst
      BY <2>6 DEF CopyFromDst
    <2>7. CASE FromDstEnds
      BY <2>7 DEF FromDstEnds
    <2>8. CASE ClientReturns
      BY <2>8 DEF ClientReturns
    <2>9. QED
      BY <1>4, <2>1, <2>2, <2>3, <2>4, <2>5, <2>6, <2>7, <2>8 DEF ClientStep, Direct!Next
  <1>5. QED
    BY <1>1, <1>2, <1>3, <1>4 DEF Next

\* The session may end under either protocol; neither invariant
\* minds, and visitor and service see no more than that.
LEMMA UdpSessionOver ==
    ASSUME UdpInv, UNCHANGED udpVars, session' \in BOOLEAN
    PROVE  UdpInv'
  BY DEF UdpInv, U!TypeOK, U!Streams, udpVars

LEMMA TcpSessionOver ==
    ASSUME TcpInv, EndInv, UNCHANGED tcpVars, session' \in BOOLEAN, session' => session
    PROVE  TcpInv' /\ EndInv' /\ [Direct!Next]_(Direct!vars)
  <1>1. TcpInv'
    BY DEF TcpInv, TypeOK, tcpVars, serverVars, clientVars
  <1>2. EndInv'
    BY DEF EndInv, tcpVars, serverVars, clientVars
  <1>3. session' = session \/ Direct!Break
    BY DEF Direct!Break, Direct!bytes, Direct!told, TcpInv, TypeOK, tcpVars, serverVars, clientVars
  <1>4. session' = session => UNCHANGED Direct!vars
    BY DEF Direct!vars, Direct!bytes, Direct!told, tcpVars, serverVars, clientVars
  <1>5. QED
    BY <1>1, <1>2, <1>3, <1>4 DEF Direct!Next

\* No step of a UDP tunnel brings a session back.
LEMMA SessionOnlyEnds == U!Next => (session' => session)
  BY DEF U!Next, U!SessionEnds, U!CloseSocket, U!CloseTable, U!ServeStep, U!Datagram, U!GiveUp,
         U!PumpStep, U!RelayStarts, U!LocalAnswers, U!RelayEnds, U!SocketClosed, U!Known,
         U!NewPeer, U!OpenFails, U!WriteFrame, U!WriteFails, U!ServeEvicts, U!ServeCloses,
         U!Receive, U!PumpReply, U!PumpEnds, U!PumpEvicts, U!PumpCloses, U!netVars

-----------------------------------------------------------------------------
(* The theorems *)

\* The inductive invariant of a public tunnel: a step of the protocol chosen
\* leaves the other's variables alone, but for the session, which they share.
PublicInv == proto \in {"tcp", "udp"} /\ TcpInv /\ EndInv /\ UdpInv

LEMMA PublicInitially == PublicInit => PublicInv
  BY TcpInit, EndInit, UdpInit DEF PublicInit, PublicInv

LEMMA PublicStep == PublicInv /\ [PublicNext]_publicVars => PublicInv' /\ [Direct!Next]_(Direct!vars)
  <1> SUFFICES ASSUME PublicInv, [PublicNext]_publicVars
               PROVE  PublicInv' /\ [Direct!Next]_(Direct!vars)
    OBVIOUS
  <1>1. CASE UNCHANGED publicVars
    <2>1. UNCHANGED vars /\ UNCHANGED U!vars /\ UNCHANGED proto
      BY <1>1 DEF publicVars, tcpVars, udpVars, vars, endVars, U!vars, U!netVars,
             U!tableVars, U!streamVars, U!serveVars, U!clientVars
    <2>2. QED
      BY <2>1, TcpStep, EndStep, DirectStep, UdpStep DEF PublicInv
  <1>2. CASE UNCHANGED proto /\ Next /\ UNCHANGED udpVars
    <2>1. TcpInv' /\ EndInv' /\ [Direct!Next]_(Direct!vars)
      BY <1>2, TcpStep, EndStep, DirectStep DEF PublicInv
    <2>2. session' \in BOOLEAN
      BY <2>1 DEF TcpInv, TypeOK
    <2>3. QED
      BY <1>2, <2>1, <2>2, UdpSessionOver DEF PublicInv
  <1>3. CASE UNCHANGED proto /\ U!Next /\ UNCHANGED tcpVars
    <2>1. UdpInv'
      BY <1>3, UdpStep DEF PublicInv
    <2>2. session' \in BOOLEAN /\ (session' => session)
      BY <1>3, <2>1, SessionOnlyEnds DEF UdpInv, U!TypeOK
    <2>3. QED
      BY <1>3, <2>1, <2>2, TcpSessionOver DEF PublicInv
  <1>4. QED
    BY <1>1, <1>2, <1>3 DEF PublicNext

\* The inductive invariant: types, the order in which the copies of a connection
\* end, and the table of UDP peers against the streams (server/tunnel.go, udp.go).
THEOREM PublicInvariance == PublicSpec => []PublicInv
  BY PublicInitially, PublicStep, PTL DEF PublicSpec

\* A public connection implements DirectConnection, whatever its copies do first
\* and for any number of bytes (server/tunnel.go: handleTCPConn;
\* client/tunnel.go: pipeBoth).
THEOREM TunnelIsDirect == PublicSpec => DirectSpec
  <1>1. PublicInit => Direct!Init
    BY DirectInit DEF PublicInit
  <1>2. QED
    BY <1>1, PublicStep, PublicInvariance, PTL DEF PublicSpec, DirectSpec, Direct!Spec

\* Bytes that a service has written are not cut off while the session lives
\* (client/tunnel.go: pipeBoth; server/tunnel.go: handleTCPConn).
THEOREM NothingIsCutOff == PublicSpec => []NoTruncation
  <1>1. PublicInv => NoTruncation
    BY DEF PublicInv, TcpInv, TypeOK, NoTruncation
  <1>2. QED
    BY <1>1, PublicInvariance, PTL

\* The table of UDP peers is exact (udp.go: serveUDP, evictUDP; tunnel.go:
\* closePublic).
THEOREM TableCorrect == PublicSpec => []TableIsExact
  <1>1. PublicInv => TableIsExact
    BY DEF PublicInv, UdpInv, U!TypeOK, TableIsExact, U!TableIsExact, U!InTable
  <1>2. QED
    BY <1>1, PublicInvariance, PTL
=============================================================================
