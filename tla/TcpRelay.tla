------------------------------ MODULE TcpRelay ------------------------------
(***************************************************************************)
(* One public TCP connection on its way through a tunnel: the visitor,     *)
(* Tunnel.acceptTCP and the two copying goroutines of handleTCPConn in the *)
(* server (src/internal/server/tunnel.go), the yamux data stream, handleData,*)
(* relayTCP and the two goroutines of pipeBoth in the client               *)
(* (src/internal/client/client.go, tunnel.go), and the local service.      *)
(*                                                                         *)
(*    visitor -- pub -- server == data stream == client -- dst -- service  *)
(*                                                                         *)
(* Bytes are counted, not spelled.  up[k] and down[k] say how many have    *)
(* been written by the k-th writer on the way: up[1] by the visitor, up[2] *)
(* by the server, up[3] by the client; down[1] by the service, down[2] by  *)
(* the client, down[3] by the server.  One step of io.Copy reads a chunk   *)
(* and writes it.                                                          *)
(*                                                                         *)
(* yamux.Stream has no CloseWrite: the CloseWrite that both programs try   *)
(* on the stream does nothing.  Its Close tells the other end, which reads *)
(* what was sent before and then EOF.  When the session ends, reads and    *)
(* writes on both ends fail; what had arrived may still be read.           *)
(***************************************************************************)
EXTENDS Integers

CONSTANT MaxBytes  \* bound: bytes each of visitor and service sends

ASSUME MaxBytesAssumption == MaxBytes \in Nat

VARIABLES
    session,    \* the yamux session is alive
    visitor,    \* "none", "open", "fin" (shut down its writing side), "closed"
    service,    \* the same; "none" before the client has dialled
    up, down,   \* bytes written at each stage
    server,     \* handleTCPConn: "none", "accepted", "copying", "done"
    client,     \* handleData: "none", "dial", "copying", "done"
    toStream,   \* server goroutine: io.Copy(stream, pub)
    toPub,      \* handleTCPConn itself: io.Copy(pub, stream)
    toDst,      \* client goroutine: io.Copy(dst, stream)
    fromDst,    \* client goroutine: io.Copy(stream, dst)
    pub,        \* what the server has done to pub: "open", "fin", "closed"
    dst,        \* what the client has done to dst
    closedByS,  \* the server has closed its end of the stream
    closedByC   \* the client has closed its end

serverVars == <<server, toStream, toPub, pub, closedByS>>
clientVars == <<client, toDst, fromDst, dst, closedByC>>
endVars == <<session, visitor, service>>
vars == <<endVars, up, down, serverVars, clientVars>>

Ends == {"open", "fin", "closed"}
Copies == {"none", "copying", "done"}

TypeOK ==
    /\ session \in BOOLEAN
    /\ visitor \in Ends \union {"none"}
    /\ service \in Ends \union {"none"}
    /\ up \in [1..3 -> 0..MaxBytes]
    /\ down \in [1..3 -> 0..MaxBytes]
    /\ server \in {"none", "accepted", "copying", "done"}
    /\ client \in {"none", "dial", "copying", "done"}
    /\ toStream \in Copies /\ toPub \in Copies
    /\ toDst \in Copies /\ fromDst \in Copies
    /\ pub \in Ends /\ dst \in Ends
    /\ closedByS \in BOOLEAN /\ closedByC \in BOOLEAN

Init ==
    /\ session = TRUE
    /\ visitor = "none"
    /\ service = "none"
    /\ up = [k \in 1..3 |-> 0]
    /\ down = [k \in 1..3 |-> 0]
    /\ server = "none"
    /\ client = "none"
    /\ toStream = "none" /\ toPub = "none"
    /\ toDst = "none" /\ fromDst = "none"
    /\ pub = "open" /\ dst = "open"
    /\ closedByS = FALSE /\ closedByC = FALSE

Waiting(counts, k) == counts[k - 1] - counts[k]

-----------------------------------------------------------------------------
(* The two ends and the session *)

\* A visitor connects and acceptTCP starts handleTCPConn for it.
Connect ==
    /\ visitor = "none"
    /\ visitor' = "open"
    /\ server' = "accepted"
    /\ UNCHANGED <<session, service, up, down, toStream, toPub, pub, closedByS, clientVars>>

VisitorSends ==
    /\ visitor = "open" /\ pub # "closed"
    /\ up[1] < MaxBytes
    /\ up' = [up EXCEPT ![1] = @ + 1]
    /\ UNCHANGED <<endVars, down, serverVars, clientVars>>

VisitorEnds ==
    /\ \/ visitor = "open" /\ visitor' = "fin"
       \/ visitor \in {"open", "fin"} /\ visitor' = "closed"
    /\ UNCHANGED <<session, service, up, down, serverVars, clientVars>>

ServiceSends ==
    /\ service = "open" /\ dst # "closed"
    /\ down[1] < MaxBytes
    /\ down' = [down EXCEPT ![1] = @ + 1]
    /\ UNCHANGED <<endVars, up, serverVars, clientVars>>

ServiceEnds ==
    /\ \/ service = "open" /\ service' = "fin"
       \/ service \in {"open", "fin"} /\ service' = "closed"
    /\ UNCHANGED <<session, visitor, up, down, serverVars, clientVars>>

SessionEnds ==
    /\ session
    /\ session' = FALSE
    /\ UNCHANGED <<visitor, service, up, down, serverVars, clientVars>>

-----------------------------------------------------------------------------
(* Tunnel.handleTCPConn *)

\* ymx.Open and WriteTunnelID; the copying starts.
OpenStream ==
    /\ server = "accepted"
    /\ session
    /\ server' = "copying"
    /\ toStream' = "copying"
    /\ toPub' = "copying"
    /\ UNCHANGED <<endVars, up, down, pub, closedByS, clientVars>>

\* Either fails; if Open succeeded the stream is closed unread.
OpenFails ==
    /\ server = "accepted"
    /\ server' = "done"
    /\ pub' = "closed"
    /\ UNCHANGED <<endVars, up, down, toStream, toPub, closedByS, clientVars>>

CopyToStream ==
    /\ toStream = "copying"
    /\ pub # "closed"
    /\ Waiting(up, 2) > 0
    /\ session /\ ~closedByS
    /\ up' = [up EXCEPT ![2] = @ + 1]
    /\ UNCHANGED <<endVars, down, serverVars, clientVars>>

\* The visitor's EOF or reset, the server's own close of pub, or a failed
\* write; then tryCloseWrite(stream), which finds no CloseWrite.
ToStreamEnds ==
    /\ toStream = "copying"
    /\ \/ visitor = "fin" /\ Waiting(up, 2) = 0
       \/ visitor = "closed"
       \/ pub = "closed"
       \/ Waiting(up, 2) > 0 /\ (~session \/ closedByS)
    /\ toStream' = "done"
    /\ UNCHANGED <<endVars, up, down, server, toPub, pub, closedByS, clientVars>>

CopyToPub ==
    /\ toPub = "copying"
    /\ Waiting(down, 3) > 0
    /\ visitor # "closed"
    /\ down' = [down EXCEPT ![3] = @ + 1]
    /\ UNCHANGED <<endVars, up, serverVars, clientVars>>

\* Variant: the end of the session is not an end of the stream.
ToPubEndsOnClose ==
    /\ toPub = "copying"
    /\ \/ closedByC /\ Waiting(down, 3) = 0
       \/ Waiting(down, 3) > 0 /\ visitor = "closed"
    /\ toPub' = "done"
    /\ pub' = "fin"
    /\ UNCHANGED <<endVars, up, down, server, toStream, closedByS, clientVars>>

\* The client's close, the end of the session, or a failed write; then
\* tryCloseWrite(pub), which half-closes.
ToPubEnds ==
    /\ toPub = "copying"
    /\ \/ closedByC /\ Waiting(down, 3) = 0
       \/ ~session
       \/ Waiting(down, 3) > 0 /\ visitor = "closed"
    /\ toPub' = "done"
    /\ pub' = "fin"
    /\ UNCHANGED <<endVars, up, down, server, toStream, closedByS, clientVars>>

\* handleTCPConn returns: the deferred stream.Close and pub.Close.
ServerReturns ==
    /\ server = "copying"
    /\ toPub = "done"
    /\ server' = "done"
    /\ closedByS' = TRUE
    /\ pub' = "closed"
    /\ UNCHANGED <<endVars, up, down, toStream, toPub, clientVars>>

-----------------------------------------------------------------------------
(* handleData, relayTCP, pipeBoth *)

\* serveData accepts the stream, the id is read and found.
AcceptStream ==
    /\ client = "none"
    /\ server = "copying"
    /\ session
    /\ client' = "dial"
    /\ UNCHANGED <<endVars, up, down, serverVars, toDst, fromDst, dst, closedByC>>

DialFails ==
    /\ client = "dial"
    /\ client' = "done"
    /\ closedByC' = TRUE
    /\ UNCHANGED <<endVars, up, down, serverVars, toDst, fromDst, dst>>

Dial ==
    /\ client = "dial"
    /\ client' = "copying"
    /\ service' = "open"
    /\ toDst' = "copying"
    /\ fromDst' = "copying"
    /\ UNCHANGED <<session, visitor, up, down, serverVars, dst, closedByC>>

CopyToDst ==
    /\ toDst = "copying"
    /\ Waiting(up, 3) > 0
    /\ service # "closed"
    /\ up' = [up EXCEPT ![3] = @ + 1]
    /\ UNCHANGED <<endVars, down, serverVars, clientVars>>

\* The server's close, the end of the session, or a failed write; then
\* dst.CloseWrite.
ToDstEnds ==
    /\ toDst = "copying"
    /\ \/ closedByS /\ Waiting(up, 3) = 0
       \/ ~session
       \/ Waiting(up, 3) > 0 /\ service = "closed"
    /\ toDst' = "done"
    /\ dst' = "fin"
    /\ UNCHANGED <<endVars, up, down, serverVars, client, fromDst, closedByC>>

CopyFromDst ==
    /\ fromDst = "copying"
    /\ Waiting(down, 2) > 0
    /\ session
    /\ down' = [down EXCEPT ![2] = @ + 1]
    /\ UNCHANGED <<endVars, up, serverVars, clientVars>>

\* The service's EOF or a failed write; stream has no CloseWrite.
FromDstEnds ==
    /\ fromDst = "copying"
    /\ \/ service \in {"fin", "closed"} /\ Waiting(down, 2) = 0
       \/ Waiting(down, 2) > 0 /\ ~session
    /\ fromDst' = "done"
    /\ UNCHANGED <<endVars, up, down, serverVars, client, toDst, dst, closedByC>>

\* Variant: pipeBoth waits for one of its goroutines.
ClientReturnsOnEither ==
    /\ client = "copying"
    /\ toDst = "done" \/ fromDst = "done"
    /\ client' = "done"
    /\ closedByC' = TRUE
    /\ dst' = "closed"
    /\ UNCHANGED <<endVars, up, down, serverVars, toDst, fromDst>>

\* pipeBoth's wg.Wait, its two closes and handleData's.
ClientReturns ==
    /\ client = "copying"
    /\ toDst = "done" /\ fromDst = "done"
    /\ client' = "done"
    /\ closedByC' = TRUE
    /\ dst' = "closed"
    /\ UNCHANGED <<endVars, up, down, serverVars, toDst, fromDst>>

-----------------------------------------------------------------------------

Environment ==
    \/ Connect \/ VisitorSends \/ VisitorEnds
    \/ ServiceSends \/ ServiceEnds \/ SessionEnds

ServerStep ==
    \/ OpenStream \/ OpenFails \/ CopyToStream \/ ToStreamEnds
    \/ CopyToPub \/ ToPubEnds \/ ServerReturns

ClientStep ==
    \/ AcceptStream \/ DialFails \/ Dial \/ CopyToDst \/ ToDstEnds
    \/ CopyFromDst \/ FromDstEnds \/ ClientReturns

Next == Environment \/ ServerStep \/ ClientStep

Spec == Init /\ [][Next]_vars

(***************************************************************************)
(* Fairness: each goroutine that can go on does, and a dial ends.  Visitor *)
(* and service do as they like.                                            *)
(***************************************************************************)
Fairness ==
    /\ WF_vars(OpenStream \/ OpenFails)
    /\ WF_vars(CopyToStream \/ ToStreamEnds)
    /\ WF_vars(CopyToPub \/ ToPubEnds)
    /\ WF_vars(ServerReturns)
    /\ WF_vars(AcceptStream \/ DialFails \/ Dial)
    /\ WF_vars(CopyToDst \/ ToDstEnds)
    /\ WF_vars(CopyFromDst \/ FromDstEnds)
    /\ WF_vars(ClientReturns)

FairSpec == Spec /\ Fairness

-----------------------------------------------------------------------------
(* Safety *)

\* While the session lives, a visitor that reads EOF has first been given
\* every byte the service wrote: the client closes the stream only when both
\* directions are done (client/tunnel.go: pipeBoth; server/tunnel.go:
\* handleTCPConn).
NoTruncation ==
    pub # "open" /\ toPub = "done" /\ session /\ visitor # "closed" => down[3] = down[1]

\* What visitor and service see of it.
Direct == INSTANCE DirectConnection WITH
              alive <- session,
              sentUp <- up[1], gotUp <- up[3],
              sentDown <- down[1], gotDown <- down[3],
              visitorTold <- pub # "open",
              serviceTold <- dst # "open"

\* The two programs together implement DirectConnection, however their four
\* copies and the ends of visitor, service and session interleave
\* (server/tunnel.go: handleTCPConn; client/tunnel.go: pipeBoth).
DirectSpec == Direct!Spec

-----------------------------------------------------------------------------
(* Liveness, under FairSpec *)

\* The server's part is over: both goroutines have finished and the visitor's
\* socket is closed.
ServerFreed ==
    server # "none" => server = "done" /\ pub = "closed" /\ toStream # "copying"

\* So is the client's.
ClientFreed == client # "none" => client = "done"

\* The end of the session ends both parts of a connection whose service closes,
\* and the server's whatever its visitor does: no goroutine waits for another
\* for ever (server/tunnel.go: handleTCPConn; client/tunnel.go: pipeBoth).
SessionEndFreesConnection ==
    ~session ~> ServerFreed /\ (service = "closed" => ClientFreed)

-----------------------------------------------------------------------------
(* What documentation and comments say and the code does not do *)

\* README.md: "El cierre de cualquiera de las dos mitades propaga EOF al otro
\* lado via CloseWrite": a visitor's EOF reaches the service.
HalfCloseReachesService ==
    visitor = "fin" /\ client = "copying" ~>
        dst # "open" \/ service = "closed" \/ visitor = "closed" \/ ~session

\* client/tunnel.go: pipeBoth blocks "until either side closes or errors".
PipeEndsWithEitherSide ==
    client = "copying" /\ service = "closed" ~> client = "done"
=============================================================================
