-------------------------- MODULE DirectConnection --------------------------
(***************************************************************************)
(* What a public TCP connection through a tunnel promises, with none of    *)
(* the machinery of src/internal/server/tunnel.go and                      *)
(* src/internal/client/tunnel.go: a TCP connection from a visitor to a     *)
(* service.  Bytes arrive in the order sent, none after the end of the     *)
(* stream; and as long as the session lives a visitor is told that there   *)
(* is nothing more to come only when the service has ended and everything  *)
(* has arrived, or the service was never reached.                          *)
(*                                                                         *)
(* Unlike a direct connection it has no half-close towards the service,    *)
(* which learns of the visitor's end only when the visitor has closed, and *)
(* may then have missed what was still on its way.                         *)
(***************************************************************************)
EXTENDS Naturals

VARIABLES
    alive,          \* what carries the connection
    visitor,        \* "none", "open", "fin" (shut down its writing side), "closed"
    service,        \* the same; "none" until it is reached
    sentUp, gotUp,  \* bytes the visitor has written and the service been given
    sentDown, gotDown,
    visitorTold,    \* the visitor's stream has ended
    serviceTold     \* the service's stream has ended

bytes == <<sentUp, gotUp, sentDown, gotDown>>
told == <<visitorTold, serviceTold>>
vars == <<alive, visitor, service, bytes, told>>

Init ==
    /\ alive = TRUE
    /\ visitor = "none" /\ service = "none"
    /\ sentUp = 0 /\ gotUp = 0 /\ sentDown = 0 /\ gotDown = 0
    /\ visitorTold = FALSE /\ serviceTold = FALSE

Break ==
    /\ alive
    /\ alive' = FALSE
    /\ UNCHANGED <<visitor, service, bytes, told>>

VisitorArrives ==
    /\ visitor = "none"
    /\ visitor' = "open"
    /\ UNCHANGED <<alive, service, bytes, told>>

\* On behalf of a visitor, and not of one who has been turned away.
ServiceReached ==
    /\ service = "none" /\ visitor # "none"
    /\ alive => ~visitorTold
    /\ service' = "open"
    /\ UNCHANGED <<alive, visitor, bytes, told>>

VisitorSends ==
    /\ visitor = "open"
    /\ sentUp' = sentUp + 1
    /\ UNCHANGED <<alive, visitor, service, gotUp, sentDown, gotDown, told>>

ServiceSends ==
    /\ service = "open"
    /\ sentDown' = sentDown + 1
    /\ UNCHANGED <<alive, visitor, service, sentUp, gotUp, gotDown, told>>

VisitorLeaves ==
    /\ \/ visitor = "open" /\ visitor' = "fin"
       \/ visitor \in {"open", "fin"} /\ visitor' = "closed"
    /\ UNCHANGED <<alive, service, bytes, told>>

ServiceLeaves ==
    /\ \/ service = "open" /\ service' = "fin"
       \/ service \in {"open", "fin"} /\ service' = "closed"
    /\ UNCHANGED <<alive, visitor, bytes, told>>

ServiceGets ==
    /\ service \in {"open", "fin"} /\ ~serviceTold
    /\ gotUp < sentUp
    /\ gotUp' = gotUp + 1
    /\ UNCHANGED <<alive, visitor, service, sentUp, sentDown, gotDown, told>>

VisitorGets ==
    /\ visitor \in {"open", "fin"} /\ ~visitorTold
    /\ gotDown < sentDown
    /\ gotDown' = gotDown + 1
    /\ UNCHANGED <<alive, visitor, service, sentUp, gotUp, sentDown, told>>

EndForVisitor ==
    /\ visitor # "none" /\ ~visitorTold
    /\ alive /\ visitor # "closed" => service # "open" /\ gotDown = sentDown
    /\ visitorTold' = TRUE
    /\ UNCHANGED <<alive, visitor, service, bytes, serviceTold>>

EndForService ==
    /\ service # "none" /\ ~serviceTold
    /\ alive /\ service # "closed" => visitor = "closed"
    /\ serviceTold' = TRUE
    /\ UNCHANGED <<alive, visitor, service, bytes, visitorTold>>

Next ==
    \/ Break \/ VisitorArrives \/ ServiceReached
    \/ VisitorSends \/ ServiceSends \/ VisitorLeaves \/ ServiceLeaves
    \/ ServiceGets \/ VisitorGets \/ EndForVisitor \/ EndForService

Spec == Init /\ [][Next]_vars
=============================================================================
