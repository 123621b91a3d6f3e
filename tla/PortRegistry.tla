---------------------------- MODULE PortRegistry ----------------------------
(***************************************************************************)
(* What the tunnel registry of a server connection promises, with none of  *)
(* the machinery of src/internal/server/connection.go: in every connection *)
(* a public port is held by at most one tunnel, a tunnel holds a port at   *)
(* most once in its life, an entry disappears only because its own tunnel  *)
(* gives it up or because the whole connection closes, and a connection    *)
(* that has closed never registers a tunnel again.                         *)
(***************************************************************************)
CONSTANTS Conns,      \* connections of the server
          Tunnels,    \* tunnels that may ever be asked for
          PortNums,   \* public ports
          None        \* no tunnel

VARIABLES open,       \* open[c]: the connection still takes tunnels
          holder,     \* holder[c][p]: the tunnel that holds port p in c
          used        \* tunnels that hold or have held a port

vars == <<open, holder, used>>

Init ==
    /\ open = [c \in Conns |-> TRUE]
    /\ holder = [c \in Conns |-> [p \in PortNums |-> None]]
    /\ used = {}

Acquire(c, p, t) ==
    /\ open[c]
    /\ holder[c][p] = None
    /\ t \notin used
    /\ holder' = [holder EXCEPT ![c][p] = t]
    /\ used' = used \union {t}
    /\ UNCHANGED open

GiveUp(c, p, t) ==
    /\ holder[c][p] = t
    /\ holder' = [holder EXCEPT ![c][p] = None]
    /\ UNCHANGED <<open, used>>

Close(c) ==
    /\ open[c]
    /\ open' = [open EXCEPT ![c] = FALSE]
    /\ holder' = [holder EXCEPT ![c] = [p \in PortNums |-> None]]
    /\ UNCHANGED used

Next ==
    \E c \in Conns :
        \/ Close(c)
        \/ \E p \in PortNums, t \in Tunnels : Acquire(c, p, t) \/ GiveUp(c, p, t)

Spec == Init /\ [][Next]_vars
=============================================================================
