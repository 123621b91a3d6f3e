------------------------------ MODULE RoomBook ------------------------------
(***************************************************************************)
(* What the hub promises about rooms and who is in them, with none of the  *)
(* machinery of src/internal/server/vpn.go and room.go: a room, once made, *)
(* stays and keeps the password of whoever made it; a connection is        *)
(* admitted to one room, with its password, and may become a member of     *)
(* that room once; and a member goes only because its own session or       *)
(* control stream has ended, never because of somebody else.               *)
(***************************************************************************)
CONSTANTS
    Conns,       \* connections
    Rooms,       \* names of rooms
    Lobby,       \* the room that is always there
    Passwords, NoPassword,
    None         \* no room

VARIABLES
    made,        \* rooms that exist
    secret,      \* secret[r]: the password, NoPassword for a public room
    admitted,    \* admitted[c]: the room c may enter
    offered,     \* offered[c]: the password c was admitted with
    members,     \* members[r]
    spent,       \* connections that have entered, or been turned away
    over         \* connections whose session or control stream has ended

vars == <<made, secret, admitted, offered, members, spent, over>>

Init ==
    /\ made = {Lobby}
    /\ secret = [r \in Rooms |-> NoPassword]
    /\ admitted = [c \in Conns |-> None]
    /\ offered = [c \in Conns |-> NoPassword]
    /\ members = [r \in Rooms |-> {}]
    /\ spent = {}
    /\ over = {}

Make(r, w) ==
    /\ r \notin made
    /\ made' = made \union {r}
    /\ secret' = [secret EXCEPT ![r] = w]

Knows(r, w) ==
    /\ r \in made
    /\ secret[r] \in {NoPassword, w}
    /\ UNCHANGED <<made, secret>>

Admit(c, r, w) ==
    /\ admitted[c] = None
    /\ Make(r, w) \/ Knows(r, w)
    /\ admitted' = [admitted EXCEPT ![c] = r]
    /\ offered' = [offered EXCEPT ![c] = w]
    /\ UNCHANGED <<members, spent, over>>

Join(c) ==
    /\ admitted[c] # None
    /\ c \notin spent
    /\ members' = [members EXCEPT ![admitted[c]] = @ \union {c}]
    /\ spent' = spent \union {c}
    /\ UNCHANGED <<made, secret, admitted, offered, over>>

TurnAway(c) ==
    /\ c \notin spent
    /\ spent' = spent \union {c}
    /\ over' = over \union {c}
    /\ UNCHANGED <<made, secret, admitted, offered, members>>

Ends(c) ==
    /\ c \notin over
    /\ over' = over \union {c}
    /\ UNCHANGED <<made, secret, admitted, offered, members, spent>>

Leave(c, r) ==
    /\ c \in members[r] /\ c \in over
    /\ members' = [members EXCEPT ![r] = @ \ {c}]
    /\ UNCHANGED <<made, secret, admitted, offered, spent, over>>

Next ==
    \E c \in Conns :
        \/ Join(c) \/ TurnAway(c) \/ Ends(c)
        \/ \E r \in Rooms : Leave(c, r) \/ \E w \in Passwords : Admit(c, r, w)

Spec == Init /\ [][Next]_vars
=============================================================================
