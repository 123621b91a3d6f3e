--------------------------- MODULE ReconnectLoop ---------------------------
(***************************************************************************)
(* What Client.Run and Client.RunVPN promise whoever calls them, that is   *)
(* runCLI and the goroutines of tunelc's window, with none of what they do *)
(* on the way (src/internal/client/client.go, vpn.go): attempts come one   *)
(* after the other, none once the context is cancelled and no more than    *)
(* were asked for, a refusal by the server ends it all, and it returns     *)
(* only for a reason: it was cancelled, refused or out of attempts.        *)
(*                                                                         *)
(* RunVPN has one reason more, which Run has not: a session that ends      *)
(* without an error.                                                       *)
(***************************************************************************)
EXTENDS Naturals

CONSTANTS
    MaxAttempts,  \* Config.MaxAttempts, 0 for no limit
    QuietEnd      \* a session may end without an error

VARIABLES
    cancelled,    \* the context is
    phase,        \* "idle" before an attempt, "trying", "connected"; then how the
                  \* attempt came out, "failed", "refused" or "ended"; "over"
    tries         \* attempts begun

vars == <<cancelled, phase, tries>>

Init ==
    /\ cancelled = FALSE
    /\ phase = "idle"
    /\ tries = 0

UsedUp == MaxAttempts > 0 /\ tries >= MaxAttempts

Cancel ==
    /\ ~cancelled
    /\ cancelled' = TRUE
    /\ UNCHANGED <<phase, tries>>

Begin ==
    /\ phase = "idle"
    /\ ~cancelled
    /\ phase' = "trying"
    /\ tries' = tries + 1
    /\ UNCHANGED cancelled

Move(from, to) ==
    /\ phase = from
    /\ phase' = to
    /\ UNCHANGED <<cancelled, tries>>

Connect == Move("trying", "connected")

Fail == Move("trying", "failed") \/ Move("connected", "failed")

Refuse == Move("trying", "refused")

End == QuietEnd /\ Move("connected", "ended")

Retry == ~cancelled /\ ~UsedUp /\ Move("failed", "idle")

Return ==
    \/ Move("refused", "over") \/ Move("ended", "over")
    \/ cancelled /\ (Move("idle", "over") \/ Move("connected", "over"))
    \/ (cancelled \/ UsedUp) /\ Move("failed", "over")

Next == Cancel \/ Begin \/ Connect \/ Fail \/ Refuse \/ End \/ Retry \/ Return

Spec == Init /\ [][Next]_vars
=============================================================================
