------------------------------ MODULE Launches ------------------------------
(***************************************************************************)
(* One user's computer: the window of tunelc and tunelc --vpn in a         *)
(* terminal, started, closed and killed in any order, over one profile.    *)
(***************************************************************************)
EXTENDS DesktopClient, CommandLine

vars == <<profileVars, guiVars, cliVars>>

TypeOK == ProfileTypeOK /\ GuiTypeOK /\ CliTypeOK

Init == ProfileInit /\ GuiInit /\ CliInit

Next ==
    \/ GuiNext /\ UNCHANGED cliVars
    \/ CliNext /\ UNCHANGED guiVars

Spec == Init /\ [][Next]_vars

(***************************************************************************)
(* Fairness: a callback that has begun ends, the drain goroutine ticks,    *)
(* the goroutine of a session goes on, Run and RunVPN return when they are *)
(* cancelled (CancelStopsClient of TunnelSystem, CancelEndsVpn of          *)
(* VpnClient), and a poller sees its context's end.                        *)
(***************************************************************************)
Fairness ==
    /\ WF_vars(Callback /\ UNCHANGED cliVars)
    /\ WF_vars(Drain /\ UNCHANGED cliVars)
    /\ \A s \in Sessions :
           /\ WF_vars(~live[s] /\ Returns(s) /\ UNCHANGED cliVars)
           /\ WF_vars((SessionEnables(s) \/ SessionDisables(s)) /\ UNCHANGED cliVars)
           /\ WF_vars(PollEnds(s) /\ UNCHANGED cliVars)

FairSpec == Spec /\ Fairness

-----------------------------------------------------------------------------
(* Safety *)

Quiet == gui = "idle" /\ \A s \in Sessions : at[s] \in {"none", "done"}

\* Whichever way sessions ended, were refused or were disconnected, and however
\* their goroutines came between the statements of a callback: when nothing runs
\* any more the user can connect, and only that (gui.go: connectBtn,
\* disconnectBtn are set in four places).
NeverStuck == Quiet => connectOn /\ ~disconnectOn

\* When nothing runs any more and all events are drained the label says so,
\* whatever other sessions reported meanwhile, unless an event was dropped
\* (gui.go: emitStatus, the drain goroutine, applyStatus).
StatusSettles ==
    Quiet /\ evCh.n = 0 /\ ~dropped => label \in {"idle", "stopped", "error"}

\* All VPN sessions, of the window and of the terminal, have one identity, over
\* any number of starts and ends, as long as no tunnel is connected from the
\* window, no save fails or is cut off, and no program asks for the keys while
\* another does (profile.go; gui.go: doConnect; cli_impl.go: runCLI).
IdentityKept == calm => Cardinality(used) <= 1

-----------------------------------------------------------------------------
(* Liveness, under FairSpec *)

\* Desconectar ends the session that was begun last, and its poller (gui.go:
\* doDisconnect).
DisconnectEnds ==
    \A s \in Sessions :
        gui = "disconnecting" /\ latest = s ~> at[s] \in {"none", "done"} /\ ~poll[s]

-----------------------------------------------------------------------------
(* What the documentation says and the code does not do *)

\* README.md:262: "Desconectar: cierra todos los tuneles sin cerrar la app".
DisconnectClosesAll ==
    gui = "idle" /\ cancel = 0 => \A s \in Sessions : at[s] = "run" => ~live[s]

\* While a session runs that nobody has disconnected, Desconectar is enabled.
StopButtonThere ==
    gui = "idle" => \A s \in Sessions : at[s] = "run" /\ live[s] => disconnectOn

\* README.md:261: the indicator is grey for "detenido".
GreyMeansStopped ==
    gui = "idle" /\ evCh.n = 0 /\ label = "stopped" /\ ~dropped =>
        \A s \in Sessions : at[s] = "run" => ~live[s]

\* A poller ends with its session.
PollersEnd == \A s \in Sessions : at[s] = "done" ~> ~poll[s]

\* README.md:249: "Quitar elimina la fila", the one its button is in.
DeleteRemovesItsRow == \A i \in DOMAIN rows : rows[i] = i - 1

\* profile.go:23: the keys are "auto-generated on the first launch and never need
\* manual editing".
OneIdentity == Cardinality(used) <= 1

\* vpn.go starts the peer-to-peer manager with the signing key.
VpnHasSigningKey ==
    gui = "creating" /\ form.vpn => form.keep.ed
=============================================================================
