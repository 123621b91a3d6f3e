---------------------------- MODULE DesktopClient ----------------------------
(***************************************************************************)
(* tunelc's window (src/cmd/tunelc/gui.go): the rows of the tunnels, the   *)
(* buttons Conectar and Desconectar, the sessions they begin and cancel,   *)
(* the status label, and the profile that is loaded and saved on the way.  *)
(*                                                                         *)
(* The toolkit runs the callbacks one after the other; between their       *)
(* statements run the goroutine of each session, which sets the buttons    *)
(* when the session ends, the poller of each VPN session, and the one that *)
(* drains the events into the label.  What a session itself does is in     *)
(* TunnelClient and VpnClient: here it reports and returns.                *)
(***************************************************************************)
EXTENDS Profile, Sequences

CONSTANTS
    MaxSessions, \* bound: sessions of one run of the program
    Cap          \* capacity of evCh

ASSUME DesktopAssumption ==
    /\ MaxSessions \in Nat
    /\ Cap \in Nat \ {0}

Sessions == 1..MaxSessions

VARIABLES
    gui,          \* where the callbacks are; "idle" between them
    form,         \* what doConnect collects: [vpn, keep], keep being what it saves
    cancel,       \* the session whose CancelFunc is kept, 0 for nil
    latest,       \* the session begun last
    connectOn,    \* connectBtn is enabled
    disconnectOn, \* disconnectBtn is enabled
    rows,         \* the rows' idx, in the order of the rows
    at,           \* at[s]: the goroutine of session s
    live,         \* live[s]: its context is not cancelled
    poll,         \* poll[s]: its poller of P2PStats runs
    evCh,         \* the statuses in evCh: how many, and the last
    dropped,      \* history: evCh was full once
    label         \* the status label

engineVars == <<cancel, latest, live>>
buttonVars == <<connectOn, disconnectOn>>
statusVars == <<evCh, dropped, label>>
guiVars == <<gui, form, engineVars, buttonVars, rows, at, poll, statusVars>>

CallbackTypeOK ==
    /\ gui \in {"off", "idle", "saving", "writing", "arming", "enabling", "creating",
                "refusing", "disconnecting", "disconnected", "closing"}
    /\ cancel \in 0..MaxSessions /\ latest \in 0..MaxSessions
    /\ connectOn \in BOOLEAN /\ disconnectOn \in BOOLEAN

FormTypeOK ==
    /\ form \in [vpn : BOOLEAN, keep : Contents]
    /\ rows \in Seq(0..MaxRows)

SessionTypeOK ==
    /\ at \in [Sessions -> {"none", "run", "enable", "disable", "done"}]
    /\ live \in [Sessions -> BOOLEAN] /\ poll \in [Sessions -> BOOLEAN]

Statuses == {"idle", "busy", "stopped", "error"}

StatusTypeOK ==
    /\ evCh \in [n : 0..Cap, last : Statuses]
    /\ dropped \in BOOLEAN
    /\ label \in Statuses

GuiTypeOK == CallbackTypeOK /\ FormTypeOK /\ SessionTypeOK /\ StatusTypeOK

Blank == [vpn |-> FALSE, keep |-> Fresh]

NoEvents == [n |-> 0, last |-> "idle"]

GuiInit ==
    /\ gui = "off" /\ form = Blank /\ rows = <<>>
    /\ cancel = 0 /\ latest = 0
    /\ connectOn = TRUE /\ disconnectOn = FALSE
    /\ at = [s \in Sessions |-> "none"]
    /\ live = [s \in Sessions |-> FALSE]
    /\ poll = [s \in Sessions |-> FALSE]
    /\ evCh = NoEvents /\ dropped = FALSE /\ label = "idle"

-----------------------------------------------------------------------------
(* The program starts and goes *)

\* The rows come from the profile; one row is there if it has none.
Launch ==
    /\ gui = "off"
    /\ gui' = "idle"
    /\ rows' = [i \in 1..(IF saved.tunnels > 0 THEN saved.tunnels ELSE 1) |-> i - 1]
    /\ UNCHANGED <<profileVars, form, engineVars, buttonVars, at, poll, statusVars>>

\* The process ends and takes its goroutines with it.
Ends ==
    /\ gui' = "off" /\ form' = Blank /\ rows' = <<>>
    /\ cancel' = 0 /\ latest' = 0
    /\ connectOn' = TRUE /\ disconnectOn' = FALSE
    /\ at' = [s \in Sessions |-> "none"]
    /\ live' = [s \in Sessions |-> FALSE]
    /\ poll' = [s \in Sessions |-> FALSE]
    /\ evCh' = NoEvents /\ dropped' = FALSE /\ label' = "idle"
    /\ asking' = asking \ {"gui"}
    /\ calm' = (calm /\ gui # "writing")
    /\ UNCHANGED <<fileVars, issued, used>>

Kill == gui # "off" /\ Ends

\* CloseIntercept, after doDisconnect and 150 ms.
Close == gui = "closing" /\ Ends

-----------------------------------------------------------------------------
(* The rows of tab "Tuneles" *)

AddRow ==
    /\ gui = "idle"
    /\ Len(rows) < MaxRows
    /\ rows' = Append(rows, Len(rows))
    /\ UNCHANGED <<profileVars, gui, form, engineVars, buttonVars, at, poll, statusVars>>

Without(seq, i) == SubSeq(seq, 1, i - 1) \o SubSeq(seq, i + 1, Len(seq))

\* del.OnTapped of row i removes the row that has now the index row i was
\* created with, and panics if there is none.
DeleteRow(i) ==
    /\ gui = "idle"
    /\ i \in DOMAIN rows
    /\ \/ /\ rows[i] < Len(rows)
          /\ rows' = Without(rows, rows[i] + 1)
          /\ UNCHANGED <<profileVars, gui, form, engineVars, buttonVars, at, poll, statusVars>>
       \/ rows[i] >= Len(rows) /\ Ends

-----------------------------------------------------------------------------
(* Events and the label *)

\* emitStatus: the event is dropped when the channel is full.
Emit(st) ==
    /\ evCh' = IF evCh.n < Cap THEN [n |-> evCh.n + 1, last |-> st] ELSE evCh
    /\ dropped' = (dropped \/ evCh.n >= Cap)

\* The drain goroutine, at its tick: applyStatus for each, and the last stays.
Drain ==
    /\ evCh.n > 0
    /\ evCh' = NoEvents
    /\ label' = evCh.last
    /\ UNCHANGED <<profileVars, gui, form, engineVars, buttonVars, rows, at, poll, dropped>>

-----------------------------------------------------------------------------
(* doConnect *)

\* The keys an identity comes with, when it is generated here.
Keys(k) == [identity |-> k, ed |-> TRUE, tunnels |-> Len(rows)]

\* Sala Virtual: the keys are those of the profile, or new ones if it has none.
ConnectVpn ==
    /\ gui = "idle" /\ connectOn
    /\ latest < MaxSessions
    /\ LoadKeys("gui")
    /\ \/ /\ saved.identity # None
          /\ form' = [vpn |-> TRUE, keep |-> [saved EXCEPT !.tunnels = Len(rows)]]
          /\ UNCHANGED issued
       \/ /\ saved.identity = None
          /\ \E k \in Identities :
                 /\ Generated(k)
                 /\ form' = [vpn |-> TRUE, keep |-> Keys(k)]
    /\ gui' = "saving"
    /\ UNCHANGED <<fileVars, used, engineVars, buttonVars, rows, at, poll, statusVars>>

\* Tuneles: no keys are loaded, and none will be saved.
ConnectTunnels ==
    /\ gui = "idle" /\ connectOn
    /\ latest < MaxSessions
    /\ rows # <<>>
    /\ form' = [vpn |-> FALSE, keep |-> [Fresh EXCEPT !.tunnels = Len(rows)]]
    /\ calm' = FALSE
    /\ gui' = "saving"
    /\ UNCHANGED <<fileVars, issued, used, asking, engineVars, buttonVars, rows, at, poll,
                   statusVars>>

OpenProfile ==
    /\ gui = "saving"
    /\ \/ gui' = "writing" /\ Truncate /\ UNCHANGED <<asking, calm>>
       \/ gui' = "arming" /\ CannotOpen /\ asking' = asking \ {"gui"}
    /\ UNCHANGED <<issued, used, form, engineVars, buttonVars, rows, at, poll, statusVars>>

WriteProfile ==
    /\ gui = "writing"
    /\ gui' = "arming"
    /\ WriteOut(form.keep)
    /\ asking' = asking \ {"gui"}
    /\ UNCHANGED <<issued, used, form, engineVars, buttonVars, rows, at, poll, statusVars>>

\* A context is made and its cancel kept; then the first button.
Arm ==
    /\ gui = "arming"
    /\ gui' = "enabling"
    /\ latest' = latest + 1
    /\ cancel' = latest + 1
    /\ live' = [live EXCEPT ![latest + 1] = TRUE]
    /\ connectOn' = FALSE
    /\ UNCHANGED <<profileVars, form, disconnectOn, rows, at, poll, statusVars>>

EnableDisconnect ==
    /\ gui = "enabling"
    /\ gui' = "creating"
    /\ disconnectOn' = TRUE
    /\ UNCHANGED <<profileVars, form, engineVars, connectOn, rows, at, poll, statusVars>>

\* client.New refuses the settings.
NewFails ==
    /\ gui = "creating"
    /\ gui' = "refusing"
    /\ Emit("error")
    /\ connectOn' = TRUE
    /\ UNCHANGED <<profileVars, form, engineVars, disconnectOn, rows, at, poll, label>>

DisableDisconnect ==
    /\ gui = "refusing"
    /\ gui' = "idle"
    /\ disconnectOn' = FALSE
    /\ form' = Blank
    /\ UNCHANGED <<profileVars, engineVars, connectOn, rows, at, poll, statusVars>>

NewWorks ==
    /\ gui = "creating"
    /\ gui' = "idle"
    /\ form' = Blank
    /\ at' = [at EXCEPT ![latest] = "run"]
    /\ poll' = [poll EXCEPT ![latest] = form.vpn]
    /\ used' = used \union (IF form.vpn THEN {form.keep.identity} ELSE {})
    /\ UNCHANGED <<fileVars, issued, asking, calm, engineVars, buttonVars, rows,
                   statusVars>>

-----------------------------------------------------------------------------
(* doDisconnect *)

\* Variant: the function is forgotten before it is called.
CancelKeptForgotten ==
    /\ cancel' = 0
    /\ UNCHANGED <<live, latest>>

CancelKept ==
    /\ live' = IF cancel = 0 THEN live ELSE [live EXCEPT ![cancel] = FALSE]
    /\ cancel' = 0
    /\ UNCHANGED latest

Disconnect ==
    /\ gui = "idle" /\ disconnectOn
    /\ gui' = "disconnecting"
    /\ CancelKept
    /\ Emit("stopped")
    /\ UNCHANGED <<profileVars, form, buttonVars, rows, at, poll, label>>

\* The window is closed: the same, and Close after a while.
CloseWindow ==
    /\ gui = "idle"
    /\ gui' = "closing"
    /\ CancelKept
    /\ UNCHANGED <<profileVars, form, buttonVars, rows, at, poll, statusVars>>

Disconnecting ==
    /\ gui = "disconnecting"
    /\ gui' = "disconnected"
    /\ disconnectOn' = FALSE
    /\ UNCHANGED <<profileVars, form, engineVars, connectOn, rows, at, poll, statusVars>>

Disconnected ==
    /\ gui = "disconnected"
    /\ gui' = "idle"
    /\ connectOn' = TRUE
    /\ UNCHANGED <<profileVars, form, engineVars, disconnectOn, rows, at, poll, statusVars>>

-----------------------------------------------------------------------------
(* The goroutines of a session *)

\* OnEvent: connecting, connected and reconnecting look alike here.
Report(s) ==
    /\ at[s] = "run"
    /\ Emit("busy")
    /\ UNCHANGED <<profileVars, gui, form, engineVars, buttonVars, rows, at, poll, label>>

\* Variant: doDisconnect has said "stopped" already.
ReturnsQuietly(s) ==
    /\ at[s] = "run"
    /\ at' = [at EXCEPT ![s] = "enable"]
    /\ IF live[s] THEN Emit("stopped") ELSE UNCHANGED <<evCh, dropped>>
    /\ UNCHANGED <<profileVars, gui, form, engineVars, buttonVars, rows, poll, label>>

\* Run or RunVPN returns, because it is cancelled or by itself.
Returns(s) ==
    /\ at[s] = "run"
    /\ at' = [at EXCEPT ![s] = "enable"]
    /\ Emit("stopped")
    /\ UNCHANGED <<profileVars, gui, form, engineVars, buttonVars, rows, poll, label>>

\* Variant: who has not disconnected need not connect.
SessionEnablesIfCancelled(s) ==
    /\ at[s] = "enable"
    /\ at' = [at EXCEPT ![s] = "disable"]
    /\ connectOn' = (connectOn \/ ~live[s])
    /\ UNCHANGED <<profileVars, gui, form, engineVars, disconnectOn, rows, poll, statusVars>>

SessionEnables(s) ==
    /\ at[s] = "enable"
    /\ at' = [at EXCEPT ![s] = "disable"]
    /\ connectOn' = TRUE
    /\ UNCHANGED <<profileVars, gui, form, engineVars, disconnectOn, rows, poll, statusVars>>

SessionDisables(s) ==
    /\ at[s] = "disable"
    /\ at' = [at EXCEPT ![s] = "done"]
    /\ disconnectOn' = FALSE
    /\ UNCHANGED <<profileVars, gui, form, engineVars, connectOn, rows, poll, statusVars>>

\* The poller looks at nothing but the context.
PollEnds(s) ==
    /\ poll[s] /\ ~live[s]
    /\ poll' = [poll EXCEPT ![s] = FALSE]
    /\ UNCHANGED <<profileVars, gui, form, engineVars, buttonVars, rows, at, statusVars>>

-----------------------------------------------------------------------------

\* A callback that has begun goes on.
Callback ==
    \/ OpenProfile \/ WriteProfile \/ Arm \/ EnableDisconnect
    \/ NewFails \/ DisableDisconnect \/ NewWorks
    \/ Disconnecting \/ Disconnected \/ Close

User ==
    \/ Launch \/ Kill \/ AddRow \/ (\E i \in 1..MaxRows : DeleteRow(i))
    \/ ConnectVpn \/ ConnectTunnels \/ Disconnect \/ CloseWindow

GuiNext ==
    \/ User \/ Callback \/ Drain
    \/ \E s \in Sessions :
           Report(s) \/ Returns(s) \/ SessionEnables(s) \/ SessionDisables(s) \/ PollEnds(s)
=============================================================================
