--------------------------- MODULE LaunchesProofs ---------------------------
(***************************************************************************)
(* Proofs about Launches: types, the buttons and the label when nothing    *)
(* runs, and one identity, for any numbers of sessions, key pairs, rows    *)
(* and events.                                                             *)
(***************************************************************************)
EXTENDS Launches, SequenceTheorems, FiniteSetTheorems, TLAPS

\* A session whose goroutine is at one of these has not ended.
Some(where) == \E s \in Sessions : at[s] \in where

\* A button that is not as it is when nothing runs has somebody to set it: the
\* callback that is under way, or a session that has not yet ended.
ButtonInv ==
    /\ ~connectOn =>
           gui \in {"enabling", "creating", "disconnecting", "disconnected"} \/ Some({"run", "enable"})
    /\ disconnectOn =>
           gui \in {"creating", "refusing", "disconnecting"} \/ Some({"run", "enable", "disable"})
    /\ gui \in {"saving", "writing", "arming"} => latest < MaxSessions
    /\ gui \in {"enabling", "creating", "refusing"} => latest \in Sessions

\* What the label will say when the events there are have been drained.
Final == IF evCh.n > 0 THEN evCh.last ELSE label

StatusInv == ~dropped /\ Final = "busy" => Some({"run"})

RowsInv == Len(rows) <= MaxRows

\* Whoever connects has an identity, and one that was generated.
KeysInv ==
    /\ saved.identity \in issued \union {None}
    /\ form.keep.identity \in issued \union {None}
    /\ prof.identity \in issued \union {None}
    /\ form.vpn => form.keep.identity # None
    /\ cli \notin {"off", "identity"} => prof.identity # None

\* The identity that is on file, or will be when the save that is under way ends.
Held ==
    IF Writing THEN prof.identity
    ELSE IF gui = "writing" THEN form.keep.identity
    ELSE saved.identity

Loading == cli \in {"identity", "save identity", "write identity", "ed", "save ed", "write ed"}

\* One program at a time is between loading and saving, what it will save is what
\* is held or there is nothing yet, and nobody ever used another.
IdentityInv ==
    calm =>
        /\ gui \in {"saving", "writing"} => form.vpn /\ "gui" \in asking
        /\ Loading => "cli" \in asking
        /\ "gui" \notin asking \/ "cli" \notin asking
        /\ used \subseteq {Held}
        /\ gui = "saving" => saved.identity \in {None, form.keep.identity}
        /\ gui \in {"arming", "enabling", "creating"} /\ form.vpn => form.keep.identity = Held
        /\ cli = "identity" => prof.identity = saved.identity
        /\ cli = "save identity" => saved.identity = None
        /\ cli \in {"ed", "save ed", "new"} => prof.identity = Held

LaunchInv == TypeOK /\ ButtonInv /\ StatusInv /\ RowsInv /\ KeysInv /\ IdentityInv

-----------------------------------------------------------------------------

LEMMA LaunchInit == Init => LaunchInv
  <1> SUFFICES ASSUME Init PROVE LaunchInv
    OBVIOUS
  <1> USE ProfileAssumption, DesktopAssumption
      DEF Init, ProfileInit, GuiInit, CliInit, Fresh, Blank, NoEvents, Contents
  <1>1. ProfileTypeOK /\ CliTypeOK
    BY DEF ProfileTypeOK, CliTypeOK, Programs
  <1>2. CallbackTypeOK /\ StatusTypeOK
    <2>1. connectOn \in BOOLEAN /\ disconnectOn \in BOOLEAN /\ dropped \in BOOLEAN
      OBVIOUS
    <2>2. QED
      BY <2>1 DEF CallbackTypeOK, StatusTypeOK, Statuses
  <1>3. FormTypeOK
    <2>1. form \in [vpn : BOOLEAN, keep : Contents]
      BY DEF FormTypeOK
    <2>2. rows \in Seq(0..MaxRows)
      BY EmptySeq
    <2>3. QED
      BY <2>1, <2>2 DEF FormTypeOK
  <1>4. SessionTypeOK
    BY DEF SessionTypeOK, Sessions
  <1>5. ButtonInv /\ StatusInv /\ RowsInv /\ KeysInv
    BY DEF ButtonInv, StatusInv, RowsInv, KeysInv, Final, Some
  <1>6. IdentityInv
    BY DEF IdentityInv, Held, Writing, Loading, Programs
  <1>7. QED
    BY <1>1, <1>2, <1>3, <1>4, <1>5, <1>6 DEF LaunchInv, TypeOK, GuiTypeOK

\* The rows stay a sequence of indices when one is taken out.
LEMMA WithoutRow ==
    ASSUME NEW S, NEW seq \in Seq(S), NEW i \in 1..Len(seq)
    PROVE  /\ Without(seq, i) \in Seq(S)
           /\ Len(Without(seq, i)) = Len(seq) - 1
  <1>1. i \in Nat /\ Len(seq) \in Nat /\ \A j \in 1..Len(seq) : seq[j] \in S
    BY ElementOfSeq, LenProperties
  <1>2. SubSeq(seq, 1, i - 1) \in Seq(S) /\ Len(SubSeq(seq, 1, i - 1)) = i - 1
    <2>1. \A j \in 1..(i - 1) : seq[j] \in S
      BY <1>1
    <2>2. QED
      BY <1>1, <2>1, SubSeqProperties
  <1>3. /\ SubSeq(seq, i + 1, Len(seq)) \in Seq(S)
        /\ Len(SubSeq(seq, i + 1, Len(seq))) = Len(seq) - i
    <2>1. \A j \in (i + 1)..Len(seq) : seq[j] \in S
      BY <1>1
    <2>2. QED
      BY <1>1, <2>1, SubSeqProperties
  <1>4. QED
    <2> DEFINE front == SubSeq(seq, 1, i - 1)
               back == SubSeq(seq, i + 1, Len(seq))
    <2>1. front \o back \in Seq(S) /\ Len(front \o back) = Len(front) + Len(back)
      <3> HIDE DEF front, back
      <3>1. QED
        BY <1>2, <1>3, ConcatProperties DEF front, back
    <2>2. Len(front) + Len(back) = Len(seq) - 1
      <3>1. Len(front) = i - 1 /\ Len(back) = Len(seq) - i
        BY <1>2, <1>3
      <3> HIDE DEF front, back
      <3>2. QED
        BY <1>1, <3>1
    <2>3. Without(seq, i) = front \o back
      BY DEF Without
    <2>4. QED
      BY <2>1, <2>2, <2>3, Zenon

\* The rows when the window opens: one for each tunnel, and at least one.
LEMMA LaunchedRows ==
    ASSUME ProfileTypeOK, Launch
    PROVE  rows' \in Seq(0..MaxRows) /\ Len(rows') <= MaxRows
  <1> DEFINE n == IF saved.tunnels > 0 THEN saved.tunnels ELSE 1
  <1>1. n \in 1..MaxRows
    BY ProfileAssumption DEF ProfileTypeOK, Contents
  <1>2. rows' = [i \in 1..n |-> i - 1]
    BY DEF Launch
  <1>3. \A i \in 1..n : i - 1 \in 0..MaxRows
    BY <1>1, ProfileAssumption
  <1>4. rows' \in Seq(0..MaxRows) /\ Len(rows') = n
    <2> HIDE DEF n
    <2>1. QED
      BY <1>1, <1>2, <1>3, SMT
  <1>5. QED
    BY <1>1, <1>4

\* Profiles that are completed, or made from what the window has, are profiles.
LEMMA KeptType ==
    ASSUME LaunchInv
    PROVE  /\ Len(rows) \in 0..MaxRows
           /\ [saved EXCEPT !.tunnels = Len(rows)] \in Contents
           /\ [Fresh EXCEPT !.tunnels = Len(rows)] \in Contents
           /\ \A k \in Identities : Keys(k) \in Contents
  <1>1. Len(rows) \in 0..MaxRows
    BY ProfileAssumption DEF LaunchInv, RowsInv, TypeOK, GuiTypeOK, FormTypeOK
  <1>2. saved \in Contents /\ Fresh \in Contents
    BY ProfileAssumption DEF LaunchInv, TypeOK, ProfileTypeOK, Contents, Fresh
  <1>3. ASSUME NEW p \in Contents PROVE [p EXCEPT !.tunnels = Len(rows)] \in Contents
    BY <1>1 DEF Contents
  <1>4. QED
    BY <1>1, <1>2, <1>3 DEF Keys, Contents

\* A profile without anything is one.
LEMMA FreshType == Fresh \in Contents
  BY ProfileAssumption DEF Fresh, Contents

\* The identity of a profile when one of its fields is set.
LEMMA Fields ==
    ASSUME NEW p \in Contents, NEW x
    PROVE  /\ [p EXCEPT !.identity = x].identity = x
           /\ [p EXCEPT !.ed = x].identity = p.identity
           /\ [p EXCEPT !.tunnels = x].identity = p.identity
  BY DEF Contents

\* Whatever becomes of a save, the file is a profile.
LEMMA SaveType ==
    ASSUME ProfileTypeOK, NEW p \in Contents, Truncate \/ CannotOpen \/ WriteOut(p)
    PROVE  disk' \in {"empty", "torn", "whole"} /\ saved' \in Contents
  <1>1. CASE Truncate
    BY <1>1, FreshType DEF Truncate
  <1>2. CASE CannotOpen
    BY <1>2 DEF CannotOpen, fileVars, ProfileTypeOK
  <1>3. CASE WriteOut(p)
    BY <1>3, FreshType DEF WriteOut
  <1>4. QED
    BY <1>1, <1>2, <1>3

\* What is left when the process has ended.
LEMMA EndsType ==
    ASSUME LaunchInv, Ends
    PROVE  (ProfileTypeOK /\ GuiTypeOK)'
  <1> USE ProfileAssumption, DesktopAssumption
      DEF LaunchInv, TypeOK, Ends, Fresh, Blank, NoEvents, Contents
  <1>1. /\ connectOn' \in BOOLEAN /\ disconnectOn' \in BOOLEAN
        /\ dropped' \in BOOLEAN /\ calm' \in BOOLEAN
    OBVIOUS
  <1>2. ProfileTypeOK'
    BY <1>1 DEF ProfileTypeOK, Programs, fileVars
  <1>3. (CallbackTypeOK /\ StatusTypeOK)'
    BY <1>1 DEF CallbackTypeOK, StatusTypeOK, Statuses
  <1>4. form' \in [vpn : BOOLEAN, keep : Contents]
    OBVIOUS
  <1>5. rows' \in Seq(0..MaxRows)
    BY EmptySeq
  <1>6. SessionTypeOK'
    BY DEF SessionTypeOK, Sessions
  <1>7. QED
    BY <1>2, <1>3, <1>4, <1>5, <1>6 DEF GuiTypeOK, FormTypeOK

-----------------------------------------------------------------------------
(* One lemma for each part of the types *)

\* The profile file and its history.
LEMMA ProfileTypeStep ==
    ASSUME LaunchInv, Next
    PROVE  ProfileTypeOK'
  <1> USE ProfileAssumption, DesktopAssumption
      DEF LaunchInv, TypeOK, GuiTypeOK, ProfileTypeOK, Programs, KeysInv, FormTypeOK, CliTypeOK,
          Contents, Fresh, fileVars, historyVars, profileVars
  <1>1. CASE UNCHANGED <<fileVars, historyVars>>
    BY <1>1
  <1>2. CASE ConnectVpn
    BY <1>2 DEF ConnectVpn, LoadKeys, Generated
  <1>3. CASE ConnectTunnels
    BY <1>3 DEF ConnectTunnels
  <1>4. CASE OpenProfile
    <2>1. CASE Truncate /\ UNCHANGED <<asking, calm>>
      BY <1>4, <2>1, SaveType DEF OpenProfile
    <2>2. CASE CannotOpen /\ asking' = asking \ {"gui"}
      BY <1>4, <2>2, SaveType DEF OpenProfile, CannotOpen
    <2>3. QED
      BY <1>4, <2>1, <2>2 DEF OpenProfile
  <1>5. CASE WriteProfile
    <2>1. WriteOut(form.keep) /\ form.keep \in Contents /\ calm' \in BOOLEAN
      BY <1>5 DEF WriteProfile, WriteOut
    <2>2. QED
      BY <1>5, <2>1, SaveType DEF WriteProfile
  <1>6. CASE NewWorks
    BY <1>6 DEF NewWorks
  <1>7. CASE Kill \/ Close
    BY <1>7, EndsType DEF Kill, Close
  <1>8. ASSUME NEW i \in 1..MaxRows, DeleteRow(i) PROVE ProfileTypeOK'
    BY <1>8, EndsType DEF DeleteRow
  <1>9. CASE Start
    BY <1>9 DEF Start, LoadKeys
  <1>10. CASE MakeIdentity
    BY <1>10 DEF MakeIdentity, Generated
  <1>11. CASE HasEd
    BY <1>11 DEF HasEd
  <1>12. CASE CliOpensProfile
    <2>1. (Truncate \/ CannotOpen) /\ calm' \in BOOLEAN /\ asking' \subseteq asking
      BY <1>12 DEF CliOpensProfile, CannotOpen, Saved
    <2>2. QED
      BY <1>12, <2>1, SaveType DEF CliOpensProfile
  <1>13. CASE CliWritesProfile
    <2>1. WriteOut(prof) /\ calm' \in BOOLEAN /\ asking' \subseteq asking
      BY <1>13 DEF CliWritesProfile, WriteOut, Saved
    <2>2. QED
      BY <1>13, <2>1, SaveType DEF CliWritesProfile
  <1>14. CASE Begin
    BY <1>14 DEF Begin
  <1>15. CASE Stop
    BY <1>15 DEF Stop
  <1>16. QED
    BY <1>1, <1>2, <1>3, <1>4, <1>5, <1>6, <1>7, <1>8, <1>9, <1>10, <1>11, <1>12,
       <1>13, <1>14, <1>15
       DEF Next, GuiNext, User, Callback, CliNext, Launch, AddRow, Disconnect,
           CloseWindow, Arm, EnableDisconnect, NewFails, DisableDisconnect,
           Disconnecting, Disconnected, Drain, Report, Returns, SessionEnables,
           SessionDisables, PollEnds, Kill, Close, HasIdentity, MakeEd,
           profileVars, fileVars, historyVars, guiVars, engineVars, buttonVars,
           statusVars, cliVars

\* runCLI.
LEMMA CliTypeStep ==
    ASSUME LaunchInv, Next
    PROVE  CliTypeOK'
  <1> USE ProfileAssumption, DesktopAssumption
      DEF LaunchInv, TypeOK, CliTypeOK, ProfileTypeOK, Contents, profileVars, cliVars
  <1>1. CASE UNCHANGED <<cliVars>>
    BY <1>1
  <1>2. CASE Start
    BY <1>2 DEF Start
  <1>3. CASE HasIdentity
    BY <1>3 DEF HasIdentity
  <1>4. CASE MakeIdentity
    BY <1>4 DEF MakeIdentity, Generated
  <1>5. CASE HasEd
    BY <1>5 DEF HasEd
  <1>6. CASE MakeEd
    BY <1>6 DEF MakeEd
  <1>7. CASE CliOpensProfile
    BY <1>7 DEF CliOpensProfile, Saved, Saving
  <1>8. CASE CliWritesProfile
    BY <1>8 DEF CliWritesProfile, Saved, Writing
  <1>9. CASE Begin
    BY <1>9 DEF Begin
  <1>10. CASE Stop
    BY <1>10, FreshType DEF Stop
  <1>11. QED
    BY <1>1, <1>2, <1>3, <1>4, <1>5, <1>6, <1>7, <1>8, <1>9, <1>10
       DEF Next, GuiNext, User, Callback, CliNext, Launch, AddRow, DeleteRow,
           ConnectVpn, ConnectTunnels, Disconnect, CloseWindow, OpenProfile,
           WriteProfile, Arm, EnableDisconnect, NewFails, DisableDisconnect,
           NewWorks, Disconnecting, Disconnected, Drain, Report, Returns,
           SessionEnables, SessionDisables, PollEnds, Kill, Close, profileVars,
           fileVars, historyVars, guiVars, engineVars, buttonVars, statusVars,
           cliVars

\* The form and the rows.
LEMMA FormTypeStep ==
    ASSUME LaunchInv, Next
    PROVE  FormTypeOK'
  <1> USE ProfileAssumption, DesktopAssumption
      DEF LaunchInv, TypeOK, GuiTypeOK, FormTypeOK, ProfileTypeOK, Contents, Fresh, KeysInv
  <1>1. CASE UNCHANGED <<form, rows>>
    BY <1>1
  <1>2. CASE Launch
    BY <1>2, LaunchedRows DEF Launch
  <1>3. CASE AddRow
    BY <1>3 DEF AddRow
  <1>4. ASSUME NEW i \in 1..MaxRows, DeleteRow(i) PROVE FormTypeOK'
    <2>1. CASE Ends
      BY <2>1, EndsType
    <2>2. CASE rows[i] < Len(rows) /\ rows' = Without(rows, rows[i] + 1) /\ form' = form
      <3>1. i \in DOMAIN rows /\ rows[i] \in 0..MaxRows /\ rows[i] + 1 \in 1..Len(rows)
        BY <1>4, <2>2 DEF DeleteRow
      <3>2. QED
        BY <2>2, <3>1, WithoutRow
    <2>3. QED
      BY <1>4, <2>1, <2>2 DEF DeleteRow
  <1>5. CASE ConnectVpn
    <2>1. PICK keep \in Contents : form' = [vpn |-> TRUE, keep |-> keep]
      BY <1>5, KeptType DEF ConnectVpn, Generated
    <2>2. QED
      BY <1>5, <2>1 DEF ConnectVpn
  <1>6. CASE ConnectTunnels
    BY <1>6, KeptType DEF ConnectTunnels
  <1>7. CASE DisableDisconnect
    BY <1>7 DEF DisableDisconnect, Blank
  <1>8. CASE NewWorks
    BY <1>8 DEF NewWorks, Blank
  <1>9. CASE Kill \/ Close
    BY <1>9, EndsType DEF Kill, Close
  <1>10. QED
    BY <1>1, <1>2, <1>3, <1>4, <1>5, <1>6, <1>7, <1>8, <1>9
       DEF Next, GuiNext, User, Callback, CliNext, Disconnect, CloseWindow,
           OpenProfile, WriteProfile, Arm, EnableDisconnect, NewFails,
           Disconnecting, Disconnected, Drain, Report, Returns, SessionEnables,
           SessionDisables, PollEnds, Kill, Close, Start, HasIdentity,
           MakeIdentity, HasEd, MakeEd, CliOpensProfile, CliWritesProfile, Begin,
           Stop, profileVars, fileVars, historyVars, guiVars, engineVars,
           buttonVars, statusVars, cliVars

\* The goroutines of the sessions.
LEMMA SessionTypeStep ==
    ASSUME LaunchInv, Next
    PROVE  SessionTypeOK'
  <1> USE ProfileAssumption, DesktopAssumption
      DEF LaunchInv, TypeOK, GuiTypeOK, SessionTypeOK, FormTypeOK, Sessions, engineVars
  <1>1. CASE UNCHANGED <<at, live, poll>>
    BY <1>1
  <1>2. CASE Arm
    BY <1>2 DEF Arm
  <1>3. CASE NewWorks
    BY <1>3 DEF NewWorks
  <1>4. CASE Disconnect
    BY <1>4 DEF Disconnect, CancelKept
  <1>5. CASE CloseWindow
    BY <1>5 DEF CloseWindow, CancelKept
  <1>6. ASSUME NEW s \in Sessions, Returns(s) PROVE SessionTypeOK'
    BY <1>6 DEF Returns
  <1>7. ASSUME NEW s \in Sessions, SessionEnables(s) PROVE SessionTypeOK'
    BY <1>7 DEF SessionEnables
  <1>8. ASSUME NEW s \in Sessions, SessionDisables(s) PROVE SessionTypeOK'
    BY <1>8 DEF SessionDisables
  <1>9. ASSUME NEW s \in Sessions, PollEnds(s) PROVE SessionTypeOK'
    BY <1>9 DEF PollEnds
  <1>10. CASE Kill \/ Close
    BY <1>10, EndsType DEF Kill, Close
  <1>11. ASSUME NEW i \in 1..MaxRows, DeleteRow(i) PROVE SessionTypeOK'
    BY <1>11, EndsType DEF DeleteRow
  <1>12. QED
    BY <1>1, <1>2, <1>3, <1>4, <1>5, <1>6, <1>7, <1>8, <1>9, <1>10, <1>11
       DEF Next, GuiNext, User, Callback, CliNext, Launch, AddRow, ConnectVpn,
           ConnectTunnels, OpenProfile, WriteProfile, EnableDisconnect, NewFails,
           DisableDisconnect, Disconnecting, Disconnected, Drain, Report, Kill,
           Close, Start, HasIdentity, MakeIdentity, HasEd, MakeEd, CliOpensProfile,
           CliWritesProfile, Begin, Stop, profileVars, fileVars, historyVars,
           guiVars, engineVars, buttonVars, statusVars, cliVars

\* The events and the label.
LEMMA StatusTypeStep ==
    ASSUME LaunchInv, Next
    PROVE  StatusTypeOK'
  <1> USE ProfileAssumption, DesktopAssumption
      DEF LaunchInv, TypeOK, GuiTypeOK, StatusTypeOK, Statuses, statusVars
  <1>1. CASE UNCHANGED <<evCh, dropped, label>>
    BY <1>1
  <1>2. CASE Disconnect
    BY <1>2 DEF Disconnect, Emit
  <1>3. CASE NewFails
    BY <1>3 DEF NewFails, Emit
  <1>4. ASSUME NEW s \in Sessions, Report(s) PROVE StatusTypeOK'
    BY <1>4 DEF Report, Emit
  <1>5. ASSUME NEW s \in Sessions, Returns(s) PROVE StatusTypeOK'
    BY <1>5 DEF Returns, Emit
  <1>6. CASE Drain
    BY <1>6 DEF Drain, NoEvents
  <1>7. CASE Kill \/ Close
    BY <1>7, EndsType DEF Kill, Close
  <1>8. ASSUME NEW i \in 1..MaxRows, DeleteRow(i) PROVE StatusTypeOK'
    BY <1>8, EndsType DEF DeleteRow
  <1>9. QED
    BY <1>1, <1>2, <1>3, <1>4, <1>5, <1>6, <1>7, <1>8
       DEF Next, GuiNext, User, Callback, CliNext, Launch, AddRow, ConnectVpn,
           ConnectTunnels, CloseWindow, OpenProfile, WriteProfile, Arm,
           EnableDisconnect, DisableDisconnect, NewWorks, Disconnecting,
           Disconnected, SessionEnables, SessionDisables, PollEnds, Kill, Close,
           Start, HasIdentity, MakeIdentity, HasEd, MakeEd, CliOpensProfile,
           CliWritesProfile, Begin, Stop, profileVars, fileVars, historyVars,
           guiVars, engineVars, buttonVars, statusVars, cliVars

\* The callbacks and the buttons.
LEMMA CallbackTypeStep ==
    ASSUME LaunchInv, Next
    PROVE  CallbackTypeOK'
  <1> USE ProfileAssumption, DesktopAssumption
     
         DEF LaunchInv, TypeOK, GuiTypeOK, CallbackTypeOK, ButtonInv, Sessions, engineVars,
             buttonVars
  <1>1. CASE UNCHANGED <<gui, cancel, latest, connectOn, disconnectOn>>
    BY <1>1
  <1>2. CASE Launch
    BY <1>2 DEF Launch
  <1>3. CASE ConnectVpn
    BY <1>3 DEF ConnectVpn
  <1>4. CASE ConnectTunnels
    BY <1>4 DEF ConnectTunnels
  <1>5. CASE Disconnect
    BY <1>5 DEF Disconnect, CancelKept
  <1>6. CASE CloseWindow
    BY <1>6 DEF CloseWindow, CancelKept
  <1>7. CASE OpenProfile
    BY <1>7 DEF OpenProfile
  <1>8. CASE WriteProfile
    BY <1>8 DEF WriteProfile
  <1>9. CASE Arm
    <2>1. connectOn' \in BOOLEAN /\ disconnectOn' \in BOOLEAN
      BY <1>9 DEF Arm
    <2>2. QED
      BY <1>9, <2>1 DEF Arm
  <1>10. CASE EnableDisconnect
    BY <1>10 DEF EnableDisconnect
  <1>11. CASE NewFails
    BY <1>11 DEF NewFails
  <1>12. CASE DisableDisconnect
    BY <1>12 DEF DisableDisconnect
  <1>13. CASE NewWorks
    BY <1>13 DEF NewWorks
  <1>14. CASE Disconnecting
    BY <1>14 DEF Disconnecting
  <1>15. CASE Disconnected
    BY <1>15 DEF Disconnected
  <1>16. ASSUME NEW s \in Sessions, SessionEnables(s) PROVE CallbackTypeOK'
    BY <1>16 DEF SessionEnables
  <1>17. ASSUME NEW s \in Sessions, SessionDisables(s) PROVE CallbackTypeOK'
    BY <1>17 DEF SessionDisables
  <1>18. CASE Kill \/ Close
    BY <1>18, EndsType DEF Kill, Close
  <1>19. ASSUME NEW i \in 1..MaxRows, DeleteRow(i) PROVE CallbackTypeOK'
    BY <1>19, EndsType DEF DeleteRow
  <1>20. QED
    BY <1>1, <1>2, <1>3, <1>4, <1>5, <1>6, <1>7, <1>8, <1>9, <1>10, <1>11, <1>12,
       <1>13, <1>14, <1>15, <1>16, <1>17, <1>18, <1>19
       DEF Next, GuiNext, User, Callback, CliNext, AddRow, Drain, Report, Returns,
           PollEnds, Kill, Close, Start, HasIdentity, MakeIdentity, HasEd, MakeEd,
           CliOpensProfile, CliWritesProfile, Begin, Stop, profileVars, fileVars,
           historyVars, guiVars, engineVars, buttonVars, statusVars, cliVars

-----------------------------------------------------------------------------
(* One lemma for each other part of the invariant *)

\* A button has somebody to set it.
LEMMA ButtonStep ==
    ASSUME LaunchInv, Next
    PROVE  ButtonInv'
  <1> USE ProfileAssumption, DesktopAssumption
     
         DEF LaunchInv, TypeOK, GuiTypeOK, CallbackTypeOK, SessionTypeOK, ButtonInv, Some,
             Sessions,
          engineVars, buttonVars
  <1>1. CASE UNCHANGED <<gui, latest, connectOn, disconnectOn, at>>
    BY <1>1
  <1>2. CASE Launch
    BY <1>2 DEF Launch
  <1>3. CASE ConnectVpn
    BY <1>3 DEF ConnectVpn
  <1>4. CASE ConnectTunnels
    BY <1>4 DEF ConnectTunnels
  <1>5. CASE Disconnect
    BY <1>5 DEF Disconnect, CancelKept
  <1>6. CASE CloseWindow
    BY <1>6 DEF CloseWindow, CancelKept
  <1>7. CASE OpenProfile
    BY <1>7 DEF OpenProfile
  <1>8. CASE WriteProfile
    BY <1>8 DEF WriteProfile
  <1>9. CASE Arm
    BY <1>9 DEF Arm
  <1>10. CASE EnableDisconnect
    BY <1>10 DEF EnableDisconnect
  <1>11. CASE NewFails
    BY <1>11 DEF NewFails
  <1>12. CASE DisableDisconnect
    BY <1>12 DEF DisableDisconnect
  <1>13. CASE NewWorks
    BY <1>13 DEF NewWorks
  <1>14. CASE Disconnecting
    BY <1>14 DEF Disconnecting
  <1>15. CASE Disconnected
    BY <1>15 DEF Disconnected
  <1>16. ASSUME NEW s \in Sessions, Returns(s) PROVE ButtonInv'
    BY <1>16 DEF Returns
  <1>17. ASSUME NEW s \in Sessions, SessionEnables(s) PROVE ButtonInv'
    BY <1>17 DEF SessionEnables
  <1>18. ASSUME NEW s \in Sessions, SessionDisables(s) PROVE ButtonInv'
    BY <1>18 DEF SessionDisables
  <1>19. CASE Kill \/ Close
    BY <1>19, EndsType
       DEF Kill, Close, Ends, Blank, Fresh, NoEvents, engineVars, buttonVars, statusVars
  <1>20. ASSUME NEW i \in 1..MaxRows, DeleteRow(i) PROVE ButtonInv'
    BY <1>20, EndsType
       DEF DeleteRow, Ends, Blank, Fresh, NoEvents, engineVars, buttonVars, statusVars
  <1>21. QED
    BY <1>1, <1>2, <1>3, <1>4, <1>5, <1>6, <1>7, <1>8, <1>9, <1>10, <1>11, <1>12,
       <1>13, <1>14, <1>15, <1>16, <1>17, <1>18, <1>19, <1>20
       DEF Next, GuiNext, User, Callback, CliNext, AddRow, Drain, Report, PollEnds,
           Kill, Close, Start, HasIdentity, MakeIdentity, HasEd, MakeEd,
           CliOpensProfile, CliWritesProfile, Begin, Stop, profileVars, fileVars,
           historyVars, guiVars, engineVars, buttonVars, statusVars, cliVars

\* A session that is reported as busy has a last report to make.
LEMMA StatusStep ==
    ASSUME LaunchInv, Next
    PROVE  StatusInv'
  <1> USE ProfileAssumption, DesktopAssumption
     
         DEF LaunchInv, TypeOK, GuiTypeOK, StatusTypeOK, Statuses, CallbackTypeOK,
             SessionTypeOK, ButtonInv,
          StatusInv, Final, Some, Sessions, statusVars
  <1>1. CASE UNCHANGED <<evCh, dropped, label, at>>
    BY <1>1
  <1>2. CASE Disconnect
    BY <1>2 DEF Disconnect, Emit
  <1>3. CASE NewFails
    BY <1>3 DEF NewFails, Emit
  <1>4. CASE NewWorks
    BY <1>4 DEF NewWorks
  <1>5. CASE Drain
    BY <1>5 DEF Drain, NoEvents
  <1>6. ASSUME NEW s \in Sessions, Report(s) PROVE StatusInv'
    BY <1>6 DEF Report, Emit
  <1>7. ASSUME NEW s \in Sessions, Returns(s) PROVE StatusInv'
    <2>1. CASE evCh.n < Cap
      BY <1>7, <2>1 DEF Returns, Emit
    <2>2. CASE evCh.n >= Cap
      BY <1>7, <2>2 DEF Returns, Emit
    <2>3. QED
      BY <2>1, <2>2
  <1>8. ASSUME NEW s \in Sessions, SessionEnables(s) PROVE StatusInv'
    BY <1>8 DEF SessionEnables
  <1>9. ASSUME NEW s \in Sessions, SessionDisables(s) PROVE StatusInv'
    BY <1>9 DEF SessionDisables
  <1>10. CASE Kill \/ Close
    BY <1>10, EndsType
       DEF Kill, Close, Ends, Blank, Fresh, NoEvents, engineVars, buttonVars, statusVars
  <1>11. ASSUME NEW i \in 1..MaxRows, DeleteRow(i) PROVE StatusInv'
    BY <1>11, EndsType
       DEF DeleteRow, Ends, Blank, Fresh, NoEvents, engineVars, buttonVars, statusVars
  <1>12. QED
    BY <1>1, <1>2, <1>3, <1>4, <1>5, <1>6, <1>7, <1>8, <1>9, <1>10, <1>11
       DEF Next, GuiNext, User, Callback, CliNext, Launch, AddRow, ConnectVpn,
           ConnectTunnels, CloseWindow, OpenProfile, WriteProfile, Arm,
           EnableDisconnect, DisableDisconnect, Disconnecting, Disconnected,
           PollEnds, Kill, Close, Start, HasIdentity, MakeIdentity, HasEd, MakeEd,
           CliOpensProfile, CliWritesProfile, Begin, Stop, profileVars, fileVars,
           historyVars, guiVars, engineVars, buttonVars, statusVars, cliVars

\* There are not more rows than a profile can hold.
LEMMA RowsStep ==
    ASSUME LaunchInv, Next
    PROVE  RowsInv'
  <1> USE ProfileAssumption, DesktopAssumption
      DEF LaunchInv, TypeOK, GuiTypeOK, FormTypeOK, ProfileTypeOK, RowsInv
  <1>1. CASE UNCHANGED <<rows>>
    BY <1>1
  <1>2. CASE Launch
    BY <1>2, LaunchedRows
  <1>3. CASE AddRow
    BY <1>3 DEF AddRow
  <1>4. ASSUME NEW i \in 1..MaxRows, DeleteRow(i) PROVE RowsInv'
    <2>1. CASE Ends
      BY <2>1, EmptySeq DEF Ends
    <2>2. CASE rows[i] < Len(rows) /\ rows' = Without(rows, rows[i] + 1)
      <3>1. i \in DOMAIN rows /\ rows[i] \in 0..MaxRows /\ rows[i] + 1 \in 1..Len(rows)
        BY <1>4, <2>2 DEF DeleteRow
      <3>2. Len(rows') = Len(rows) - 1
        BY <2>2, <3>1, WithoutRow
      <3>3. QED
        BY <3>2
    <2>3. QED
      BY <1>4, <2>1, <2>2 DEF DeleteRow
  <1>5. CASE Kill \/ Close
    BY <1>5, EmptySeq DEF Kill, Close, Ends
  <1>6. QED
    BY <1>1, <1>2, <1>3, <1>4, <1>5
       DEF Next, GuiNext, User, Callback, CliNext, ConnectVpn, ConnectTunnels,
           Disconnect, CloseWindow, OpenProfile, WriteProfile, Arm,
           EnableDisconnect, NewFails, DisableDisconnect, NewWorks, Disconnecting,
           Disconnected, Drain, Report, Returns, SessionEnables, SessionDisables,
           PollEnds, Kill, Close, Start, HasIdentity, MakeIdentity, HasEd, MakeEd,
           CliOpensProfile, CliWritesProfile, Begin, Stop, profileVars, fileVars,
           historyVars, guiVars, engineVars, buttonVars, statusVars, cliVars

\* Every identity that is kept was generated.
LEMMA KeysStep ==
    ASSUME LaunchInv, Next
    PROVE  KeysInv'
  <1> USE ProfileAssumption, DesktopAssumption
      DEF LaunchInv, KeysInv, Fresh, Blank, profileVars, fileVars, historyVars, cliVars, guiVars
  <1>a. saved \in Contents /\ prof \in Contents
    BY DEF LaunchInv, TypeOK, ProfileTypeOK, CliTypeOK
  <1>1. CASE UNCHANGED <<saved, issued, form, cli, prof>>
    BY <1>1
  <1>2. ASSUME NEW i \in 1..MaxRows, DeleteRow(i), UNCHANGED cliVars PROVE KeysInv'
    <2>1. CASE Ends
      BY <1>2, <2>1 DEF Ends, fileVars
    <2>2. CASE UNCHANGED <<saved, issued, form, cli, prof>>
      BY <1>2, <2>2
    <2>3. QED
      BY <1>2, <2>1, <2>2 DEF DeleteRow, profileVars, fileVars, historyVars
  <1>3. CASE ConnectVpn /\ UNCHANGED cliVars
    <2>1. CASE saved.identity # None /\ UNCHANGED issued
               /\ form' = [vpn |-> TRUE, keep |-> [saved EXCEPT !.tunnels = Len(rows)]]
      <3>1. form'.keep.identity = saved.identity
        BY <1>a, <2>1, Fields
      <3>2. UNCHANGED <<saved, cli, prof>>
        BY <1>3 DEF ConnectVpn
      <3>3. QED
        BY <2>1, <3>1, <3>2
    <2>2. ASSUME NEW k \in Identities, Generated(k), form' = [vpn |-> TRUE, keep |-> Keys(k)]
          PROVE  KeysInv'
      BY <1>3, <2>2 DEF ConnectVpn, Generated, Keys
    <2>3. QED
      BY <1>3, <2>1, <2>2 DEF ConnectVpn
  <1>4. CASE ConnectTunnels /\ UNCHANGED cliVars
    BY <1>4 DEF ConnectTunnels
  <1>5. CASE OpenProfile /\ UNCHANGED cliVars
    BY <1>5 DEF OpenProfile, Truncate, CannotOpen
  <1>6. CASE WriteProfile /\ UNCHANGED cliVars
    BY <1>6 DEF WriteProfile, WriteOut
  <1>7. CASE DisableDisconnect /\ UNCHANGED cliVars
    BY <1>7 DEF DisableDisconnect
  <1>8. CASE NewWorks /\ UNCHANGED cliVars
    BY <1>8 DEF NewWorks
  <1>9. CASE Start /\ UNCHANGED guiVars
    BY <1>9 DEF Start
  <1>10. CASE HasIdentity /\ UNCHANGED guiVars
    BY <1>10 DEF HasIdentity
  <1>11. CASE MakeIdentity /\ UNCHANGED guiVars
    <2>1. PICK k \in Identities : Generated(k) /\ prof' = [prof EXCEPT !.identity = k]
      BY <1>11 DEF MakeIdentity
    <2>2. prof'.identity = k
      BY <1>a, <2>1, Fields
    <2>3. QED
      BY <1>11, <2>1, <2>2 DEF MakeIdentity, Generated
  <1>12. CASE HasEd /\ UNCHANGED guiVars
    BY <1>12 DEF HasEd
  <1>13. CASE MakeEd /\ UNCHANGED guiVars
    BY <1>a, <1>13, Fields DEF MakeEd
  <1>14. CASE CliOpensProfile /\ UNCHANGED guiVars
    <2>1. saved'.identity \in {saved.identity, None} /\ UNCHANGED <<issued, prof>>
      <3>1. CASE Truncate
        BY <1>14, <3>1 DEF CliOpensProfile, Truncate
      <3>2. CASE CannotOpen
        BY <1>14, <3>2 DEF CliOpensProfile, CannotOpen
      <3>3. QED
        BY <1>14, <3>1, <3>2 DEF CliOpensProfile
    <2>2. cli \notin {"off", "identity"}
      BY <1>14 DEF CliOpensProfile, Saving
    <2>3. QED
      BY <1>14, <2>1, <2>2
  <1>15. CASE CliWritesProfile /\ UNCHANGED guiVars
    <2>1. saved'.identity \in {prof.identity, None} /\ UNCHANGED <<issued, prof>>
      BY <1>15 DEF CliWritesProfile, WriteOut
    <2>2. cli \notin {"off", "identity"}
      BY <1>15 DEF CliWritesProfile, Writing
    <2>3. QED
      BY <1>15, <2>1, <2>2
  <1>16. CASE Begin /\ UNCHANGED guiVars
    BY <1>16 DEF Begin
  <1>17. CASE Stop /\ UNCHANGED guiVars
    BY <1>17 DEF Stop
  <1>18. CASE (Kill \/ Close) /\ UNCHANGED cliVars
    BY <1>18 DEF Kill, Close, Ends, fileVars
  <1>19. QED
    BY <1>1, <1>2, <1>3, <1>4, <1>5, <1>6, <1>7, <1>8, <1>9, <1>10, <1>11, <1>12,
       <1>13, <1>14, <1>15, <1>16, <1>17, <1>18
       DEF Next, GuiNext, User, Callback, CliNext, Launch, AddRow, Disconnect,
           CloseWindow, Arm, EnableDisconnect, NewFails, Disconnecting,
           Disconnected, Drain, Report, Returns, SessionEnables, SessionDisables,
           PollEnds, Kill, Close, profileVars, fileVars, historyVars, guiVars,
           engineVars, buttonVars, statusVars, cliVars

\* The identity that is held stays.
LEMMA IdentityStep ==
    ASSUME LaunchInv, Next
    PROVE  IdentityInv'
  <1> USE ProfileAssumption, DesktopAssumption
      DEF LaunchInv, KeysInv, IdentityInv, Held, Writing, Loading, Programs, Fresh, Blank,
          profileVars, fileVars, historyVars, cliVars, guiVars
  <1>a. saved \in Contents /\ prof \in Contents
    BY DEF LaunchInv, TypeOK, ProfileTypeOK, CliTypeOK
  <1>1. CASE UNCHANGED <<calm, gui, form, asking, cli, used, saved, prof>>
    BY <1>1
  <1>2. CASE Launch /\ UNCHANGED cliVars
    BY <1>2 DEF Launch
  <1>3. CASE ConnectVpn /\ UNCHANGED cliVars
    <2>1. /\ gui = "idle" /\ gui' = "saving" /\ form'.vpn
          /\ asking' = asking \union {"gui"} /\ calm' = (calm /\ asking \subseteq {"gui"})
          /\ UNCHANGED <<saved, used, cli, prof>>
      <3>1. form'.vpn = TRUE
        <4>1. PICK keep : form' = [vpn |-> TRUE, keep |-> keep]
          BY <1>3 DEF ConnectVpn
        <4>2. QED
          BY <4>1
      <3>2. QED
        BY <1>3, <3>1 DEF ConnectVpn, LoadKeys
    <2>2. saved.identity \in {None, form'.keep.identity}
      <3>1. CASE saved.identity # None
        <4>1. form' = [vpn |-> TRUE, keep |-> [saved EXCEPT !.tunnels = Len(rows)]]
          BY <1>3, <3>1, Zenon DEF ConnectVpn
        <4>2. form'.keep.identity = saved.identity
          BY <1>a, <4>1, Fields
        <4>3. QED
          BY <4>2
      <3>2. QED
        BY <3>1
    <2>3. QED
      BY <2>1, <2>2
  <1>4. CASE ConnectTunnels /\ UNCHANGED cliVars
    BY <1>4 DEF ConnectTunnels
  <1>5. CASE Disconnect /\ UNCHANGED cliVars
    BY <1>5 DEF Disconnect
  <1>6. CASE CloseWindow /\ UNCHANGED cliVars
    BY <1>6 DEF CloseWindow
  <1>7. CASE OpenProfile /\ UNCHANGED cliVars
    <2>1. CASE calm'
      <3>1. gui' = "writing" /\ Truncate /\ UNCHANGED <<asking, calm>>
        BY <1>7, <2>1 DEF OpenProfile, CannotOpen
      <3>2. gui = "saving" /\ UNCHANGED <<used, form, cli, prof>> /\ calm
        BY <1>7, <2>1, <3>1 DEF OpenProfile
      <3>3. Held' = form.keep.identity /\ Held = saved.identity
        BY <3>1, <3>2
      <3>4. used \subseteq {form.keep.identity}
        BY <3>2, <3>3 DEF TypeOK, ProfileTypeOK
      <3>5. QED
        BY <3>1, <3>2, <3>3, <3>4
    <2>2. QED
      BY <2>1
  <1>8. CASE WriteProfile /\ UNCHANGED cliVars
    <2>1. CASE calm'
      <3>1. saved' = form.keep /\ calm
        BY <1>8, <2>1 DEF WriteProfile, WriteOut
      <3>2. QED
        BY <1>8, <3>1 DEF WriteProfile
    <2>2. QED
      BY <2>1
  <1>9. CASE Arm /\ UNCHANGED cliVars
    BY <1>9 DEF Arm
  <1>10. CASE EnableDisconnect /\ UNCHANGED cliVars
    BY <1>10 DEF EnableDisconnect
  <1>11. CASE NewFails /\ UNCHANGED cliVars
    BY <1>11 DEF NewFails
  <1>12. CASE DisableDisconnect /\ UNCHANGED cliVars
    BY <1>12 DEF DisableDisconnect
  <1>13. CASE NewWorks /\ UNCHANGED cliVars
    BY <1>13 DEF NewWorks
  <1>14. CASE Disconnecting /\ UNCHANGED cliVars
    BY <1>14 DEF Disconnecting
  <1>15. CASE Disconnected /\ UNCHANGED cliVars
    BY <1>15 DEF Disconnected
  <1>16. CASE (Kill \/ Close) /\ UNCHANGED cliVars
    BY <1>16 DEF Kill, Close, Ends, fileVars
  <1>17. ASSUME NEW i \in 1..MaxRows, DeleteRow(i), UNCHANGED cliVars PROVE IdentityInv'
    <2>1. CASE Ends
      BY <1>17, <2>1 DEF Ends, fileVars
    <2>2. CASE UNCHANGED <<calm, gui, form, asking, cli, used, saved, prof>>
      BY <1>17, <2>2
    <2>3. QED
      BY <1>17, <2>1, <2>2 DEF DeleteRow, profileVars, fileVars, historyVars
  <1>18. CASE Start /\ UNCHANGED guiVars
    BY <1>18 DEF Start, LoadKeys
  <1>19. CASE HasIdentity /\ UNCHANGED guiVars
    BY <1>19 DEF HasIdentity
  <1>20. CASE MakeIdentity /\ UNCHANGED guiVars
    BY <1>a, <1>20, Fields DEF MakeIdentity, Generated
  <1>21. CASE HasEd /\ UNCHANGED guiVars
    BY <1>21 DEF HasEd
  <1>22. CASE MakeEd /\ UNCHANGED guiVars
    BY <1>a, <1>22, Fields DEF MakeEd
  <1>23. CASE CliOpensProfile /\ UNCHANGED guiVars
    <2>1. CASE calm'
      <3>1. /\ Truncate /\ UNCHANGED <<asking, calm>>
            /\ cli' = IF cli = "save ed" THEN "write ed" ELSE "write identity"
        BY <1>23, <2>1 DEF CliOpensProfile, CannotOpen
      <3>2. Saving /\ UNCHANGED <<used, gui, form, prof>> /\ calm
        BY <1>23, <2>1, <3>1 DEF CliOpensProfile
      <3>3. Held' = prof.identity /\ Held = saved.identity /\ gui \notin {"saving", "writing"}
        BY <3>1, <3>2 DEF Saving
      <3>4. /\ used \subseteq {prof.identity}
            /\ form.vpn /\ gui \in {"arming", "enabling", "creating"} =>
                   form.keep.identity = prof.identity
        BY <3>2, <3>3 DEF Saving, TypeOK, ProfileTypeOK
      <3>5. prof.identity # None
        BY <3>2 DEF Saving
      <3>6. QED
        BY <3>1, <3>2, <3>3, <3>4, <3>5 DEF Saving
    <2>2. QED
      BY <2>1
  <1>24. CASE CliWritesProfile /\ UNCHANGED guiVars
    BY <1>24 DEF CliWritesProfile, WriteOut, Saved
  <1>25. CASE Begin /\ UNCHANGED guiVars
    BY <1>25 DEF Begin
  <1>26. CASE Stop /\ UNCHANGED guiVars
    BY <1>26 DEF Stop
  <1>27. QED
    BY <1>1, <1>2, <1>3, <1>4, <1>5, <1>6, <1>7, <1>8, <1>9, <1>10, <1>11, <1>12,
       <1>13, <1>14, <1>15, <1>16, <1>17, <1>18, <1>19, <1>20, <1>21, <1>22, <1>23,
       <1>24, <1>25, <1>26
       DEF Next, GuiNext, User, Callback, CliNext, AddRow, Drain, Report, Returns,
           SessionEnables, SessionDisables, PollEnds, Kill, Close, profileVars,
           fileVars, historyVars, guiVars, engineVars, buttonVars, statusVars,
           cliVars

-----------------------------------------------------------------------------
(* The results *)

LEMMA LaunchStep == LaunchInv /\ [Next]_vars => LaunchInv'
  <1>1. CASE UNCHANGED vars
    <2> SUFFICES ASSUME LaunchInv, UNCHANGED vars PROVE LaunchInv'
      BY <1>1
    <2> USE
       DEF vars, profileVars, fileVars, historyVars, guiVars, engineVars, buttonVars,
           statusVars,
                cliVars
    <2>1. ProfileTypeOK' /\ CliTypeOK'
      BY DEF LaunchInv, TypeOK, ProfileTypeOK, CliTypeOK
    <2>2. CallbackTypeOK' /\ FormTypeOK' /\ SessionTypeOK' /\ StatusTypeOK'
      BY
         DEF LaunchInv, TypeOK, GuiTypeOK, CallbackTypeOK, FormTypeOK, SessionTypeOK,
             StatusTypeOK
    <2>3. ButtonInv' /\ StatusInv' /\ RowsInv'
      BY DEF LaunchInv, ButtonInv, StatusInv, Final, Some, RowsInv
    <2>4. KeysInv' /\ IdentityInv'
      BY DEF LaunchInv, KeysInv, IdentityInv, Held, Writing, Loading
    <2>5. QED
      BY <2>1, <2>2, <2>3, <2>4 DEF LaunchInv, TypeOK, GuiTypeOK
  <1>2. CASE Next
    BY <1>2, ProfileTypeStep, CliTypeStep, FormTypeStep, SessionTypeStep, StatusTypeStep,
       CallbackTypeStep, ButtonStep, StatusStep, RowsStep, KeysStep, IdentityStep
       DEF LaunchInv, TypeOK, GuiTypeOK
  <1>3. QED
    BY <1>1, <1>2

\* The window, the terminal and the profile keep the inductive invariant, for any
\* numbers of sessions, key pairs, rows and events (gui.go, cli_impl.go, profile.go).
THEOREM LaunchInvariance == Spec => []LaunchInv
  BY LaunchInit, LaunchStep, PTL DEF Spec

\* Type correctness of the window, the terminal and the profile (gui.go,
\* cli_impl.go, profile.go).
THEOREM LaunchTypeCorrect == Spec => []TypeOK
  BY LaunchInvariance, PTL DEF LaunchInv

\* When nothing runs any more the user can connect, and only that, whatever the
\* sessions did between the statements of the callbacks (gui.go: connectBtn,
\* disconnectBtn).
THEOREM NobodyIsStuck == Spec => []NeverStuck
  <1>1. LaunchInv => NeverStuck
    BY DEF LaunchInv, ButtonInv, Some, NeverStuck, Quiet, TypeOK, GuiTypeOK, CallbackTypeOK
  <1>2. QED
    BY <1>1, LaunchInvariance, PTL

\* When nothing runs and the events are drained the label does not say that
\* something runs, unless an event was dropped (gui.go: emitStatus, applyStatus).
THEOREM LabelSettles == Spec => []StatusSettles
  <1>1. LaunchInv => StatusSettles
    <2>1. LaunchInv => evCh.n \in Nat /\ label \in {"idle", "busy", "stopped", "error"}
      BY DesktopAssumption DEF LaunchInv, TypeOK, GuiTypeOK, StatusTypeOK, Statuses
    <2>2. QED
      BY <2>1 DEF LaunchInv, StatusInv, Final, Some, StatusSettles, Quiet
  <1>2. QED
    BY <1>1, LaunchInvariance, PTL

\* All VPN sessions have one identity as long as nothing has happened that can take
\* it away, over any number of starts, saves and ends of both programs
\* (profile.go, gui.go, cli_impl.go).
THEOREM IdentityStays == Spec => []IdentityKept
  <1>1. LaunchInv => IdentityKept
    <2> SUFFICES ASSUME LaunchInv, calm PROVE Cardinality(used) <= 1
      BY DEF IdentityKept
    <2>1. used \subseteq {Held}
      BY DEF LaunchInv, IdentityInv
    <2>2. IsFiniteSet({Held}) /\ Cardinality({Held}) = 1
      BY FS_Singleton
    <2>3. QED
      BY <2>1, <2>2, FS_Subset, FS_CardinalityType
  <1>2. QED
    BY <1>1, LaunchInvariance, PTL
=============================================================================
