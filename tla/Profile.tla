------------------------------- MODULE Profile -------------------------------
(***************************************************************************)
(* tunelc.json, the profile that the desktop client and tunelc --vpn load  *)
(* and save (src/internal/config/profile.go): which identity, which        *)
(* signing key and how many tunnels it holds.  SaveProfile truncates the   *)
(* file and then writes it, and nothing keeps two programs, or a crash,    *)
(* from coming between the two.  A file that is missing or empty is a      *)
(* fresh profile, one that cannot be parsed is a fresh profile and an      *)
(* error, which every caller drops that needs the keys.                    *)
(***************************************************************************)
EXTENDS Naturals, FiniteSets

CONSTANTS
    Identities, \* key pairs that can be generated: a bound
    None,       \* ""
    MaxRows     \* bound: tunnels in a profile

ASSUME ProfileAssumption ==
    /\ None \notin Identities
    /\ MaxRows \in Nat \ {0}

Contents == [identity : Identities \union {None}, ed : BOOLEAN, tunnels : 0..MaxRows]

Fresh == [identity |-> None, ed |-> FALSE, tunnels |-> 0]

VARIABLES
    disk,   \* the file: "empty" (or missing), "torn", "whole"
    saved,  \* what LoadProfile makes of it
    issued, \* history: the key pairs that have been generated
    used,   \* history: the identities VPN sessions were begun with
    asking, \* history: programs that have loaded the keys and not yet saved
    calm    \* history: nothing has happened that can take the identity away

fileVars == <<disk, saved>>
historyVars == <<issued, used, asking, calm>>
profileVars == <<fileVars, historyVars>>

Programs == {"gui", "cli"}

ProfileTypeOK ==
    /\ disk \in {"empty", "torn", "whole"}
    /\ saved \in Contents
    /\ issued \subseteq Identities
    /\ used \subseteq issued
    /\ asking \subseteq Programs
    /\ calm \in BOOLEAN

ProfileInit ==
    /\ disk = "empty"
    /\ saved = Fresh
    /\ issued = {}
    /\ used = {}
    /\ asking = {}
    /\ calm = TRUE

\* LoadProfile by program g, for the keys.  It takes the file as it is, in the
\* middle of another's SaveProfile too.
LoadKeys(g) ==
    /\ asking' = asking \union {g}
    /\ calm' = (calm /\ asking \subseteq {g})

\* GenerateKeypair.
Generated(k) ==
    /\ k \in Identities \ issued
    /\ issued' = issued \union {k}

\* SaveProfile, its first half: os.WriteFile opens the file.
Truncate == disk' = "empty" /\ saved' = Fresh

\* The second half: the file is p, or a part of p when the disk is full, or a
\* mixture of p and what another program has written since.
WriteOut(p) ==
    \/ disk' = "whole" /\ saved' = p /\ UNCHANGED calm
    \/ disk' = "torn" /\ saved' = Fresh /\ calm' = FALSE

\* The file cannot be opened for writing: a directory that is not the user's.
\* The GUI drops the error, the CLI logs it.
CannotOpen == UNCHANGED fileVars /\ calm' = FALSE
=============================================================================
