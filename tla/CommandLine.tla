----------------------------- MODULE CommandLine -----------------------------
(***************************************************************************)
(* tunelc --vpn on the command line (src/cmd/tunelc/cli_impl.go, runCLI):  *)
(* it loads the profile, makes the identity and the signing key that are   *)
(* missing, saves after each, and begins a session.  What it saves is the  *)
(* profile it has loaded and a key more.  The tunnel mode only reads the   *)
(* profile, for what the flags leave open.                                 *)
(***************************************************************************)
EXTENDS Profile

VARIABLES
    cli,  \* where runCLI is
    prof  \* the profile it has loaded and completed

cliVars == <<cli, prof>>

CliTypeOK ==
    /\ cli \in {"off", "identity", "save identity", "write identity", "ed", "save ed",
                "write ed", "new", "run"}
    /\ prof \in Contents

CliInit == cli = "off" /\ prof = Fresh

Start ==
    /\ cli = "off"
    /\ cli' = "identity"
    /\ prof' = saved
    /\ LoadKeys("cli")
    /\ UNCHANGED <<fileVars, issued, used>>

HasIdentity ==
    /\ cli = "identity" /\ prof.identity # None
    /\ cli' = "ed"
    /\ UNCHANGED <<profileVars, prof>>

MakeIdentity ==
    /\ cli = "identity" /\ prof.identity = None
    /\ \E k \in Identities :
           /\ Generated(k)
           /\ prof' = [prof EXCEPT !.identity = k]
    /\ cli' = "save identity"
    /\ UNCHANGED <<fileVars, used, asking, calm>>

HasEd ==
    /\ cli = "ed" /\ prof.ed
    /\ cli' = "new"
    /\ asking' = asking \ {"cli"}
    /\ UNCHANGED <<fileVars, issued, used, calm, prof>>

\* Variant: a profile without a signing key gets an identity too.
MakeBothKeys ==
    /\ cli = "ed" /\ ~prof.ed
    /\ \E k \in Identities :
           /\ Generated(k)
           /\ prof' = [prof EXCEPT !.ed = TRUE, !.identity = k]
    /\ cli' = "save ed"
    /\ UNCHANGED <<fileVars, used, asking, calm>>

MakeEd ==
    /\ cli = "ed" /\ ~prof.ed
    /\ prof' = [prof EXCEPT !.ed = TRUE]
    /\ cli' = "save ed"
    /\ UNCHANGED profileVars

\* SaveProfile, for each of the two.
Saving == cli \in {"save identity", "save ed"}
Writing == cli \in {"write identity", "write ed"}

\* What comes after the save; after the second no key is asked for any more.
Saved ==
    IF cli \in {"save identity", "write identity"}
    THEN cli' = "ed" /\ UNCHANGED asking
    ELSE cli' = "new" /\ asking' = asking \ {"cli"}

CliOpensProfile ==
    /\ Saving
    /\ \/ /\ Truncate
          /\ cli' = IF cli = "save ed" THEN "write ed" ELSE "write identity"
          /\ UNCHANGED <<asking, calm>>
       \/ CannotOpen /\ Saved
    /\ UNCHANGED <<issued, used, prof>>

CliWritesProfile ==
    /\ Writing
    /\ WriteOut(prof)
    /\ Saved
    /\ UNCHANGED <<issued, used, prof>>

\* maybeFillFromProfileVPN, client.New and RunVPN.
Begin ==
    /\ cli = "new"
    /\ cli' = "run"
    /\ used' = used \union {prof.identity}
    /\ UNCHANGED <<fileVars, issued, asking, calm, prof>>

\* New refuses the settings, RunVPN returns, or the process is killed.
Stop ==
    /\ cli # "off"
    /\ cli' = "off"
    /\ prof' = Fresh
    /\ asking' = asking \ {"cli"}
    /\ calm' = (calm /\ ~Writing)
    /\ UNCHANGED <<fileVars, issued, used>>

CliNext ==
    \/ Start \/ HasIdentity \/ MakeIdentity \/ HasEd \/ MakeEd
    \/ CliOpensProfile \/ CliWritesProfile \/ Begin \/ Stop
=============================================================================
