----------------------------- MODULE MCVpnClient -----------------------------
(* Instances of VpnClient for TLC. *)
EXTENDS VpnClient

CONSTANT p1

Called == \E k \in Calls : call[k] # "none"
Signalled == announced # {} \/ known # {} \/ \E s \in Sessions : frames[s] # <<>>

\* A run has calls or signalling, which have nothing to do with one another, and
\* a second call only if it has but one session.
Narrow ==
    /\ ~(Called /\ Signalled)
    /\ (\E k \in Calls : k > 1 /\ call[k] # "none") => sess <= 1

BoundedSpec == Init /\ [][Next /\ Narrow']_vars /\ Fairness
=============================================================================
