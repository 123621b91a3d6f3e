----------------------------- MODULE MCHubLocks -----------------------------
(* Instances of HubLocks for TLC. *)
EXTENDS HubLocks, TLC

CONSTANTS w1, w2, w3, lobby, dust, p1, p2

\* In each room one peer may stop reading.
OneEach == (p1 :> lobby) @@ (p2 :> dust)

AnyWorker == Permutations(Workers)
=============================================================================
