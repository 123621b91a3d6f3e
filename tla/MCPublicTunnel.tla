--------------------------- MODULE MCPublicTunnel ---------------------------
(* Instances of PublicTunnel for TLC. *)
EXTENDS PublicTunnel

CONSTANTS a1, a2
=============================================================================
