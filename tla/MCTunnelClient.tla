--------------------------- MODULE MCTunnelClient ---------------------------
(* Instances of TunnelClient for TLC. *)
EXTENDS TunnelClient

CONSTANTS t1, t2
=============================================================================
