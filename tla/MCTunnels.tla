----------------------------- MODULE MCTunnels -----------------------------
(* Tunnels for TLC: two connections, one of them from the host. *)
EXTENDS Tunnels
=============================================================================
