------------------------------ MODULE MCTunnel ------------------------------
(* Tunnel with up to two blocks in each direction.                          *)
EXTENDS Tunnel
=============================================================================
