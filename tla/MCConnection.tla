-------------------------- MODULE MCConnection --------------------------
(* Connection on small bounds: see the .cfg files.                       *)
EXTENDS Connection
=============================================================================
