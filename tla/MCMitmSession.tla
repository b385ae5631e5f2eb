--------------------------- MODULE MCMitmSession ---------------------------
(* MitmSession with enough requests for a second one to matter.             *)
EXTENDS MitmSession
=============================================================================
