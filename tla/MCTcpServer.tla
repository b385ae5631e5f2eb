---------------------------- MODULE MCTcpServer ----------------------------
(* TcpServer with a limit of two connections: the limit is reached, the     *)
(* accept is deferred and resumed, and handlers and descriptors are reused. *)
EXTENDS TcpServer
=============================================================================
