----------------------------- MODULE MCTcpTasks -----------------------------
(* TcpTasks for model checking, on the small ring of MCTcpFlow. *)
EXTENDS TcpTasks

MCModulus == 64

MCPeerIsn == 62

=============================================================================
