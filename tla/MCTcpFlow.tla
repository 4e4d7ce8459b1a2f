------------------------------ MODULE MCTcpFlow ------------------------------
(***************************************************************************)
(* The values TLC gives the constants of TcpFlow that are not plain        *)
(* numbers.  The modulus is small enough for the sequence numbers to wrap  *)
(* during a run: the peer starts two short of it.                          *)
(***************************************************************************)
EXTENDS TcpFlow

MCModulus == 64
MCPeerIsn == 62

=============================================================================
