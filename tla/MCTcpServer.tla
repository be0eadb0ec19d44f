----------------------------- MODULE MCTcpServer -----------------------------
(* TcpServer with two peers and one restart.                               *)
EXTENDS TcpServer
=============================================================================
