----------------------------- MODULE MCTcpClient -----------------------------
(* TcpClient with one reconnect and one exchange of the buffer.  A receive *)
(* brings two bytes, or more than a buffer holds.                          *)
EXTENDS TcpClient

FewOrMany == {2, DataSize}
=============================================================================
