------------------------------- MODULE MCPing -------------------------------
(* Ping with a host that is given up after two silent requests.  Its       *)
(* replies come with and without IP options; the socket also hears the     *)
(* process's own requests, replies to another process, and headers that    *)
(* cannot be read.                                                         *)
(* With the identifier of the cfg, the checksum of the first request       *)
(* carries once, that of the next twice.                                   *)
EXTENDS Ping

Shape(v, w, t, i) == [version |-> v, words |-> w, icmp |-> t, id |-> i]

SomeShapes ==
  { Shape(4, 5, echo_reply, Identifier), Shape(4, 6, echo_reply, Identifier),
    Shape(4, 5, echo_request, Identifier), Shape(4, 5, echo_reply, Identifier + 1),
    Shape(6, 10, echo_reply, Identifier), Shape(4, 4, echo_reply, Identifier) }
=============================================================================
