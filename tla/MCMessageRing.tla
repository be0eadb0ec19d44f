---------------------------- MODULE MCMessageRing ----------------------------
(* MessageRing on a ring of three slots; the two bounds let both indices    *)
(* wrap twice and the writer run a whole lap ahead.                         *)
EXTENDS MessageRing
=============================================================================
