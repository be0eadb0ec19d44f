-------------------------- MODULE MCMessageExtractor --------------------------
(* MessageExtractor with bytes of four bits, packets of up to two sections *)
(* and three of a usual kind, and length fields of up to four bytes.       *)
EXTENDS MessageExtractor

SomePackets ==
  UNION {[1 .. n -> Structs] : n \in 0 .. 2} \cup
    { <<"Header", "CMD", "Length", "Data", "CRC", "Footer">>,
      <<"Header", "Length", "Data">>,
      <<"Header", "Header", "Other">> }

Digits == {0, 7, 8}
SomeFields ==
  UNION {[bytes : [1 .. n -> Digits], is_msb : BOOLEAN] : n \in 1 .. 4} \cup
    [bytes : [1 .. 5 -> {1}], is_msb : BOOLEAN]
=============================================================================
