------------------------------ MODULE IcmpPacket ------------------------------
(***************************************************************************)
(* The packets of Ping as bytes: icmp_header (icmp_header.hpp), the part   *)
(* of ipv4_header (ipv4_header.hpp) that its operator>> reads, and how     *)
(* Ping puts a request together and takes a datagram apart.                *)
(* A definition named X_Y is X with the slip Y, kept beside it to see that *)
(* a property notices; no specification uses it.                           *)
(***************************************************************************)
EXTENDS Integers, Sequences

Byte == 0 .. 255
Word == 65536
Short == 0 .. Word - 1

echo_reply == 0
echo_request == 8

(* The body of every request: "Hello!" from Asio ping.                     *)
body ==
  <<34, 72, 101, 108, 108, 111, 33, 34, 32, 102, 114, 111,
     109, 32, 65, 115, 105, 111, 32, 112, 105, 110, 103, 46>>

encode(n) == <<n \div 256, n % 256>>
decode(rep, a, b) == 256 * rep[a + 1] + rep[b + 1]

type(rep) == rep[1]
checksum(rep) == decode(rep, 2, 3)
identifier(rep) == decode(rep, 4, 5)
sequence_number_of(rep) == decode(rep, 6, 7)

(* The sum of the bytes as words of two, an odd last byte being a high one *)
WordSum(bytes) ==
  LET sum[k \in 0 .. Len(bytes)] ==
        IF k = 0 THEN 0 ELSE sum[k - 1] + bytes[k] * (IF k % 2 = 1 THEN 256 ELSE 1)
  IN sum[Len(bytes)]

(* compute_checksum, of the sum it has counted up: the carries are added,  *)
(* and the carry of that once more, before all bits are turned.            *)
Carried(sum) == (sum \div Word) + (sum % Word)
Complement_CarriedOnce(sum) == Word - 1 - (Carried(sum) % Word)
Complement(sum) == Word - 1 - (Carried(Carried(sum)) % Word)

compute_checksum(id, n, bytes) ==
  Complement(echo_request * 256 + id + n + WordSum(bytes))

(* What start_send sends before the body *)
Request(id, n) ==
  <<echo_request, 0>> \o encode(compute_checksum(id, n, body)) \o encode(id) \o encode(n)
-----------------------------------------------------------------------------
(* A datagram as the network brings it: options and data of no account are *)
(* zero.                                                                   *)
Datagram(version, words, icmp, id, n) ==
  <<16 * version + words>> \o [k \in 1 .. 4 * words - 1 |-> 0] \o
    <<icmp, 0, 0, 0>> \o encode(id) \o encode(n)

(* handle_receive reads an IPv4 header, its options, and an ICMP header.   *)
version(rep) == rep[1] \div 16
header_length(rep) == 4 * (rep[1] % 16)

IsRead(bytes) ==
  /\ Len(bytes) >= 20 /\ version(bytes) = 4
  /\ header_length(bytes) \in 20 .. 60
  /\ Len(bytes) >= header_length(bytes) + 8

IcmpHeader(bytes) == SubSeq(bytes, header_length(bytes) + 1, header_length(bytes) + 8)

IsReply(bytes, id, n) ==
  /\ IsRead(bytes)
  /\ type(IcmpHeader(bytes)) = echo_reply
  /\ identifier(IcmpHeader(bytes)) = id
  /\ sequence_number_of(IcmpHeader(bytes)) = n
-----------------------------------------------------------------------------
(* The Internet checksum: the words of a message, the checksum among them, *)
(* have a sum that is zero in ones' complement, and not zero.              *)
Verifies(bytes) == WordSum(bytes) > 0 /\ WordSum(bytes) % (Word - 1) = 0
=============================================================================
