--------------------------- MODULE MessageExtractor ---------------------------
(***************************************************************************)
(* hp::peripheral::MessageExtractor (peripheral/src/message_extractor.cc)  *)
(* and the AbstractPacketStructure it works from (abstract_message.h): the *)
(* application defines the sections of its packets, an extractor registers *)
(* them, and find_message goes through them.  A byte has Base values (256) *)
(* and an int four bytes.                                                  *)
(* find_message asks extractor_, a pointer nobody sets, about every        *)
(* section but a header; what follows is undefined, and the model ends.    *)
(* A definition named X_Y is X with the slip Y, kept beside it to see that *)
(* a property notices; no specification uses it.                           *)
(***************************************************************************)
EXTENDS Integers, Sequences

CONSTANTS
  Base,
  Packets,        (* the lists of sections an application may define      *)
  Fields,         (* the length fields: their bytes and order             *)
  MaxExtractors   (* bound: extractors made for one packet structure      *)

Structs == {"Header", "Length", "CMD", "Footer", "CRC", "Data", "Other"}

ASSUME BaseAssumption == Base \in Nat \ {0} /\ Base % 2 = 0
ASSUME PacketAssumption ==
  /\ Packets \subseteq Seq(Structs)
  /\ \A f \in Fields : f.bytes \in Seq(0 .. Base - 1) /\ f.is_msb \in BOOLEAN
  /\ MaxExtractors \in Nat

VARIABLES
  defined,        (* what the application's init_packet_structure appends *)
  field,          (* a length field                                       *)
  packet,         (* packet_                                              *)
  exists,         (* the types whose is_..._exist_ is set                 *)
  registered,     (* of each type the section last registered, or "none"  *)
  extractors,     (* how many extractors were made                        *)
  at,             (* what is being done, and with which section           *)
  next

vars == <<defined, field, packet, exists, registered, extractors, at, next>>

(* The type a section says it has *)
Types == Structs \ {"Other"}
get_type(section) == IF section = "Other" THEN "Data" ELSE section

Init ==
  /\ defined \in Packets /\ field \in Fields
  /\ packet = << >> /\ exists = {} /\ registered = [t \in Types |-> "none"]
  /\ extractors = 0 /\ at = "idle" /\ next = 1
-----------------------------------------------------------------------------
(* The constructor: init_packet, and then is_packet_sections_correct.      *)
Construct ==
  /\ at = "idle" /\ extractors < MaxExtractors
  /\ extractors' = extractors + 1
  /\ packet' = packet \o defined
  /\ at' = "registering" /\ next' = 1
  /\ UNCHANGED <<defined, field, exists, registered>>

(* A section is cast to the class of its type, and used.                   *)
Exists_CRCForCMD(t) == exists \cup {IF t = "CRC" THEN "CMD" ELSE t}
Exists(t) == exists \cup {t}

After_Skipping(k) == k + 2
After(k) == k + 1

Register ==
  /\ at = "registering" /\ next <= Len(packet)
  /\ LET section == packet[next]
         t == get_type(section)
     IN IF section = t
          THEN /\ registered' = [registered EXCEPT ![t] = section]
               /\ exists' = Exists(t)
               /\ next' = After(next)
               /\ UNCHANGED at
          ELSE /\ at' = "crashed"
               /\ UNCHANGED <<registered, exists, next>>
  /\ UNCHANGED <<defined, field, packet, extractors>>

ConstructReturns ==
  /\ at = "registering" /\ next > Len(packet)
  /\ at' = "idle"
  /\ UNCHANGED <<defined, field, packet, exists, registered, extractors, next>>

(* find_message takes the sections one after the other, again and again.   *)
find_message ==
  /\ at = "idle" /\ extractors > 0
  /\ at' = "finding" /\ next' = 1
  /\ UNCHANGED <<defined, field, packet, exists, registered, extractors>>

FindNext ==
  /\ at = "finding"
  /\ IF next > Len(packet)
       THEN next' = 1 /\ UNCHANGED at
       ELSE IF packet[next] = "Header"
         THEN next' = After(next) /\ UNCHANGED at
         ELSE at' = "undefined" /\ UNCHANGED next
  /\ UNCHANGED <<defined, field, packet, exists, registered, extractors>>

Next == Construct \/ Register \/ ConstructReturns \/ find_message \/ FindNext

Spec == Init /\ [][Next]_vars
-----------------------------------------------------------------------------
(* calc_len, for a field of one to eight bytes.  The string that holds the *)
(* field ends with a zero byte, which a field of three makes it read.      *)
Word == Base * Base * Base * Base
SignedByte(b) == IF b < Base \div 2 THEN b ELSE b - Base
SignedWord(w) == IF w < Word \div 2 THEN w ELSE w - Word
ByteOf(f, k) == IF k <= Len(f.bytes) THEN f.bytes[k] ELSE 0

Two(a, b) == a * Base + b
Four_Swapped(a, b, c, d) == Two(Two(Two(b, a), c), d)
Four(a, b, c, d) == Two(Two(Two(a, b), c), d)

calc_len(f) ==
  LET b(k) == ByteOf(f, k) IN
  CASE Len(f.bytes) = 1 -> SignedByte(b(1))
    [] Len(f.bytes) = 2 -> IF f.is_msb THEN Two(b(1), b(2)) ELSE Two(b(2), b(1))
    [] Len(f.bytes) \in {3, 4} ->
         SignedWord(IF f.is_msb THEN Four(b(1), b(2), b(3), b(4)) ELSE Four(b(4), b(3), b(2), b(1)))
    [] OTHER -> 0

(* What find_message makes of it: an unsigned number *)
data_len(f) == calc_len(f) % Word
-----------------------------------------------------------------------------
TypeOK ==
  /\ packet \in Seq(Structs) /\ exists \subseteq Types
  /\ registered \in [Types -> Types \cup {"none"}]
  /\ extractors \in 0 .. MaxExtractors
  /\ at \in {"idle", "registering", "finding", "crashed", "undefined"}
  /\ next \in 1 .. Len(packet) + 1

(* An extractor that could be made has registered all the sections the     *)
(* application defined and no others, and crashed only at a section of     *)
(* struct Other, which says it is data; but a second extractor of the same *)
(* packet structure has every section twice.                               *)
Defined == {defined[k] : k \in 1 .. Len(defined)}
SectionsRegistered ==
  /\ at = "crashed" => "Other" \in Defined
  /\ extractors > 0 /\ at \in {"idle", "finding", "undefined"} =>
       /\ exists = Defined
       /\ \A t \in Types : registered[t] = IF t \in Defined THEN t ELSE "none"
       /\ Len(packet) = extractors * Len(defined)

(* Of the length fields of up to four bytes these are read for what they  *)
(* say, besides the zeros, and no others: two or four bytes in either      *)
(* order, one byte below the sign bit, and three bytes of which the first  *)
(* is the lowest.  A longer field is read as 0.                            *)
Digit(f, k) ==
  LET n == Len(f.bytes) IN
  IF k > n THEN 0 ELSE f.bytes[IF f.is_msb THEN n + 1 - k ELSE k]
Value(f) ==
  Digit(f, 1) + Base * Digit(f, 2) + Base * Base * Digit(f, 3) + Base * Base * Base * Digit(f, 4)

Readable(f) ==
  \/ Len(f.bytes) \in {2, 4}
  \/ Len(f.bytes) = 3 /\ ~f.is_msb
  \/ Len(f.bytes) = 1 /\ f.bytes[1] < Base \div 2

LengthIsValue ==
  IF Len(field.bytes) <= 4
    THEN data_len(field) = Value(field) <=> Readable(field) \/ Value(field) = 0
    ELSE data_len(field) = 0
=============================================================================
