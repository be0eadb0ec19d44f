------------------------ MODULE MessageExtractorProofs ------------------------
(* MessageExtractor for every list of sections, any number of extractors,  *)
(* every length field and every even Base.                                 *)
EXTENDS MessageExtractor, TLAPS

(* All of the packet's sections are the application's, and all of these    *)
(* are in it; what has been registered is what exists says.                *)
Sections == {packet[k] : k \in 1 .. Len(packet)}

Registered ==
  /\ exists \subseteq Defined
  /\ \A t \in Types : registered[t] = IF t \in exists THEN t ELSE "none"
  /\ Sections = IF extractors = 0 THEN {} ELSE Defined
  /\ Len(packet) = extractors * Len(defined)
  /\ extractors = 0 => exists = {} /\ at = "idle"
  /\ at = "registering" => \A k \in 1 .. next - 1 : packet[k] \in exists
  /\ at \in {"idle", "finding", "undefined"} => Sections \subseteq exists
  /\ at = "crashed" => "Other" \in Defined

Typed ==
  /\ TypeOK
  /\ defined \in Seq(Structs) /\ field \in Fields

IInv == Typed /\ Registered
-----------------------------------------------------------------------------
(* The sections of two lists, one after the other                          *)
LEMMA SectionsJoined ==
  ASSUME NEW p \in Seq(Structs), NEW q \in Seq(Structs)
  PROVE  {(p \o q)[k] : k \in 1 .. Len(p \o q)} =
           {p[k] : k \in 1 .. Len(p)} \cup {q[k] : k \in 1 .. Len(q)}
<1> DEFINE r == p \o q
<1>1. /\ Len(r) = Len(p) + Len(q) /\ Len(p) \in Nat /\ Len(q) \in Nat
      /\ \A k \in 1 .. Len(p) : r[k] = p[k]
      /\ \A k \in 1 .. Len(q) : r[Len(p) + k] = q[k]
  OBVIOUS
<1> HIDE DEF r
<1>2. ASSUME NEW k \in 1 .. Len(r)
      PROVE  r[k] \in {p[j] : j \in 1 .. Len(p)} \cup {q[j] : j \in 1 .. Len(q)}
  <2>1. CASE k <= Len(p)
    BY <1>1, <1>2, <2>1
  <2>2. CASE k > Len(p)
    <3>1. k - Len(p) \in 1 .. Len(q) /\ Len(p) + (k - Len(p)) = k
      BY <1>1, <1>2, <2>2
    <3>2. r[k] = q[k - Len(p)]
      BY <1>1, <3>1
    <3> QED BY <3>1, <3>2
  <2> QED BY <1>1, <2>1, <2>2
<1>3. ASSUME NEW j \in 1 .. Len(p) PROVE \E k \in 1 .. Len(r) : r[k] = p[j]
  BY <1>1, <1>3
<1>4. ASSUME NEW j \in 1 .. Len(q) PROVE \E k \in 1 .. Len(r) : r[k] = q[j]
  <2>1. Len(p) + j \in 1 .. Len(r) /\ r[Len(p) + j] = q[j]
    BY <1>1, <1>4
  <2> QED BY <2>1
<1>5. {r[k] : k \in 1 .. Len(r)} = {p[k] : k \in 1 .. Len(p)} \cup {q[k] : k \in 1 .. Len(q)}
  <2> DEFINE R == {r[k] : k \in 1 .. Len(r)}
             P == {p[k] : k \in 1 .. Len(p)}
             Q == {q[k] : k \in 1 .. Len(q)}
  <2>1. \A x \in R : x \in P \cup Q
    BY <1>2
  <2>2. \A x \in P : x \in R
    BY <1>3
  <2>3. \A x \in Q : x \in R
    BY <1>4
  <2> HIDE DEF P, Q, R
  <2>4. R = P \cup Q
    BY <2>1, <2>2, <2>3
  <2> QED BY <2>4 DEF P, Q, R
<1> QED BY <1>5 DEF r

LEMMA TypedInductive ==
  ASSUME BaseAssumption, PacketAssumption, Typed, [Next]_vars
  PROVE  Typed'
<1> USE PacketAssumption DEF Typed, TypeOK
<1>l. Len(packet) \in Nat /\ next \in Nat \ {0}
  OBVIOUS
<1>u. CASE UNCHANGED vars
  BY <1>u DEF vars
<1>1. CASE Construct
  <2>1. packet' \in Seq(Structs)
    BY <1>1 DEF Construct
  <2>2. 1 \in 1 .. Len(packet') + 1
    BY <2>1
  <2> QED BY <1>1, <2>1, <2>2 DEF Construct
<1>2. CASE Register
  <2>1. packet[next] \in Structs
    BY <1>2, <1>l DEF Register
  <2>2. get_type(packet[next]) \in Types
    BY <2>1 DEF get_type, Types, Structs
  <2>3. exists' \subseteq Types /\ registered' \in [Types -> Types \cup {"none"}]
    BY <1>2, <2>2 DEF Register, Exists
  <2> QED BY <1>2, <1>l, <2>3 DEF Register, After
<1>3. CASE ConstructReturns
  BY <1>3 DEF ConstructReturns
<1>4. CASE find_message
  BY <1>4, <1>l DEF find_message
<1>5. CASE FindNext
  BY <1>5, <1>l DEF FindNext, After
<1> QED BY <1>u, <1>1, <1>2, <1>3, <1>4, <1>5 DEF Next

LEMMA RegisteredInductive ==
  ASSUME BaseAssumption, PacketAssumption, Typed, Registered, [Next]_vars
  PROVE  Registered'
<1> USE DEF Typed, TypeOK
<1>l. Len(packet) \in Nat /\ next \in Nat \ {0} /\ extractors \in Nat /\ Len(defined) \in Nat
  <2>1. MaxExtractors \in Nat
    BY DEF PacketAssumption
  <2>2. packet \in Seq(Structs) /\ defined \in Seq(Structs) /\ next \in 1 .. Len(packet) + 1
    OBVIOUS
  <2>3. extractors \in Nat
    BY <2>1
  <2> QED BY <2>2, <2>3
<1>s. ASSUME UNCHANGED <<packet, defined>> PROVE Sections' = Sections /\ Defined' = Defined
  <2>1. packet' = packet /\ defined' = defined
    BY <1>s
  <2> QED BY <2>1 DEF Sections, Defined
<1>u. CASE UNCHANGED vars
  <2>1. UNCHANGED <<packet, defined>> /\ UNCHANGED <<exists, registered, extractors, at, next>>
    BY <1>u DEF vars
  <2>2. Sections' = Sections /\ Defined' = Defined
    BY <2>1, <1>s
  <2> QED BY <2>1, <2>2 DEF Registered
<1>1. CASE Construct
  <2>1. /\ packet' = packet \o defined /\ extractors' = extractors + 1 /\ next' = 1 /\ at' = "registering"
        /\ UNCHANGED <<defined, exists, registered>>
    BY <1>1 DEF Construct
  <2>2. Sections' = Sections \cup Defined
    <3>1. {(packet \o defined)[k] : k \in 1 .. Len(packet \o defined)} = Sections \cup Defined
      BY SectionsJoined DEF Sections, Defined
    <3>2. Sections' = {(packet \o defined)[k] : k \in 1 .. Len(packet \o defined)}
      BY <2>1 DEF Sections
    <3> QED BY <3>1, <3>2
  <2>3. Sections' = Defined /\ Defined' = Defined
    BY <2>1, <2>2 DEF Registered, Defined
  <2>4. Len(packet') = extractors' * Len(defined)
    <3>1. Len(packet') = extractors * Len(defined) + Len(defined)
      <4>1. packet \in Seq(Structs) /\ defined \in Seq(Structs)
        OBVIOUS
      <4>2. Len(packet \o defined) = Len(packet) + Len(defined)
        BY <4>1
      <4>3. Len(packet) = extractors * Len(defined)
        BY DEF Registered
      <4> QED BY <2>1, <4>2, <4>3
    <3>2. ASSUME NEW a \in Nat, NEW b \in Nat PROVE (a + 1) * b = a * b + b
      OBVIOUS
    <3>3. (extractors + 1) * Len(defined) = extractors * Len(defined) + Len(defined)
      BY <3>2, <1>l
    <3> QED BY <2>1, <3>1, <3>3
  <2>5. extractors' # 0 /\ \A k \in 1 .. next' - 1 : packet'[k] \in exists'
    BY <2>1, <1>l
  <2> QED BY <2>1, <2>3, <2>4, <2>5 DEF Registered
<1>2. CASE Register
  <2> DEFINE section == packet[next]
  <2>1. /\ next \in 1 .. Len(packet) /\ section \in Structs /\ at = "registering" /\ section \in Sections
        /\ UNCHANGED <<defined, packet, extractors>>
    BY <1>2, <1>l DEF Register, Sections
  <2>2. section \in Defined /\ Defined' = Defined /\ Sections' = Sections /\ extractors # 0
    <3>1. Sections' = Sections /\ Defined' = Defined
      BY <2>1, <1>s
    <3>2. extractors # 0 /\ Sections = Defined
      BY <2>1 DEF Registered
    <3> QED BY <2>1, <3>1, <3>2
  <2> HIDE DEF section
  <2>3. CASE section = get_type(section)
    <3>1. /\ registered' = [registered EXCEPT ![section] = section] /\ exists' = exists \cup {section}
          /\ next' = next + 1 /\ at' = at
      BY <1>2, <2>3 DEF Register, section, Exists, After
    <3>2. section \in Types
      BY <2>1, <2>3 DEF get_type, Types, Structs
    <3>3. \A k \in 1 .. next' - 1 : packet'[k] \in exists'
      <4>1. \A k \in 1 .. next - 1 : packet[k] \in exists
        BY <2>1 DEF Registered
      <4> QED BY <4>1, <3>1, <2>1, <1>l DEF section
    <3>4. \A t \in Types : registered'[t] = IF t \in exists' THEN t ELSE "none"
      BY <3>1, <3>2 DEF Registered
    <3> QED BY <2>1, <2>2, <3>1, <3>3, <3>4 DEF Registered
  <2>4. CASE section # get_type(section)
    <3>1. at' = "crashed" /\ UNCHANGED <<registered, exists, next>>
      BY <1>2, <2>4 DEF Register, section
    <3>2. section = "Other"
      BY <2>4 DEF get_type
    <3> QED BY <2>1, <2>2, <3>1, <3>2 DEF Registered
  <2> QED BY <2>3, <2>4
<1>3. CASE ConstructReturns
  <2>1. /\ at = "registering" /\ next > Len(packet) /\ at' = "idle"
        /\ UNCHANGED <<defined, packet, exists, registered, extractors, next>>
    BY <1>3 DEF ConstructReturns
  <2>2. \A k \in 1 .. Len(packet) : packet[k] \in exists
    <3>1. \A k \in 1 .. next - 1 : packet[k] \in exists
      BY <2>1 DEF Registered
    <3> QED BY <2>1, <3>1, <1>l
  <2>3. Sections \subseteq exists
    BY <2>2 DEF Sections
  <2>4. Sections' = Sections /\ Defined' = Defined
    BY <2>1, <1>s
  <2> QED BY <2>1, <2>3, <2>4 DEF Registered
<1>4. CASE find_message
  <2>1. /\ at = "idle" /\ at' = "finding" /\ extractors # 0
        /\ UNCHANGED <<defined, packet, exists, registered, extractors>>
    BY <1>4, <1>l DEF find_message
  <2>2. Sections' = Sections /\ Defined' = Defined
    BY <2>1, <1>s
  <2> QED BY <2>1, <2>2 DEF Registered
<1>5. CASE FindNext
  <2>1. /\ at = "finding" /\ at' \in {"finding", "undefined"}
        /\ UNCHANGED <<defined, packet, exists, registered, extractors>>
    BY <1>5 DEF FindNext
  <2>2. Sections' = Sections /\ Defined' = Defined
    BY <2>1, <1>s
  <2> QED BY <2>1, <2>2 DEF Registered
<1> QED BY <1>u, <1>1, <1>2, <1>3, <1>4, <1>5 DEF Next

LEMMA Initially ==
  ASSUME PacketAssumption, Init PROVE IInv
<1>1. packet = << >> /\ packet \in Seq(Structs) /\ Len(packet) = 0
  BY DEF Init
<1>2. /\ exists = {} /\ registered = [t \in Types |-> "none"] /\ extractors = 0
      /\ at = "idle" /\ next = 1 /\ defined \in Seq(Structs) /\ field \in Fields /\ MaxExtractors \in Nat
  BY DEF Init, PacketAssumption
<1>3. Typed
  <2>1. 1 \in 1 .. Len(packet) + 1
    BY <1>1
  <2> QED BY <1>1, <1>2, <2>1 DEF Typed, TypeOK
<1>4. Registered
  <2>1. Sections = {}
    <3>1. \A k \in 1 .. Len(packet) : FALSE
      BY <1>1
    <3> QED BY <3>1 DEF Sections
  <2>2. 0 * Len(defined) = 0
    BY <1>2
  <2> QED BY <1>1, <1>2, <2>1, <2>2 DEF Registered
<1> QED BY <1>3, <1>4 DEF IInv

LEMMA Inductive ==
  ASSUME BaseAssumption, PacketAssumption, IInv, [Next]_vars PROVE IInv'
BY TypedInductive, RegisteredInductive DEF IInv

(* The registration is never out of step with the packet, whatever the     *)
(* sections defined and however many extractors were made.                 *)
THEOREM Invariant == Spec => []IInv
<1>1. Init => IInv
  BY Initially, PacketAssumption
<1>2. IInv /\ [Next]_vars => IInv'
  BY Inductive, BaseAssumption, PacketAssumption
<1> QED BY <1>1, <1>2, PTL DEF Spec

(* Every variable keeps its type.                                          *)
THEOREM TypeCorrect == Spec => []TypeOK
<1>1. IInv => TypeOK
  BY DEF IInv, Typed
<1> QED BY <1>1, Invariant, PTL

(* An extractor that could be made has registered exactly the sections the *)
(* application defined (is_packet_sections_correct).                       *)
THEOREM SectionsComplete == Spec => []SectionsRegistered
<1>1. IInv => SectionsRegistered
  <2> SUFFICES ASSUME IInv PROVE SectionsRegistered
    OBVIOUS
  <2>1. at = "crashed" => "Other" \in Defined
    BY DEF IInv, Registered
  <2>2. ASSUME extractors > 0, at \in {"idle", "finding", "undefined"}
        PROVE  exists = Defined
    <3>1. extractors # 0
      BY <2>2 DEF IInv, Typed, TypeOK, PacketAssumption
    <3>2. Sections = Defined /\ Sections \subseteq exists /\ exists \subseteq Defined
      BY <3>1, <2>2 DEF IInv, Registered
    <3> QED BY <3>2
  <2>3. Len(packet) = extractors * Len(defined)
    BY DEF IInv, Registered
  <2>4. \A t \in Types : registered[t] = IF t \in exists THEN t ELSE "none"
    BY DEF IInv, Registered
  <2> QED BY <2>1, <2>2, <2>3, <2>4 DEF SectionsRegistered
<1> QED BY <1>1, Invariant, PTL
-----------------------------------------------------------------------------
(* Modular reduction of a value in the range                               *)
LEMMA ModFits ==
  ASSUME NEW N \in Nat, NEW x \in Nat, x < N
  PROVE  x % N = x
  OBVIOUS

(* ... and of the negative int that stands for x                          *)
LEMMA ModLifts ==
  ASSUME NEW N \in Nat, NEW x \in Nat, x < N
  PROVE  (x - N) % N = x
  OBVIOUS

LEMMA Distributes ==
  ASSUME NEW x \in Int, NEW y \in Int, NEW z \in Int
  PROVE  (x + y) * z = x * z + y * z
  OBVIOUS

LEMMA ProductTyped ==
  ASSUME NEW x \in Nat, NEW y \in Nat
  PROVE  x * y \in Nat
  OBVIOUS

(* One more digit: a number below N becomes one below N * B.               *)
LEMMA Horner ==
  ASSUME NEW N \in Nat, NEW B \in Nat, NEW a \in Nat, NEW b \in Nat, a < N, b < B
  PROVE  a * B + b \in Nat /\ a * B + b < N * B
<1> DEFINE k == N - (a + 1)
<1>1. k \in Nat /\ N = (a + 1) + k
  OBVIOUS
<1> HIDE DEF k
<1>2. N * B = (a + 1) * B + k * B
  BY <1>1
<1>3. (a + 1) * B = a * B + B
  OBVIOUS
<1>4. k * B \in Nat /\ a * B \in Nat
  BY <1>1
<1> QED BY <1>2, <1>3, <1>4

LEMMA BaseIs == Base \in Nat /\ Base > 1
<1>1. Base \in Nat \ {0} /\ Base % 2 = 0
  BY BaseAssumption
<1>2. Base # 1
  BY <1>1
<1> QED BY <1>1, <1>2

LEMMA WordIs == Word \in Nat /\ Base <= Word /\ Base * Base <= Word
<1>1. ASSUME NEW x \in Nat PROVE x * Base \in Nat /\ x <= x * Base
  <2>1. x * Base = x * (Base - 1) + x
    BY BaseIs
  <2>2. x * (Base - 1) \in Nat
    BY BaseIs, ProductTyped
  <2> QED BY <2>1, <2>2
<1> DEFINE two == Base * Base
           three == two * Base
           four == three * Base
<1>2. two \in Nat /\ Base <= two
  BY <1>1, BaseIs
<1> HIDE DEF two
<1>3. three \in Nat /\ two <= three
  BY <1>1, <1>2
<1> HIDE DEF three
<1>4. four \in Nat /\ three <= four
  BY <1>1, <1>3
<1> HIDE DEF four
<1>5. Word = four
  BY DEF Word, four, three, two
<1>6. Base <= four /\ two <= four
  BY <1>2, <1>3, <1>4, BaseIs
<1> QED BY <1>4, <1>5, <1>6 DEF two

(* Two and four digits are numbers of as many digits, and say their sum.   *)
LEMMA TwoFits ==
  ASSUME NEW a \in 0 .. Base - 1, NEW b \in 0 .. Base - 1
  PROVE  /\ Two(a, b) \in Nat /\ Two(a, b) < Base * Base
         /\ Two(a, b) = b + Base * a
<1>1. a \in Nat /\ b \in Nat /\ a < Base /\ b < Base /\ Base \in Nat
  BY BaseIs
<1>2. a * Base + b \in Nat /\ a * Base + b < Base * Base
  BY <1>1, Horner
<1>3. a * Base + b = b + Base * a
  BY <1>1
<1> QED BY <1>2, <1>3 DEF Two

LEMMA FourFits ==
  ASSUME NEW a \in 0 .. Base - 1, NEW b \in 0 .. Base - 1,
         NEW c \in 0 .. Base - 1, NEW d \in 0 .. Base - 1
  PROVE  Four(a, b, c, d) \in Nat /\ Four(a, b, c, d) < Word
<1> DEFINE two == Two(a, b)
           three == Two(two, c)
           four == Two(three, d)
           twos == Base * Base
           threes == twos * Base
<1>1. two \in Nat /\ two < twos /\ twos \in Nat
  BY TwoFits, BaseIs, ProductTyped
<1>2. c \in Nat /\ c < Base /\ d \in Nat /\ d < Base /\ Base \in Nat
  BY BaseIs
<1> HIDE DEF two, twos
<1>3. three \in Nat /\ three < threes /\ threes \in Nat
  BY <1>1, <1>2, Horner, ProductTyped DEF Two
<1> HIDE DEF three, threes
<1>4. four \in Nat /\ four < threes * Base
  BY <1>2, <1>3, Horner DEF Two
<1>5. Word = threes * Base
  BY DEF Word, threes, twos
<1>6. Four(a, b, c, d) = four
  BY DEF Four, four, three, two
<1> HIDE DEF four
<1> QED BY <1>4, <1>5, <1>6

LEMMA FourIs ==
  ASSUME NEW a \in Int, NEW b \in Int, NEW c \in Int, NEW d \in Int
  PROVE  Four(a, b, c, d) = d + Base * c + Base * Base * b + Base * Base * Base * a
  BY BaseIs DEF Four, Two

LEMMA SignedWordFits ==
  ASSUME NEW x \in Nat, x < Word
  PROVE  SignedWord(x) % Word = x
<1>1. x % Word = x /\ (x - Word) % Word = x
  BY WordIs, ModFits, ModLifts
<1> QED BY <1>1 DEF SignedWord

LEMMA LengthRead ==
  ASSUME NEW f, f.bytes \in Seq(0 .. Base - 1), f.is_msb \in BOOLEAN, Readable(f)
  PROVE  data_len(f) = Value(f)
<1>0. /\ \A k \in 1 .. Len(f.bytes) : f.bytes[k] \in 0 .. Base - 1
      /\ 0 \in 0 .. Base - 1 /\ Base \in Nat
  BY BaseIs
<1>z. Base * 0 = 0 /\ Base * Base * 0 = 0 /\ Base * Base * Base * 0 = 0
  BY BaseIs
<1>1. CASE Len(f.bytes) = 1 /\ f.bytes[1] < Base \div 2
  <2> DEFINE b == f.bytes[1]
  <2>1. b \in Nat /\ b < Base
    BY <1>0, <1>1
  <2>2. calc_len(f) = b
    BY <1>1 DEF calc_len, SignedByte, ByteOf
  <2>3. b % Word = b
    BY <2>1, WordIs, BaseIs, ModFits
  <2>4. /\ Digit(f, 1) = b /\ Digit(f, 2) = 0
        /\ Digit(f, 3) = 0 /\ Digit(f, 4) = 0
    BY <1>1 DEF Digit
  <2> HIDE DEF b
  <2> QED BY <2>1, <2>2, <2>3, <2>4, <1>z DEF data_len, Value
<1>2. CASE Len(f.bytes) = 2
  <2> DEFINE a == Digit(f, 2)
             b == Digit(f, 1)
  <2>1. a \in 0 .. Base - 1 /\ b \in 0 .. Base - 1
    BY <1>0, <1>2 DEF Digit
  <2>2. Digit(f, 3) = 0 /\ Digit(f, 4) = 0
    BY <1>2 DEF Digit
  <2>3. calc_len(f) = Two(a, b)
    BY <1>2 DEF calc_len, ByteOf, Digit
  <2> HIDE DEF a, b
  <2>4. Two(a, b) \in Nat /\ Two(a, b) < Base * Base /\ Two(a, b) = b + Base * a
    BY <2>1, TwoFits
  <2>5. Two(a, b) < Word
    BY <2>4, WordIs, BaseIs, ProductTyped
  <2>6. Two(a, b) % Word = Two(a, b)
    BY <2>4, <2>5, WordIs, ModFits
  <2>7. Value(f) = b + Base * a + Base * Base * 0 + Base * Base * Base * 0
    BY <2>2 DEF Value, a, b
  <2> QED BY <2>1, <2>3, <2>4, <2>6, <2>7, <1>z, BaseIs DEF data_len
<1>3. CASE Len(f.bytes) = 4 \/ (Len(f.bytes) = 3 /\ ~f.is_msb)
  <2> DEFINE a == Digit(f, 4)
             b == Digit(f, 3)
             c == Digit(f, 2)
             d == Digit(f, 1)
             n == Four(a, b, c, d)
  <2>1. /\ a \in 0 .. Base - 1 /\ b \in 0 .. Base - 1
        /\ c \in 0 .. Base - 1 /\ d \in 0 .. Base - 1
        /\ calc_len(f) = SignedWord(n)
    <3>1. CASE Len(f.bytes) = 4 /\ f.is_msb
      <4>1. a = f.bytes[1] /\ b = f.bytes[2] /\ c = f.bytes[3] /\ d = f.bytes[4]
        BY <3>1 DEF Digit
      <4>2. calc_len(f) = SignedWord(Four(f.bytes[1], f.bytes[2], f.bytes[3], f.bytes[4]))
        BY <3>1 DEF calc_len, ByteOf
      <4>3. /\ f.bytes[1] \in 0 .. Base - 1 /\ f.bytes[2] \in 0 .. Base - 1
            /\ f.bytes[3] \in 0 .. Base - 1 /\ f.bytes[4] \in 0 .. Base - 1
        BY <1>0, <3>1
      <4> HIDE DEF a, b, c, d
      <4> QED BY <4>1, <4>2, <4>3
    <3>2. CASE Len(f.bytes) = 4 /\ ~f.is_msb
      <4>1. a = f.bytes[4] /\ b = f.bytes[3] /\ c = f.bytes[2] /\ d = f.bytes[1]
        BY <3>2 DEF Digit
      <4>2. calc_len(f) = SignedWord(Four(f.bytes[4], f.bytes[3], f.bytes[2], f.bytes[1]))
        BY <3>2 DEF calc_len, ByteOf
      <4>3. /\ f.bytes[4] \in 0 .. Base - 1 /\ f.bytes[3] \in 0 .. Base - 1
            /\ f.bytes[2] \in 0 .. Base - 1 /\ f.bytes[1] \in 0 .. Base - 1
        BY <1>0, <3>2
      <4> HIDE DEF a, b, c, d
      <4> QED BY <4>1, <4>2, <4>3
    <3>3. CASE Len(f.bytes) = 3 /\ ~f.is_msb
      <4>1. a = 0 /\ b = f.bytes[3] /\ c = f.bytes[2] /\ d = f.bytes[1]
        BY <3>3 DEF Digit
      <4>2. calc_len(f) = SignedWord(Four(0, f.bytes[3], f.bytes[2], f.bytes[1]))
        BY <3>3 DEF calc_len, ByteOf
      <4>3. /\ 0 \in 0 .. Base - 1 /\ f.bytes[3] \in 0 .. Base - 1
            /\ f.bytes[2] \in 0 .. Base - 1 /\ f.bytes[1] \in 0 .. Base - 1
        BY <1>0, <3>3
      <4> HIDE DEF a, b, c, d
      <4> QED BY <4>1, <4>2, <4>3
    <3> QED BY <1>3, <3>1, <3>2, <3>3
  <2>3. Value(f) = d + Base * c + Base * Base * b + Base * Base * Base * a
    BY DEF Value
  <2> HIDE DEF a, b, c, d
  <2>4. n \in Nat /\ n < Word
    BY <2>1, FourFits
  <2>5. n = d + Base * c + Base * Base * b + Base * Base * Base * a
    BY <2>1, FourIs
  <2> HIDE DEF n
  <2>6. SignedWord(n) % Word = n
    BY <2>4, SignedWordFits
  <2> QED BY <2>1, <2>3, <2>5, <2>6 DEF data_len
<1> QED BY <1>1, <1>2, <1>3 DEF Readable

(* ... and of the others of up to four bytes only the zeros.              *)
LEMMA Grows ==
  ASSUME NEW B \in Nat, B > 1, NEW v \in Nat, v # 0
  PROVE  B * v # v
<1> DEFINE k == B - 2
<1>1. k \in Nat /\ B = 2 + k
  OBVIOUS
<1> HIDE DEF k
<1>2. B * v = 2 * v + k * v /\ k * v \in Nat
  BY <1>1, ProductTyped
<1> QED BY <1>2

LEMMA LengthMisread ==
  ASSUME NEW f, f.bytes \in Seq(0 .. Base - 1), f.is_msb \in BOOLEAN,
         Len(f.bytes) <= 4, ~Readable(f)
  PROVE  data_len(f) = Value(f) <=> Value(f) = 0
<1>0. /\ \A k \in 1 .. Len(f.bytes) : f.bytes[k] \in 0 .. Base - 1
      /\ 0 \in 0 .. Base - 1 /\ Base \in Nat
  BY BaseIs
<1>z. Base * 0 = 0 /\ Base * Base * 0 = 0 /\ Base * Base * Base * 0 = 0
  BY BaseIs
<1>1. CASE Len(f.bytes) = 0
  <2>1. Digit(f, 1) = 0 /\ Digit(f, 2) = 0 /\ Digit(f, 3) = 0 /\ Digit(f, 4) = 0
    BY <1>1 DEF Digit
  <2>2. Value(f) = 0
    BY <2>1, <1>z DEF Value
  <2>3. calc_len(f) = 0
    BY <1>1 DEF calc_len
  <2> QED BY <2>2, <2>3, WordIs, BaseIs DEF data_len
<1>2. CASE Len(f.bytes) = 1 /\ ~(f.bytes[1] < Base \div 2)
  <2> DEFINE b == f.bytes[1]
             x == b - Base + Word
  <2>1. b \in Nat /\ b < Base /\ b # 0
    BY <1>0, <1>2, BaseIs
  <2>2. calc_len(f) = b - Base
    BY <1>2 DEF calc_len, SignedByte, ByteOf
  <2>3. /\ Digit(f, 1) = b /\ Digit(f, 2) = 0
        /\ Digit(f, 3) = 0 /\ Digit(f, 4) = 0
    BY <1>2 DEF Digit
  <2> HIDE DEF b
  <2>4. Value(f) = b
    BY <2>1, <2>3, <1>z DEF Value
  <2>5. x \in Nat /\ x < Word /\ x - Word = b - Base
    BY <2>1, WordIs, BaseIs
  <2>6. Base * Base # Base /\ Base <= Base * Base
    BY BaseIs, Grows, WordIs
  <2>7. x # b
    BY <2>1, <2>6, WordIs, BaseIs, ProductTyped
  <2> HIDE DEF x
  <2>8. (x - Word) % Word = x
    BY <2>5, WordIs, ModLifts
  <2> QED BY <2>1, <2>2, <2>4, <2>5, <2>7, <2>8 DEF data_len
<1>3. CASE Len(f.bytes) = 3 /\ f.is_msb
  <2> DEFINE a == Digit(f, 3)
             b == Digit(f, 2)
             c == Digit(f, 1)
             n == Four(a, b, c, 0)
             v == c + Base * b + Base * Base * a
  <2>1. a = f.bytes[1] /\ b = f.bytes[2] /\ c = f.bytes[3] /\ Digit(f, 4) = 0
    BY <1>3 DEF Digit
  <2>2. calc_len(f) = SignedWord(Four(f.bytes[1], f.bytes[2], f.bytes[3], 0))
    BY <1>3 DEF calc_len, ByteOf
  <2>3. a \in 0 .. Base - 1 /\ b \in 0 .. Base - 1 /\ c \in 0 .. Base - 1
    BY <1>0, <1>3, <2>1
  <2>4. Value(f) = v + Base * Base * Base * 0
    BY <2>1 DEF Value
  <2> HIDE DEF a, b, c
  <2>5. calc_len(f) = SignedWord(n)
    BY <2>1, <2>2
  <2>6. n \in Nat /\ n < Word
    BY <2>3, <1>0, FourFits
  <2>7. n = 0 + Base * c + Base * Base * b + Base * Base * Base * a
    BY <2>3, FourIs
  <2>8. n = Base * v
    BY <2>3, <2>7, BaseIs
  <2>9. v \in Nat
    <3>1. Base * b \in Nat /\ Base * Base \in Nat
      BY <2>3, BaseIs, ProductTyped
    <3>2. (Base * Base) * a \in Nat
      BY <2>3, <3>1, ProductTyped
    <3> QED BY <2>3, <3>1, <3>2
  <2> HIDE DEF n, v
  <2>10. SignedWord(n) % Word = n
    BY <2>6, SignedWordFits
  <2>11. Value(f) = v
    BY <2>4, <2>9, <1>z
  <2>12. v # 0 => Base * v # v
    BY <2>9, BaseIs, Grows
  <2>13. v = 0 => Base * v = v
    BY BaseIs
  <2> QED BY <2>5, <2>8, <2>10, <2>11, <2>12, <2>13 DEF data_len
<1>4. Len(f.bytes) \in {0, 1, 2, 3, 4}
  <2> DEFINE n == Len(f.bytes)
  <2>1. n \in Nat /\ n <= 4
    OBVIOUS
  <2> HIDE DEF n
  <2>2. n \in {0, 1, 2, 3, 4}
    BY <2>1
  <2> QED BY <2>2 DEF n
<1> QED BY <1>1, <1>2, <1>3, <1>4 DEF Readable

(* Of the length fields of up to four bytes those of two or four, of three *)
(* with the lowest first, and of one below the sign bit are read for what  *)
(* they say, and of the others only the zeros, for every Base; a longer    *)
(* one is read as 0: LengthIsValue.                                        *)
THEOREM LengthsRead == Spec => []LengthIsValue
<1>1. ASSUME IInv PROVE LengthIsValue
  <2>1. field.bytes \in Seq(0 .. Base - 1) /\ field.is_msb \in BOOLEAN
    BY <1>1, PacketAssumption DEF IInv, Typed
  <2>2. CASE Readable(field)
    <3>1. Len(field.bytes) <= 4
      <4> DEFINE n == Len(field.bytes)
      <4>1. n \in {1, 2, 3, 4}
        BY <2>2 DEF Readable
      <4> HIDE DEF n
      <4>2. n <= 4
        BY <4>1
      <4> QED BY <4>2 DEF n
    <3> QED BY <2>1, <2>2, <3>1, LengthRead DEF LengthIsValue
  <2>3. CASE ~Readable(field) /\ Len(field.bytes) <= 4
    <3>1. data_len(field) = Value(field) <=> Value(field) = 0
      BY <2>1, <2>3, LengthMisread
    <3> QED BY <2>3, <3>1 DEF LengthIsValue
  <2>4. CASE ~(Len(field.bytes) <= 4)
    <3>1. calc_len(field) = 0
      <4> DEFINE n == Len(field.bytes)
      <4>1. n \notin {1, 2, 3, 4}
        <5>1. ~(n <= 4)
          BY <2>4
        <5> HIDE DEF n
        <5> QED BY <5>1
      <4> QED BY <4>1 DEF calc_len
    <3>2. data_len(field) = 0
      <4>1. 0 % Word = 0
        BY WordIs, BaseIs
      <4> QED BY <3>1, <4>1 DEF data_len
    <3> QED BY <2>4, <3>2 DEF LengthIsValue
  <2> QED BY <2>2, <2>3, <2>4
<1> QED BY <1>1, Invariant, PTL
=============================================================================
