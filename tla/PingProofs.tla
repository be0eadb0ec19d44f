------------------------------ MODULE PingProofs ------------------------------
(* The chain of handlers, the count of silent requests, the spacing of     *)
(* requests and what is in them, in Ping, for every Counter and every      *)
(* number of replies.                                                      *)
EXTENDS Ping, FiniteSetTheorems, SequenceTheorems, WellFoundedInduction, TLAPS

Handlers == {"timeout", "send"}

Typed ==
  /\ status \in {"new", "running", "stopped", "thrown"}
  /\ sequence_number \in 0 .. Word - 1 /\ num_replies \in Nat
  /\ time_out \in 0 .. Counter
  /\ elapsed \in 0 .. Timeout
  /\ timer \in {"none"} \cup Handlers /\ ready \in Seq(Handlers)
  /\ arrived \in Seq(Nat) /\ answered \subseteq Nat /\ wrapped \in BOOLEAN

AtFirst ==
  status = "new" =>
    /\ sequence_number = 0 /\ num_replies = 0 /\ time_out = 0
    /\ timer = "none" /\ ready = << >> /\ answered = {} /\ ~wrapped

(* One handler waits on the timer, or one is ready.                        *)
Chain ==
  status = "running" =>
    \/ timer \in Handlers /\ ready = << >>
    \/ timer = "none" /\ \E h \in Handlers : ready = <<h>>

(* While the timeout is awaited, num_replies tells whether the last        *)
(* request is among the answered ones.                                     *)
Counted ==
  /\ ~wrapped => answered \subseteq 1 .. sequence_number
  /\ status = "running" => wrapped \/ sequence_number > 0
  /\ status = "running" /\ Awaiting /\ ~wrapped => (num_replies > 0 <=> sequence_number \in answered)

(* What hurries within a second of a request has been hurried by replies   *)
(* to it: by one when its timeout is over, by two when the next is sent.   *)
Hurried ==
  status = "running" /\ elapsed < Interval =>
    /\ ready = <<"timeout">> \/ timer = "send" => Copies(sequence_number) >= 1
    /\ ready = <<"send">> => Copies(sequence_number) >= 2

(* The request that was sent last is the one of the present number.        *)
Asked == request \in {<< >>, Request(Identifier, sequence_number)}

IInv == Typed /\ AtFirst /\ Chain /\ Counted /\ CountsTheSilence /\ Hurried /\ Asked
-----------------------------------------------------------------------------
(* All that is used of Word, which the prover would otherwise enumerate up  *)
(* to.                                                                     *)
LEMMA WordIs == Word \in Int /\ 65535 < Word /\ Word < 65537
BY DEF Word

LEMMA UpTo ==
  ASSUME NEW n \in 0 .. Word - 1
  PROVE  n \in Int /\ 0 <= n /\ n < 65536
BY WordIs

(* Two bytes hold a short number.                                          *)
LEMMA ShortBytes ==
  ASSUME NEW n \in Short
  PROVE  /\ n \div 256 \in Nat /\ n % 256 \in Nat
         /\ 256 * (n \div 256) + (n % 256) = n
<1>1. n \in Int /\ 0 <= n /\ n < 65536
  BY UpTo DEF Short
<1>2. n \div 256 \in Nat
  BY <1>1
<1>3. n % 256 \in Nat
  BY <1>1
<1>4. 256 * (n \div 256) + (n % 256) = n
  BY <1>1
<1> QED BY <1>2, <1>3, <1>4

LEMMA Nibbles ==
  ASSUME NEW v \in Nat, NEW w \in Nat, w <= 15
  PROVE  (16 * v + w) \div 16 = v /\ (16 * v + w) % 16 = w
  OBVIOUS

LEMMA Joined ==
  ASSUME NEW p \in Seq(Nat), NEW q \in Seq(Nat)
  PROVE  /\ p \o q \in Seq(Nat) /\ Len(p \o q) = Len(p) + Len(q)
         /\ \A i \in 1 .. Len(p) : (p \o q)[i] = p[i]
         /\ \A i \in 1 .. Len(q) : (p \o q)[Len(p) + i] = q[i]
  OBVIOUS

(* What is in a datagram: options and what else is of no account, between  *)
(* its first byte and the ICMP header.                                     *)
LEMMA InDatagram ==
  ASSUME NEW v \in Nat, NEW w \in Nat \ {0}, NEW t \in Nat, NEW id \in Short, NEW n \in Short
  PROVE  /\ Datagram(v, w, t, id, n) \in Seq(Nat)
         /\ Len(Datagram(v, w, t, id, n)) = 4 * w + 8
         /\ Datagram(v, w, t, id, n)[1] = 16 * v + w
         /\ Datagram(v, w, t, id, n)[4 * w + 1] = t
         /\ Datagram(v, w, t, id, n)[4 * w + 5] = id \div 256
         /\ Datagram(v, w, t, id, n)[4 * w + 6] = id % 256
         /\ Datagram(v, w, t, id, n)[4 * w + 7] = n \div 256
         /\ Datagram(v, w, t, id, n)[4 * w + 8] = n % 256
<1> DEFINE d == Datagram(v, w, t, id, n)
<1> DEFINE a == <<16 * v + w>>
           b == [k \in 1 .. 4 * w - 1 |-> 0]
           c == <<t, 0, 0, 0>>
           e == encode(id)
           f == encode(n)
<1>1. a \in Seq(Nat) /\ Len(a) = 1 /\ a[1] = 16 * v + w
  OBVIOUS
<1>2. b \in Seq(Nat) /\ Len(b) = 4 * w - 1
  OBVIOUS
<1>3. c \in Seq(Nat) /\ Len(c) = 4 /\ c[1] = t
  OBVIOUS
<1>4. e \in Seq(Nat) /\ Len(e) = 2 /\ e[1] = id \div 256 /\ e[2] = id % 256
  BY ShortBytes DEF encode
<1>5. f \in Seq(Nat) /\ Len(f) = 2 /\ f[1] = n \div 256 /\ f[2] = n % 256
  BY ShortBytes DEF encode
<1>6. d = a \o b \o c \o e \o f
  BY DEF Datagram
<1> HIDE DEF a, b, c, d, e, f
<1> DEFINE g == a \o b
           h == g \o c
           k == h \o e
<1>7. g \in Seq(Nat) /\ Len(g) = 4 * w /\ g[1] = a[1]
  <2>1. /\ g \in Seq(Nat) /\ Len(g) = Len(a) + Len(b)
        /\ \A i \in 1 .. Len(a) : g[i] = a[i]
    BY <1>1, <1>2, Joined
  <2> HIDE DEF g
  <2> QED BY <2>1, <1>1, <1>2
<1> HIDE DEF g
<1>8. h \in Seq(Nat) /\ Len(h) = 4 * w + 4 /\ h[1] = g[1] /\ h[4 * w + 1] = c[1]
  <2>1. /\ h \in Seq(Nat) /\ Len(h) = Len(g) + Len(c)
        /\ \A i \in 1 .. Len(g) : h[i] = g[i]
        /\ \A i \in 1 .. Len(c) : h[Len(g) + i] = c[i]
    BY <1>3, <1>7, Joined
  <2>2. h[Len(g) + 1] = c[1]
    BY <2>1, <1>3
  <2> HIDE DEF h
  <2> QED BY <2>1, <2>2, <1>3, <1>7
<1> HIDE DEF h
<1>9. /\ k \in Seq(Nat) /\ Len(k) = 4 * w + 6
      /\ k[1] = h[1] /\ k[4 * w + 1] = h[4 * w + 1]
      /\ k[4 * w + 5] = e[1] /\ k[4 * w + 6] = e[2]
  <2>1. /\ k \in Seq(Nat) /\ Len(k) = Len(h) + Len(e)
        /\ \A i \in 1 .. Len(h) : k[i] = h[i]
        /\ \A i \in 1 .. Len(e) : k[Len(h) + i] = e[i]
    <3>1. h \in Seq(Nat) /\ e \in Seq(Nat)
      BY <1>4, <1>8
    <3> QED BY <3>1, Joined, Zenon
  <2>2. k[Len(h) + 1] = e[1] /\ k[Len(h) + 2] = e[2]
    BY <2>1, <1>4
  <2> HIDE DEF k
  <2>3. k[4 * w + 5] = e[1] /\ k[4 * w + 6] = e[2]
    <3>1. Len(h) + 1 = 4 * w + 5 /\ Len(h) + 2 = 4 * w + 6
      BY <1>8
    <3> QED BY <2>2, <3>1
  <2> QED BY <2>1, <2>3, <1>4, <1>8
<1> HIDE DEF k
<1>10. /\ d \in Seq(Nat) /\ Len(d) = 4 * w + 8
       /\ \A i \in 1 .. 4 * w + 6 : d[i] = k[i]
       /\ d[4 * w + 7] = f[1] /\ d[4 * w + 8] = f[2]
  <2>0. d = k \o f
    BY <1>6 DEF g, h, k
  <2>c. /\ k \o f \in Seq(Nat) /\ Len(k \o f) = Len(k) + Len(f)
        /\ \A i \in 1 .. Len(k) : (k \o f)[i] = k[i]
        /\ \A i \in 1 .. Len(f) : (k \o f)[Len(k) + i] = f[i]
    <3>1. k \in Seq(Nat) /\ f \in Seq(Nat)
      BY <1>5, <1>9
    <3> QED BY <3>1, Joined, Zenon
  <2>1. /\ d \in Seq(Nat) /\ Len(d) = Len(k) + Len(f)
        /\ \A i \in 1 .. Len(k) : d[i] = k[i]
        /\ \A i \in 1 .. Len(f) : d[Len(k) + i] = f[i]
    BY <2>0, <2>c, Zenon
  <2>2. d[Len(k) + 1] = f[1] /\ d[Len(k) + 2] = f[2]
    BY <2>1, <1>5
  <2>3. Len(k) + 1 = 4 * w + 7 /\ Len(k) + 2 = 4 * w + 8
    BY <1>9
  <2> QED BY <2>1, <2>2, <2>3, <1>5, <1>9
<1>11. /\ d[1] = k[1] /\ d[4 * w + 1] = k[4 * w + 1]
       /\ d[4 * w + 5] = k[4 * w + 5] /\ d[4 * w + 6] = k[4 * w + 6]
  <2>1. {1, 4 * w + 1, 4 * w + 5, 4 * w + 6} \subseteq 1 .. 4 * w + 6
    OBVIOUS
  <2> QED BY <2>1, <1>10
<1>12. /\ d \in Seq(Nat) /\ Len(d) = 4 * w + 8 /\ d[1] = 16 * v + w /\ d[4 * w + 1] = t
       /\ d[4 * w + 5] = id \div 256 /\ d[4 * w + 6] = id % 256
       /\ d[4 * w + 7] = n \div 256 /\ d[4 * w + 8] = n % 256
  BY <1>1, <1>3, <1>4, <1>5, <1>7, <1>8, <1>9, <1>10, <1>11
<1> QED BY <1>12 DEF d

(* Induction over the natural numbers, for sets                            *)
Below == {p \in Nat \X Nat : p[1] < p[2]}

LEMMA BelowWellFounded == IsWellFoundedOn(Below, Nat)
<1>1. OpToRel(<, Nat) = Below
  BY Zenon DEF OpToRel, Below
<1> QED BY <1>1, NatLessThanWellFounded, Zenon

LEMMA SetInduction ==
  ASSUME NEW T \in SUBSET Nat, 0 \in T, \A n \in T : n + 1 \in T
  PROVE  T = Nat
<1> DEFINE R == Nat \ T
<1> SUFFICES ASSUME R # {} PROVE FALSE
  OBVIOUS
<1>1. PICK m \in R : \A n \in R : <<n, m>> \notin Below
  <2>1. R \subseteq Nat
    OBVIOUS
  <2> HIDE DEF R
  <2> QED BY <2>1, BelowWellFounded, WFMin
<1>2. m - 1 \in Nat /\ m - 1 < m
  OBVIOUS
<1>3. m - 1 \in T
  BY <1>1, <1>2 DEF Below
<1>4. (m - 1) + 1 \in T
  BY <1>3
<1> QED BY <1>1, <1>4
LEMMA InductionUpTo ==
  ASSUME NEW n \in Nat, NEW T, 0 \in T, \A k \in 0 .. n - 1 : k \in T => k + 1 \in T
  PROVE  \A k \in 0 .. n : k \in T
<1> DEFINE U == {k \in Nat : k <= n => k \in T}
<1>1. U \in SUBSET Nat /\ 0 \in U
  OBVIOUS
<1>2. ASSUME NEW k \in U PROVE k + 1 \in U
  <2> SUFFICES ASSUME k + 1 <= n PROVE k + 1 \in T
    OBVIOUS
  <2>1. k \in 0 .. n - 1 /\ k \in T
    OBVIOUS
  <2> QED BY <2>1
<1>3. U = Nat
  <2> HIDE DEF U
  <2> QED BY <1>1, <1>2, SetInduction
<1> QED BY <1>3
-----------------------------------------------------------------------------
(* The recursive sum of WordSum                                            *)
Weight(k) == IF k % 2 = 1 THEN 256 ELSE 1
Sums(b) == CHOOSE sum : sum = [k \in 0 .. Len(b) |->
             IF k = 0 THEN 0 ELSE sum[k - 1] + b[k] * (IF k % 2 = 1 THEN 256 ELSE 1)]
(* What it has to be on 0 .. n *)
SumsUpTo(b, n) ==
  {f \in [0 .. n -> Nat] : f[0] = 0 /\ \A k \in 1 .. n : f[k] = f[k - 1] + b[k] * Weight(k)}

LEMMA WeightIs == ASSUME NEW k PROVE Weight(k) \in {1, 256}
BY DEF Weight

(* There is such a sum.  *)
LEMMA SumsExist ==
  ASSUME NEW b \in Seq(Nat)
  PROVE  SumsUpTo(b, Len(b)) # {}
<1> DEFINE T == {n \in 0 .. Len(b) : SumsUpTo(b, n) # {}}
<1>l. Len(b) \in Nat /\ \A k \in 1 .. Len(b) : b[k] \in Nat
  BY LenProperties
<1>1. 0 \in T
  <2>1. [k \in 0 .. 0 |-> 0] \in SumsUpTo(b, 0)
    BY DEF SumsUpTo
  <2> QED BY <2>1, <1>l
<1>2. ASSUME NEW n \in 0 .. Len(b) - 1, n \in T PROVE n + 1 \in T
  <2> SUFFICES SumsUpTo(b, n + 1) # {}
    BY <1>l
  <2>1. n \in Nat /\ n + 1 <= Len(b) /\ SumsUpTo(b, n) # {}
    BY <1>2, <1>l
  <2>2. PICK f : f \in SumsUpTo(b, n)
    BY <2>1
  <2> DEFINE d == b[n + 1] * Weight(n + 1)
             g == [k \in 0 .. n + 1 |-> IF k <= n THEN f[k] ELSE f[n] + d]
  <2>3. /\ f \in [0 .. n -> Nat] /\ f[0] = 0
        /\ \A k \in 1 .. n : f[k] = f[k - 1] + b[k] * Weight(k)
    BY <2>2 DEF SumsUpTo
  <2>4. d \in Nat
    <3>1. b[n + 1] \in Nat
      BY <2>1, <1>l
    <3>2. Weight(n + 1) \in {1, 256}
      BY WeightIs
    <3> QED BY <3>1, <3>2
  <2> HIDE DEF d
  <2>5. g \in [0 .. n + 1 -> Nat]
    BY <2>1, <2>3, <2>4
  <2>6. /\ \A k \in 0 .. n : g[k] = f[k]
        /\ g[n + 1] = f[n] + d
    BY <2>1
  <2> HIDE DEF g
  <2>7. \A k \in 1 .. n + 1 : g[k] = g[k - 1] + b[k] * Weight(k)
    <3> SUFFICES ASSUME NEW k \in 1 .. n + 1 PROVE g[k] = g[k - 1] + b[k] * Weight(k)
      OBVIOUS
    <3>1. CASE k = n + 1
      <4>1. g[k - 1] = f[n] /\ d = b[k] * Weight(k)
        BY <3>1, <2>1, <2>6 DEF d
      <4> QED BY <4>1, <3>1, <2>6
    <3>2. CASE k \in 1 .. n
      <4>1. g[k] = f[k] /\ g[k - 1] = f[k - 1]
        BY <3>2, <2>1, <2>6
      <4> QED BY <4>1, <3>2, <2>3
    <3> QED BY <3>1, <3>2, <2>1
  <2>8. g[0] = 0
    BY <2>1, <2>3, <2>6
  <2>9. g \in SumsUpTo(b, n + 1)
    BY <2>5, <2>7, <2>8 DEF SumsUpTo
  <2> QED BY <2>9
<1> HIDE DEF T
<1>3. \A n \in 0 .. Len(b) : n \in T
  BY <1>1, <1>2, <1>l, InductionUpTo
<1>4. Len(b) \in 0 .. Len(b)
  BY <1>l
<1> QED BY <1>3, <1>4 DEF T

(* The recursive sum of WordSum is defined, and is what it says.           *)
LEMMA SumsAre ==
  ASSUME NEW b \in Seq(Nat)
  PROVE  /\ WordSum(b) = Sums(b)[Len(b)] /\ Sums(b)[0] = 0
         /\ \A k \in 1 .. Len(b) : Sums(b)[k] = Sums(b)[k - 1] + b[k] * Weight(k)
<1> DEFINE F(f) == [k \in 0 .. Len(b) |-> IF k = 0 THEN 0 ELSE f[k - 1] + b[k] * Weight(k)]
<1>1. PICK f : f \in SumsUpTo(b, Len(b))
  BY SumsExist
<1>2. Len(b) \in Nat
  BY LenProperties
<1>3. f = F(f)
  <2>1. /\ f \in [0 .. Len(b) -> Nat] /\ f[0] = 0
        /\ \A k \in 1 .. Len(b) : f[k] = f[k - 1] + b[k] * Weight(k)
    BY <1>1 DEF SumsUpTo
  <2>2. \A k \in 0 .. Len(b) : k = 0 \/ k \in 1 .. Len(b)
    BY <1>2
  <2> QED BY <2>1, <2>2
<1>4. Sums(b) = CHOOSE g : g = F(g)
  BY DEF Sums, Weight
<1>5. Sums(b) = F(Sums(b))
  <2> HIDE DEF F
  <2> QED BY <1>3, <1>4
<1>6. WordSum(b) = Sums(b)[Len(b)]
  BY DEF WordSum, Sums
<1>7. \A k \in 0 .. Len(b) : Sums(b)[k] = IF k = 0 THEN 0 ELSE Sums(b)[k - 1] + b[k] * Weight(k)
  BY <1>5
<1> QED BY <1>2, <1>6, <1>7

(* Types and bounds *)
LEMMA Bytes ==
  ASSUME NEW b \in Seq(Byte)
  PROVE  /\ b \in Seq(Nat) /\ Len(b) \in Nat
         /\ \A k \in 1 .. Len(b) : b[k] \in Nat /\ b[k] <= 255
<1>1. \A n \in Byte : n \in Nat /\ n <= 255
  BY DEF Byte
<1>2. Len(b) \in Nat /\ b \in [1 .. Len(b) -> Byte]
  BY LenProperties
<1>3. \A k \in 1 .. Len(b) : b[k] \in Nat /\ b[k] <= 255
  BY <1>1, <1>2
<1>4. b \in [1 .. Len(b) -> Nat]
  BY <1>2, <1>3
<1>5. b \in Seq(Nat)
  BY <1>2, <1>4, SeqDef
<1> QED BY <1>2, <1>3, <1>5

LEMMA WordSumBounded ==
  ASSUME NEW b \in Seq(Byte)
  PROVE  WordSum(b) \in Nat /\ WordSum(b) <= 65280 * Len(b)
<1> DEFINE T == {n \in Nat : Sums(b)[n] \in Nat /\ Sums(b)[n] <= 65280 * n}
<1>b. b \in Seq(Nat)
  BY Bytes
<1>l. /\ Len(b) \in Nat /\ \A k \in 1 .. Len(b) : b[k] \in Nat /\ b[k] <= 255
      /\ Sums(b)[0] = 0
      /\ \A k \in 1 .. Len(b) : Sums(b)[k] = Sums(b)[k - 1] + b[k] * Weight(k)
  BY <1>b, Bytes, SumsAre
<1>1. 0 \in T
  BY <1>l
<1>2. ASSUME NEW n \in 0 .. Len(b) - 1, n \in T PROVE n + 1 \in T
  <2>1. n \in Nat /\ n + 1 \in 1 .. Len(b) /\ Sums(b)[n] \in Nat /\ Sums(b)[n] <= 65280 * n
    BY <1>2, <1>l
  <2>2. b[n + 1] \in Nat /\ b[n + 1] <= 255
    BY <2>1, <1>l
  <2>3. b[n + 1] * Weight(n + 1) \in Nat /\ b[n + 1] * Weight(n + 1) <= 65280
    BY <2>2, WeightIs
  <2>4. Sums(b)[n + 1] = Sums(b)[n] + b[n + 1] * Weight(n + 1)
    BY <2>1, <1>l
  <2> QED BY <2>1, <2>3, <2>4
<1> HIDE DEF T
<1>3. \A k \in 0 .. Len(b) : k \in T
  BY <1>1, <1>2, <1>l, InductionUpTo
<1>4. Len(b) \in 0 .. Len(b) /\ WordSum(b) = Sums(b)[Len(b)]
  BY <1>b, <1>l, SumsAre
<1> QED BY <1>3, <1>4 DEF T

LEMMA SumsTyped ==
  ASSUME NEW b \in Seq(Nat), NEW k \in 0 .. Len(b)
  PROVE  Sums(b)[k] \in Nat
<1> DEFINE T == {n \in Nat : Sums(b)[n] \in Nat}
<1>l. /\ Len(b) \in Nat /\ \A n \in 1 .. Len(b) : b[n] \in Nat
      /\ Sums(b)[0] = 0
      /\ \A n \in 1 .. Len(b) : Sums(b)[n] = Sums(b)[n - 1] + b[n] * Weight(n)
  BY LenProperties, SumsAre
<1>1. 0 \in T
  BY <1>l
<1>2. ASSUME NEW n \in 0 .. Len(b) - 1, n \in T PROVE n + 1 \in T
  <2>1. n \in Nat /\ n + 1 \in 1 .. Len(b) /\ Sums(b)[n] \in Nat
    BY <1>2, <1>l
  <2>2. b[n + 1] \in Nat /\ Weight(n + 1) \in {1, 256}
    BY <2>1, <1>l, WeightIs
  <2>3. b[n + 1] * Weight(n + 1) \in Nat
    BY <2>2
  <2>4. Sums(b)[n + 1] = Sums(b)[n] + b[n + 1] * Weight(n + 1)
    BY <2>1, <1>l
  <2> QED BY <2>1, <2>3, <2>4
<1> HIDE DEF T
<1>3. k \in T
  BY <1>1, <1>2, <1>l, InductionUpTo
<1> QED BY <1>3 DEF T

LEMMA WordSumTyped ==
  ASSUME NEW b \in Seq(Nat)
  PROVE  WordSum(b) \in Nat
<1>1. Len(b) \in 0 .. Len(b)
  BY LenProperties
<1> QED BY <1>1, SumsTyped, SumsAre

LEMMA EvenWeight ==
  ASSUME NEW m \in Nat, m % 2 = 0, NEW k \in Nat
  PROVE  Weight(m + k) = Weight(k)
<1>1. (m + k) % 2 = k % 2
  OBVIOUS
<1> QED BY <1>1 DEF Weight

(* The sum of a sequence of even length and what follows it *)
LEMMA WordSumConcat ==
  ASSUME NEW p \in Seq(Nat), NEW q \in Seq(Nat), Len(p) % 2 = 0
  PROVE  WordSum(p \o q) = WordSum(p) + WordSum(q)
<1> DEFINE r == p \o q
           m == Len(p)
           n == Len(q)
<1>0. /\ m \in Nat /\ n \in Nat /\ m % 2 = 0
      /\ \A k \in 1 .. n : q[k] \in Nat
  BY LenProperties
<1>t. (\A k \in 0 .. m : Sums(p)[k] \in Nat) /\ (\A k \in 0 .. n : Sums(q)[k] \in Nat)
  BY SumsTyped
<1>1. /\ r \in Seq(Nat) /\ Len(r) = m + n
      /\ \A k \in 1 .. m : r[k] = p[k]
      /\ \A k \in 1 .. n : r[m + k] = q[k]
  BY Joined
<1> HIDE DEF r
<1>2. /\ WordSum(r) = Sums(r)[m + n] /\ Sums(r)[0] = 0
      /\ \A k \in 1 .. (m + n) : Sums(r)[k] = Sums(r)[k - 1] + r[k] * Weight(k)
  BY <1>0, <1>1, SumsAre
<1>3. /\ WordSum(p) = Sums(p)[m] /\ Sums(p)[0] = 0
      /\ \A k \in 1 .. m : Sums(p)[k] = Sums(p)[k - 1] + p[k] * Weight(k)
  BY SumsAre
<1>4. /\ WordSum(q) = Sums(q)[n] /\ Sums(q)[0] = 0
      /\ \A k \in 1 .. n : Sums(q)[k] = Sums(q)[k - 1] + q[k] * Weight(k)
  BY SumsAre
<1> HIDE DEF m, n
<1>5. \A k \in 0 .. m : Sums(r)[k] = Sums(p)[k]
  <2> DEFINE T == {k \in Nat : Sums(r)[k] = Sums(p)[k]}
  <2>1. 0 \in T
    BY <1>2, <1>3
  <2>2. ASSUME NEW k \in 0 .. m - 1, k \in T PROVE k + 1 \in T
    <3>1. k + 1 \in 1 .. m /\ k + 1 \in 1 .. (m + n) /\ (k + 1) - 1 = k
      BY <1>0, <1>1
    <3>2. Sums(r)[k + 1] = Sums(r)[k] + p[k + 1] * Weight(k + 1)
      BY <3>1, <1>0, <1>1, <1>2
    <3>3. Sums(p)[k + 1] = Sums(p)[k] + p[k + 1] * Weight(k + 1)
      BY <3>1, <1>3
    <3> QED BY <2>2, <3>2, <3>3
  <2> HIDE DEF T
  <2>3. \A k \in 0 .. m : k \in T
    BY <2>1, <2>2, <1>0, <1>1, InductionUpTo
  <2> QED BY <2>3 DEF T
<1>6. \A k \in 0 .. n : Sums(r)[m + k] = Sums(p)[m] + Sums(q)[k]
  <2> DEFINE T == {k \in Nat : Sums(r)[m + k] = Sums(p)[m] + Sums(q)[k]}
  <2>1. 0 \in T
    <3>1. WordSum(p) \in Nat
      BY WordSumTyped
    <3>2. m \in 0 .. m /\ m + 0 = m
      BY <1>0
    <3>3. Sums(r)[m + 0] = Sums(p)[m]
      BY <3>2, <1>5
    <3> QED BY <3>1, <3>3, <1>3, <1>4
  <2>2. ASSUME NEW k \in 0 .. n - 1, k \in T PROVE k + 1 \in T
    <3>1. /\ k \in Nat /\ k + 1 \in 1 .. n /\ (k + 1) - 1 = k
          /\ m + (k + 1) \in 1 .. (m + n) /\ (m + (k + 1)) - 1 = m + k
      BY <1>0, <1>1
    <3>2. Weight(m + (k + 1)) = Weight(k + 1)
      <4>1. k + 1 \in Nat /\ m \in Nat /\ m % 2 = 0
        BY <3>1, <1>0
      <4> QED BY <4>1, EvenWeight
    <3>3. r[m + (k + 1)] = q[k + 1]
      BY <3>1, <1>0, <1>1
    <3>4. Sums(r)[m + (k + 1)] = Sums(r)[m + k] + q[k + 1] * Weight(k + 1)
      BY <3>1, <3>2, <3>3, <1>2
    <3>5. Sums(q)[k + 1] = Sums(q)[k] + q[k + 1] * Weight(k + 1)
      BY <3>1, <1>4
    <3>6. Sums(p)[m] \in Nat /\ Sums(q)[k] \in Nat /\ q[k + 1] * Weight(k + 1) \in Nat
      <4>1. Sums(p)[m] \in Nat /\ Sums(q)[k] \in Nat
        <5>1. m \in 0 .. m /\ k \in 0 .. n
          BY <1>0, <3>1
        <5> QED BY <5>1, <1>t
      <4>2. q[k + 1] \in Nat /\ Weight(k + 1) \in {1, 256}
        BY <3>1, WeightIs, <1>0
      <4> QED BY <4>1, <4>2
    <3> DEFINE x == Sums(p)[m]
               y == Sums(q)[k]
               z == q[k + 1] * Weight(k + 1)
               u == Sums(r)[m + k]
    <3>7. u = x + y
      BY <2>2
    <3>8. x \in Nat /\ y \in Nat /\ z \in Nat
      BY <3>6
    <3>9. Sums(r)[m + (k + 1)] = u + z /\ Sums(q)[k + 1] = y + z
      BY <3>4, <3>5
    <3> HIDE DEF x, y, z, u
    <3>10. Sums(r)[m + (k + 1)] = x + Sums(q)[k + 1]
      BY <3>7, <3>8, <3>9
    <3> QED BY <3>1, <3>10 DEF x
  <2> HIDE DEF T
  <2>3. \A k \in 0 .. n : k \in T
    BY <2>1, <2>2, <1>0, <1>1, InductionUpTo
  <2> QED BY <2>3 DEF T
<1>7. Sums(r)[m + n] = WordSum(p) + WordSum(q)
  BY <1>0, <1>1, <1>3, <1>4, <1>6
<1> QED BY <1>2, <1>7 DEF r

(* Two bytes are one word. *)
LEMMA PairSum ==
  ASSUME NEW a \in Nat, NEW c \in Nat
  PROVE  WordSum(<<a, c>>) = 256 * a + c
<1> DEFINE b == <<a, c>>
<1>1. b \in Seq(Nat) /\ Len(b) = 2 /\ b[1] = a /\ b[2] = c
  OBVIOUS
<1> HIDE DEF b
<1>4. /\ WordSum(b) = Sums(b)[Len(b)] /\ Sums(b)[0] = 0
      /\ \A k \in 1 .. Len(b) : Sums(b)[k] = Sums(b)[k - 1] + b[k] * Weight(k)
  BY <1>1, SumsAre
<1>2. /\ WordSum(b) = Sums(b)[2] /\ Sums(b)[0] = 0
      /\ Sums(b)[1] = Sums(b)[0] + b[1] * Weight(1)
      /\ Sums(b)[2] = Sums(b)[1] + b[2] * Weight(2)
  <2>1. 1 \in 1 .. Len(b) /\ 2 \in 1 .. Len(b) /\ 1 - 1 = 0 /\ 2 - 1 = 1
    BY <1>1
  <2>2. Sums(b)[1] = Sums(b)[1 - 1] + b[1] * Weight(1)
    BY <2>1, <1>4
  <2>3. Sums(b)[2] = Sums(b)[2 - 1] + b[2] * Weight(2)
    BY <2>1, <1>4
  <2> QED BY <2>1, <2>2, <2>3, <1>1, <1>4
<1>3. Weight(1) = 256 /\ Weight(2) = 1
  BY DEF Weight
<1> QED BY <1>1, <1>2, <1>3 DEF b

-----------------------------------------------------------------------------
(* The checksum                                                            *)
LEMMA DivMod ==
  ASSUME NEW s \in Nat
  PROVE  /\ s \div 65536 \in Nat /\ s % 65536 \in Nat /\ s % 65536 <= 65535
         /\ s = 65536 * (s \div 65536) + (s % 65536)
<1>1. s \div 65536 \in Nat
  OBVIOUS
<1>2. s % 65536 \in Nat
  OBVIOUS
<1>3. s % 65536 <= 65535
  OBVIOUS
<1>4. s = 65536 * (s \div 65536) + (s % 65536)
  OBVIOUS
<1> QED BY <1>1, <1>2, <1>3, <1>4

(* Adding the carries takes away a multiple of 65535 *)
LEMMA CarryIs ==
  ASSUME NEW s \in Nat
  PROVE  /\ s \div 65536 \in Nat /\ s % 65536 \in Nat /\ s % 65536 <= 65535
         /\ s = 65536 * (s \div 65536) + (s % 65536)
         /\ Carried(s) = (s \div 65536) + (s % 65536)
<1>1. Carried(s) = (s \div 65536) + (s % 65536)
  BY DEF Carried, Word
<1> QED BY <1>1, DivMod

LEMMA Multiple ==
  ASSUME NEW m \in Nat \ {0}
  PROVE  65535 * m > 0 /\ (65535 * m) % 65535 = 0
OBVIOUS

(* A sum and its complement are zero in ones' complement. *)
LEMMA ComplementIs ==
  ASSUME NEW s \in Nat, s < 65536 * 65536
  PROVE  /\ Complement(s) \in Nat /\ Complement(s) <= 65535
         /\ s + Complement(s) > 0 /\ (s + Complement(s)) % 65535 = 0
<1> DEFINE q == s \div 65536
           r == s % 65536
           c == Carried(s)
           u == c \div 65536
           v == c % 65536
           d == Carried(c)
           m == q + u + 1
<1>1. q \in Nat /\ r \in Nat /\ r <= 65535 /\ s = 65536 * q + r /\ c = q + r
  BY CarryIs
<1>2. c \in Nat
  BY <1>1
<1>4. u \in Nat /\ v \in Nat /\ v <= 65535 /\ c = 65536 * u + v /\ d = u + v
  BY <1>2, CarryIs
<1> HIDE DEF q, r, c, u, v, d
<1>5. u <= 1 /\ d \in Nat /\ d <= 65535
  <2>1. q <= 65535
    BY <1>1
  <2> QED BY <2>1, <1>1, <1>4
<1>6. Complement(s) = 65535 - d
  <2>1. d % 65536 = d
    BY <1>5
  <2> QED BY <2>1 DEF Complement, Word, c, d
<1>7. s + Complement(s) = 65535 * m
  BY <1>1, <1>4, <1>5, <1>6
<1>8. m \in Nat \ {0}
  BY <1>1, <1>4
<1>9. 65535 - d \in Nat /\ 65535 - d <= 65535
  BY <1>5
<1> HIDE DEF m
<1>10. 65535 * m > 0 /\ (65535 * m) % 65535 = 0
  BY <1>8, Multiple
<1> QED BY <1>6, <1>7, <1>9, <1>10

-----------------------------------------------------------------------------
(* The parts of a request                                                  *)
LEMMA ShortIs ==
  ASSUME NEW n \in Short
  PROVE  n \in Nat /\ n <= 65535
BY WordIs DEF Short

LEMMA Encoded ==
  ASSUME NEW n \in Nat, n <= 65535
  PROVE  /\ encode(n) \in Seq(Byte) /\ encode(n) \in Seq(Nat) /\ Len(encode(n)) = 2
         /\ 256 * encode(n)[1] + encode(n)[2] = n
         /\ WordSum(encode(n)) = n
<1> DEFINE a == n \div 256
           c == n % 256
<1>1. a \in Nat /\ a <= 255
  OBVIOUS
<1>2. c \in Nat /\ c <= 255
  OBVIOUS
<1>3. 256 * a + c = n
  OBVIOUS
<1>4. encode(n) = <<a, c>>
  BY DEF encode
<1> HIDE DEF a, c
<1>5. a \in Byte /\ c \in Byte
  BY <1>1, <1>2 DEF Byte
<1>6. encode(n) \in Seq(Byte) /\ Len(encode(n)) = 2 /\ encode(n)[1] = a /\ encode(n)[2] = c
  BY <1>4, <1>5
<1>7. encode(n) \in Seq(Nat)
  BY <1>6, Bytes
<1>8. WordSum(encode(n)) = 256 * a + c
  BY <1>1, <1>2, <1>4, PairSum
<1> QED BY <1>3, <1>6, <1>7, <1>8

(* Bytes of even number, and what follows them *)
LEMMA Appended ==
  ASSUME NEW p \in Seq(Byte), NEW q \in Seq(Byte), Len(p) % 2 = 0
  PROVE  /\ p \o q \in Seq(Byte) /\ Len(p \o q) = Len(p) + Len(q)
         /\ \A i \in 1 .. Len(p) : (p \o q)[i] = p[i]
         /\ \A i \in 1 .. Len(q) : (p \o q)[Len(p) + i] = q[i]
         /\ WordSum(p \o q) = WordSum(p) + WordSum(q)
<1>1. p \in Seq(Nat) /\ q \in Seq(Nat)
  BY Bytes
<1>2. p \o q \in Seq(Byte)
  BY ConcatProperties
<1>3. WordSum(p \o q) = WordSum(p) + WordSum(q)
  BY <1>1, WordSumConcat
<1>4. /\ Len(p \o q) = Len(p) + Len(q)
      /\ \A i \in 1 .. Len(p) : (p \o q)[i] = p[i]
      /\ \A i \in 1 .. Len(q) : (p \o q)[Len(p) + i] = q[i]
  BY <1>1, Joined
<1> QED BY <1>2, <1>3, <1>4

LEMMA BodyIs ==
  /\ body \in Seq(Byte) /\ body \in Seq(Nat)
  /\ WordSum(body) \in Nat /\ WordSum(body) <= 65280 * 24
<1>1. body \in Seq(Byte) /\ Len(body) = 24
  BY DEF body, Byte
<1>2. body \in Seq(Nat)
  BY <1>1, Bytes
<1>3. WordSum(body) \in Nat /\ WordSum(body) <= 65280 * Len(body)
  <2>1. body \in Seq(Byte)
    BY <1>1
  <2> QED BY <2>1, WordSumBounded
<1> QED BY <1>1, <1>2, <1>3

(* A request verifies and says whose it is. *)
LEMMA RequestIs ==
  ASSUME NEW id \in Short, NEW n \in Short
  PROVE  /\ Request(id, n) \in Seq(Byte) /\ Verifies(Request(id, n) \o body)
         /\ identifier(Request(id, n)) = id /\ sequence_number_of(Request(id, n)) = n
<1> DEFINE c == compute_checksum(id, n, body)
           s == echo_request * 256 + id + n + WordSum(body)
           a == <<echo_request, 0>>
           e == encode(c)
           f == encode(id)
           g == encode(n)
           h == Request(id, n)
<1>1. id \in Nat /\ id <= 65535 /\ n \in Nat /\ n <= 65535
  BY ShortIs
<1>2. s \in Nat /\ s < 65536 * 65536 /\ s = 2048 + id + n + WordSum(body)
  BY <1>1, BodyIs DEF echo_request
<1>3. /\ c \in Nat /\ c <= 65535
      /\ s + c > 0 /\ (s + c) % 65535 = 0
  <2>1. c = Complement(s)
    BY DEF compute_checksum
  <2> HIDE DEF s, c
  <2> QED BY <2>1, <1>2, ComplementIs
<1>4. h = ((a \o e) \o f) \o g
  BY DEF Request
<1>5. /\ a \in Seq(Byte) /\ a \in Seq(Nat) /\ Len(a) = 2
      /\ WordSum(a) = 2048
  <2>1. WordSum(a) = 256 * echo_request + 0
    BY PairSum DEF echo_request
  <2>2. a \in Seq(Byte) /\ Len(a) = 2
    BY DEF echo_request, Byte
  <2>3. a \in Seq(Nat)
    BY <2>2, Bytes
  <2> QED BY <2>1, <2>2, <2>3 DEF echo_request
<1> HIDE DEF c, s, a, h
<1>6. /\ e \in Seq(Byte) /\ e \in Seq(Nat) /\ Len(e) = 2 /\ WordSum(e) = c
  BY <1>3, Encoded
<1>7. /\ f \in Seq(Byte) /\ f \in Seq(Nat) /\ Len(f) = 2 /\ WordSum(f) = id
      /\ 256 * f[1] + f[2] = id
  BY <1>1, Encoded
<1>8. /\ g \in Seq(Byte) /\ g \in Seq(Nat) /\ Len(g) = 2 /\ WordSum(g) = n
      /\ 256 * g[1] + g[2] = n
  BY <1>1, Encoded
<1> HIDE DEF e, f, g
<1> DEFINE k == a \o e
           l == k \o f
<1>9. k \in Seq(Byte) /\ Len(k) = 4 /\ WordSum(k) = 2048 + c
  <2>1. a \in Seq(Byte) /\ e \in Seq(Byte) /\ Len(a) % 2 = 0
    BY <1>5, <1>6
  <2>2. k \in Seq(Byte) /\ Len(k) = Len(a) + Len(e) /\ WordSum(k) = WordSum(a) + WordSum(e)
    BY <2>1, Appended, Zenon
  <2> HIDE DEF k
  <2> QED BY <2>2, <1>5, <1>6
<1> HIDE DEF k
<1>10. /\ l \in Seq(Byte) /\ Len(l) = 6 /\ WordSum(l) = 2048 + c + id
       /\ l[5] = f[1] /\ l[6] = f[2]
  <2>1. k \in Seq(Byte) /\ f \in Seq(Byte) /\ Len(k) % 2 = 0
    BY <1>7, <1>9
  <2>2. /\ l \in Seq(Byte) /\ Len(l) = Len(k) + Len(f) /\ WordSum(l) = WordSum(k) + WordSum(f)
        /\ \A i \in 1 .. Len(f) : l[Len(k) + i] = f[i]
    BY <2>1, Appended, Zenon
  <2> HIDE DEF l
  <2>3. l[4 + 1] = f[1] /\ l[4 + 2] = f[2]
    BY <2>2, <1>7, <1>9
  <2> QED BY <2>2, <2>3, <1>7, <1>9
<1>11. /\ h \in Seq(Byte) /\ Len(h) = 8 /\ WordSum(h) = 2048 + c + id + n
       /\ h[5] = f[1] /\ h[6] = f[2] /\ h[7] = g[1] /\ h[8] = g[2]
  <2>0. h = l \o g
    BY <1>4 DEF k
  <2> HIDE DEF l
  <2>1. l \in Seq(Byte) /\ g \in Seq(Byte) /\ Len(l) % 2 = 0
    BY <1>8, <1>10
  <2>2. /\ h \in Seq(Byte) /\ Len(h) = Len(l) + Len(g) /\ WordSum(h) = WordSum(l) + WordSum(g)
        /\ \A i \in 1 .. Len(l) : h[i] = l[i]
        /\ \A i \in 1 .. Len(g) : h[Len(l) + i] = g[i]
    BY <2>0, <2>1, Appended, Zenon
  <2>3. h[6 + 1] = g[1] /\ h[6 + 2] = g[2] /\ h[5] = l[5] /\ h[6] = l[6]
    BY <2>2, <1>8, <1>10
  <2> QED BY <2>2, <2>3, <1>8, <1>10
<1>12. WordSum(h \o body) = WordSum(h) + WordSum(body)
  <2>1. h \in Seq(Byte) /\ body \in Seq(Byte) /\ Len(h) % 2 = 0
    BY <1>11, BodyIs
  <2> QED BY <2>1, Appended, Zenon
<1>13. WordSum(h \o body) = s + c
  <2>1. s = 2048 + id + n + WordSum(body) /\ WordSum(body) \in Nat
    BY <1>2, BodyIs
  <2>2. WordSum(h \o body) = (2048 + c + id + n) + WordSum(body)
    BY <1>11, <1>12
  <2> QED BY <2>1, <2>2, <1>1, <1>3
<1>14. Verifies(h \o body)
  BY <1>3, <1>13 DEF Verifies, Word
<1>15. identifier(h) = id /\ sequence_number_of(h) = n
  BY <1>7, <1>8, <1>11 DEF identifier, sequence_number_of, decode
<1> QED BY <1>11, <1>14, <1>15 DEF h
-----------------------------------------------------------------------------
(* handle_receive counts exactly the replies of the host to the last       *)
(* request.                                                                *)
LEMMA ReplyKnown ==
  ASSUME PingAssumption, NEW shape \in Shapes, NEW s \in Short, NEW n \in Short
  PROVE  IsReply(Datagram(shape.version, shape.words, shape.icmp, shape.id, s), Identifier, n)
           <=> IsGenuine(shape) /\ s = n
<1> DEFINE v == shape.version
           w == shape.words
           d == Datagram(v, w, shape.icmp, shape.id, s)
<1>1. /\ v \in Nat /\ w \in Nat /\ w <= 15 /\ shape.icmp \in Nat
      /\ shape.id \in Short /\ Identifier \in Short
  <2>1. v \in 0 .. 15 /\ w \in 0 .. 15 /\ shape.icmp \in Byte /\ shape.id \in Short /\ Identifier \in Short
    BY DEF PingAssumption
  <2> QED BY <2>1 DEF Byte
<1>2. CASE w = 0
  <2>1. header_length(d) = 0
    <3>1. d[1] = 16 * v + w
      <4>1. [k \in 1 .. 4 * w - 1 |-> 0] = << >>
        BY <1>2
      <4>2. d = <<16 * v + w>> \o << >> \o <<shape.icmp, 0, 0, 0>> \o encode(shape.id) \o encode(s)
        BY <4>1 DEF Datagram
      <4> QED BY <4>2, <1>1 DEF encode
    <3> QED BY <3>1, <1>1, <1>2 DEF header_length
  <2> QED BY <2>1, <1>2 DEF IsReply, IsRead, IsGenuine
<1>3. CASE w # 0
  <2>1. /\ d \in Seq(Nat) /\ Len(d) = 4 * w + 8
        /\ d[1] = 16 * v + w
        /\ d[4 * w + 1] = shape.icmp
        /\ d[4 * w + 5] = shape.id \div 256 /\ d[4 * w + 6] = shape.id % 256
        /\ d[4 * w + 7] = s \div 256 /\ d[4 * w + 8] = s % 256
    <3>1. w \in Nat \ {0}
      BY <1>1, <1>3
    <3>2. v \in Nat /\ w \in Nat \ {0} /\ shape.icmp \in Nat /\ shape.id \in Short /\ s \in Short
      BY <3>1, <1>1
    <3> DEFINE t == shape.icmp
               id == shape.id
    <3>4. v \in Nat /\ w \in Nat \ {0} /\ t \in Nat /\ id \in Short /\ s \in Short
      BY <3>2
    <3> HIDE DEF v, w, t, id
    <3>6. d = Datagram(v, w, t, id, s)
      BY DEF t, id
    <3> HIDE DEF d
    <3>7. /\ Datagram(v, w, t, id, s) \in Seq(Nat)
          /\ Len(Datagram(v, w, t, id, s)) = 4 * w + 8
          /\ Datagram(v, w, t, id, s)[1] = 16 * v + w
          /\ Datagram(v, w, t, id, s)[4 * w + 1] = t
          /\ Datagram(v, w, t, id, s)[4 * w + 5] = id \div 256
          /\ Datagram(v, w, t, id, s)[4 * w + 6] = id % 256
          /\ Datagram(v, w, t, id, s)[4 * w + 7] = s \div 256
          /\ Datagram(v, w, t, id, s)[4 * w + 8] = s % 256
      BY <3>4, InDatagram
    <3>5. /\ d \in Seq(Nat) /\ Len(d) = 4 * w + 8
          /\ d[1] = 16 * v + w
          /\ d[4 * w + 1] = t
          /\ d[4 * w + 5] = id \div 256 /\ d[4 * w + 6] = id % 256
          /\ d[4 * w + 7] = s \div 256 /\ d[4 * w + 8] = s % 256
      BY <3>6, <3>7, Zenon
    <3> QED BY <3>5 DEF t, id
  <2> HIDE DEF d
  <2> HIDE DEF v, w
  <2>2. version(d) = v /\ header_length(d) = 4 * w
    <3>1. (16 * v + w) \div 16 = v /\ (16 * v + w) % 16 = w
      BY <1>1, Nibbles
    <3>2. d[1] \div 16 = v /\ d[1] % 16 = w
      BY <3>1, <2>1
    <3> QED BY <3>2 DEF version, header_length
  <2>3. IsRead(d) <=> v = 4 /\ w \in 5 .. 15
    <3>1. 4 * w + 8 >= 20 /\ 4 * w \in 20 .. 60 <=> w >= 5
      BY <1>1
    <3>2. w \in 5 .. 15 <=> w >= 5
      BY <1>1
    <3>3. IsRead(d) <=> v = 4 /\ 4 * w + 8 >= 20 /\ 4 * w \in 20 .. 60
      BY <2>1, <2>2, <1>1, SMTT(20) DEF IsRead
    <3> QED BY <3>1, <3>2, <3>3
  <2> DEFINE i == IcmpHeader(d)
  <2>4. /\ i[1] = shape.icmp
        /\ i[5] = shape.id \div 256 /\ i[6] = shape.id % 256
        /\ i[7] = s \div 256 /\ i[8] = s % 256
    <3>1. i = SubSeq(d, 4 * w + 1, 4 * w + 8)
      BY <2>2 DEF IcmpHeader
    <3>2. \A j \in 1 .. 8 : i[j] = d[4 * w + j]
      BY <3>1, <2>1, <1>1
    <3> QED BY <3>2, <2>1
  <2>5. type(i) = shape.icmp /\ identifier(i) = shape.id /\ sequence_number_of(i) = s
    <3>1. 256 * (shape.id \div 256) + (shape.id % 256) = shape.id
      BY <1>1, ShortBytes
    <3>2. 256 * (s \div 256) + (s % 256) = s
      BY ShortBytes
    <3> QED BY <2>4, <3>1, <3>2 DEF type, identifier, sequence_number_of, decode
  <2> HIDE DEF i
  <2> QED BY <2>3, <2>5 DEF IsReply, IsGenuine, i, d, v, w
<1> QED BY <1>2, <1>3

(* How a reply changes the number of copies.                               *)
LEMMA CopiesCounted ==
  ASSUME NEW r \in Seq(Nat), NEW n
  PROVE  /\ IsFiniteSet({i \in 1 .. Len(r) : r[i] = n})
         /\ Cardinality({i \in 1 .. Len(r) : r[i] = n}) \in Nat
<1>1. IsFiniteSet(1 .. Len(r))
  BY FS_Interval
<1> QED BY <1>1, FS_Subset, FS_CardinalityType

LEMMA CopiesAppend ==
  ASSUME Typed, NEW s \in Nat, NEW n, arrived' = Append(arrived, s)
  PROVE  Cardinality({i \in 1 .. Len(arrived') : arrived'[i] = n}) = Copies(n) + (IF s = n THEN 1 ELSE 0)
<1> DEFINE S == {i \in 1 .. Len(arrived) : arrived[i] = n}
           l == Len(arrived) + 1
<1>0. arrived \in Seq(Nat)
  BY DEF Typed
<1>1. IsFiniteSet(S) /\ Cardinality(S) \in Nat /\ l \notin S
  <2>1. IsFiniteSet(S) /\ Cardinality(S) \in Nat
    BY <1>0, CopiesCounted, Zenon
  <2>2. l \notin S
    BY <1>0
  <2> QED BY <2>1, <2>2
<1>2. {i \in 1 .. Len(arrived') : arrived'[i] = n} = IF s = n THEN S \cup {l} ELSE S
  <2>1. /\ Len(arrived') = l /\ arrived'[l] = s /\ l \in Nat
        /\ \A i \in 1 .. Len(arrived) : arrived'[i] = arrived[i]
    BY <1>0
  <2>2. 1 .. l = (1 .. Len(arrived)) \cup {l} /\ l \notin 1 .. Len(arrived)
    BY <1>0
  <2>3. {i \in 1 .. l : arrived'[i] = n} = S \cup {i \in {l} : s = n}
    BY <2>1, <2>2
  <2>4. {i \in {l} : s = n} = IF s = n THEN {l} ELSE {}
    OBVIOUS
  <2> QED BY <2>1, <2>3, <2>4
<1> DEFINE T == {i \in 1 .. Len(arrived') : arrived'[i] = n}
<1>5. T = IF s = n THEN S \cup {l} ELSE S
  BY <1>2
<1> HIDE DEF S, l, T
<1>3. Copies(n) = Cardinality(S)
  BY DEF Copies, S
<1>4. Cardinality(S \cup {l}) = Cardinality(S) + 1
  BY <1>1, FS_AddElement
<1>6. Cardinality(T) = Copies(n) + (IF s = n THEN 1 ELSE 0)
  BY <1>1, <1>3, <1>4, <1>5
<1> QED BY <1>6 DEF T
-----------------------------------------------------------------------------
(* Which handlers are about.                                               *)
LEMMA OneReady ==
  ASSUME Typed, Chain, status = "running", ready # << >>
  PROVE  /\ timer = "none" /\ Tail(ready) = << >> /\ Cancelled(Tail(ready)) = << >>
         /\ Head(ready) \in Handlers /\ ready = <<Head(ready)>>
<1>1. PICK h \in Handlers : ready = <<h>> /\ timer = "none"
  BY DEF Chain
<1>2. Tail(<<h>>) = << >> /\ Head(<<h>>) = h
  OBVIOUS
<1> QED BY <1>1, <1>2 DEF Cancelled

LEMMA AwaitingIs ==
  ASSUME Typed, Chain, status = "running"
  PROVE  Awaiting <=> timer = "timeout" \/ ready = <<"timeout">>
<1>1. CASE timer \in Handlers /\ ready = << >>
  <2>1. Len(ready) = 0
    BY <1>1
  <2> QED BY <1>1, <2>1 DEF Awaiting
<1>2. CASE timer = "none" /\ \E h \in Handlers : ready = <<h>>
  <2>1. PICK h \in Handlers : ready = <<h>>
    BY <1>2
  <2>2. Len(ready) = 1 /\ ready[1] = h
    BY <2>1
  <2>3. Awaiting <=> ready[1] = "timeout"
    BY <1>2, <2>2 DEF Awaiting
  <2> QED BY <1>2, <2>1, <2>2, <2>3
<1> QED BY <1>1, <1>2 DEF Chain

(* The actions, with what the chain says of the queues.                    *)
Started ==
  /\ sequence_number' = (sequence_number + 1) % Word
  /\ elapsed' = 0
  /\ wrapped' = (wrapped \/ sequence_number' = 0)
  /\ UNCHANGED <<time_out, arrived, answered>>
  /\ \/ status' = "running" /\ num_replies' = 0 /\ timer' = "timeout" /\ ready' = << >>
     \/ status' = "thrown" /\ ready' = << >> /\ UNCHANGED <<num_replies, timer>>

LEMMA StartIs ==
  ASSUME Typed, AtFirst, Chain, ping_until_disconnect \/ SendNext
  PROVE  Started
<1>1. CASE ping_until_disconnect
  BY <1>1 DEF ping_until_disconnect, start_send, Arm, Cancelled, AtFirst, Started
<1>2. CASE SendNext
  <2>1. Tail(ready) = << >> /\ timer = "none"
    BY <1>2, OneReady DEF SendNext
  <2> QED BY <1>2, <2>1 DEF SendNext, start_send, Arm, Cancelled, Started
<1> QED BY <1>1, <1>2

(* The number after n                                                      *)
LEMMA NextNumber ==
  ASSUME NEW n \in Nat, n < Word
  PROVE  LET s == (n + 1) % Word IN
         /\ s \in Int /\ 0 <= s /\ s < Word
         /\ s # 0 => s = n + 1
         /\ s # n
<1>1. CASE n = 65535
  BY <1>1 DEF Word
<1>2. CASE n # 65535
  BY <1>2 DEF Word
<1> QED BY <1>1, <1>2

LEMMA SequenceTyped ==
  ASSUME NEW n \in 0 .. Word - 1
  PROVE  /\ (n + 1) % Word \in 0 .. Word - 1
         /\ (n + 1) % Word # 0 => (n + 1) % Word = n + 1
         /\ (n + 1) % Word # n
<1>1. n \in Nat /\ n < Word
  BY WordIs
<1> DEFINE s == (n + 1) % Word
<1>2. /\ s \in Int /\ 0 <= s /\ s < Word
      /\ s # 0 => s = n + 1
      /\ s # n
  BY <1>1, NextNumber
<1> HIDE DEF s
<1>3. s \in 0 .. Word - 1
  BY <1>2, WordIs
<1>4. /\ s \in 0 .. Word - 1
      /\ s # 0 => s = n + 1
      /\ s # n
  BY <1>2, <1>3
<1> QED BY <1>4 DEF s

(* What a received datagram does.                                          *)
Heard(s) ==
  /\ status = "running" /\ s \in Short
  /\ UNCHANGED <<status, sequence_number, time_out, elapsed, wrapped>>
  /\ \/ /\ s = sequence_number /\ arrived' = Append(arrived, s)
        /\ answered' = (IF Awaiting THEN answered \cup {s} ELSE answered)
        /\ num_replies' = num_replies + 1 /\ ready' = Cancelled(ready) /\ timer' = "none"
     \/ /\ s # sequence_number /\ arrived' = Append(arrived, s)
        /\ UNCHANGED <<answered, num_replies, ready, timer>>
     \/ UNCHANGED <<arrived, answered, num_replies, ready, timer>>

LEMMA ReceiveIs ==
  ASSUME PingAssumption, Typed, Receive
  PROVE  \E s \in Sent : Heard(s)
<1>1. PICK shape \in Shapes, s \in Sent : handle_receive(shape, s)
  BY DEF Receive
<1>2. s \in Short /\ sequence_number \in Short
  <2>1. Word \in Nat
    BY DEF Word
  <2> QED BY <2>1 DEF Sent, Typed, Short
<1> DEFINE known == IsReply(Datagram(shape.version, shape.words, shape.icmp, shape.id, s),
                            Identifier, sequence_number)
<1>3. known <=> IsGenuine(shape) /\ s = sequence_number
  BY <1>2, ReplyKnown
<1>4. /\ status = "running"
      /\ arrived' = IF IsGenuine(shape) THEN Append(arrived, s) ELSE arrived
      /\ answered' = IF IsGenuine(shape) /\ s = sequence_number /\ Awaiting
                       THEN answered \cup {s} ELSE answered
      /\ IF known THEN num_replies' = num_replies + 1 /\ ready' = Cancelled(ready) /\ timer' = "none"
                  ELSE UNCHANGED <<num_replies, ready, timer>>
      /\ UNCHANGED <<status, sequence_number, time_out, elapsed, wrapped>>
  BY <1>1 DEF handle_receive
<1> HIDE DEF known
<1>5. CASE IsGenuine(shape) /\ s = sequence_number
  BY <1>2, <1>3, <1>4, <1>5 DEF Heard
<1>6. CASE IsGenuine(shape) /\ s # sequence_number
  BY <1>2, <1>3, <1>4, <1>6 DEF Heard
<1>7. CASE ~IsGenuine(shape)
  BY <1>2, <1>3, <1>4, <1>7 DEF Heard
<1> QED BY <1>5, <1>6, <1>7

(* A reply to the last request makes the waiting handler ready.            *)
LEMMA CancelledIs ==
  ASSUME Typed, Chain, status = "running"
  PROVE  /\ \E h \in Handlers : Cancelled(ready) = <<h>>
         /\ Cancelled(ready) = <<"timeout">> <=> timer = "timeout" \/ ready = <<"timeout">>
         /\ Cancelled(ready) = <<"send">> <=> timer = "send" \/ ready = <<"send">>
<1>1. CASE timer \in Handlers /\ ready = << >>
  <2>1. Append(<< >>, timer) = <<timer>>
    BY <1>1
  <2>2. Cancelled(ready) = <<timer>>
    BY <1>1, <2>1 DEF Cancelled, Handlers
  <2> QED BY <1>1, <2>2 DEF Handlers
<1>2. CASE timer = "none" /\ \E h \in Handlers : ready = <<h>>
  BY <1>2 DEF Cancelled, Handlers
<1> QED BY <1>1, <1>2 DEF Chain
-----------------------------------------------------------------------------
(* Types and the chain.                                                    *)
LEMMA ChainInductive ==
  ASSUME PingAssumption, Typed, AtFirst, Chain, [Next]_vars,
         status = "running" => time_out < Counter
  PROVE  /\ Typed' /\ AtFirst' /\ Chain'
         /\ status' = "running" => time_out' < Counter
         /\ status' = "stopped" /\ status # "stopped" => time_out' = Counter
<1> USE PingAssumption
<1>c. Counter \in Nat \ {0}
  BY DEF PingAssumption
<1>u. CASE UNCHANGED vars
  BY <1>u, <1>c DEF vars, history, Typed, AtFirst, Chain
<1>1. CASE ping_until_disconnect \/ SendNext
  <2>1. Started
    BY <1>1, StartIs
  <2>2. sequence_number' \in 0 .. Word - 1
    BY <2>1, SequenceTyped DEF Started, Typed
  <2>3. wrapped' \in BOOLEAN
    BY <2>1, Zenon DEF Started
  <2>4. Chain' /\ ready' \in Seq(Handlers) /\ timer' \in {"none"} \cup Handlers
    <3>1. << >> \in Seq(Handlers)
      OBVIOUS
    <3>2. ready' = << >> /\ timer' \in {"none"} \cup Handlers /\ (status' = "running" => timer' = "timeout")
      BY <2>1 DEF Started, Handlers, Typed
    <3> QED BY <3>1, <3>2 DEF Chain, Handlers
  <2>5. status' \in {"running", "thrown"} /\ elapsed' = 0 /\ num_replies' \in Nat
        /\ UNCHANGED <<time_out, arrived, answered>>
    BY <2>1 DEF Started, Typed
  <2>6. Typed'
    BY <2>2, <2>3, <2>4, <2>5 DEF Typed, Timeout
  <2>7. time_out < Counter
    BY <1>1, <1>c DEF ping_until_disconnect, SendNext, AtFirst
  <2> QED BY <2>4, <2>5, <2>6, <2>7 DEF AtFirst
<1>2. CASE handle_timeout
  <2>1. /\ status = "running" /\ timer = "none" /\ ready = <<"timeout">> /\ Cancelled(Tail(ready)) = << >>
    BY <1>2, OneReady DEF handle_timeout
  <2>2. Misses \in 0 .. Counter /\ (num_replies = 0 => Misses = time_out + 1) /\ (num_replies # 0 => Misses = 0)
    BY <2>1, <1>c DEF Misses, Typed
  <2>3. CASE num_replies = 0 /\ TooMany(Misses)
    <3>1. /\ ready' = << >> /\ timer' = "none" /\ status' = "stopped" /\ time_out' = Misses /\ Misses = Counter
          /\ UNCHANGED <<sequence_number, num_replies, elapsed, history>>
      BY <1>2, <2>1, <2>3 DEF handle_timeout, TooMany
    <3> QED BY <3>1, <2>2 DEF Typed, AtFirst, Chain, history
  <2>4. CASE ~(num_replies = 0 /\ TooMany(Misses))
    <3>1. /\ ready' = << >> /\ timer' = "send" /\ status' = status /\ time_out' = Misses
          /\ UNCHANGED <<sequence_number, num_replies, elapsed, history>>
      BY <1>2, <2>1, <2>4 DEF handle_timeout, Arm
    <3>2. Misses < Counter
      BY <2>2, <2>4, <1>c DEF TooMany
    <3> QED BY <3>1, <3>2, <2>1, <2>2 DEF Typed, AtFirst, Chain, history, Handlers
  <2> QED BY <2>3, <2>4
<1>3. CASE Receive
  <2>1. PICK s \in Sent : Heard(s)
    BY <1>3, ReceiveIs
  <2>2. s \in Nat
    <3>1. Word \in Nat
      BY DEF Word
    <3> QED BY <2>1, <3>1 DEF Heard, Short
  <2>3. Append(arrived, s) \in Seq(Nat)
    BY <2>2 DEF Typed
  <2>4. PICK h \in Handlers : Cancelled(ready) = <<h>>
    BY <2>1, CancelledIs DEF Heard
  <2>5. <<h>> \in Seq(Handlers)
    BY <2>4
  <2>6. /\ arrived' \in Seq(Nat) /\ answered' \subseteq Nat /\ num_replies' \in Nat
        /\ ready' \in Seq(Handlers) /\ timer' \in {"none"} \cup Handlers
    <3>1. num_replies + 1 \in Nat
      BY DEF Typed
    <3> QED BY <2>1, <2>2, <2>3, <2>4, <2>5, <3>1 DEF Heard, Typed
  <2>7. Chain'
    BY <2>1, <2>4 DEF Heard, Chain
  <2>8. Typed'
    BY <2>1, <2>6 DEF Typed, Heard
  <2> QED BY <2>1, <2>7, <2>8 DEF Heard, AtFirst
<1>4. CASE TimerExpires
  <2>1. /\ status = "running" /\ timer \in Handlers /\ ready = << >>
        /\ ready' = Append(ready, timer) /\ timer' = "none"
        /\ UNCHANGED <<status, sequence_number, num_replies, time_out, elapsed, history>>
    BY <1>4 DEF TimerExpires, Chain, Typed
  <2>2. ready' = <<timer>>
    BY <2>1
  <2> QED BY <2>1, <2>2 DEF Typed, AtFirst, Chain, history
<1>5. CASE Tick
  <2>1. /\ status = "running" /\ elapsed' \in 0 .. Timeout
        /\ UNCHANGED <<status, sequence_number, num_replies, time_out, timer, ready, history>>
    BY <1>5 DEF Tick, Typed, Timeout
  <2> QED BY <2>1 DEF Typed, AtFirst, Chain, history
<1> QED BY <1>u, <1>1, <1>2, <1>3, <1>4, <1>5 DEF Next
-----------------------------------------------------------------------------
(* Awaiting, after a step.                                                 *)
LEMMA AwaitingAfter ==
  ASSUME Typed', Chain', status' = "running"
  PROVE  Awaiting' <=> timer' = "timeout" \/ ready' = <<"timeout">>
<1>1. CASE timer' \in Handlers /\ ready' = << >>
  <2>1. Len(ready') = 0
    BY <1>1
  <2> QED BY <1>1, <2>1 DEF Awaiting
<1>2. CASE timer' = "none" /\ \E h \in Handlers : ready' = <<h>>
  <2>1. PICK h \in Handlers : ready' = <<h>>
    BY <1>2
  <2>2. Len(ready') = 1 /\ ready'[1] = h
    BY <2>1
  <2>3. Awaiting' <=> ready'[1] = "timeout"
    BY <1>2, <2>2 DEF Awaiting
  <2> QED BY <1>2, <2>1, <2>2, <2>3
<1> QED BY <1>1, <1>2 DEF Chain

(* num_replies counts, and what is answered has been sent.                 *)
LEMMA CountedInductive ==
  ASSUME PingAssumption, Typed, AtFirst, Chain, Counted, Typed', Chain', [Next]_vars
  PROVE  Counted'
<1>n. sequence_number \in Int /\ num_replies \in Nat /\ sequence_number >= 0
  <2>1. Word \in Nat
    BY DEF Word
  <2> QED BY <2>1 DEF Typed
<1>u. CASE UNCHANGED vars
  BY <1>u DEF vars, history, Counted, Awaiting
<1>1. CASE ping_until_disconnect \/ SendNext
  <2>1. Started
    BY <1>1, StartIs
  <2>2. /\ ~wrapped' => sequence_number' = sequence_number + 1 /\ ~wrapped
        /\ ~wrapped' => sequence_number' # 0
    BY <2>1, SequenceTyped DEF Started, Typed
  <2>3. answered' = answered /\ (status' = "running" => num_replies' = 0)
    BY <2>1 DEF Started
  <2>4. ~wrapped' => answered' \subseteq 1 .. sequence_number' /\ sequence_number' \notin answered' /\ sequence_number' > 0
    BY <2>2, <2>3, <1>n DEF Counted
  <2> QED BY <2>3, <2>4 DEF Counted
<1>2. CASE handle_timeout
  <2>1. /\ status = "running" /\ timer = "none" /\ ready = <<"timeout">> /\ Cancelled(Tail(ready)) = << >>
    BY <1>2, OneReady DEF handle_timeout
  <2>2. UNCHANGED <<sequence_number, num_replies, answered, wrapped>>
    BY <1>2 DEF handle_timeout, history
  <2>3. status' = "running" => ~Awaiting'
    <3>1. status' = "running" => timer' = "send" /\ ready' = << >>
      BY <1>2, <2>1 DEF handle_timeout, Arm
    <3> QED BY <3>1, AwaitingAfter
  <2> QED BY <2>1, <2>2, <2>3 DEF Counted
<1>3. CASE Receive
  <2>1. PICK s \in Sent : Heard(s)
    BY <1>3, ReceiveIs
  <2>2. status = "running" /\ UNCHANGED <<status, sequence_number, wrapped>>
    BY <2>1 DEF Heard
  <2>3. CASE /\ s = sequence_number
             /\ answered' = (IF Awaiting THEN answered \cup {s} ELSE answered)
             /\ num_replies' = num_replies + 1 /\ ready' = Cancelled(ready) /\ timer' = "none"
    <3>1. Awaiting' <=> Awaiting
      BY <2>2, <2>3, AwaitingIs, AwaitingAfter, CancelledIs
    <3> QED BY <2>2, <2>3, <3>1, <1>n DEF Counted
  <2>4. CASE UNCHANGED <<answered, num_replies, ready, timer>>
    <3>1. Awaiting' <=> Awaiting
      BY <2>4 DEF Awaiting
    <3> QED BY <2>2, <2>4, <3>1 DEF Counted
  <2> QED BY <2>1, <2>3, <2>4 DEF Heard
<1>4. CASE TimerExpires
  <2>1. /\ status = "running" /\ timer \in Handlers /\ ready = << >>
        /\ ready' = Append(ready, timer) /\ timer' = "none"
        /\ UNCHANGED <<status, sequence_number, num_replies, history>>
    BY <1>4 DEF TimerExpires, Chain, Typed
  <2>2. ready' = <<timer>>
    BY <2>1
  <2>3. Awaiting' <=> Awaiting
    BY <2>1, <2>2, AwaitingIs, AwaitingAfter
  <2> QED BY <2>1, <2>3 DEF Counted, history
<1>5. CASE Tick
  BY <1>5 DEF Tick, Counted, history, Awaiting
<1> QED BY <1>u, <1>1, <1>2, <1>3, <1>4, <1>5 DEF Next
-----------------------------------------------------------------------------
(* The last time_out requests that are settled are silent, the one before  *)
(* them, if there is one, is not.                                          *)
Silent(k, n, S) ==
  /\ \A s \in k - n + 1 .. k : s \notin S
  /\ k > n => k - n \in S

LEMMA SilenceInductive ==
  ASSUME PingAssumption, Typed, AtFirst, Chain, Counted, CountsTheSilence, Typed', Chain', [Next]_vars
  PROVE  CountsTheSilence'
<1>n. /\ sequence_number \in Int /\ num_replies \in Nat /\ sequence_number >= 0
      /\ time_out \in Nat /\ Counter \in Nat
  <2>1. Word \in Nat
    BY DEF Word
  <2> QED BY <2>1 DEF Typed, PingAssumption
<1>k. CountsTheSilence <=>
        /\ status \in {"running", "stopped"} /\ ~wrapped => Silent(Settled, time_out, answered)
        /\ status = "running" => time_out < Counter
        /\ status = "stopped" => time_out = Counter
  BY DEF CountsTheSilence, Silent
<1>l. CountsTheSilence' <=>
        /\ status' \in {"running", "stopped"} /\ ~wrapped' => Silent(Settled', time_out', answered')
        /\ status' = "running" => time_out' < Counter
        /\ status' = "stopped" => time_out' = Counter
  BY DEF CountsTheSilence, Silent
<1>m. /\ status' = "running" => time_out' < Counter
      /\ status' = "stopped" /\ status # "stopped" => time_out' = Counter
  BY ChainInductive, <1>k
<1> SUFFICES ASSUME status' \in {"running", "stopped"}, ~wrapped'
             PROVE  Silent(Settled', time_out', answered') /\ (status' = "stopped" => time_out' = Counter)
  <2>1. ~(status' \in {"running", "stopped"} /\ ~wrapped') => (status' = "stopped" => time_out' = Counter)
    <3>1. status = "stopped" => status' = status /\ time_out' = time_out
      BY DEF Next, ping_until_disconnect, SendNext, handle_timeout, Receive, handle_receive, TimerExpires, Tick, vars
    <3> QED BY <3>1, <1>k, <1>m
  <2> QED BY <2>1, <1>l, <1>m
<1>u. CASE UNCHANGED vars
  BY <1>u, <1>k DEF vars, history, Settled, Awaiting
<1>1. CASE ping_until_disconnect \/ SendNext
  <2>1. Started
    BY <1>1, StartIs
  <2>2. sequence_number' = sequence_number + 1 /\ ~wrapped
    BY <2>1, SequenceTyped DEF Started, Typed
  <2>3. status' = "running" /\ timer' = "timeout" /\ UNCHANGED <<time_out, answered>>
    BY <2>1 DEF Started
  <2>4. Settled' = sequence_number
    BY <2>2, <2>3, <1>n, AwaitingAfter DEF Settled
  <2>5. CASE ping_until_disconnect
    <3>1. sequence_number = 0 /\ time_out = 0
      BY <2>5 DEF ping_until_disconnect, AtFirst
    <3> QED BY <2>3, <2>4, <3>1 DEF Silent
  <2>6. CASE SendNext
    <3>1. status = "running" /\ timer = "none" /\ ready = <<"send">>
      BY <2>6, OneReady DEF SendNext
    <3>2. Settled = sequence_number
      BY <3>1, AwaitingIs DEF Settled
    <3> QED BY <2>2, <2>3, <2>4, <3>1, <3>2, <1>k
  <2> QED BY <1>1, <2>5, <2>6
<1>2. CASE handle_timeout
  <2>1. /\ status = "running" /\ timer = "none" /\ ready = <<"timeout">> /\ Cancelled(Tail(ready)) = << >>
    BY <1>2, OneReady DEF handle_timeout
  <2>2. UNCHANGED <<sequence_number, num_replies, answered, wrapped>> /\ time_out' = Misses
    BY <1>2 DEF handle_timeout, history
  <2>3. Awaiting /\ Settled = sequence_number - 1
    BY <2>1, AwaitingIs DEF Settled
  <2>4. ready' = << >> /\ timer' \in {"none", "send"}
    BY <1>2, <2>1 DEF handle_timeout, Arm
  <2>5. ~Awaiting'
    <3>1. Len(ready') = 0
      BY <2>4
    <3> QED BY <2>4, <3>1 DEF Awaiting
  <2>6. Settled' = sequence_number
    BY <2>2, <2>5 DEF Settled
  <2>7. Silent(sequence_number - 1, time_out, answered) /\ (num_replies > 0 <=> sequence_number \in answered)
    BY <2>1, <2>2, <2>3, <1>k DEF Counted
  <2>8. CASE num_replies = 0
    <3>1. time_out' = time_out + 1 /\ sequence_number \notin answered
      BY <2>2, <2>7, <2>8 DEF Misses
    <3>2. Silent(sequence_number, time_out + 1, answered)
      BY <2>7, <3>1, <1>n DEF Silent
    <3> QED BY <3>1, <3>2, <2>1, <2>2, <2>6, <1>m
  <2>9. CASE num_replies # 0
    <3>1. time_out' = 0 /\ sequence_number \in answered
      BY <2>2, <2>7, <2>9, <1>n DEF Misses
    <3>2. Silent(sequence_number, 0, answered)
      BY <3>1, <1>n DEF Silent
    <3> QED BY <3>1, <3>2, <2>1, <2>2, <2>6, <1>m
  <2> QED BY <2>8, <2>9
<1>3. CASE Receive
  <2>1. PICK s \in Sent : Heard(s)
    BY <1>3, ReceiveIs
  <2>2. status = "running" /\ UNCHANGED <<status, sequence_number, time_out, wrapped>>
    BY <2>1 DEF Heard
  <2>3. CASE /\ s = sequence_number
             /\ answered' = (IF Awaiting THEN answered \cup {s} ELSE answered)
             /\ num_replies' = num_replies + 1 /\ ready' = Cancelled(ready) /\ timer' = "none"
    <3>1. Awaiting' <=> Awaiting
      BY <2>2, <2>3, AwaitingIs, AwaitingAfter, CancelledIs
    <3>2. Settled' = Settled
      BY <2>2, <3>1 DEF Settled
    <3>3. Silent(Settled, time_out, answered)
      BY <2>2, <1>k
    <3>4. Silent(Settled, time_out, answered')
      <4>1. CASE Awaiting
        <5>1. Settled = sequence_number - 1
          BY <4>1 DEF Settled
        <5> QED BY <2>3, <4>1, <5>1, <3>3, <1>n DEF Silent
      <4>2. CASE ~Awaiting
        BY <2>3, <4>2, <3>3
      <4> QED BY <4>1, <4>2
    <3> QED BY <2>2, <3>2, <3>4
  <2>4. CASE UNCHANGED <<answered, num_replies, ready, timer>>
    <3>1. Settled' = Settled
      BY <2>2, <2>4 DEF Settled, Awaiting
    <3> QED BY <2>2, <2>4, <3>1, <1>k
  <2> QED BY <2>1, <2>3, <2>4 DEF Heard
<1>4. CASE TimerExpires
  <2>1. /\ status = "running" /\ timer \in Handlers /\ ready = << >>
        /\ ready' = Append(ready, timer) /\ timer' = "none"
        /\ UNCHANGED <<status, sequence_number, time_out, history>>
    BY <1>4 DEF TimerExpires, Chain, Typed
  <2>2. ready' = <<timer>>
    BY <2>1
  <2>3. Awaiting' <=> Awaiting
    BY <2>1, <2>2, AwaitingIs, AwaitingAfter
  <2>4. Settled' = Settled
    BY <2>1, <2>3 DEF Settled
  <2> QED BY <2>1, <2>4, <1>k DEF history
<1>5. CASE Tick
  <2>1. /\ status = "running" /\ Settled' = Settled
        /\ UNCHANGED <<status, time_out, history>>
    BY <1>5 DEF Tick, Settled, Awaiting
  <2> QED BY <2>1, <1>k DEF history
<1> QED BY <1>u, <1>1, <1>2, <1>3, <1>4, <1>5 DEF Next
-----------------------------------------------------------------------------
(* A handler that comes before its time has been hurried by a reply.       *)
LEMMA HurriedInductive ==
  ASSUME PingAssumption, Typed, AtFirst, Chain, Hurried, Typed', Chain', [Next]_vars
  PROVE  Hurried'
<1>n. elapsed \in Nat /\ arrived \in Seq(Nat)
  BY DEF Typed, Timeout
<1> DEFINE C == Cardinality({i \in 1 .. Len(arrived) : arrived[i] = sequence_number})
           D == Cardinality({i \in 1 .. Len(arrived') : arrived'[i] = sequence_number'})
<1>c. Copies(sequence_number) = C /\ C \in Nat
  BY <1>n, CopiesCounted, Zenon DEF Copies
<1>h. Hurried <=>
        (status = "running" /\ elapsed < Interval =>
           /\ ready = <<"timeout">> \/ timer = "send" => C >= 1
           /\ ready = <<"send">> => C >= 2)
  BY <1>c DEF Hurried
<1>d. Hurried' <=>
        (status' = "running" /\ elapsed' < Interval =>
           /\ ready' = <<"timeout">> \/ timer' = "send" => D >= 1
           /\ ready' = <<"send">> => D >= 2)
  BY DEF Hurried, Copies
<1>s. arrived' = arrived /\ sequence_number' = sequence_number => D = C
  OBVIOUS
<1>a. ASSUME NEW s \in Nat, arrived' = Append(arrived, s), sequence_number' = sequence_number
      PROVE  D = C + (IF s = sequence_number THEN 1 ELSE 0)
  BY <1>a, <1>c, CopiesAppend
<1> HIDE DEF C, D
<1>u. CASE UNCHANGED vars
  BY <1>u, <1>h, <1>d, <1>s DEF vars, history
<1>1. CASE ping_until_disconnect \/ SendNext
  <2>1. Started
    BY <1>1, StartIs
  <2>2. status' = "running" => timer' = "timeout" /\ ready' = << >>
    BY <2>1 DEF Started
  <2> QED BY <2>2, <1>d
<1>2. CASE handle_timeout
  <2>1. /\ status = "running" /\ timer = "none" /\ ready = <<"timeout">> /\ Cancelled(Tail(ready)) = << >>
    BY <1>2, OneReady DEF handle_timeout
  <2>2. ready' = << >> /\ UNCHANGED <<sequence_number, elapsed, arrived>>
    BY <1>2, <2>1 DEF handle_timeout, Arm, history
  <2> QED BY <2>1, <2>2, <1>h, <1>d, <1>s
<1>3. CASE Receive
  <2>1. PICK s \in Sent : Heard(s)
    BY <1>3, ReceiveIs
  <2>2. status = "running" /\ UNCHANGED <<status, sequence_number, elapsed>> /\ s \in Nat
    <3>1. Word \in Nat
      BY DEF Word
    <3> QED BY <2>1, <3>1 DEF Heard, Short
  <2>3. CASE /\ s = sequence_number /\ arrived' = Append(arrived, s)
             /\ num_replies' = num_replies + 1 /\ ready' = Cancelled(ready) /\ timer' = "none"
    <3>1. D = C + 1
      BY <2>2, <2>3, <1>a
    <3>2. CASE ready' = <<"timeout">>
      BY <3>1, <3>2, <2>3, <1>c, <1>d
    <3>3. CASE ready' = <<"send">>
      <4>1. timer = "send" \/ ready = <<"send">>
        BY <2>2, <2>3, <3>3, CancelledIs
      <4> QED BY <3>1, <3>3, <4>1, <2>2, <2>3, <1>c, <1>h, <1>d
    <3> QED BY <3>2, <3>3, <2>3, <1>d
  <2>4. CASE s # sequence_number /\ arrived' = Append(arrived, s) /\ UNCHANGED <<ready, timer>>
    <3>1. D = C
      BY <2>2, <2>4, <1>a, <1>c
    <3> QED BY <3>1, <2>2, <2>4, <1>h, <1>d
  <2>5. CASE UNCHANGED <<arrived, ready, timer>>
    BY <2>2, <2>5, <1>h, <1>d, <1>s
  <2> QED BY <2>1, <2>3, <2>4, <2>5 DEF Heard
<1>4. CASE TimerExpires
  <2>1. timer \in Handlers /\ elapsed' >= Due[timer]
    BY <1>4 DEF TimerExpires, Typed
  <2>2. Due[timer] >= Interval
    BY <2>1 DEF Due, Handlers, Timeout, Interval
  <2>3. ~(elapsed' < Interval)
    <3>1. elapsed' \in Nat /\ Due[timer] \in Nat
      BY <1>4, <1>n, <2>1 DEF TimerExpires, Due, Handlers, Timeout, Interval
    <3> QED BY <2>1, <2>2, <3>1 DEF Interval
  <2> QED BY <2>3, <1>d
<1>5. CASE Tick
  <2>1. elapsed' = elapsed + 1
    BY <1>5 DEF Tick
  <2> QED BY <2>1, <1>n, <1>d DEF Interval
<1> QED BY <1>u, <1>1, <1>2, <1>3, <1>4, <1>5 DEF Next
-----------------------------------------------------------------------------
LEMMA AskedInductive ==
  ASSUME PingAssumption, Asked, [Next]_vars
  PROVE  Asked'
<1>1. CASE ping_until_disconnect \/ SendNext
  BY <1>1 DEF ping_until_disconnect, SendNext, start_send, Asked
<1>2. CASE ~(ping_until_disconnect \/ SendNext)
  <2>1. UNCHANGED <<request, sequence_number>>
    BY <1>2 DEF Next, handle_timeout, Receive, handle_receive, TimerExpires, Tick, vars
  <2> QED BY <2>1 DEF Asked
<1> QED BY <1>1, <1>2
-----------------------------------------------------------------------------
LEMMA Initially == ASSUME PingAssumption, Init PROVE IInv
<1>1. Typed
  <2>1. Word \in Nat \ {0} /\ Counter \in Nat /\ << >> \in Seq(Handlers) /\ << >> \in Seq(Nat)
    BY DEF Word, PingAssumption
  <2>2. 0 \in 0 .. Word - 1 /\ 0 \in 0 .. Counter
    BY <2>1
  <2>3. /\ sequence_number = 0 /\ num_replies = 0 /\ time_out = 0 /\ elapsed = 0
        /\ status = "new" /\ timer = "none" /\ ready = << >> /\ arrived = << >>
        /\ answered = {} /\ wrapped = FALSE
    BY DEF Init
  <2>4. ready \in Seq(Handlers) /\ arrived \in Seq(Nat) /\ answered \subseteq Nat /\ wrapped \in BOOLEAN
    BY <2>1, <2>3
  <2>5. sequence_number \in 0 .. Word - 1 /\ time_out \in 0 .. Counter /\ num_replies \in Nat
    BY <2>2, <2>3
  <2>6. elapsed \in 0 .. Timeout
    BY <2>3 DEF Timeout
  <2> QED BY <2>3, <2>4, <2>5, <2>6 DEF Typed
<1>2. AtFirst /\ Chain /\ Counted /\ CountsTheSilence /\ Hurried /\ Asked
  BY DEF Init, AtFirst, Chain, Counted, CountsTheSilence, Hurried, Asked
<1> QED BY <1>1, <1>2 DEF IInv

LEMMA Inductive == ASSUME PingAssumption, IInv, [Next]_vars PROVE IInv'
<1>1. Typed /\ AtFirst /\ Chain /\ Counted /\ CountsTheSilence /\ Hurried /\ Asked
  BY DEF IInv
<1>2. Typed' /\ AtFirst' /\ Chain'
  <2>1. status = "running" => time_out < Counter
    BY <1>1 DEF CountsTheSilence
  <2> QED BY <1>1, <2>1, ChainInductive
<1>3. Counted' /\ CountsTheSilence' /\ Hurried'
  BY <1>1, <1>2, CountedInductive, SilenceInductive, HurriedInductive
<1>4. Asked'
  BY <1>1, AskedInductive
<1> QED BY <1>2, <1>3, <1>4 DEF IInv

(* The invariant the theorems below follow from.                           *)
THEOREM Invariant == Spec => []IInv
  BY PingAssumption, Initially, Inductive, PTL DEF Spec

(* While the pinger runs, exactly one of its two handlers is waiting on    *)
(* the timer or about to run.                                              *)
THEOREM OneHandler == Spec => []SingleChain
<1>1. ASSUME IInv PROVE SingleChain
  <2>1. CASE timer \in Handlers /\ ready = << >>
    <3>1. Len(ready) = 0
      BY <2>1
    <3> QED BY <2>1, <3>1 DEF SingleChain, Handlers
  <2>2. CASE timer = "none" /\ \E h \in Handlers : ready = <<h>>
    <3>1. Len(ready) = 1
      BY <2>2
    <3> QED BY <2>2, <3>1 DEF SingleChain
  <2> QED BY <1>1, <2>1, <2>2 DEF IInv, Chain, SingleChain
<1> QED BY <1>1, Invariant, PTL

(* The host is given up exactly when Counter requests in a row were not    *)
(* answered in time.                                                       *)
THEOREM GivenUpInTime == Spec => []CountsTheSilence
<1>1. IInv => CountsTheSilence
  BY DEF IInv
<1> QED BY <1>1, Invariant, PTL

(* What was asked last verifies, and tells the sequence number and the     *)
(* identifier of the process.                                              *)
LEMMA AskedIs ==
  ASSUME PingAssumption, IInv
  PROVE  /\ request \in Seq(Byte)
         /\ RequestVerifies
<1>1. Identifier \in Short /\ sequence_number \in Short
  BY DEF PingAssumption, IInv, Typed, Short
<1>2. CASE request = << >>
  BY <1>2 DEF RequestVerifies
<1>3. CASE request = Request(Identifier, sequence_number)
  <2>1. /\ request \in Seq(Byte) /\ Verifies(request \o body)
        /\ identifier(request) = Identifier /\ sequence_number_of(request) = sequence_number
    BY <1>1, <1>3, RequestIs, Zenon
  <2> QED BY <2>1 DEF RequestVerifies
<1> QED BY <1>2, <1>3 DEF IInv, Asked

(* Every variable of the pinger keeps its type; above all, the request is  *)
(* made of bytes and time_out_ never exceeds Counter.                      *)
THEOREM TypeCorrect == Spec => []TypeOK
<1>1. ASSUME IInv PROVE TypeOK
  BY <1>1, PingAssumption, AskedIs DEF IInv, Typed, TypeOK, Handlers
<1> QED BY <1>1, Invariant, PTL

(* Every request that is sent carries a checksum that its receiver finds   *)
(* right, and the number and identifier by which its reply is known.       *)
THEOREM RequestsVerify == Spec => []RequestVerifies
<1>1. IInv => RequestVerifies
  BY PingAssumption, AskedIs
<1> QED BY <1>1, Invariant, PTL

(* While every request is answered at most once, the next is sent no less  *)
(* than a second later.                                                    *)
LEMMA SpacedStep ==
  ASSUME PingAssumption, IInv, [Next]_vars, SendsAgain, \A s \in Sent : Copies(s) <= 1
  PROVE  elapsed >= Interval
<1>1. Typed /\ Chain /\ Counted /\ Hurried
  BY DEF IInv
<1>2. SendNext
  BY DEF SendsAgain, Next, ping_until_disconnect, handle_timeout, Receive, handle_receive, TimerExpires, Tick, vars
<1>3. status = "running" /\ ready = <<"send">>
  BY <1>1, <1>2, OneReady DEF SendNext
<1>4. sequence_number \in Sent /\ elapsed \in Nat /\ arrived \in Seq(Nat)
  <2>1. Word \in Nat
    BY DEF Word
  <2> QED BY <2>1, <1>1, <1>3 DEF Sent, Counted, Typed, Timeout
<1>5. Copies(sequence_number) <= 1 /\ Copies(sequence_number) \in Nat
  BY <1>4, CopiesCounted, Zenon DEF Copies
<1> QED BY <1>1, <1>3, <1>4, <1>5 DEF Hurried, Interval

THEOREM Spaced == Spec => SpacedWithoutDuplicates
<1>1. IInv /\ [Next]_vars =>
        [SendsAgain /\ (\A s \in Sent : Copies(s) <= 1) => elapsed >= Interval]_vars
  BY PingAssumption, SpacedStep
<1> QED BY <1>1, Invariant, PTL DEF Spec, SpacedWithoutDuplicates
=============================================================================
