--------------------------- MODULE TcpClientProofs ---------------------------
(* The receives of TcpClient, for every number of connects, bytes and      *)
(* buffers: each is outstanding, completed or being handled, and they are  *)
(* counted together; and the bytes they bring, which reach the slots and   *)
(* the buffer in order as long as there is one receive at a time.          *)
EXTENDS TcpClient, FiniteSetTheorems, SequenceTheorems, TLAPS

IoStates == [at : {"idle", "received", "writing", "written", "failed", "lost"},
             from : Nat, size : 0 .. DataSize, buf : 0 .. MaxBuffers]
Completions == [from : Nat, error : BOOLEAN, size : 0 .. DataSize]

(* TypeOK without the bound on receiving, which is a matter of counting.   *)
Typed ==
  /\ is_connected \in BOOLEAN /\ do_buffer_data \in BOOLEAN
  /\ buffer \in 1 .. MaxBuffers
  /\ content \in [1 .. MaxBuffers -> Seq(Nat)]
  /\ \A b \in 1 .. MaxBuffers : Len(content[b]) <= Capacity
  /\ data \in [1 .. DataSize -> Nat]
  /\ app \in {"idle", "opened", "receiving", "disconnecting", "destroying", "joining", "destroyed"}
  /\ reader \in 0 .. MaxBuffers
  /\ io \in [IoThreads -> IoStates]
  /\ conn \in 0 .. MaxConnects /\ gone \in BOOLEAN
  /\ receiving \in Nat
  /\ ready \in Seq(Completions)
  /\ connects \in 0 .. MaxConnects /\ arrived \in Nat
  /\ delivered \in Seq(Nat) /\ kept \in Seq(Nat)
  /\ taken \in Seq(Nat) /\ overflowed \in BOOLEAN
  /\ notified \in [Connections -> Nat]
  /\ faulted \in BOOLEAN /\ overtaken \in BOOLEAN
  /\ hasty \in BOOLEAN

Load == receiving + Len(ready) + Cardinality(Handling)

(* An idle thread holds nothing, and a socket without a peer no receive.   *)
Quiet ==
  /\ \A i \in IoThreads : io[i].at = "idle" => io[i] = Idle
  /\ conn = 0 \/ gone => receiving = 0
  /\ app \in {"disconnecting", "destroying", "joining", "destroyed"} => conn = 0
  /\ app = "opened" => connects > 0

(* Each connect that has got so far has started one receive. *)
Counted == Load <= Started

(* An error is still to be handled, or the loss it has brought. *)
Failing ==
  \/ \E k \in 1 .. Len(ready) : ready[k].error
  \/ \E i \in IoThreads : io[i].at \in {"failed", "lost"}

OneAtATime ==
  /\ Load <= 1
  /\ app = "opened" => Load = 0
  /\ Failing => conn = 0 \/ gone

(* The present connection's receive is still about, or has ended with at   *)
(* most one call of the disconnect slots.                                  *)
Told ==
  /\ \A c \in Connections : notified[c] <= 1 /\ (c > connects => notified[c] = 0)
  /\ connects > 0 => notified[connects] + Load <= 1
  /\ app = "opened" => notified[connects] = 0

(* How many bytes were received that no slot has seen yet, in each receive *)
Sizes(q) == {q[k].size : k \in {j \in 1 .. Len(q) : ~q[j].error}}
Pending == Sizes(ready) \cup {io[i].size : i \in {j \in IoThreads : io[j].at = "received"}}

(* n bytes are at the beginning of data_ and are the last that came.       *)
Fresh(n) ==
  /\ n <= DataSize /\ arrived = Len(delivered) + n
  /\ \A k \in 1 .. n : data[k] = Len(delivered) + k

(* Of m bytes K, none later than d, t were read, T, and the newest b, B,   *)
(* are buffered; and they are all of them unless o.                        *)
Drawn(t, T, b, B, m, K, d, o) ==
  /\ \A j, k \in 1 .. m : j < k => K[j] < K[k]
  /\ \A k \in 1 .. m : K[k] <= d
  /\ b <= m /\ \A k \in 1 .. b : B[k] = K[m - b + k]
  /\ \A j, k \in 1 .. t : j < k => T[j] < T[k]
  /\ \A k \in 1 .. t : \E x \in 1 .. m : T[k] = K[x]
  /\ \A j \in 1 .. t, k \in 1 .. b : T[j] < B[k]
  /\ o \/ (t + b = m /\ \A k \in 1 .. t : T[k] = K[k])

(* What is pending is all that no slot has seen, and what was to be        *)
(* buffered is read, lost to newer bytes, buffered or about to be written. *)
Intact ==
  /\ \A k \in 1 .. Len(delivered) : delivered[k] = k
  /\ Pending = {} => arrived = Len(delivered)
  /\ \A n \in Pending : Fresh(n)
  /\ buffer = 1 => /\ ~faulted
                   /\ reader \in {0, 1}
                   /\ \A i \in IoThreads : io[i].at = "writing" => io[i].buf = 1
                   /\ Drawn(Len(taken), taken, Len(Buffered), Buffered,
                            Len(kept), kept, Len(delivered), overflowed)

IInv == Typed /\ Quiet /\ Counted /\ (overtaken \/ (OneAtATime /\ Told /\ Intact))
-----------------------------------------------------------------------------
(* What has a completion, or a thread that handles one, on its books.      *)
LEMMA AbortedIs ==
  ASSUME ClientAssumption, NEW q \in Seq(Completions), NEW n \in Nat, NEW c \in Nat
  PROVE  LET r == q \o [k \in 1 .. n |-> Failed(c)]
         IN  r \in Seq(Completions) /\ Len(r) = Len(q) + n
<1> DEFINE t == [k \in 1 .. n |-> Failed(c)]
<1>1. Failed(c) \in Completions
  BY DEF Failed, Completions, ClientAssumption
<1>2. t \in [1 .. n -> Completions]
  BY <1>1
<1>3. t \in Seq(Completions)
  BY <1>2, SeqDef
<1>4. Len(t) = n
  BY <1>2, <1>3, LenProperties
<1> HIDE DEF t
<1>5. q \o t \in Seq(Completions) /\ Len(q \o t) = Len(q) + n
  BY <1>3, <1>4, ConcatProperties
<1> QED BY <1>5 DEF t

Handlers(f) == {i \in IoThreads : f[i] # Idle}

LEMMA HandlersFinite ==
  ASSUME ClientAssumption, NEW f
  PROVE  IsFiniteSet(Handlers(f)) /\ Cardinality(Handlers(f)) \in Nat
<1>1. IsFiniteSet(IoThreads)
  BY FS_Interval DEF IoThreads, ClientAssumption
<1>2. Handlers(f) \in SUBSET IoThreads
  BY DEF Handlers
<1>3. IsFiniteSet(Handlers(f))
  BY <1>1, <1>2, FS_Subset
<1> QED BY <1>3, FS_CardinalityType

LEMMA HandlersChange ==
  ASSUME ClientAssumption, NEW f \in [IoThreads -> IoStates], NEW i \in IoThreads, NEW v
  PROVE  LET g == [f EXCEPT ![i] = v]
             more == Cardinality(Handlers(g))
             less == Cardinality(Handlers(f))
         IN  /\ f[i] # Idle /\ v # Idle => more = less
             /\ f[i] = Idle /\ v # Idle => more = less + 1
             /\ f[i] # Idle /\ v = Idle => more = less - 1
             /\ f[i] = Idle /\ v = Idle => more = less
<1> DEFINE g == [f EXCEPT ![i] = v]
<1>1. \A j \in IoThreads : g[j] = IF j = i THEN v ELSE f[j]
  OBVIOUS
<1> HIDE DEF g
<1>2. IsFiniteSet(Handlers(f)) /\ Cardinality(Handlers(f)) \in Nat
  BY HandlersFinite
<1>3. (f[i] # Idle /\ v # Idle) \/ (f[i] = Idle /\ v = Idle) => Handlers(g) = Handlers(f)
  BY <1>1 DEF Handlers
<1>4. ASSUME f[i] = Idle, v # Idle
      PROVE  Cardinality(Handlers(g)) = Cardinality(Handlers(f)) + 1
  <2>1. Handlers(g) = Handlers(f) \cup {i} /\ i \notin Handlers(f)
    BY <1>1, <1>4 DEF Handlers
  <2> QED BY <2>1, <1>2, FS_AddElement
<1>5. ASSUME f[i] # Idle, v = Idle
      PROVE  Cardinality(Handlers(g)) = Cardinality(Handlers(f)) - 1
  <2>1. Handlers(g) = Handlers(f) \ {i} /\ i \in Handlers(f)
    BY <1>1, <1>5 DEF Handlers
  <2> QED BY <2>1, <1>2, FS_RemoveElement, ZenonT(30)
<1> QED BY <1>3, <1>4, <1>5 DEF g
-----------------------------------------------------------------------------
(* What reads and writes leave of the bytes that were to be buffered.      *)
(* X is the x numbers after d, and S is the first n of it, A, and then X.  *)
After(d, x, X) == \A k \in 1 .. x : X[k] = d + k
Joined(n, A, x, X, S) == \A k \in 1 .. n + x : S[k] = IF k <= n THEN A[k] ELSE X[k - n]

(* x bytes more, all later, are to be buffered. *)
LEMMA DrawnMore ==
  ASSUME NEW t \in Nat, NEW T \in [1 .. t -> Nat], NEW b \in Nat, NEW B \in [1 .. b -> Nat],
         NEW m \in Nat, NEW K \in [1 .. m -> Nat], NEW d \in Nat, NEW o,
         Drawn(t, T, b, B, m, K, d, o),
         NEW x \in Nat, NEW X, After(d, x, X),
         NEW B2 \in [1 .. b + x -> Nat], Joined(b, B, x, X, B2),
         NEW K2 \in [1 .. m + x -> Nat], Joined(m, K, x, X, K2)
  PROVE  Drawn(t, T, b + x, B2, m + x, K2, d + x, o)
<1> USE DEF After, Joined
<1>1. \A k \in 1 .. m : K2[k] = K[k] /\ K[k] <= d
  BY DEF Drawn
<1>2. ASSUME NEW k \in m + 1 .. m + x PROVE K2[k] = d + (k - m)
  <2>1. k - m \in 1 .. x /\ k \in 1 .. m + x /\ ~(k <= m)
    OBVIOUS
  <2>2. K2[k] = X[k - m]
    BY <2>1
  <2> QED BY <2>1, <2>2
<1>3. ASSUME NEW j \in 1 .. m + x, NEW k \in 1 .. m + x, j < k PROVE K2[j] < K2[k]
  <2>1. CASE k <= m
    <3>1. K[j] < K[k]
      BY <2>1, <1>3 DEF Drawn
    <3> QED BY <2>1, <3>1, <1>3
  <2>2. CASE j <= m /\ ~(k <= m)
    BY <2>2, <1>1, <1>2
  <2>3. CASE ~(j <= m)
    <3>1. j \in m + 1 .. m + x /\ k \in m + 1 .. m + x
      BY <2>3, <1>3
    <3>2. K2[j] = d + (j - m) /\ K2[k] = d + (k - m)
      BY <3>1, <1>2
    <3> QED BY <3>2, <1>3
  <2> QED BY <2>1, <2>2, <2>3
<1>4. \A k \in 1 .. m + x : K2[k] <= d + x
  BY <1>1, <1>2, SMTT(30)
<1>5. ASSUME NEW k \in 1 .. b + x PROVE B2[k] = K2[m - b + k]
  <2> DEFINE p == m - b + k
  <2>0. b <= m /\ \A i \in 1 .. b : B[i] = K[m - b + i]
    BY DEF Drawn
  <2>1. p \in 1 .. m + x /\ p - m = k - b
    BY <2>0
  <2>2. CASE k <= b
    BY <2>0, <2>1, <2>2
  <2>3. CASE ~(k <= b)
    <3>1. B2[k] = X[k - b] /\ ~(p <= m)
      BY <2>3
    <3>2. K2[p] = X[p - m]
      BY <3>1, <2>1
    <3> QED BY <3>1, <3>2, <2>1
  <2> QED BY <2>2, <2>3
<1>6. ASSUME NEW k \in 1 .. t PROVE (\E y \in 1 .. m + x : T[k] = K2[y]) /\ T[k] <= d
  <2>1. PICK y \in 1 .. m : T[k] = K[y]
    BY DEF Drawn
  <2>2. y \in 1 .. m + x /\ T[k] = K2[y] /\ K[y] <= d
    BY <2>1, <1>1
  <2> QED BY <2>1, <2>2
<1>7. ASSUME NEW j \in 1 .. t, NEW k \in 1 .. b + x PROVE T[j] < B2[k]
  <2>1. CASE k <= b
    BY <2>1 DEF Drawn
  <2>2. CASE ~(k <= b)
    <3>1. B2[k] = d + (k - b)
      <4>1. k - b \in 1 .. x /\ B2[k] = X[k - b]
        BY <2>2
      <4> QED BY <4>1
    <3> QED BY <3>1, <2>2, <1>6
  <2> QED BY <2>1, <2>2
<1>8. o \/ (t + (b + x) = m + x /\ \A k \in 1 .. t : T[k] = K2[k])
  BY <1>1 DEF Drawn
<1>9. \A j, k \in 1 .. t : j < k => T[j] < T[k]
  BY DEF Drawn
<1>10. b + x <= m + x /\ \A k \in 1 .. b + x : B2[k] = K2[(m + x) - (b + x) + k]
  <2>1. b <= m
    BY DEF Drawn
  <2>2. \A k \in 1 .. b + x : m - b + k = (m + x) - (b + x) + k
    OBVIOUS
  <2> QED BY <1>5, <2>1, <2>2
<1> QED BY <1>3, <1>4, <1>6, <1>7, <1>8, <1>9, <1>10 DEF Drawn

(* Later bytes arrive that are not to be buffered. *)
LEMMA DrawnLater ==
  ASSUME NEW t, NEW T, NEW b, NEW B, NEW m \in Nat, NEW K \in [1 .. m -> Nat], NEW d \in Nat,
         NEW o, Drawn(t, T, b, B, m, K, d, o), NEW x \in Nat
  PROVE  Drawn(t, T, b, B, m, K, d + x, o)
<1>1. \A k \in 1 .. m : K[k] <= d + x
  BY DEF Drawn
<1> QED BY <1>1 DEF Drawn

(* All but the newest n are lost. *)
LEMMA DrawnLost ==
  ASSUME NEW t \in Nat, NEW T \in [1 .. t -> Nat], NEW b \in Nat, NEW B \in [1 .. b -> Nat],
         NEW m \in Nat, NEW K \in [1 .. m -> Nat], NEW d, NEW o,
         Drawn(t, T, b, B, m, K, d, o),
         NEW n \in Nat, n <= b, NEW N \in [1 .. n -> Nat], \A k \in 1 .. n : N[k] = B[b - n + k],
         NEW lost, lost
  PROVE  Drawn(t, T, n, N, m, K, d, lost)
<1>1. b <= m /\ \A k \in 1 .. b : B[k] = K[m - b + k]
  BY DEF Drawn
<1>2. ASSUME NEW k \in 1 .. n PROVE N[k] = K[m - n + k]
  <2> DEFINE p == b - n + k
  <2>1. p \in 1 .. b /\ N[k] = B[p] /\ m - b + p = m - n + k
    OBVIOUS
  <2> HIDE DEF p
  <2>2. B[p] = K[m - b + p]
    BY <1>1, <2>1
  <2> QED BY <2>1, <2>2
<1>3. ASSUME NEW j \in 1 .. t, NEW k \in 1 .. n PROVE T[j] < N[k]
  <2> DEFINE p == b - n + k
  <2>1. p \in 1 .. b /\ N[k] = B[p]
    OBVIOUS
  <2> HIDE DEF p
  <2>2. T[j] < B[p]
    BY <2>1 DEF Drawn
  <2> QED BY <2>1, <2>2
<1> QED BY <1>1, <1>2, <1>3 DEF Drawn

(* The oldest n are read. *)
LEMMA DrawnRead ==
  ASSUME NEW t \in Nat, NEW T \in [1 .. t -> Nat], NEW b \in Nat, NEW B \in [1 .. b -> Nat],
         NEW m \in Nat, NEW K \in [1 .. m -> Nat], NEW d, NEW o,
         Drawn(t, T, b, B, m, K, d, o),
         NEW n \in Nat, n <= b,
         NEW T2 \in [1 .. t + n -> Nat],
         \A k \in 1 .. t + n : T2[k] = IF k <= t THEN T[k] ELSE B[k - t],
         NEW R \in [1 .. b - n -> Nat], \A k \in 1 .. b - n : R[k] = B[n + k]
  PROVE  Drawn(t + n, T2, b - n, R, m, K, d, o)
<1>k. b <= m
  BY DEF Drawn
<1>b. \A k \in 1 .. b : B[k] = K[m - b + k]
  BY DEF Drawn
<1>a. ASSUME NEW j \in 1 .. b, NEW k \in 1 .. b, j < k PROVE B[j] < B[k]
  <2> DEFINE jj == m - b + j  kk == m - b + k
  <2>1. jj \in 1 .. m /\ kk \in 1 .. m /\ jj < kk /\ B[j] = K[jj] /\ B[k] = K[kk]
    BY <1>b, <1>k, <1>a
  <2> HIDE DEF jj, kk
  <2>2. K[jj] < K[kk]
    BY <2>1 DEF Drawn
  <2> QED BY <2>1, <2>2
<1>t. \A j \in 1 .. t, k \in 1 .. b : T[j] < B[k]
  BY DEF Drawn
<1>o. ASSUME NEW j \in 1 .. t + n, ~(j <= t)
      PROVE  j - t \in 1 .. n /\ j - t \in 1 .. b /\ T2[j] = B[j - t]
  BY <1>o
<1>1. ASSUME NEW k \in 1 .. b - n PROVE R[k] = K[m - (b - n) + k]
  <2> DEFINE p == n + k
  <2>1. p \in 1 .. b /\ R[k] = B[p] /\ m - b + p = m - (b - n) + k
    OBVIOUS
  <2> HIDE DEF p
  <2> QED BY <2>1, <1>b
<1>2. ASSUME NEW j \in 1 .. t + n, NEW k \in 1 .. t + n, j < k PROVE T2[j] < T2[k]
  <2>1. CASE k <= t
    <3>1. T[j] < T[k]
      BY <2>1, <1>2 DEF Drawn
    <3> QED BY <2>1, <3>1, <1>2
  <2>2. CASE j <= t /\ ~(k <= t)
    BY <2>2, <1>o, <1>t
  <2>3. CASE ~(j <= t) /\ ~(k <= t)
    <3>1. j - t < k - t
      BY <1>2
    <3> QED BY <2>3, <3>1, <1>o, <1>a
  <2> QED BY <2>1, <2>2, <2>3, <1>2
<1>3. ASSUME NEW k \in 1 .. t + n PROVE \E y \in 1 .. m : T2[k] = K[y]
  <2>1. CASE k <= t
    BY <2>1 DEF Drawn
  <2>2. CASE ~(k <= t)
    <3> DEFINE p == k - t
    <3>1. p \in 1 .. b /\ T2[k] = B[p]
      BY <2>2, <1>o
    <3>2. m - b + p \in 1 .. m /\ B[p] = K[m - b + p]
      BY <3>1, <1>b, <1>k
    <3> QED BY <3>1, <3>2
  <2> QED BY <2>1, <2>2
<1>4. ASSUME NEW j \in 1 .. t + n, NEW k \in 1 .. b - n PROVE T2[j] < R[k]
  <2> DEFINE p == n + k
  <2>1. p \in 1 .. b /\ R[k] = B[p]
    OBVIOUS
  <2>2. CASE j <= t
    <3>1. T2[j] = T[j] /\ j \in 1 .. t
      BY <2>2
    <3> HIDE DEF p
    <3> QED BY <3>1, <2>1, <1>t
  <2>3. CASE ~(j <= t)
    <3> DEFINE q == j - t
    <3>1. q \in 1 .. b /\ q < p /\ T2[j] = B[q]
      BY <2>3, <1>o
    <3> HIDE DEF p, q
    <3> QED BY <3>1, <2>1, <1>a
  <2> QED BY <2>2, <2>3
<1>5. o \/ ((t + n) + (b - n) = m /\ \A k \in 1 .. t + n : T2[k] = K[k])
  <2> SUFFICES ASSUME ~o PROVE (t + n) + (b - n) = m /\ \A k \in 1 .. t + n : T2[k] = K[k]
    OBVIOUS
  <2>1. t + b = m /\ \A k \in 1 .. t : T[k] = K[k]
    BY DEF Drawn
  <2>2. ASSUME NEW k \in 1 .. t + n PROVE T2[k] = K[k]
    <3>1. CASE k <= t
      BY <2>1, <3>1
    <3>2. CASE ~(k <= t)
      <4> DEFINE p == k - t
      <4>1. p \in 1 .. b /\ T2[k] = B[p] /\ m - b + p = k
        BY <3>2, <2>1, <1>o
      <4> HIDE DEF p
      <4> QED BY <4>1, <1>b
    <3> QED BY <3>1, <3>2
  <2> QED BY <2>1, <2>2
<1>6. b - n <= m
  BY <1>k
<1> QED BY <1>1, <1>2, <1>3, <1>4, <1>5, <1>6 DEF Drawn

(* What this says of the sequences. *)
LEMMA DrawnIs ==
  ASSUME NEW T \in Seq(Nat), NEW B \in Seq(Nat), NEW K \in Seq(Nat), NEW d, NEW o,
         Drawn(Len(T), T, Len(B), B, Len(K), K, d, o)
  PROVE  /\ Range(T) \subseteq Range(K) /\ Ascending(T \o B)
         /\ Len(B) <= Len(K) /\ B = Newest(K, Len(B))
         /\ o \/ T \o B = K
<1> DEFINE t == Len(T)  b == Len(B)  m == Len(K)
           S == T \o B
           p == m - b + 1
           N == SubSeq(K, p, m)
<1>n. /\ t \in Nat /\ T \in [1 .. t -> Nat] /\ DOMAIN T = 1 .. t
      /\ b \in Nat /\ B \in [1 .. b -> Nat]
      /\ m \in Nat /\ K \in [1 .. m -> Nat] /\ DOMAIN K = 1 .. m
  BY LenProperties
<1>s. /\ S \in Seq(Nat) /\ Len(S) = t + b
      /\ \A k \in 1 .. t + b : S[k] = IF k <= t THEN T[k] ELSE B[k - t]
  BY ConcatProperties
<1>m. /\ N \in Seq(Nat) /\ Len(N) = IF p <= m THEN m - p + 1 ELSE 0
      /\ \A i \in 1 .. m - p + 1 : N[i] = K[p + i - 1]
  <2>1. p \in Int /\ m \in Int /\ \A i \in p .. m : K[i] \in Nat
    <3>1. b <= m
      BY DEF Drawn
    <3> HIDE DEF m, b
    <3> QED BY <1>n, <3>1
  <2> HIDE DEF p, m
  <2> QED BY <2>1, SubSeqProperties
<1>d. Drawn(t, T, b, B, m, K, d, o)
  OBVIOUS
<1>N. N = Newest(K, b)
  BY DEF Newest
<1>S. DOMAIN S = 1 .. Len(S)
  BY <1>s, LenProperties
<1>e. \A s1, s2 \in Seq(Nat) : Len(s1) = Len(s2) /\ (\A i \in 1 .. Len(s1) : s1[i] = s2[i]) => s1 = s2
  BY SeqEqual
<1> HIDE DEF S, N
<1>b. b <= m
  BY <1>d DEF Drawn
<1>l. Len(N) = b
  <2> HIDE DEF m, b
  <2> QED BY <1>m, <1>n, <1>b
<1>1. Range(T) \subseteq Range(K)
  <2> HIDE DEF t, m, b
  <2> SUFFICES ASSUME NEW k \in 1 .. t PROVE T[k] \in Range(K)
    BY <1>n DEF Range
  <2>1. PICK x \in 1 .. m : T[k] = K[x]
    BY <1>d DEF Drawn
  <2> QED BY <2>1, <1>n DEF Range
<1>2. \A i \in 1 .. b : B[i] = N[i]
  <2> SUFFICES ASSUME NEW i \in 1 .. b PROVE B[i] = N[i]
    OBVIOUS
  <2> HIDE DEF t, m, b
  <2>1. B[i] = K[m - b + i]
    BY <1>d DEF Drawn
  <2>2. i \in 1 .. m - p + 1 /\ p + i - 1 = m - b + i
    BY <1>n
  <2> QED BY <2>1, <2>2, <1>m
<1>3. B = N
  BY <1>2, <1>l, <1>m, <1>e
<1>4. ASSUME NEW j \in 1 .. t + b, NEW k \in 1 .. t + b, j < k PROVE S[j] < S[k]
  <2> DEFINE F == [i \in 1 .. t + b |-> S[i]]
  <2> HIDE DEF t, m, b
  <2>f. F \in [1 .. t + b -> Nat] /\ \A i \in 1 .. t + b : F[i] = IF i <= t THEN T[i] ELSE B[i - t]
    BY <1>s, <1>n
  <2>r. [i \in 1 .. b - b |-> 0] \in [1 .. b - b -> Nat] /\ \A i \in 1 .. b - b : [x \in 1 .. b - b |-> 0][i] = B[b + i]
    BY <1>n
  <2>1. Drawn(t + b, F, b - b, [i \in 1 .. b - b |-> 0], m, K, d, o)
    <3> HIDE DEF F
    <3> DEFINE R == [i \in 1 .. b - b |-> 0]
    <3>1. R \in [1 .. b - b -> Nat] /\ \A i \in 1 .. b - b : R[i] = B[b + i]
      BY <2>r
    <3> HIDE DEF R
    <3>2. b \in Nat /\ b <= b
      BY <1>n
    <3>3. Drawn(t + b, F, b - b, R, m, K, d, o)
      BY <3>1, <3>2, <2>f, <1>n, <1>d, DrawnRead, Zenon
    <3> QED BY <3>3 DEF R
  <2>2. F[j] < F[k]
    BY <2>1, <1>4 DEF Drawn
  <2> QED BY <2>2
<1>5. Ascending(S)
  BY <1>4, <1>s, <1>S DEF Ascending
<1>6. o \/ S = K
  <2> SUFFICES ASSUME ~o PROVE S = K
    OBVIOUS
  <2>1. t + b = m /\ \A k \in 1 .. t : T[k] = K[k]
    BY <1>d DEF Drawn
  <2>2. ASSUME NEW k \in 1 .. t + b PROVE S[k] = K[k]
    <3> HIDE DEF t, m, b
    <3>1. CASE k <= t
      BY <3>1, <1>s, <1>n, <2>1
    <3>2. CASE ~(k <= t)
      <4> DEFINE q == k - t
      <4>1. q \in 1 .. b /\ S[k] = B[q] /\ m - b + q = k
        BY <3>2, <1>s, <1>n, <2>1
      <4> HIDE DEF q
      <4>2. B[q] = K[m - b + q]
        BY <4>1, <1>d DEF Drawn
      <4> QED BY <4>1, <4>2
    <3> QED BY <3>1, <3>2, <1>n
  <2>3. Len(S) = m /\ \A k \in 1 .. Len(S) : S[k] = K[k]
    BY <1>s, <2>1, <2>2
  <2> QED BY <2>3, <1>s, <1>e
<1> QED BY <1>1, <1>3, <1>5, <1>6, <1>b, <1>N DEF S
-----------------------------------------------------------------------------
(* Every variable keeps its type.                                          *)
LEMMA AbortedTyped ==
  ASSUME ClientAssumption, Typed
  PROVE  Aborted \in Seq(Completions) /\ Len(Aborted) = Len(ready) + receiving
<1>1. ready \in Seq(Completions) /\ receiving \in Nat /\ conn \in Nat
  BY DEF Typed, ClientAssumption
<1> QED BY <1>1, AbortedIs DEF Aborted

LEMMA ReceiveTyped ==
  ASSUME ClientAssumption, Typed, async_receive
  PROVE  ready' \in Seq(Completions) /\ receiving' \in Nat
<1>1. Failed(conn) \in Completions
  BY DEF Typed, Failed, Completions, ClientAssumption
<1>2. Append(ready, Failed(conn)) \in Seq(Completions)
  BY <1>1, AppendProperties DEF Typed
<1>3. ready \in Seq(Completions) /\ receiving \in Nat
  BY DEF Typed
<1>4. \/ ready' = Append(ready, Failed(conn)) /\ receiving' = receiving
      \/ ready' = ready /\ receiving' = receiving + 1
  BY Zenon DEF async_receive
<1> QED BY <1>2, <1>3, <1>4

LEMMA BytesTyped ==
  ASSUME ClientAssumption, Typed, NEW n \in 0 .. DataSize
  PROVE  Bytes(n) \in Seq(Nat) /\ Len(Bytes(n)) = n /\ \A k \in 1 .. n : Bytes(n)[k] = data[k]
<1> DEFINE B == [k \in 1 .. n |-> data[k]]
<1>1. B \in [1 .. n -> Nat] /\ n \in Nat /\ \A k \in 1 .. n : B[k] = data[k]
  BY DEF Typed, ClientAssumption
<1> HIDE DEF B
<1>2. B \in Seq(Nat)
  BY <1>1, SeqDef
<1>3. Len(B) = n
  BY <1>1, <1>2, LenProperties
<1> QED BY <1>1, <1>2, <1>3 DEF B, Bytes

(* A buffer holds the newest of what it is given, and no more than it can. *)
LEMMA NewestIs ==
  ASSUME NEW s \in Seq(Nat), NEW n \in Nat, n <= Len(s)
  PROVE  /\ Newest(s, n) \in Seq(Nat) /\ Len(Newest(s, n)) = n
         /\ \A k \in 1 .. n : Newest(s, n)[k] = s[Len(s) - n + k]
<1> DEFINE l == Len(s)
           p == l - n + 1
<1>1. l \in Nat /\ n <= l /\ s \in [1 .. l -> Nat]
  BY LenProperties
<1>2. Newest(s, n) = SubSeq(s, p, l)
  BY DEF Newest
<1> HIDE DEF l
<1>3. p \in Int /\ l \in Int /\ \A i \in p .. l : s[i] \in Nat
  BY <1>1
<1>4. p <= l \/ n = 0
  BY <1>1
<1>5. l - p + 1 = n /\ \A k \in 1 .. n : p + k - 1 = l - n + k
  BY <1>1
<1> HIDE DEF p
<1>6. /\ SubSeq(s, p, l) \in Seq(Nat)
      /\ Len(SubSeq(s, p, l)) = IF p <= l THEN l - p + 1 ELSE 0
      /\ \A i \in 1 .. l - p + 1 : SubSeq(s, p, l)[i] = s[p + i - 1]
  BY <1>3, SubSeqProperties, SMTT(30)
<1> DEFINE N == SubSeq(s, p, l)
<1>n. N = Newest(s, n)
  BY <1>2
<1> HIDE DEF N
<1>7. Len(N) = n
  BY <1>1, <1>4, <1>5, <1>6, <1>3 DEF p, N
<1>8. \A i \in 1 .. n : N[i] = s[l - n + i]
  BY <1>5, <1>6 DEF N
<1>9. N \in Seq(Nat)
  BY <1>6 DEF N
<1> QED BY <1>n, <1>7, <1>8, <1>9 DEF l

LEMMA PutIs ==
  ASSUME ClientAssumption, NEW s \in Seq(Nat)
  PROVE  Put(s) \in Seq(Nat) /\ Len(Put(s)) <= Capacity
<1>1. Len(s) \in Nat /\ Capacity \in Nat
  BY LenProperties DEF ClientAssumption
<1>2. CASE Overflows(s)
  <2>1. Capacity <= Len(s)
    BY <1>1, <1>2 DEF Overflows
  <2>2. Newest(s, Capacity) \in Seq(Nat) /\ Len(Newest(s, Capacity)) = Capacity
    BY <1>1, <2>1, NewestIs
  <2> QED BY <1>1, <1>2, <2>2 DEF Put
<1>3. CASE ~Overflows(s)
  BY <1>1, <1>3 DEF Put, Overflows
<1> QED BY <1>2, <1>3

LEMMA SplitIs ==
  ASSUME NEW s \in Seq(Nat), NEW n \in 0 .. Len(s)
  PROVE  /\ SubSeq(s, 1, n) \in Seq(Nat) /\ Len(SubSeq(s, 1, n)) = n
         /\ \A k \in 1 .. n : SubSeq(s, 1, n)[k] = s[k]
         /\ SubSeq(s, n + 1, Len(s)) \in Seq(Nat) /\ Len(SubSeq(s, n + 1, Len(s))) = Len(s) - n
         /\ \A k \in 1 .. Len(s) - n : SubSeq(s, n + 1, Len(s))[k] = s[n + k]
<1> DEFINE l == Len(s)
           A == SubSeq(s, 1, n)
           B == SubSeq(s, n + 1, l)
<1>1. l \in Nat /\ n \in 0 .. l /\ s \in [1 .. l -> Nat]
  BY LenProperties
<1> HIDE DEF l
<1>2. 1 \in Int /\ n \in Int /\ l \in Int /\ n + 1 \in Int
  BY <1>1
<1>3. \A i \in 1 .. n : s[i] \in Nat
  BY <1>1
<1>4. \A i \in n + 1 .. l : s[i] \in Nat
  BY <1>1
<1>5. /\ A \in Seq(Nat) /\ Len(A) = IF 1 <= n THEN n - 1 + 1 ELSE 0
      /\ \A i \in 1 .. n - 1 + 1 : A[i] = s[1 + i - 1]
  BY <1>2, <1>3, SubSeqProperties
<1>6. /\ B \in Seq(Nat) /\ Len(B) = IF n + 1 <= l THEN l - (n + 1) + 1 ELSE 0
      /\ \A i \in 1 .. l - (n + 1) + 1 : B[i] = s[(n + 1) + i - 1]
  BY <1>2, <1>4, SubSeqProperties
<1> HIDE DEF A, B
<1>7. Len(A) = n /\ \A k \in 1 .. n : A[k] = s[k]
  BY <1>5, <1>1
<1>8. Len(B) = l - n /\ \A k \in 1 .. l - n : B[k] = s[n + k]
  BY <1>6, <1>1
<1> QED BY <1>5, <1>6, <1>7, <1>8 DEF A, B, l

LEMMA TypedInductive ==
  ASSUME ClientAssumption, Typed, [Next]_vars
  PROVE  Typed'
<1> USE DEF Typed
<1>1. CASE Connect
  <2>1. overtaken' \in BOOLEAN
    BY <1>1, Zenon DEF Connect
  <2>2. connects' \in 0 .. MaxConnects /\ conn' \in 0 .. MaxConnects
    BY <1>1 DEF Connect, ClientAssumption
  <2> QED BY <1>1, <2>1, <2>2 DEF Connect, code
<1>2. CASE ConnectReceives
  <2>1. ready' \in Seq(Completions) /\ receiving' \in Nat
    BY <1>2, ReceiveTyped DEF ConnectReceives
  <2> QED BY <1>2, <2>1 DEF ConnectReceives, code, history
<1>3. CASE ConnectReturns
  BY <1>3 DEF ConnectReturns, network, history
<1>4. ASSUME Close PROVE ready' \in Seq(Completions) /\ receiving' = 0 /\ conn' = 0
                         /\ UNCHANGED <<gone, connects, arrived>>
  BY <1>4, AbortedTyped DEF Close
<1>5. CASE Disconnect
  BY <1>5, <1>4, SMTT(30) DEF Disconnect, code, history, ClientAssumption
<1>6. CASE DisconnectReturns
  BY <1>6 DEF DisconnectReturns, network, history
<1>7. CASE Destroy
  BY <1>7, <1>4, SMTT(30) DEF Destroy, code, history, ClientAssumption
<1>8. CASE DestroyJoins
  BY <1>8 DEF DestroyJoins, network, history
<1>9. CASE DestroyReturns
  BY <1>9 DEF DestroyReturns, code, network, history
<1>10. CASE DoBufferData
  BY <1>10 DEF DoBufferData, threads, network, history
<1>11. CASE SetBuffer
  BY <1>11, SMTT(30) DEF SetBuffer, threads, network
<1>12. CASE ReadCall
  BY <1>12 DEF ReadCall, code, network, history
<1>13. CASE ReadReturns
  <2>1. /\ taken' \in Seq(Nat) /\ content' \in [1 .. MaxBuffers -> Seq(Nat)]
        /\ \A b \in 1 .. MaxBuffers : Len(content'[b]) <= Capacity
    <3>1. CASE reader = buffer
      <4>1. content[reader] \in Seq(Nat) /\ Len(content[reader]) <= Capacity
        BY <3>1
      <4>2. PICK n \in 0 .. Len(content[reader]) :
              /\ taken' = taken \o SubSeq(content[reader], 1, n)
              /\ content' = [content EXCEPT ![reader] = SubSeq(@, n + 1, Len(@))]
        BY <1>13, <3>1 DEF ReadReturns
      <4> DEFINE l == Len(content[reader])
                 first == SubSeq(content[reader], 1, n)
                 rest == SubSeq(content[reader], n + 1, l)
      <4>3. first \in Seq(Nat) /\ rest \in Seq(Nat) /\ Len(rest) = l - n
        BY <4>1, SplitIs
      <4>4. l \in Nat
        BY <4>1, LenProperties
      <4>5. content' = [content EXCEPT ![reader] = rest] /\ taken' = taken \o first
        BY <4>2, <3>1
      <4>6. l - n <= Capacity
        <5> HIDE DEF l
        <5>1. l <= Capacity /\ n \in 0 .. l
          BY <4>1, <4>2 DEF l
        <5> QED BY <4>4, <5>1 DEF ClientAssumption
      <4> HIDE DEF first, rest, l
      <4>7. taken' \in Seq(Nat)
        BY <4>3, <4>5, ConcatProperties
      <4> QED BY <3>1, <4>3, <4>5, <4>6, <4>7
    <3>2. CASE reader # buffer
      BY <1>13, <3>2 DEF ReadReturns
    <3> QED BY <3>1, <3>2
  <2>2. faulted' \in BOOLEAN
    BY <1>13 DEF ReadReturns
  <2>3. reader' = 0 /\ UNCHANGED <<is_connected, do_buffer_data, buffer, data, app, io, network,
                                  delivered, kept, overflowed, notified, overtaken, hasty>>
    BY <1>13 DEF ReadReturns
  <2> QED BY <2>1, <2>2, <2>3 DEF network
<1>14. ASSUME NEW n \in ReceiveSizes, Arrive(n) PROVE Typed'
  <2>1. Received(conn, n) \in Completions /\ n \in Nat
    BY DEF Received, Completions, ClientAssumption
  <2>2. ready' \in Seq(Completions)
    BY <1>14, <2>1, AppendProperties DEF Arrive
  <2>3. data' \in [1 .. DataSize -> Nat] /\ arrived' \in Nat /\ receiving' \in Nat
    BY <1>14, <2>1, SMTT(30) DEF Arrive
  <2>4. UNCHANGED <<is_connected, do_buffer_data, buffer, content, threads, conn, gone, connects, history>>
    BY <1>14 DEF Arrive
  <2> QED BY <2>2, <2>3, <2>4 DEF threads, history
<1>15. CASE PeerCloses
  <2>1. ready' \in Seq(Completions)
    BY <1>15, AbortedTyped DEF PeerCloses
  <2> QED BY <1>15, <2>1 DEF PeerCloses, code, threads, history
<1>16. ASSUME NEW i \in IoThreads, Take(i) PROVE Typed'
  <2>1. Head(ready) \in Completions /\ ready' \in Seq(Completions)
    BY <1>16, HeadTailProperties DEF Take
  <2>2. io' \in [IoThreads -> IoStates]
    <3>1. Head(ready).from \in Nat /\ Head(ready).size \in 0 .. DataSize /\ 0 \in 0 .. MaxBuffers
      BY <2>1 DEF Completions, ClientAssumption
    <3>2. PICK at \in {"failed", "received"} :
            io' = [io EXCEPT ![i] = [at |-> at, from |-> Head(ready).from,
                                     size |-> Head(ready).size, buf |-> 0]]
      BY <1>16, Zenon DEF Take
    <3>3. [at |-> at, from |-> Head(ready).from, size |-> Head(ready).size, buf |-> 0] \in IoStates
      BY <3>1 DEF IoStates
    <3> QED BY <3>2, <3>3
  <2> QED BY <1>16, <2>1, <2>2, SMTT(30) DEF Take, code, history
<1>17. ASSUME NEW i \in IoThreads, Deliver(i) PROVE Typed'
  <2>1. io' \in [IoThreads -> IoStates]
    <3>1. io[i] \in IoStates /\ buffer \in 0 .. MaxBuffers
      OBVIOUS
    <3>2. PICK at \in {"writing", "written"} : io' = [io EXCEPT ![i].at = at, ![i].buf = buffer]
      BY <1>17 DEF Deliver
    <3>3. [[io[i] EXCEPT !.at = at] EXCEPT !.buf = buffer] \in IoStates
      BY <3>1, <3>2 DEF IoStates
    <3>4. io' = [io EXCEPT ![i] = [[io[i] EXCEPT !.at = at] EXCEPT !.buf = buffer]]
      BY <3>2
    <3> QED BY <3>3, <3>4
  <2>2. delivered' \in Seq(Nat) /\ kept' \in Seq(Nat)
    <3>1. io[i].size \in 0 .. DataSize
      BY DEF IoStates
    <3>2. Bytes(io[i].size) \in Seq(Nat)
      BY <3>1, BytesTyped
    <3>3. delivered \o Bytes(io[i].size) \in Seq(Nat) /\ kept \o Bytes(io[i].size) \in Seq(Nat)
      BY <3>2, ConcatProperties
    <3> QED BY <1>17, <3>3 DEF Deliver
  <2> QED BY <1>17, <2>1, <2>2, SMTT(30) DEF Deliver, code, network
<1>18. ASSUME NEW i \in IoThreads, Write(i) PROVE Typed'
  <2>1. io' \in [IoThreads -> IoStates]
    BY <1>18 DEF Write, IoStates
  <2>2. /\ content' \in [1 .. MaxBuffers -> Seq(Nat)] /\ faulted' \in BOOLEAN
        /\ overflowed' \in BOOLEAN
        /\ \A b \in 1 .. MaxBuffers : Len(content'[b]) <= Capacity
    <3>1. io[i].size \in 0 .. DataSize
      BY DEF IoStates
    <3>2. Bytes(io[i].size) \in Seq(Nat)
      BY <3>1, BytesTyped
    <3>3. Buffering(i) \in Seq(Nat)
      BY <3>2, ConcatProperties DEF Buffering
    <3> DEFINE new == Put(Buffering(i))
    <3>4. new \in Seq(Nat) /\ Len(new) <= Capacity
      BY <3>3, PutIs
    <3>5. content' = content \/ content' = [content EXCEPT ![buffer] = new]
      BY <1>18 DEF Write
    <3>6. faulted' \in BOOLEAN /\ overflowed' \in BOOLEAN
      <4>1. CASE io[i].buf = buffer
        BY <4>1, <1>18, Zenon DEF Write
      <4>2. CASE io[i].buf # buffer
        BY <4>2, <1>18, Zenon DEF Write
      <4> QED BY <4>1, <4>2
    <3> HIDE DEF new
    <3> QED BY <3>4, <3>5, <3>6
  <2> QED BY <1>18, <2>1, <2>2 DEF Write, network
<1>19. ASSUME NEW i \in IoThreads, ReceiveNext(i) PROVE Typed'
  <2>1. Idle \in IoStates
    BY DEF Idle, IoStates, ClientAssumption
  <2>2. io' \in [IoThreads -> IoStates]
    BY <1>19, <2>1 DEF ReceiveNext, Rearm
  <2>3. ready' \in Seq(Completions) /\ receiving' \in Nat
    BY <1>19, ReceiveTyped DEF ReceiveNext
  <2> QED BY <1>19, <2>2, <2>3, SMTT(30) DEF ReceiveNext, code, history
<1>20. ASSUME NEW i \in IoThreads, Fail(i) PROVE Typed'
  <2>1. Idle \in IoStates
    BY DEF Idle, IoStates, ClientAssumption
  <2>2. io' \in [IoThreads -> IoStates]
    BY <1>20, <2>1 DEF Fail, IoStates
  <2> QED BY <1>20, <2>2 DEF Fail, code, network
<1>21. ASSUME NEW i \in IoThreads, Lose(i) PROVE Typed'
  <2>1. Idle \in IoStates
    BY DEF Idle, IoStates, ClientAssumption
  <2>2. io' \in [IoThreads -> IoStates]
    BY <1>21, <2>1 DEF Lose
  <2>3. /\ is_connected' = FALSE /\ notified' = [notified EXCEPT ![connects] = @ + 1]
        /\ UNCHANGED <<do_buffer_data, buffer, content, data, app, reader>>
        /\ UNCHANGED <<conn, gone, receiving, ready, connects, arrived>>
        /\ UNCHANGED <<delivered, kept, taken, overflowed, faulted, overtaken, hasty>>
    BY <1>21 DEF Lose, network
  <2>4. notified' \in [Connections -> Nat]
    <3>1. CASE connects \in Connections
      <4>1. notified[connects] + 1 \in Nat
        BY <3>1
      <4> QED BY <2>3, <4>1
    <3>2. CASE connects \notin Connections
      <4>1. notified' = notified
        BY <2>3, <3>2
      <4> QED BY <4>1
    <3> QED BY <3>1, <3>2
  <2> QED BY <2>2, <2>3, <2>4
<1>22. CASE UNCHANGED vars
  BY <1>22 DEF vars, code, threads, network, history
<1> QED
  BY <1>1, <1>2, <1>3, <1>5, <1>6, <1>7, <1>8, <1>9, <1>10, <1>11, <1>12, <1>13, <1>14,
     <1>15, <1>16, <1>17, <1>18, <1>19, <1>20, <1>21, <1>22
     DEF Next, AppReturns, handle_read_data
-----------------------------------------------------------------------------
(* What a step does to the receives that are counted. *)
LEMMA LoadIs ==
  ASSUME ClientAssumption, Typed
  PROVE  Load \in Nat /\ Len(ready) \in Nat /\ Cardinality(Handling) \in Nat
         /\ Handling = Handlers(io) /\ Started \in Int
<1>1. Handling = Handlers(io)
  BY DEF Handling, Handlers
<1>2. Cardinality(Handling) \in Nat
  BY <1>1, HandlersFinite
<1>3. Len(ready) \in Nat /\ receiving \in Nat /\ connects \in Nat
  BY LenProperties DEF Typed, ClientAssumption
<1> QED BY <1>1, <1>2, <1>3 DEF Load, Started

LEMMA LoadIsAfter ==
  ASSUME ClientAssumption, Typed'
  PROVE  Load' \in Nat /\ Started' \in Int
<1>1. Handling' = Handlers(io')
  BY DEF Handling, Handlers
<1>2. Cardinality(Handling') \in Nat
  BY <1>1, HandlersFinite
<1>3. Len(ready') \in Nat /\ receiving' \in Nat /\ connects' \in Nat
  BY LenProperties DEF Typed, ClientAssumption
<1> QED BY <1>2, <1>3 DEF Load, Started

LEMMA OneReceiveMore ==
  ASSUME ClientAssumption, Typed, async_receive
  PROVE  receiving' + Len(ready') = receiving + Len(ready) + 1
<1>1. \/ ready' = Append(ready, Failed(conn)) /\ receiving' = receiving
      \/ ready' = ready /\ receiving' = receiving + 1
  BY Zenon DEF async_receive
<1>2. Failed(conn) \in Completions /\ ready \in Seq(Completions) /\ receiving \in Nat
  BY DEF Typed, Failed, Completions, ClientAssumption
<1>3. Len(Append(ready, Failed(conn))) = Len(ready) + 1 /\ Len(ready) \in Nat
  BY <1>2, AppendProperties, LenProperties
<1> QED BY <1>1, <1>2, <1>3

LEMMA ThreadSteps ==
  ASSUME ClientAssumption, Typed, Quiet, NEW i \in IoThreads, handle_read_data(i)
  PROVE  /\ Load' <= Load /\ (Lose(i) => Load' = Load - 1)
         /\ UNCHANGED <<app, connects, conn, gone, overtaken>>
<1>n. /\ Load \in Nat /\ Len(ready) \in Nat /\ Cardinality(Handling) \in Nat
      /\ receiving \in Nat /\ Handling = Handlers(io)
      /\ io \in [IoThreads -> IoStates]
  BY LoadIs DEF Typed
<1>h. Handling' = Handlers(io')
  BY DEF Handling, Handlers
<1>1. ASSUME Take(i) PROVE Load' = Load
  <2>1. io[i] = Idle /\ ready # << >>
    BY <1>1 DEF Take, Quiet
  <2>2. Len(ready') = Len(ready) - 1
    BY <1>1, <2>1, HeadTailProperties, LenProperties DEF Take, Typed
  <2> DEFINE w == [at |-> IF IsError(Head(ready)) THEN "failed" ELSE "received",
                   from |-> Head(ready).from, size |-> Head(ready).size, buf |-> 0]
  <2>3. io' = [io EXCEPT ![i] = w] /\ w # Idle
    BY <1>1 DEF Take, Idle
  <2> HIDE DEF w
  <2>4. Cardinality(Handling') = Cardinality(Handling) + 1
    BY <2>1, <2>3, <1>n, <1>h, HandlersChange
  <2>5. receiving' = receiving
    BY <1>1 DEF Take
  <2> QED BY <2>2, <2>4, <2>5, <1>n DEF Load
<1>2. ASSUME Deliver(i) \/ Write(i) PROVE Load' = Load
  <2>1. io[i] # Idle
    BY <1>2 DEF Deliver, Write, Idle
  <2>2. PICK v : v # Idle /\ io' = [io EXCEPT ![i] = v]
    <3>1. CASE Deliver(i)
      <4>1. PICK at \in {"writing", "written"} : io' = [io EXCEPT ![i].at = at, ![i].buf = buffer]
        BY <3>1 DEF Deliver
      <4> DEFINE w == [[io[i] EXCEPT !.at = at] EXCEPT !.buf = buffer]
      <4>2. io' = [io EXCEPT ![i] = w]
        BY <4>1, <1>n
      <4>3. w.at = at
        BY <4>1, <1>n DEF IoStates
      <4>4. w # Idle
        BY <4>1, <4>3 DEF Idle
      <4> QED BY <4>2, <4>4
    <3>2. CASE Write(i)
      <4> DEFINE w == [io[i] EXCEPT !.at = "written"]
      <4>1. io' = [io EXCEPT ![i] = w]
        BY <3>2, <1>n DEF Write
      <4>2. w.at = "written"
        BY <1>n DEF IoStates
      <4>3. w # Idle
        BY <4>2 DEF Idle
      <4> QED BY <4>1, <4>3
    <3> QED BY <1>2, <3>1, <3>2
  <2>3. Cardinality(Handling') = Cardinality(Handling)
    BY <2>1, <2>2, <1>n, <1>h, HandlersChange
  <2>4. UNCHANGED <<receiving, ready>>
    BY <1>2 DEF Deliver, Write, network
  <2> QED BY <2>3, <2>4, <1>n DEF Load
<1>3. ASSUME ReceiveNext(i) PROVE Load' = Load
  <2>1. io[i] # Idle /\ io' = [io EXCEPT ![i] = Idle] /\ async_receive
    BY <1>3 DEF ReceiveNext, Rearm, Idle
  <2>2. receiving' + Len(ready') = receiving + Len(ready) + 1
    BY <2>1, OneReceiveMore
  <2>3. Cardinality(Handling') = Cardinality(Handling) - 1
    BY <2>1, <1>n, <1>h, HandlersChange
  <2> QED BY <2>1, <2>2, <2>3, <1>n DEF Load
<1>4. ASSUME Fail(i) PROVE Load' <= Load /\ Load' \in Int
  <2>1. io[i] # Idle
    BY <1>4 DEF Fail, Idle
  <2>2. UNCHANGED <<receiving, ready>>
    BY <1>4 DEF Fail, network
  <2>3. CASE NoticeLoss(i)
    <3> DEFINE w == [io[i] EXCEPT !.at = "lost"]
    <3>1. io' = [io EXCEPT ![i] = w]
      BY <1>4, <2>3, <1>n DEF Fail
    <3>2. w.at = "lost"
      BY <1>n DEF IoStates
    <3>3. w # Idle
      BY <3>2 DEF Idle
    <3>4. Cardinality(Handling') = Cardinality(Handling)
      BY <3>1, <3>3, <2>1, <1>n, <1>h, HandlersChange
    <3> QED BY <3>4, <2>2, <1>n DEF Load
  <2>4. CASE ~NoticeLoss(i)
    <3>1. io' = [io EXCEPT ![i] = Idle]
      BY <1>4, <2>4 DEF Fail
    <3>2. Cardinality(Handling') = Cardinality(Handling) - 1
      BY <3>1, <2>1, <1>n, <1>h, HandlersChange
    <3> QED BY <3>2, <2>2, <1>n DEF Load
  <2> QED BY <2>3, <2>4
<1>5. ASSUME Lose(i) PROVE Load' = Load - 1
  <2>1. io[i] # Idle /\ io' = [io EXCEPT ![i] = Idle]
    BY <1>5 DEF Lose, Idle
  <2>2. UNCHANGED <<receiving, ready>>
    BY <1>5 DEF Lose, network
  <2>3. Cardinality(Handling') = Cardinality(Handling) - 1
    BY <2>1, <1>n, <1>h, HandlersChange
  <2> QED BY <2>1, <2>2, <2>3, <1>n DEF Load
<1>6. UNCHANGED <<app, connects, conn, gone, overtaken>>
  BY DEF handle_read_data, Take, Deliver, Write, ReceiveNext, Fail, Lose, network, history
<1>7. ~Lose(i) \/ ~(Take(i) \/ Deliver(i) \/ Write(i) \/ ReceiveNext(i) \/ Fail(i))
  BY DEF Take, Deliver, Write, ReceiveNext, Rearm, Fail, Lose
<1> QED BY <1>1, <1>2, <1>3, <1>4, <1>5, <1>6, <1>7, <1>n DEF handle_read_data

(* The one receive that a connect starts is all that ever adds to the load. *)
LEMMA LoadSteps ==
  ASSUME ClientAssumption, Typed, Quiet, [Next]_vars
  PROVE  \/ /\ app = "opened" /\ app' = "receiving" /\ connects' = connects
            /\ notified' = notified /\ Load' = Load + 1
         \/ Started' = Started /\ Load' <= Load
<1>n. /\ Load \in Nat /\ Len(ready) \in Nat /\ Cardinality(Handling) \in Nat
      /\ receiving \in Nat /\ connects \in Nat
  BY LoadIs DEF Typed, ClientAssumption
<1>s. UNCHANGED <<app, connects>> => Started' = Started
  BY DEF Started
<1>h. UNCHANGED io => Cardinality(Handling') = Cardinality(Handling)
  BY DEF Handling
<1>l. UNCHANGED <<io, receiving, ready>> => Load' = Load
  BY <1>h DEF Load
<1>a. ASSUME ready' = Aborted, receiving' = 0, UNCHANGED io PROVE Load' = Load
  BY <1>a, <1>h, <1>n, AbortedTyped DEF Load
<1>1. CASE Connect
  <2>1. Started' = Started /\ UNCHANGED <<io, receiving, ready>>
    BY <1>1, <1>n DEF Connect, Started
  <2> QED BY <2>1, <1>l, <1>n
<1>2. CASE ConnectReceives
  <2>1. /\ app = "opened" /\ app' = "receiving" /\ connects' = connects /\ notified' = notified
        /\ UNCHANGED io /\ async_receive
    BY <1>2 DEF ConnectReceives, history
  <2>2. receiving' + Len(ready') = receiving + Len(ready) + 1
    BY <2>1, OneReceiveMore
  <2>3. Load' = Load + 1
    BY <2>1, <2>2, <1>h, <1>n DEF Load
  <2> QED BY <2>1, <2>3
<1>3. CASE Disconnect \/ Destroy
  <2>1. UNCHANGED io /\ ready' = Aborted /\ receiving' = 0
    BY <1>3 DEF Disconnect, Destroy, Close
  <2>2. Started' = Started
    BY <1>3 DEF Disconnect, Destroy, Close, Started
  <2> QED BY <2>1, <2>2, <1>a, <1>n
<1>4. CASE PeerCloses
  <2>1. UNCHANGED <<io, app, connects>> /\ ready' = Aborted /\ receiving' = 0
    BY <1>4 DEF PeerCloses, threads, history
  <2> QED BY <2>1, <1>a, <1>s, <1>n
<1>5. ASSUME NEW n \in ReceiveSizes, Arrive(n)
      PROVE  Started' = Started /\ Load' <= Load
  <2>1. UNCHANGED <<io, app, connects>> /\ receiving' = receiving - 1
        /\ ready' = Append(ready, Received(conn, n))
    BY <1>5 DEF Arrive, threads, history
  <2>2. Len(ready') = Len(ready) + 1
    <3>1. Received(conn, n) \in Completions /\ ready \in Seq(Completions)
      BY DEF Received, Completions, Typed, ClientAssumption
    <3> QED BY <2>1, <3>1, AppendProperties
  <2>3. Load' = Load
    BY <2>1, <2>2, <1>h, <1>n DEF Load
  <2> QED BY <2>1, <2>3, <1>s, <1>n
<1>6. CASE ConnectReturns \/ DisconnectReturns \/ DestroyJoins \/ DestroyReturns
  <2>1. UNCHANGED <<io, receiving, ready>>
    BY <1>6 DEF ConnectReturns, DisconnectReturns, DestroyJoins, DestroyReturns, network, history
  <2>2. Started' = Started
    BY <1>6 DEF ConnectReturns, DisconnectReturns, DestroyJoins, DestroyReturns, network, Started
  <2> QED BY <2>1, <2>2, <1>l, <1>n
<1>7. CASE DoBufferData \/ SetBuffer \/ ReadCall \/ ReadReturns \/ UNCHANGED vars
  <2>1. UNCHANGED <<io, receiving, ready, app, connects>>
    BY <1>7 DEF DoBufferData, SetBuffer, ReadCall, ReadReturns, vars, code, threads, network, history
  <2> QED BY <2>1, <1>l, <1>s, <1>n
<1>8. CASE \E i \in IoThreads : handle_read_data(i)
  BY <1>8, <1>s, ThreadSteps
<1> QED
  BY <1>1, <1>2, <1>3, <1>4, <1>5, <1>6, <1>7, <1>8 DEF Next, AppReturns

LEMMA QuietInductive ==
  ASSUME ClientAssumption, Typed, Quiet, [Next]_vars
  PROVE  Quiet'
<1>1. CASE Connect
  <2>1. /\ conn = 0 /\ receiving = 0 /\ connects' = connects + 1 /\ app' = "opened"
        /\ UNCHANGED <<io, receiving>>
    BY <1>1 DEF Connect, MayConnect, Quiet
  <2> QED BY <2>1 DEF Quiet, Typed, ClientAssumption
<1>2. CASE ConnectReceives
  <2>1. conn = 0 \/ gone => receiving' = receiving
    BY <1>2, Zenon DEF ConnectReceives, async_receive
  <2>2. app' = "receiving" /\ UNCHANGED <<io, conn, gone, connects>>
    BY <1>2 DEF ConnectReceives
  <2> QED BY <2>1, <2>2 DEF Quiet
<1>3. CASE Disconnect \/ Destroy
  <2>1. conn' = 0 /\ receiving' = 0 /\ UNCHANGED io /\ app' # "opened"
    BY <1>3 DEF Disconnect, Destroy, Close
  <2> QED BY <2>1 DEF Quiet
<1>4. CASE PeerCloses
  BY <1>4 DEF PeerCloses, Quiet, threads
<1>5. ASSUME NEW n \in ReceiveSizes, Arrive(n) PROVE Quiet'
  <2>1. ~(conn = 0 \/ gone)
    BY <1>5 DEF Arrive, Quiet, Typed
  <2> QED BY <1>5, <2>1 DEF Arrive, Quiet, threads
<1>6. CASE ConnectReturns \/ DisconnectReturns \/ DestroyJoins \/ DestroyReturns
  BY <1>6 DEF ConnectReturns, DisconnectReturns, DestroyJoins, DestroyReturns, network, Quiet
<1>7. CASE DoBufferData \/ SetBuffer \/ ReadCall \/ ReadReturns \/ UNCHANGED vars
  BY <1>7 DEF DoBufferData, SetBuffer, ReadCall, ReadReturns, vars, code, threads, network, Quiet
<1>8. ASSUME NEW i \in IoThreads, handle_read_data(i) PROVE Quiet'
  <2>1. UNCHANGED <<app, connects, conn, gone>>
    BY <1>8, ThreadSteps
  <2>2. conn = 0 \/ gone => receiving' = receiving
    <3>1. CASE ReceiveNext(i)
      BY <3>1, Zenon DEF ReceiveNext, async_receive
    <3> QED BY <1>8, <3>1 DEF handle_read_data, Take, Deliver, Write, Fail, Lose, network
  <2>3. ASSUME NEW j \in IoThreads, io'[j].at = "idle" PROVE io'[j] = Idle
    <3>1. io \in [IoThreads -> IoStates] /\ (io[j].at = "idle" => io[j] = Idle)
      BY DEF Typed, Quiet
    <3>2. CASE j # i
      <4>1. io'[j] = io[j]
        BY <1>8, <3>1, <3>2 DEF handle_read_data, Take, Deliver, Write, ReceiveNext, Rearm, Fail, Lose
      <4> QED BY <4>1, <3>1, <2>3
    <3>3. CASE j = i
      <4>1. io'[i] = Idle \/ io'[i].at # "idle"
        BY <1>8, <3>1 DEF handle_read_data, Take, Deliver, Write, ReceiveNext, Rearm, Fail, Lose, IoStates
      <4> QED BY <4>1, <3>3, <2>3
    <3> QED BY <3>2, <3>3
  <2> QED BY <2>1, <2>2, <2>3 DEF Quiet
<1> QED
  BY <1>1, <1>2, <1>3, <1>4, <1>5, <1>6, <1>7, <1>8 DEF Next, AppReturns

(* An error is about only while there is no peer to receive from. *)
LEMMA FailingSteps ==
  ASSUME ClientAssumption, Typed, Quiet, [Next]_vars, ~overtaken',
         Failing => conn = 0 \/ gone
  PROVE  Failing' => conn' = 0 \/ gone'
<1>n. ready \in Seq(Completions) /\ Len(ready) \in Nat /\ io \in [IoThreads -> IoStates]
  BY LenProperties DEF Typed
<1>u. UNCHANGED <<ready, io>> => Failing' = Failing
  BY DEF Failing
<1>r. ASSUME async_receive, \A i \in IoThreads : io'[i].at \in {"failed", "lost"} => io'[i] = io[i],
             UNCHANGED <<conn, gone>>
      PROVE  Failing' => conn' = 0 \/ gone'
  <2>1. CASE conn = 0 \/ gone
    BY <2>1, <1>r
  <2>2. CASE ~(conn = 0 \/ gone)
    <3>1. ready' = ready
      BY <1>r, <2>2, Zenon DEF async_receive
    <3>2. Failing' => Failing
      BY <3>1, <1>r DEF Failing
    <3> QED BY <3>2, <2>2
  <2> QED BY <2>1, <2>2
<1>1. CASE Connect
  <2>1. NoHandler
    BY <1>1, Zenon DEF Connect
  <2>2. ready' = << >> /\ \A i \in IoThreads : io'[i] = Idle
    BY <1>1, <2>1 DEF Connect, NoHandler
  <2> QED BY <2>2 DEF Failing, Idle
<1>2. CASE ConnectReceives
  BY <1>2, <1>r DEF ConnectReceives
<1>3. CASE Disconnect \/ Destroy \/ PeerCloses
  BY <1>3 DEF Disconnect, Destroy, Close, PeerCloses
<1>5. ASSUME NEW n \in ReceiveSizes, Arrive(n) PROVE Failing' => conn' = 0 \/ gone'
  <2>1. ready' = Append(ready, Received(conn, n)) /\ UNCHANGED <<io, conn, gone>>
    BY <1>5 DEF Arrive, threads
  <2>2. Received(conn, n) \in Completions /\ Received(conn, n).error = FALSE
    BY DEF Received, Completions, Typed, ClientAssumption
  <2>3. ASSUME NEW k \in 1 .. Len(ready'), ready'[k].error PROVE Failing
    <3>1. Len(ready') = Len(ready) + 1
      BY <2>1, <2>2, <1>n, AppendProperties
    <3>2. CASE k \in 1 .. Len(ready)
      <4>1. ready'[k] = ready[k]
        BY <2>1, <2>2, <3>2, <1>n, AppendProperties
      <4> QED BY <4>1, <3>2, <2>3 DEF Failing
    <3>3. CASE k = Len(ready) + 1
      <4>1. ready'[k] = Received(conn, n)
        BY <2>1, <2>2, <3>3, <1>n, AppendProperties
      <4> QED BY <4>1, <2>2, <2>3
    <3> QED BY <3>1, <3>2, <3>3, <1>n
  <2> QED BY <2>1, <2>3 DEF Failing
<1>6. CASE ConnectReturns \/ DisconnectReturns \/ DestroyJoins \/ DestroyReturns
  <2>1. UNCHANGED <<ready, io, conn, gone>>
    BY <1>6 DEF ConnectReturns, DisconnectReturns, DestroyJoins, DestroyReturns, network
  <2> QED BY <2>1, <1>u
<1>7. CASE DoBufferData \/ SetBuffer \/ ReadCall \/ ReadReturns \/ UNCHANGED vars
  <2>1. UNCHANGED <<ready, io, conn, gone>>
    BY <1>7 DEF DoBufferData, SetBuffer, ReadCall, ReadReturns, vars, code, threads, network
  <2> QED BY <2>1, <1>u
<1>8. ASSUME NEW i \in IoThreads, handle_read_data(i)
      PROVE  Failing' => conn' = 0 \/ gone'
  <2>1. UNCHANGED <<conn, gone>>
    BY <1>8, ThreadSteps
  <2>2. CASE Take(i)
    <3>1. ready # << >> /\ ready' = Tail(ready)
      BY <2>2 DEF Take
    <3>2. /\ Len(ready') = Len(ready) - 1
          /\ \A k \in 1 .. Len(ready') : ready'[k] = ready[k + 1]
      BY <3>1, <1>n, HeadTailProperties
    <3>3. ASSUME NEW k \in 1 .. Len(ready'), ready'[k].error PROVE Failing
      <4>1. k + 1 \in 1 .. Len(ready) /\ ready'[k] = ready[k + 1]
        BY <3>2, <1>n
      <4> QED BY <4>1, <3>3 DEF Failing
    <3>4. ASSUME NEW j \in IoThreads, io'[j].at \in {"failed", "lost"} PROVE Failing
      <4>1. CASE j # i
        <5>1. io'[j] = io[j]
          BY <4>1, <2>2, <1>n DEF Take
        <5> QED BY <5>1, <3>4 DEF Failing
      <4>2. CASE j = i
        <5>1. io'[i].at = IF IsError(Head(ready)) THEN "failed" ELSE "received"
          BY <2>2, <1>n DEF Take
        <5>2. Head(ready).error
          BY <5>1, <4>2, <3>4 DEF IsError
        <5>3. Head(ready) = ready[1] /\ 1 \in 1 .. Len(ready)
          BY <3>1, <1>n
        <5> QED BY <5>2, <5>3 DEF Failing
      <4> QED BY <4>1, <4>2
    <3> QED BY <2>1, <3>3, <3>4 DEF Failing
  <2>3. CASE ReceiveNext(i)
    <3>1. \A j \in IoThreads : io'[j].at \in {"failed", "lost"} => io'[j] = io[j]
      BY <2>3, <1>n DEF ReceiveNext, Rearm, Idle
    <3> QED BY <2>3, <3>1, <2>1, <1>r DEF ReceiveNext
  <2>4. CASE Deliver(i) \/ Write(i) \/ Fail(i) \/ Lose(i)
    <3>1. ready' = ready
      BY <2>4 DEF Deliver, Write, Fail, Lose, network
    <3>2. \A j \in IoThreads : io'[j].at \in {"failed", "lost"} => io[j].at \in {"failed", "lost"}
      <4> SUFFICES ASSUME NEW j \in IoThreads, io'[j].at \in {"failed", "lost"}
                   PROVE  io[j].at \in {"failed", "lost"}
        OBVIOUS
      <4>1. CASE j # i
        BY <4>1, <2>4, <1>n DEF Deliver, Write, Fail, Lose
      <4>2. CASE j = i
        BY <4>2, <2>4, <1>n DEF Deliver, Write, Fail, Lose, Idle, IoStates
      <4> QED BY <4>1, <4>2
    <3> QED BY <3>1, <3>2, <2>1 DEF Failing
  <2> QED BY <1>8, <2>2, <2>3, <2>4 DEF handle_read_data
<1> QED
  BY <1>1, <1>2, <1>3, <1>5, <1>6, <1>7, <1>8 DEF Next, AppReturns

(* A step that leaves no completion overtaken leaves one receive at most. *)
LEMMA OneAtATimeInductive ==
  ASSUME ClientAssumption, Typed, Quiet, Quiet', Typed', OneAtATime, [Next]_vars, ~overtaken'
  PROVE  OneAtATime'
<1>1. Load \in Nat /\ Load' \in Nat
  BY LoadIs, LoadIsAfter
<1>2. Load' <= 1
  BY <1>1, LoadSteps DEF OneAtATime
<1>3. ASSUME app' = "opened" PROVE Load' = 0
  <2>1. CASE Connect
    <3>1. NoHandler /\ receiving = 0 /\ UNCHANGED <<io, receiving, ready>>
      BY <2>1, Zenon DEF Connect, MayConnect, Quiet
    <3>2. ready = << >> /\ Handling = {}
      BY <3>1 DEF NoHandler, Handling
    <3>3. Load = 0
      BY <3>1, <3>2, FS_EmptySet, EmptySeq DEF Load
    <3>4. Load' = Load
      BY <3>1 DEF Load, Handling
    <3> QED BY <3>3, <3>4
  <2>2. CASE ~Connect
    <3>1. app = "opened"
      BY <1>3, <2>2 DEF Next, AppReturns, handle_read_data, Take, Deliver, Write, ReceiveNext, Fail,
         Lose, Disconnect, Destroy, ConnectReceives, ConnectReturns, DisconnectReturns, DestroyJoins,
         DestroyReturns, DoBufferData, SetBuffer, ReadCall, ReadReturns, Arrive, PeerCloses, vars,
         threads
    <3>2. Load = 0
      BY <3>1 DEF OneAtATime
    <3> QED BY <3>2, <1>1, <1>3, LoadSteps
  <2> QED BY <2>1, <2>2
<1>4. Failing' => conn' = 0 \/ gone'
  BY FailingSteps DEF OneAtATime
<1> QED BY <1>2, <1>3, <1>4 DEF OneAtATime
-----------------------------------------------------------------------------
(* The receive in data_ is the only one under way.                         *)
LEMMA Alone ==
  ASSUME ClientAssumption, Typed, OneAtATime, NEW i \in IoThreads, io[i] # Idle
  PROVE  /\ ready = << >> /\ receiving = 0
         /\ \A j \in IoThreads : j # i => io[j] = Idle
<1>1. /\ Load \in Nat /\ Len(ready) \in Nat /\ Cardinality(Handling) \in Nat
      /\ receiving \in Nat /\ ready \in Seq(Completions) /\ Handling = Handlers(io)
  BY LoadIs DEF Typed
<1>2. IsFiniteSet(Handling) /\ i \in Handling
  BY <1>1, HandlersFinite DEF Handlers
<1>3. Cardinality(Handling) # 0
  BY <1>2, FS_EmptySet
<1>4. Cardinality(Handling) = 1 /\ Len(ready) = 0 /\ receiving = 0
  BY <1>1, <1>3 DEF Load, OneAtATime
<1>5. ready = << >>
  BY <1>1, <1>4, EmptySeq
<1>6. PICK x : Handling = {x}
  BY <1>2, <1>4, FS_Singleton
<1>7. \A j \in IoThreads : j # i => io[j] = Idle
  BY <1>2, <1>6 DEF Handling
<1> QED BY <1>4, <1>5, <1>7

LEMMA NoneHandled ==
  ASSUME ClientAssumption, Typed, OneAtATime, receiving > 0 \/ ready # << >>
  PROVE  /\ \A i \in IoThreads : io[i] = Idle
         /\ receiving + Len(ready) = 1
<1>1. /\ Load \in Nat /\ Len(ready) \in Nat /\ Cardinality(Handling) \in Nat
      /\ receiving \in Nat /\ ready \in Seq(Completions) /\ Handling = Handlers(io)
  BY LoadIs DEF Typed
<1>2. receiving + Len(ready) >= 1
  BY <1>1, EmptySeq
<1>3. Cardinality(Handling) = 0 /\ receiving + Len(ready) = 1
  BY <1>1, <1>2 DEF Load, OneAtATime
<1>4. IsFiniteSet(Handling)
  BY <1>1, HandlersFinite
<1>5. Handling = {}
  BY <1>3, <1>4, FS_EmptySet
<1> QED BY <1>3, <1>5 DEF Handling

(* Errors leave the bytes that were received alone. *)
LEMMA AppendSizes ==
  ASSUME NEW q \in Seq(Completions), NEW d \in Completions
  PROVE  Sizes(Append(q, d)) = Sizes(q) \cup (IF d.error THEN {} ELSE {d.size})
<1> DEFINE r == Append(q, d)
           n == Len(q)
<1>1. /\ n \in Nat /\ Len(r) = n + 1
      /\ \A k \in 1 .. n : r[k] = q[k]
      /\ r[n + 1] = d
  BY LenProperties, AppendProperties
<1> HIDE DEF r, n
<1>2. 1 .. n + 1 = (1 .. n) \cup {n + 1} /\ n + 1 \notin 1 .. n
  BY <1>1
<1>3. {j \in 1 .. Len(r) : ~r[j].error}
        = {j \in 1 .. n : ~q[j].error} \cup (IF d.error THEN {} ELSE {n + 1})
  BY <1>1, <1>2
<1>4. Sizes(r) = {r[k].size : k \in {j \in 1 .. n : ~q[j].error}}
                   \cup (IF d.error THEN {} ELSE {d.size})
  <2>1. CASE d.error
    BY <2>1, <1>3 DEF Sizes
  <2>2. CASE ~d.error
    BY <2>2, <1>1, <1>3 DEF Sizes
  <2> QED BY <2>1, <2>2
<1>5. {r[k].size : k \in {j \in 1 .. n : ~q[j].error}} = Sizes(q)
  BY <1>1 DEF Sizes, n
<1> QED BY <1>4, <1>5 DEF r

LEMMA AbortedSizes ==
  ASSUME ClientAssumption, Typed
  PROVE  Sizes(Aborted) = Sizes(ready)
<1> DEFINE n == Len(ready)
           t == [k \in 1 .. receiving |-> Failed(conn)]
<1>1. ready \in Seq(Completions) /\ receiving \in Nat /\ n \in Nat
  BY LenProperties DEF Typed
<1>2. Failed(conn) \in Completions /\ Failed(conn).error = TRUE
  BY DEF Failed, Completions, Typed, ClientAssumption
<1>3. t \in [1 .. receiving -> Completions] /\ \A k \in 1 .. receiving : t[k] = Failed(conn)
  BY <1>2
<1>4. Aborted = ready \o t
  BY DEF Aborted
<1> HIDE DEF t
<1>5. t \in Seq(Completions) /\ Len(t) = receiving
  BY <1>1, <1>3, SeqDef, LenProperties
<1>6. /\ Len(Aborted) = n + receiving
      /\ \A k \in 1 .. n + receiving :
           Aborted[k] = IF k <= n THEN ready[k] ELSE t[k - n]
  BY <1>1, <1>4, <1>5, ConcatProperties
<1> HIDE DEF n
<1>7. ASSUME NEW k \in 1 .. Len(Aborted), ~Aborted[k].error
      PROVE  k \in 1 .. n /\ Aborted[k] = ready[k]
  <2>1. CASE k <= n
    BY <2>1, <1>1, <1>6
  <2>2. CASE ~(k <= n)
    <3>1. k - n \in 1 .. receiving /\ Aborted[k] = t[k - n]
      BY <2>2, <1>1, <1>6
    <3> QED BY <3>1, <1>2, <1>3, <1>7
  <2> QED BY <2>1, <2>2
<1>8. \A k \in 1 .. n : k \in 1 .. Len(Aborted) /\ Aborted[k] = ready[k]
  BY <1>1, <1>6
<1>9. {j \in 1 .. Len(Aborted) : ~Aborted[j].error} = {j \in 1 .. n : ~ready[j].error}
  BY <1>7, <1>8
<1> QED BY <1>8, <1>9 DEF Sizes, n

LEMMA ReceiveSizesSame ==
  ASSUME ClientAssumption, Typed, async_receive
  PROVE  Sizes(ready') = Sizes(ready)
<1>1. Failed(conn) \in Completions /\ Failed(conn).error = TRUE /\ ready \in Seq(Completions)
  BY DEF Typed, Failed, Completions, ClientAssumption
<1>2. ready' = Append(ready, Failed(conn)) \/ ready' = ready
  BY Zenon DEF async_receive
<1>3. Sizes(Append(ready, Failed(conn))) = Sizes(ready)
  BY <1>1, AppendSizes
<1> QED BY <1>2, <1>3

LEMMA NoSizes ==
  ASSUME NEW q, q = << >>
  PROVE  Sizes(q) = {}
<1>1. Len(q) = 0
  BY EmptySeq
<1> QED BY <1>1 DEF Sizes

LEMMA PendingFrame ==
  ASSUME Sizes(ready') = Sizes(ready),
         \A i \in IoThreads : /\ io'[i].at = "received" <=> io[i].at = "received"
                              /\ io'[i].at = "received" => io'[i].size = io[i].size
  PROVE  Pending' = Pending
<1>1. {j \in IoThreads : io'[j].at = "received"} = {j \in IoThreads : io[j].at = "received"}
  OBVIOUS
<1>2. {io'[i].size : i \in {j \in IoThreads : io'[j].at = "received"}}
        = {io[i].size : i \in {j \in IoThreads : io[j].at = "received"}}
  BY <1>1
<1> QED BY <1>2 DEF Pending

LEMMA UnwrittenFrame ==
  ASSUME UNCHANGED data,
         \A i \in IoThreads : /\ io'[i].at = "writing" <=> io[i].at = "writing"
                              /\ io'[i].at = "writing" => io'[i].size = io[i].size
  PROVE  Unwritten' = Unwritten
<1>1. Writing' = Writing
  BY DEF Writing
<1>2. CASE Writing = {}
  BY <1>1, <1>2 DEF Unwritten
<1>3. CASE Writing # {}
  <2> DEFINE i == CHOOSE n \in Writing : TRUE
             j == CHOOSE n \in Writing' : TRUE
  <2>1. i \in Writing
    BY <1>3
  <2>2. j = i
    BY <1>1
  <2>3. Unwritten = [k \in 1 .. io[i].size |-> data[k]]
    BY <1>3 DEF Unwritten, Bytes
  <2>4. Unwritten' = [k \in 1 .. io'[j].size |-> data'[k]]
    BY <1>1, <1>3, Zenon DEF Unwritten, Bytes
  <2> HIDE DEF i, j
  <2>5. io'[i].size = io[i].size
    BY <2>1 DEF Writing
  <2> QED BY <2>2, <2>3, <2>4, <2>5
<1> QED BY <1>2, <1>3

(* The stream is as it was if no step of it has been taken. *)
LEMMA IntactKept ==
  ASSUME Intact,
         UNCHANGED <<data, arrived, delivered, kept, taken, overflowed, buffer, content, faulted>>,
         reader' \in {reader, 0, buffer}, Pending' = Pending, Unwritten' = Unwritten,
         \A i \in IoThreads : io'[i].at = "writing" =>
           io[i].at = "writing" /\ io'[i].buf = io[i].buf
  PROVE  Intact'
<1>1. Buffered' = Buffered
  BY DEF Buffered
<1>2. \A n \in Pending : Fresh(n)'
  BY DEF Intact, Fresh
<1>3. buffer' = 1 => /\ ~faulted' /\ reader' \in {0, 1}
                     /\ \A i \in IoThreads : io'[i].at = "writing" => io'[i].buf = 1
  BY DEF Intact
<1> QED BY <1>1, <1>2, <1>3 DEF Intact

LEMMA IntactFrame ==
  ASSUME Intact,
         UNCHANGED <<data, arrived, delivered, kept, taken, overflowed, buffer, content, faulted>>,
         reader' \in {reader, 0, buffer},
         Sizes(ready') = Sizes(ready),
         \A i \in IoThreads : io'[i].at \in {"received", "writing"} \/ io[i].at \in {"received", "writing"} =>
           io'[i] = io[i]
  PROVE  Intact'
<1>1. Unwritten' = Unwritten
  BY UnwrittenFrame
<1>2. Pending' = Pending
  BY PendingFrame
<1> QED BY <1>1, <1>2, IntactKept

LEMMA UnwrittenTyped ==
  ASSUME ClientAssumption, Typed
  PROVE  Unwritten \in Seq(Nat)
<1>1. CASE Writing = {}
  BY <1>1 DEF Unwritten
<1>2. CASE Writing # {}
  <2> DEFINE i == CHOOSE i \in Writing : TRUE
  <2>1. i \in IoThreads
    BY <1>2 DEF Writing
  <2>2. io[i].size \in 0 .. DataSize
    BY <2>1 DEF Typed, IoStates
  <2>3. Unwritten = Bytes(io[i].size)
    BY <1>2 DEF Unwritten
  <2> HIDE DEF i
  <2> QED BY <2>2, <2>3, BytesTyped
<1> QED BY <1>1, <1>2

(* What is read leaves the buffer for the application. *)
LEMMA ReadIntact ==
  ASSUME ClientAssumption, Typed, Intact, ReadReturns
  PROVE  Intact'
<1>1. /\ UNCHANGED <<data, arrived, delivered, kept, overflowed, buffer, io, ready>>
      /\ reader' = 0
  BY DEF ReadReturns, network
<1>2. Pending' = Pending /\ Unwritten' = Unwritten
  BY <1>1, PendingFrame, UnwrittenFrame
<1>3. \A n \in Pending : Fresh(n)'
  BY <1>1 DEF Intact, Fresh
<1>4. ASSUME buffer = 1
      PROVE  /\ faulted' = faulted
             /\ Drawn(Len(taken'), taken', Len(Buffered'), Buffered',
                      Len(kept), kept, Len(delivered), overflowed)
  <2>1. reader = buffer
    BY <1>4 DEF Intact, ReadReturns
  <2> DEFINE c == content[1]
             u == Unwritten
  <2>2. PICK n \in 0 .. Len(c) :
          /\ taken' = taken \o SubSeq(c, 1, n)
          /\ content' = [content EXCEPT ![1] = SubSeq(c, n + 1, Len(c))]
    BY <2>1, <1>4 DEF ReadReturns
  <2>3. faulted' = faulted
    BY <2>1 DEF ReadReturns
  <2>4. c \in Seq(Nat) /\ u \in Seq(Nat) /\ taken \in Seq(Nat) /\ kept \in Seq(Nat)
        /\ content \in [1 .. MaxBuffers -> Seq(Nat)] /\ 1 \in 1 .. MaxBuffers
    BY UnwrittenTyped, SMTT(30) DEF Typed, ClientAssumption
  <2> DEFINE first == SubSeq(c, 1, n)
             rest == SubSeq(c, n + 1, Len(c))
             C == Len(c)
             U == Len(u)
             t == Len(taken)
             B == c \o u
             R == rest \o u
             T == taken \o first
  <2>b. Buffered = B /\ Buffered' = R /\ taken' = T
    BY <1>1, <1>2, <1>4, <2>2, <2>4 DEF Buffered
  <2>5. /\ first \in Seq(Nat) /\ Len(first) = n /\ \A k \in 1 .. n : first[k] = c[k]
        /\ rest \in Seq(Nat) /\ Len(rest) = C - n /\ \A k \in 1 .. C - n : rest[k] = c[n + k]
    BY <2>2, <2>4, SplitIs
  <2>6. /\ C \in Nat /\ U \in Nat /\ t \in Nat /\ n \in 0 .. C
        /\ u \in [1 .. U -> Nat]
    BY <2>2, <2>4, LenProperties
  <2>7. /\ B \in Seq(Nat) /\ Len(B) = C + U
        /\ \A k \in 1 .. C + U : B[k] = IF k <= C THEN c[k] ELSE u[k - C]
    BY <2>4, ConcatProperties
  <2> HIDE DEF c, u, first, rest, C, t
  <2>8. /\ R \in Seq(Nat) /\ Len(R) = (C - n) + U
        /\ \A k \in 1 .. (C - n) + U : R[k] = IF k <= C - n THEN rest[k] ELSE u[k - (C - n)]
    <3>1. /\ R \in Seq(Nat) /\ Len(R) = Len(rest) + Len(u)
          /\ \A k \in 1 .. Len(rest) + Len(u) :
               R[k] = IF k <= Len(rest) THEN rest[k] ELSE u[k - Len(rest)]
      BY <2>4, <2>5, ConcatProperties, ZenonT(30)
    <3>2. Len(rest) = C - n /\ Len(u) = U
      BY <2>5
    <3> HIDE DEF R, U
    <3> QED BY <3>1, <3>2, Zenon
  <2>9. /\ T \in Seq(Nat) /\ Len(T) = t + n
        /\ \A k \in 1 .. t + n : T[k] = IF k <= t THEN taken[k] ELSE first[k - t]
    BY <2>4, <2>5, ConcatProperties, ZenonT(30) DEF t
  <2> DEFINE b == Len(B)
  <2>l. b = C + U
    BY <2>7
  <2> HIDE DEF U, B, R, T, b
  <2>10. n \in Nat /\ n <= b /\ b \in Nat
    BY <2>6, <2>l
  <2>11. Len(R) = b - n /\ Len(T) = t + n
    BY <2>6, <2>8, <2>9, <2>l
  <2>12. ASSUME NEW k \in 1 .. b - n PROVE R[k] = B[n + k]
    <3>1. CASE k <= C - n
      <4> DEFINE q == n + k
      <4>1. R[k] = rest[k] /\ rest[k] = c[q] /\ q \in 1 .. C + U /\ q <= C
        BY <3>1, <2>5, <2>6, <2>8, <2>l
      <4> HIDE DEF q
      <4>2. B[q] = c[q]
        BY <4>1, <2>7
      <4>3. B[q] = R[k]
        BY <4>1, <4>2, Zenon
      <4> QED BY <4>3 DEF q
    <3>2. CASE ~(k <= C - n)
      <4> DEFINE q == n + k
      <4>1. /\ R[k] = u[k - (C - n)] /\ q \in 1 .. C + U /\ ~(q <= C)
            /\ q - C = k - (C - n)
        BY <3>2, <2>6, <2>8, <2>l
      <4> HIDE DEF q
      <4>2. B[q] = u[q - C]
        BY <4>1, <2>7
      <4>3. B[q] = R[k]
        BY <4>1, <4>2, Zenon
      <4> QED BY <4>3 DEF q
    <3> QED BY <3>1, <3>2
  <2>13. ASSUME NEW k \in 1 .. t + n PROVE T[k] = IF k <= t THEN taken[k] ELSE B[k - t]
    <3>1. CASE k <= t
      BY <3>1, <2>9
    <3>2. CASE ~(k <= t)
      <4> DEFINE x == k - t
      <4>1. x \in 1 .. n /\ x \in 1 .. C + U /\ x <= C
        BY <3>2, <2>6
      <4>2. T[k] = first[x]
        BY <3>2, <2>9
      <4> HIDE DEF x
      <4>3. first[x] = c[x] /\ B[x] = c[x]
        BY <4>1, <2>5, <2>7
      <4> QED BY <4>2, <4>3, <3>2 DEF x
    <3> QED BY <3>1, <3>2
  <2>14. /\ taken \in [1 .. t -> Nat] /\ B \in [1 .. b -> Nat] /\ kept \in [1 .. Len(kept) -> Nat]
         /\ Len(kept) \in Nat /\ T \in [1 .. t + n -> Nat] /\ R \in [1 .. b - n -> Nat]
    <3>1. /\ taken \in [1 .. Len(taken) -> Nat] /\ B \in [1 .. Len(B) -> Nat]
          /\ kept \in [1 .. Len(kept) -> Nat] /\ Len(kept) \in Nat
          /\ T \in [1 .. Len(T) -> Nat] /\ R \in [1 .. Len(R) -> Nat]
      BY <2>4, <2>7, <2>8, <2>9, LenProperties
    <3> QED BY <3>1, <2>11, Zenon DEF t, b
  <2>15. Drawn(t, taken, b, B, Len(kept), kept, Len(delivered), overflowed)
    <3>1. Drawn(Len(taken), taken, Len(Buffered), Buffered, Len(kept), kept, Len(delivered), overflowed)
      BY <1>4 DEF Intact
    <3> QED BY <3>1, <2>b, Zenon DEF t, b
  <2> DEFINE m == Len(kept)
             d == Len(delivered)
  <2> HIDE DEF m, d
  <2>16. /\ Drawn(t, taken, b, B, m, kept, d, overflowed)
         /\ kept \in [1 .. m -> Nat] /\ m \in Nat
    BY <2>14, <2>15 DEF m, d
  <2>17. Drawn(t + n, T, b - n, R, m, kept, d, overflowed)
    BY <2>6, <2>10, <2>12, <2>13, <2>14, <2>16, DrawnRead, ZenonT(30)
  <2> QED BY <2>3, <2>11, <2>17, <2>b, Zenon DEF m, d
<1>5. buffer' = 1 => reader' \in {0, 1} /\ ~faulted'
                     /\ \A i \in IoThreads : io'[i].at = "writing" => io'[i].buf = 1
  BY <1>1, <1>4 DEF Intact
<1> QED BY <1>1, <1>2, <1>3, <1>4, <1>5 DEF Intact

LEMMA JoinIs ==
  ASSUME NEW s \in Seq(Nat), NEW u \in Seq(Nat), NEW n, Len(u) = n
  PROVE  /\ s \o u \in Seq(Nat) /\ Len(s \o u) = Len(s) + n
         /\ \A k \in 1 .. Len(s) + n : (s \o u)[k] = IF k <= Len(s) THEN s[k] ELSE u[k - Len(s)]
BY ConcatProperties

(* The slots see the bytes that are at the beginning of data_. *)
LEMMA DeliverIntact ==
  ASSUME ClientAssumption, Typed, OneAtATime, Intact, NEW i \in IoThreads, Deliver(i)
  PROVE  Intact'
<1> DEFINE z == io[i].size
           X == Bytes(z)
           d == Len(delivered)
<1>at. io[i].at = "received"
  BY DEF Deliver
<1>io. io \in [IoThreads -> IoStates]
  BY DEF Typed
<1>1. io[i] # Idle /\ z \in 0 .. DataSize
  BY <1>at, <1>io DEF Idle, IoStates
<1>2. ready = << >> /\ \A j \in IoThreads : j # i => io[j] = Idle
  BY <1>1, Alone
<1>3. /\ UNCHANGED <<data, arrived, taken, overflowed, buffer, content, faulted, reader, ready>>
      /\ delivered' = delivered \o X
  BY DEF Deliver, code, network
<1>4. PICK at \in {"writing", "written"} :
        /\ io' = [io EXCEPT ![i].at = at, ![i].buf = buffer]
        /\ kept' = IF at = "writing" THEN kept \o X ELSE kept
  BY DEF Deliver
<1>5. /\ io'[i].at = at /\ io'[i].buf = buffer /\ io'[i].size = z
      /\ \A j \in IoThreads : j # i => io'[j] = Idle
  BY <1>io, <1>2, <1>4 DEF IoStates
<1>6. Pending = {z} /\ Pending' = {}
  <2>1. Sizes(ready) = {} /\ Sizes(ready') = {}
    BY <1>2, <1>3, NoSizes
  <2>2. {j \in IoThreads : io[j].at = "received"} = {i}
    BY <1>at, <1>2 DEF Idle
  <2>3. {j \in IoThreads : io'[j].at = "received"} = {}
    BY <1>5 DEF Idle
  <2> QED BY <2>1, <2>2, <2>3 DEF Pending
<1>7. Unwritten = << >> /\ Unwritten' = IF at = "writing" THEN X ELSE << >>
  <2>1. Writing = {} /\ Writing' = IF at = "writing" THEN {i} ELSE {}
    BY <1>at, <1>2, <1>5 DEF Writing, Idle
  <2>2. CASE at = "writing"
    <3> DEFINE j == CHOOSE j \in Writing' : TRUE
    <3>1. j = i /\ Writing' # {}
      BY <2>1, <2>2
    <3>2. Unwritten' = [k \in 1 .. io'[j].size |-> data'[k]]
      BY <3>1, Zenon DEF Unwritten, Bytes
    <3> HIDE DEF j
    <3>3. Unwritten' = X
      BY <3>1, <3>2, <1>3, <1>5 DEF Bytes
    <3> QED BY <2>1, <2>2, <3>3 DEF Unwritten
  <2>3. CASE at = "written"
    BY <2>1, <2>3 DEF Unwritten
  <2> QED BY <1>4, <2>2, <2>3
<1>8. /\ delivered \in Seq(Nat) /\ kept \in Seq(Nat) /\ taken \in Seq(Nat) /\ d \in Nat /\ z \in Nat
      /\ X \in Seq(Nat) /\ Len(X) = z /\ \A k \in 1 .. z : X[k] = data[k]
  <2>1. delivered \in Seq(Nat) /\ kept \in Seq(Nat) /\ taken \in Seq(Nat) /\ d \in Nat
    BY LenProperties DEF Typed
  <2>2. z \in Nat
    BY <1>1 DEF ClientAssumption
  <2>3. X \in Seq(Nat) /\ Len(X) = z /\ \A k \in 1 .. z : X[k] = data[k]
    BY <1>1, BytesTyped
  <2> QED BY <2>1, <2>2, <2>3
<1> HIDE DEF X
<1>9. arrived = d + z /\ \A k \in 1 .. z : X[k] = d + k
  BY <1>6, <1>8 DEF Intact, Fresh
<1>10. Len(delivered') = d + z /\ \A k \in 1 .. d + z : delivered'[k] = k
  <2>1. /\ Len(delivered') = d + z
        /\ \A k \in 1 .. d + z : delivered'[k] = IF k <= d THEN delivered[k] ELSE X[k - d]
    BY <1>3, <1>8, ConcatProperties, SMTT(30)
  <2>2. \A k \in 1 .. d : delivered[k] = k
    BY DEF Intact
  <2> HIDE DEF d
  <2>3. ASSUME NEW k \in 1 .. d + z PROVE delivered'[k] = k
    <3>1. CASE k <= d
      BY <3>1, <2>1, <2>2, <1>8, SMTT(30)
    <3>2. CASE ~(k <= d)
      <4> DEFINE q == k - d
      <4>1. q \in 1 .. z /\ delivered'[k] = X[q] /\ d + q = k
        BY <3>2, <2>1, <1>8
      <4> HIDE DEF q
      <4> QED BY <4>1, <1>9
    <3> QED BY <3>1, <3>2
  <2> QED BY <2>1, <2>3
<1>11. ASSUME buffer = 1
       PROVE  Drawn(Len(taken), taken, Len(Buffered'), Buffered', Len(kept'), kept', d + z, overflowed)
  <2> DEFINE c == content[1]
             b == Len(c)
             t == Len(taken)
             m == Len(kept)
  <2>1. c \in Seq(Nat) /\ c \o << >> = c
    <3>1. c \in Seq(Nat)
      BY <1>11 DEF Typed
    <3> QED BY <3>1, ConcatEmptySeq
  <2>2. Buffered = c /\ Buffered' = c \o (IF at = "writing" THEN X ELSE << >>)
    BY <2>1, <1>3, <1>7, <1>11 DEF Buffered
  <2>3. /\ b \in Nat /\ c \in [1 .. b -> Nat] /\ t \in Nat /\ taken \in [1 .. t -> Nat]
        /\ m \in Nat /\ kept \in [1 .. m -> Nat]
    BY <2>1, <1>8, LenProperties
  <2>4. Drawn(t, taken, b, c, m, kept, d, overflowed)
    BY <2>2, <1>11 DEF Intact
  <2>5. CASE at = "writing"
    <3> DEFINE B2 == c \o X
               K2 == kept \o X
    <3>0. /\ c \in Seq(Nat) /\ kept \in Seq(Nat) /\ X \in Seq(Nat) /\ Len(X) = z
      BY <2>1, <1>8
    <3> HIDE DEF c, z
    <3>1. /\ B2 \in Seq(Nat) /\ Len(B2) = b + z
          /\ \A k \in 1 .. b + z : B2[k] = IF k <= b THEN c[k] ELSE X[k - b]
      BY <3>0, JoinIs
    <3>2. /\ K2 \in Seq(Nat) /\ Len(K2) = m + z
          /\ \A k \in 1 .. m + z : K2[k] = IF k <= m THEN kept[k] ELSE X[k - m]
      BY <3>0, JoinIs
    <3>3. Buffered' = B2 /\ kept' = K2
      BY <2>2, <2>5, <1>4
    <3> HIDE DEF B2, K2, b, m, t, c, d
    <3>4. B2 \in [1 .. b + z -> Nat] /\ K2 \in [1 .. m + z -> Nat]
      <4>1. B2 \in [1 .. Len(B2) -> Nat] /\ K2 \in [1 .. Len(K2) -> Nat]
        BY <3>1, <3>2, LenProperties
      <4> QED BY <4>1, <3>1, <3>2
    <3>6. d \in Nat /\ z \in Nat /\ After(d, z, X)
      BY <1>8, <1>9 DEF After
    <3>7. Joined(b, c, z, X, B2) /\ Joined(m, kept, z, X, K2)
      BY <3>1, <3>2 DEF Joined
    <3>5. Drawn(t, taken, b + z, B2, m + z, K2, d + z, overflowed)
      BY <3>6, <3>7, <3>4, <2>3, <2>4, DrawnMore, Zenon
    <3> QED BY <3>1, <3>2, <3>3, <3>5 DEF t
  <2>6. CASE at = "written"
    <3>1. Buffered' = c /\ kept' = kept
      BY <2>1, <2>2, <2>6, <1>4
    <3> HIDE DEF b, m, t, c, d, z
    <3>2. Drawn(t, taken, b, c, m, kept, d + z, overflowed)
      BY <2>3, <2>4, <1>8, DrawnLater, Zenon
    <3> QED BY <3>1, <3>2 DEF t, b, m
  <2> QED BY <2>5, <2>6, <1>4
<1>12. arrived' = Len(delivered')
  BY <1>3, <1>9, <1>10
<1>13. \A j \in IoThreads : io'[j].at = "writing" => io'[j].buf = buffer
  BY <1>5 DEF Idle
<1>14. buffer' = 1 => /\ ~faulted' /\ reader' \in {0, 1}
                      /\ \A j \in IoThreads : io'[j].at = "writing" => io'[j].buf = 1
  BY <1>3, <1>13 DEF Intact
<1>15. buffer' = 1 => Drawn(Len(taken'), taken', Len(Buffered'), Buffered',
                            Len(kept'), kept', Len(delivered'), overflowed')
  BY <1>3, <1>10, <1>11
<1> QED BY <1>6, <1>10, <1>12, <1>14, <1>15 DEF Intact

(* The buffer keeps what it is given, or the newest of it. *)
LEMMA WriteIntact ==
  ASSUME ClientAssumption, Typed, OneAtATime, Intact, NEW i \in IoThreads, Write(i)
  PROVE  Intact'
<1> DEFINE X == Bytes(io[i].size)
<1>at. io[i].at = "writing"
  BY DEF Write
<1>io. io \in [IoThreads -> IoStates]
  BY DEF Typed
<1>1. io[i] # Idle /\ io[i].size \in 0 .. DataSize
  BY <1>at, <1>io DEF Idle, IoStates
<1>2. ready = << >> /\ \A j \in IoThreads : j # i => io[j] = Idle
  BY <1>1, Alone
<1>3. /\ UNCHANGED <<data, arrived, taken, buffer, delivered, kept, reader, ready>>
      /\ io' = [io EXCEPT ![i].at = "written"]
  BY DEF Write, network
<1>4. io'[i].at = "written" /\ \A j \in IoThreads : j # i => io'[j] = Idle
  BY <1>io, <1>2, <1>3 DEF IoStates
<1>5. \A j \in IoThreads : io[j].at # "received" /\ io'[j].at \notin {"received", "writing"}
  BY <1>at, <1>2, <1>4 DEF Idle
<1>6. Pending' = Pending
  BY <1>3, <1>5, PendingFrame
<1>7. Unwritten = X /\ Unwritten' = << >>
  <2>1. Writing = {i} /\ Writing' = {}
    BY <1>at, <1>2, <1>5 DEF Writing, Idle
  <2>2. (CHOOSE j \in Writing : TRUE) = i
    BY <2>1
  <2> QED BY <2>1, <2>2 DEF Unwritten
<1>8. \A n \in Pending : Fresh(n)'
  BY <1>3 DEF Intact, Fresh
<1>9. ASSUME buffer = 1
      PROVE  /\ faulted' = faulted
             /\ Drawn(Len(taken), taken, Len(Buffered'), Buffered', Len(kept), kept, Len(delivered), overflowed')
  <2> DEFINE B == Buffering(i)
             b == Len(B)
             t == Len(taken)
             m == Len(kept)
             d == Len(delivered)
             C == Put(B)
  <2>1. io[i].buf = buffer
    BY <1>at, <1>9 DEF Intact
  <2>2. /\ faulted' = faulted /\ content' = [content EXCEPT ![1] = C]
        /\ overflowed' = (overflowed \/ Overflows(B))
    BY <2>1, <1>9 DEF Write
  <2>3. B = Buffered
    BY <1>7, <1>9 DEF Buffering, Buffered
  <2>4. B \in Seq(Nat) /\ taken \in Seq(Nat) /\ kept \in Seq(Nat) /\ overflowed \in BOOLEAN
    <3>1. content[1] \in Seq(Nat) /\ X \in Seq(Nat)
      BY <1>1, <1>9, BytesTyped DEF Typed
    <3>2. content[1] \o X \in Seq(Nat)
      BY <3>1, ConcatProperties
    <3> QED BY <3>2, <1>9 DEF Buffering, Typed
  <2>5. C \in Seq(Nat)
    BY <2>4, PutIs
  <2> HIDE DEF B, C
  <2>6. Buffered' = C
    <3>1. content'[1] = C
      BY <2>2, <1>9 DEF Typed
    <3>2. C \o << >> = C
      BY <2>5, ConcatEmptySeq
    <3> QED BY <3>1, <3>2, <1>3, <1>7, <1>9 DEF Buffered
  <2>7. Drawn(t, taken, b, B, m, kept, d, overflowed)
    BY <2>3, <1>9 DEF Intact
  <2>8. CASE Overflows(B)
    <3> DEFINE n == Capacity
    <3>1. n \in Nat /\ b \in Nat /\ n <= b
      BY <2>4, <2>8, LenProperties DEF Overflows, ClientAssumption
    <3>2. /\ C \in Seq(Nat) /\ Len(C) = n
          /\ \A k \in 1 .. n : C[k] = B[b - n + k]
      <4>1. C = Newest(B, n)
        BY <2>8 DEF C, Put
      <4> QED BY <3>1, <4>1, <2>4, NewestIs
    <3>3. /\ t \in Nat /\ taken \in [1 .. t -> Nat] /\ m \in Nat /\ kept \in [1 .. m -> Nat]
          /\ B \in [1 .. b -> Nat] /\ C \in [1 .. n -> Nat]
      BY <3>2, <2>4, LenProperties
    <3> HIDE DEF b, t, m, d, n
    <3>5. overflowed' = TRUE
      BY <2>2, <2>4, <2>8
    <3>6. n \in Nat /\ n <= b /\ (\A k \in 1 .. n : C[k] = B[b - n + k]) /\ b \in Nat /\ overflowed'
      BY <3>1, <3>2, <3>5
    <3>4. Drawn(t, taken, n, C, m, kept, d, overflowed')
      BY <3>3, <3>6, <2>7, DrawnLost, Zenon
    <3> QED BY <3>2, <3>4, <2>2, <2>6, Zenon DEF t, m, d
  <2>9. CASE ~Overflows(B)
    <3>1. C = B
      BY <2>9 DEF C, Put
    <3>2. overflowed' = overflowed
      BY <2>2, <2>4, <2>9
    <3> QED BY <3>1, <3>2, <2>2, <2>6, <2>7
  <2> QED BY <2>8, <2>9
<1>10. buffer' = 1 => /\ ~faulted' /\ reader' \in {0, 1}
                      /\ \A j \in IoThreads : io'[j].at = "writing" => io'[j].buf = 1
  BY <1>3, <1>5, <1>9 DEF Intact
<1>11. buffer' = 1 => Drawn(Len(taken'), taken', Len(Buffered'), Buffered',
                            Len(kept'), kept', Len(delivered'), overflowed')
  BY <1>3, <1>9
<1> QED BY <1>3, <1>6, <1>8, <1>10, <1>11 DEF Intact

(* What arrives while nothing is under way is in data_ until it is handled. *)
LEMMA ArriveIntact ==
  ASSUME ClientAssumption, Typed, OneAtATime, Intact, NEW n \in ReceiveSizes, Arrive(n)
  PROVE  Intact'
<1>1. /\ receiving > 0 /\ arrived' = arrived + n
      /\ data' = [k \in DOMAIN data |-> IF k <= n THEN arrived + k ELSE data[k]]
      /\ ready' = Append(ready, Received(conn, n))
      /\ UNCHANGED <<io, delivered, kept, taken, overflowed, buffer, content, faulted, reader>>
  BY DEF Arrive, threads, history
<1>2. /\ ready \in Seq(Completions) /\ Len(ready) \in Nat /\ receiving \in Nat
      /\ arrived \in Nat /\ Len(delivered) \in Nat /\ DOMAIN data = 1 .. DataSize
      /\ DataSize \in Nat /\ n \in 1 .. DataSize
  BY LenProperties DEF Typed, ClientAssumption
<1>3. (\A i \in IoThreads : io[i] = Idle) /\ receiving + Len(ready) = 1
  BY <1>1, NoneHandled
<1>4. Len(ready) = 0
  BY <1>1, <1>2, <1>3
<1>5. Sizes(ready) = {}
  BY <1>4 DEF Sizes
<1>6. Received(conn, n) \in Completions /\ Received(conn, n).error = FALSE /\ Received(conn, n).size = n
  BY <1>2 DEF Received, Completions, Typed
<1>7. Sizes(ready') = {n}
  BY <1>1, <1>2, <1>5, <1>6, AppendSizes
<1>8. {j \in IoThreads : io[j].at = "received"} = {} /\ Writing = {}
  BY <1>3 DEF Writing, Idle
<1>9. Pending = {} /\ Pending' = {n}
  BY <1>1, <1>5, <1>7, <1>8 DEF Pending
<1>10. Unwritten = << >> /\ Unwritten' = << >>
  BY <1>1, <1>8 DEF Unwritten, Writing
<1>11. Buffered' = Buffered
  BY <1>1, <1>10 DEF Buffered
<1>12. arrived = Len(delivered)
  BY <1>9 DEF Intact
<1>13. Fresh(n)'
  <2>1. \A k \in 1 .. n : k \in DOMAIN data /\ data'[k] = arrived + k
    BY <1>1, <1>2
  <2> QED BY <2>1, <1>1, <1>2, <1>12 DEF Fresh
<1> QED BY <1>1, <1>9, <1>11, <1>13 DEF Intact

(* A thread that takes a completion takes the only one. *)
LEMMA TakeIntact ==
  ASSUME ClientAssumption, Typed, OneAtATime, Intact, NEW i \in IoThreads, Take(i)
  PROVE  Intact'
<1>1. /\ ready # << >> /\ ready' = Tail(ready)
      /\ UNCHANGED <<data, arrived, delivered, kept, taken, overflowed, buffer, content, faulted, reader>>
  BY DEF Take, code, history
<1>2. /\ ready \in Seq(Completions) /\ Len(ready) \in Nat /\ receiving \in Nat
      /\ io \in [IoThreads -> IoStates]
  BY LenProperties DEF Typed
<1>3. (\A j \in IoThreads : io[j] = Idle) /\ receiving + Len(ready) = 1
  BY <1>1, NoneHandled
<1>4. Len(ready) = 1
  <2>1. ready # << >> => Len(ready) \in Nat \ {0}
    BY <1>2, EmptySeq
  <2>2. ready # << >>
    BY <1>1
  <2>3. Len(ready) \in Nat \ {0}
    BY <2>1, <2>2
  <2>4. receiving \in Nat /\ receiving + Len(ready) = 1
    BY <1>2, <1>3
  <2>5. \A m \in Nat, n \in Nat \ {0} : m + n = 1 => n = 1
    OBVIOUS
  <2> QED BY <2>3, <2>4, <2>5, Zenon
<1>5. Head(ready) = ready[1]
  BY <1>1, <1>2
<1>6. Len(ready') = 0
  BY <1>1, <1>2, <1>4, HeadTailProperties
<1>7. /\ io'[i].at = IF ready[1].error THEN "failed" ELSE "received"
      /\ io'[i].size = ready[1].size
      /\ \A j \in IoThreads : j # i => io'[j] = Idle
  BY <1>2, <1>3, <1>5 DEF Take, IsError
<1>8. \A j \in IoThreads : io[j].at = "idle" /\ io'[j].at # "writing"
  BY <1>3, <1>7 DEF Idle
<1>9. Pending = IF ready[1].error THEN {} ELSE {ready[1].size}
  <2>1. {j \in 1 .. Len(ready) : ~ready[j].error} = IF ready[1].error THEN {} ELSE {1}
    BY <1>4
  <2>2. Sizes(ready) = IF ready[1].error THEN {} ELSE {ready[1].size}
    BY <2>1 DEF Sizes
  <2>3. {j \in IoThreads : io[j].at = "received"} = {}
    BY <1>8
  <2> QED BY <2>2, <2>3 DEF Pending
<1>10. Pending' = IF ready[1].error THEN {} ELSE {ready[1].size}
  <2>1. Sizes(ready') = {}
    BY <1>6 DEF Sizes
  <2>2. {j \in IoThreads : io'[j].at = "received"} = IF ready[1].error THEN {} ELSE {i}
    BY <1>7 DEF Idle
  <2> QED BY <2>1, <2>2, <1>7 DEF Pending
<1>11. Unwritten' = Unwritten
  BY <1>1, <1>8, UnwrittenFrame
<1> QED BY <1>1, <1>8, <1>9, <1>10, <1>11, IntactKept

(* A thread that starts the next receive has dealt with its bytes. *)
LEMMA ReceiveNextIntact ==
  ASSUME ClientAssumption, Typed, OneAtATime, Intact, NEW i \in IoThreads, ReceiveNext(i)
  PROVE  Intact'
<1>1. /\ io[i].at = "written" /\ io' = [io EXCEPT ![i] = Idle] /\ async_receive
      /\ UNCHANGED <<data, arrived, delivered, kept, taken, overflowed, buffer, content, faulted, reader>>
  BY DEF ReceiveNext, Rearm, code, history
<1>2. io \in [IoThreads -> IoStates]
  BY DEF Typed
<1>3. io'[i] = Idle /\ \A j \in IoThreads : j # i => io'[j] = io[j]
  BY <1>1, <1>2
<1>4. ASSUME NEW j \in IoThreads,
             io'[j].at \in {"received", "writing"} \/ io[j].at \in {"received", "writing"}
      PROVE  io'[j] = io[j]
  BY <1>1, <1>3, <1>4 DEF Idle
<1>5. Sizes(ready') = Sizes(ready)
  BY <1>1, ReceiveSizesSame
<1> QED BY <1>1, <1>4, <1>5, IntactFrame

(* Nor does the handling of an error touch the stream. *)
LEMMA FailIntact ==
  ASSUME ClientAssumption, Typed, Intact, NEW i \in IoThreads, Fail(i) \/ Lose(i)
  PROVE  Intact'
<1>1. /\ io[i].at \in {"failed", "lost"} /\ io \in [IoThreads -> IoStates]
      /\ UNCHANGED <<data, arrived, delivered, kept, taken, overflowed, buffer, content, faulted, reader, ready>>
  BY DEF Fail, Lose, code, network, Typed
<1>2. /\ io'[i].at \in {"idle", "lost"}
      /\ \A j \in IoThreads : j # i => io'[j] = io[j]
  BY <1>1 DEF Fail, Lose, Idle, IoStates
<1>3. ASSUME NEW j \in IoThreads,
             io'[j].at \in {"received", "writing"} \/ io[j].at \in {"received", "writing"}
      PROVE  io'[j] = io[j]
  BY <1>1, <1>2, <1>3
<1> QED BY <1>1, <1>3, IntactFrame

(* Until a connect overtakes a completion, no step breaks the stream.      *)
LEMMA IntactInductive ==
  ASSUME ClientAssumption, Typed, Typed', OneAtATime, Intact, [Next]_vars
  PROVE  Intact'
<1>f. ASSUME UNCHANGED <<data, arrived, delivered, kept, taken, overflowed, buffer, content, faulted, io>>,
             reader' \in {reader, 0, buffer}, Sizes(ready') = Sizes(ready)
      PROVE  Intact'
  BY <1>f, IntactFrame
<1>1. CASE Connect
  BY <1>1, <1>f DEF Connect, code
<1>2. CASE ConnectReceives
  BY <1>2, <1>f, ReceiveSizesSame DEF ConnectReceives, code, history
<1>3. CASE Disconnect \/ Destroy \/ PeerCloses
  <2>1. ready' = Aborted
    BY <1>3 DEF Disconnect, Destroy, Close, PeerCloses
  <2> QED BY <1>3, <2>1, <1>f, AbortedSizes DEF Disconnect, Destroy, Close, PeerCloses, code, threads, history
<1>4. CASE ConnectReturns \/ DisconnectReturns \/ DestroyJoins \/ DestroyReturns
  BY <1>4, <1>f DEF ConnectReturns, DisconnectReturns, DestroyJoins, DestroyReturns, code, network, history
<1>5. CASE DoBufferData \/ UNCHANGED vars
  BY <1>5, <1>f DEF DoBufferData, vars, code, threads, network, history
<1>6. CASE SetBuffer
  <2>1. /\ buffer' # 1
        /\ UNCHANGED <<data, arrived, delivered, io, ready>>
    BY <1>6 DEF SetBuffer, Typed, threads, network
  <2>2. Pending' = Pending
    BY <2>1, PendingFrame
  <2>3. \A n \in Pending : Fresh(n)'
    BY <2>1 DEF Intact, Fresh
  <2> QED BY <2>1, <2>2, <2>3 DEF Intact
<1>7. CASE ReadCall
  BY <1>7, <1>f DEF ReadCall, code, network, history
<1>8. CASE ReadReturns
  BY <1>8, ReadIntact
<1>9. ASSUME NEW n \in ReceiveSizes, Arrive(n) PROVE Intact'
  BY <1>9, ArriveIntact
<1>10. CASE \E i \in IoThreads : handle_read_data(i)
  BY <1>10, TakeIntact, DeliverIntact, WriteIntact, ReceiveNextIntact, FailIntact DEF handle_read_data
<1> QED
  BY <1>1, <1>2, <1>3, <1>4, <1>5, <1>6, <1>7, <1>8, <1>9, <1>10 DEF Next, AppReturns

-----------------------------------------------------------------------------
(* Nor is the end of a connection told twice.                              *)
LEMMA ToldInductive ==
  ASSUME ClientAssumption, Typed, Typed', Quiet, OneAtATime, OneAtATime', Told, [Next]_vars
  PROVE  Told'
<1> DEFINE l == Load
           k == Load'
<1>n. /\ l \in Nat /\ k \in Nat /\ k <= 1
      /\ connects \in Nat /\ connects' \in Nat
      /\ notified \in [Connections -> Nat] /\ notified' \in [Connections -> Nat]
      /\ connects > 0 => connects \in Connections
      /\ connects' > 0 => connects' \in Connections
  <2>1. l \in Nat /\ k \in Nat /\ k <= 1
    BY LoadIs, LoadIsAfter DEF OneAtATime
  <2>2. connects \in 0 .. MaxConnects /\ connects' \in 0 .. MaxConnects /\ MaxConnects \in Nat
    BY DEF Typed, ClientAssumption
  <2>3. notified \in [Connections -> Nat] /\ notified' \in [Connections -> Nat]
    BY DEF Typed, Connections
  <2> QED BY <2>1, <2>2, <2>3 DEF Connections
<1>t. /\ \A c \in Connections : notified[c] <= 1 /\ (c > connects => notified[c] = 0)
      /\ connects > 0 => notified[connects] + l <= 1
      /\ app = "opened" => notified[connects] = 0
  BY DEF Told
<1>T. /\ \A c \in Connections : notified'[c] <= 1 /\ (c > connects' => notified'[c] = 0)
      /\ connects' > 0 => notified'[connects'] + k <= 1
      /\ app' = "opened" => notified'[connects'] = 0
      => Told'
  BY DEF Told
<1>1. CASE \E i \in IoThreads : Lose(i)
  <2>1. PICK i \in IoThreads : Lose(i)
    BY <1>1
  <2>2. k = l - 1 /\ UNCHANGED <<app, connects>>
    BY <2>1, ThreadSteps DEF handle_read_data
  <2>3. app = "opened" => l = 0
    BY DEF OneAtATime
  <2>4. notified' = [notified EXCEPT ![connects] = @ + 1]
    BY <2>1 DEF Lose
  <2> HIDE DEF l, k
  <2>5. l >= 1 /\ app # "opened"
    BY <2>2, <2>3, <1>n
  <2>6. CASE connects > 0
    <3>1. notified[connects] = 0 /\ l = 1
      BY <2>5, <2>6, <1>n, <1>t
    <3>2. /\ notified'[connects] = 1
          /\ \A c \in Connections : c # connects => notified'[c] = notified[c]
      BY <2>4, <2>6, <3>1, <1>n
    <3> QED BY <2>2, <2>5, <2>6, <3>1, <3>2, <1>n, <1>t, <1>T
  <2>7. CASE ~(connects > 0)
    <3>1. \A c \in Connections : notified'[c] = notified[c]
      <4>1. \A c \in Connections : c # connects
        BY <2>7, <1>n DEF Connections, Typed, ClientAssumption
      <4> QED BY <4>1, <2>4, <1>n
    <3> QED BY <2>2, <2>5, <2>7, <3>1, <1>t, <1>T
  <2> QED BY <2>6, <2>7
<1>2. CASE Connect
  <2>1. connects' = connects + 1 /\ app' = "opened" /\ notified' = notified
    BY <1>2 DEF Connect
  <2>2. k = 0
    BY <2>1 DEF OneAtATime
  <2>3. connects' \in Connections /\ connects' > connects
    BY <2>1, <1>n
  <2> HIDE DEF l, k
  <2>4. notified'[connects'] = 0
    BY <2>1, <2>3, <1>t
  <2>5. \A c \in Connections : c > connects' => c > connects
    BY <2>1, <1>n DEF Connections
  <2> QED BY <2>1, <2>2, <2>4, <2>5, <1>t, <1>T
<1>3. CASE ~Connect /\ ~\E i \in IoThreads : Lose(i)
  <2>1. UNCHANGED <<notified, connects>> /\ (app' = "opened" => app = "opened")
    BY <1>3 DEF Next, AppReturns, handle_read_data, Take, Deliver, Write, ReceiveNext, Fail,
       Disconnect, Destroy, ConnectReceives, ConnectReturns, DisconnectReturns, DestroyJoins,
       DestroyReturns, DoBufferData, SetBuffer, ReadCall, ReadReturns, Arrive, PeerCloses, vars,
       network, history, threads, Close
  <2>2. k <= l \/ (app = "opened" /\ k <= 1)
    BY LoadSteps, <1>n
  <2> HIDE DEF l, k
  <2>3. connects > 0 => notified[connects] + k <= 1
    <3> SUFFICES ASSUME connects > 0 PROVE notified[connects] + k <= 1
      OBVIOUS
    <3>1. notified[connects] \in Nat
      BY <1>n
    <3> QED BY <3>1, <2>2, <1>n, <1>t
  <2> QED BY <2>1, <2>3, <1>t, <1>T
<1> QED BY <1>1, <1>2, <1>3
-----------------------------------------------------------------------------
LEMMA Initially == ASSUME ClientAssumption PROVE Init => IInv
<1> SUFFICES ASSUME Init PROVE IInv
  OBVIOUS
<1>1. Idle \in IoStates /\ io = [i \in IoThreads |-> Idle]
  BY DEF Init, Idle, IoStates, ClientAssumption
<1>2. content = [b \in 1 .. MaxBuffers |-> << >>] /\ ready = << >> /\ delivered = << >> /\ taken = << >>
      /\ kept = << >> /\ data = [k \in 1 .. DataSize |-> 0] /\ notified = [c \in Connections |-> 0]
  BY DEF Init
<1>3. /\ content \in [1 .. MaxBuffers -> Seq(Nat)] /\ ready \in Seq(Completions)
      /\ delivered \in Seq(Nat) /\ kept \in Seq(Nat) /\ taken \in Seq(Nat)
      /\ io \in [IoThreads -> IoStates] /\ data \in [1 .. DataSize -> Nat]
      /\ notified \in [Connections -> Nat]
  BY <1>1, <1>2
<1>4. /\ is_connected = FALSE /\ do_buffer_data = TRUE /\ buffer = 1
      /\ app = "idle" /\ reader = 0 /\ conn = 0 /\ gone = FALSE /\ receiving = 0
      /\ connects = 0 /\ arrived = 0 /\ overflowed = FALSE
      /\ faulted = FALSE /\ overtaken = FALSE /\ hasty = FALSE
  BY DEF Init
<1>5. Typed
  <2>1. /\ buffer \in 1 .. MaxBuffers /\ reader \in 0 .. MaxBuffers
        /\ conn \in 0 .. MaxConnects /\ receiving \in Nat
        /\ connects \in 0 .. MaxConnects /\ arrived \in Nat
    BY <1>4 DEF ClientAssumption
  <2>2. /\ is_connected \in BOOLEAN /\ do_buffer_data \in BOOLEAN /\ gone \in BOOLEAN
        /\ faulted \in BOOLEAN /\ overtaken \in BOOLEAN /\ hasty \in BOOLEAN /\ overflowed \in BOOLEAN
    BY <1>4
  <2>3. \A b \in 1 .. MaxBuffers : Len(content[b]) <= Capacity
    <3>1. \A b \in 1 .. MaxBuffers : content[b] = << >>
      BY <1>2
    <3>2. Len(<< >>) = 0 /\ 0 <= Capacity
      BY EmptySeq DEF ClientAssumption
    <3> QED BY <3>1, <3>2
  <2> QED BY <1>3, <1>4, <2>1, <2>2, <2>3 DEF Typed
<1>6. Quiet
  BY <1>1, <1>4 DEF Quiet
<1>7. Load = 0
  <2>1. Handling = {}
    BY <1>1 DEF Handling
  <2> QED BY <1>2, <1>4, <2>1, FS_EmptySet, EmptySeq DEF Load
<1>8. ~Failing
  BY <1>1, <1>2, EmptySeq DEF Failing, Idle
<1>9. Intact
  <2>1. Pending = {}
    <3>1. Sizes(ready) = {}
      BY <1>2, NoSizes
    <3>2. {j \in IoThreads : io[j].at = "received"} = {}
      BY <1>1 DEF Idle
    <3> QED BY <3>1, <3>2 DEF Pending
  <2>2. Buffered = << >>
    <3>1. Writing = {}
      BY <1>1 DEF Writing, Idle
    <3>2. content[buffer] = << >> /\ << >> \o << >> = << >>
      <4>1. 1 \in 1 .. MaxBuffers
        BY DEF ClientAssumption
      <4>2. << >> \in Seq(Nat)
        OBVIOUS
      <4> QED BY <1>2, <1>4, <4>1, <4>2, ConcatEmptySeq
    <3> QED BY <3>1, <3>2 DEF Buffered, Unwritten
  <2>3. Len(<< >>) = 0
    BY EmptySeq
  <2>4. Drawn(0, taken, 0, Buffered, 0, kept, 0, overflowed)
    BY DEF Drawn
  <2>5. \A i \in IoThreads : io[i].at # "writing"
    BY <1>1 DEF Idle
  <2> QED BY <1>2, <1>4, <2>1, <2>2, <2>3, <2>4, <2>5 DEF Intact
<1>10. Told
  <2>1. \A c \in Connections : notified[c] = 0
    BY <1>2
  <2> QED BY <1>4, <2>1 DEF Told
<1> QED BY <1>4, <1>5, <1>6, <1>7, <1>8, <1>9, <1>10 DEF IInv, Counted, OneAtATime, Started

LEMMA Inductive == ASSUME ClientAssumption, IInv, [Next]_vars PROVE IInv'
<1>1. Typed' /\ Quiet'
  BY TypedInductive, QuietInductive DEF IInv
<1>2. Counted'
  <2>t. Typed /\ Load <= Started
    BY DEF IInv, Counted
  <2>n. connects \in Nat
    BY <2>t DEF Typed, ClientAssumption
  <2>1. Load \in Nat /\ Load' \in Nat /\ Started \in Int /\ Started' \in Int
    BY <1>1, <2>t, LoadIs, LoadIsAfter
  <2>2. CASE app = "opened" /\ app' = "receiving" /\ connects' = connects
             /\ notified' = notified /\ Load' = Load + 1
    <3>1. Started' = Started + 1
      BY <2>n, <2>2 DEF Started
    <3> QED BY <2>t, <2>1, <2>2, <3>1 DEF Counted
  <2>3. CASE Started' = Started /\ Load' <= Load
    <3> DEFINE l == Load
               k == Load'
    <3>1. l <= Started /\ k <= l /\ l \in Nat /\ k \in Nat
      BY <2>t, <2>1, <2>3
    <3> HIDE DEF l, k
    <3>2. k <= Started'
      BY <3>1, <2>1, <2>3
    <3> QED BY <3>2 DEF Counted, k
  <2> QED BY <2>2, <2>3, LoadSteps DEF IInv
<1>3. overtaken => overtaken'
  BY DEF Next, AppReturns, handle_read_data, Take, Deliver, Write, ReceiveNext, Fail,
     Lose, Connect, Disconnect, Destroy, ConnectReceives, ConnectReturns, DisconnectReturns,
     DestroyJoins, DestroyReturns, DoBufferData, SetBuffer, ReadCall, ReadReturns, Arrive,
     PeerCloses, vars, history
<1>4. overtaken' \/ (OneAtATime' /\ Told' /\ Intact')
  BY <1>1, <1>3, OneAtATimeInductive, ToldInductive, IntactInductive DEF IInv
<1> QED BY <1>1, <1>2, <1>4 DEF IInv

LEMMA Implied == ASSUME ClientAssumption, IInv PROVE TypeOK /\ NotifiedOnce /\ SingleReceive /\ StreamIntact
<1>1. /\ Load \in Nat /\ Len(ready) \in Nat /\ Cardinality(Handling) \in Nat
      /\ receiving \in Nat /\ connects \in Nat /\ connects <= MaxConnects
  BY LoadIs DEF IInv, Typed, ClientAssumption
<1>2. Started <= connects
  BY <1>1 DEF Started
<1>3. Load <= connects
  BY <1>1, <1>2 DEF IInv, Counted, Started
<1>4. NotifiedOnce
  BY DEF NotifiedOnce, IInv, Told
<1>5. receiving \in 0 .. MaxConnects
  BY <1>1, <1>3 DEF Load, ClientAssumption
<1>6. TypeOK
  BY <1>5 DEF TypeOK, IInv, Typed, IoStates, Completions
<1>7. SingleReceive
  BY DEF SingleReceive, IInv, OneAtATime, Load
<1>8. StreamIntact
  <2> SUFFICES ASSUME ~overtaken PROVE StreamIntact
    BY DEF StreamIntact
  <2>1. /\ delivered \in Seq(Nat) /\ kept \in Seq(Nat) /\ taken \in Seq(Nat)
        /\ buffer \in 1 .. MaxBuffers /\ content[buffer] \in Seq(Nat)
    BY DEF IInv, Typed
  <2>2. Intact
    BY DEF IInv
  <2>3. \A k \in DOMAIN delivered : delivered[k] = k
    <3>1. DOMAIN delivered = 1 .. Len(delivered)
      BY <2>1, LenProperties
    <3> QED BY <3>1, <2>2 DEF Intact
  <2>4. Buffered \in Seq(Nat)
    <3>1. Unwritten \in Seq(Nat)
      BY UnwrittenTyped DEF IInv
    <3> QED BY <2>1, <3>1, ConcatProperties DEF Buffered
  <2>5. ASSUME buffer = 1
        PROVE  /\ ~faulted
               /\ Range(taken) \subseteq Range(kept) /\ Ascending(taken \o Buffered)
               /\ Len(Buffered) <= Len(kept) /\ Buffered = Newest(kept, Len(Buffered))
               /\ overflowed \/ taken \o Buffered = kept
    <3>1. /\ ~faulted
          /\ Drawn(Len(taken), taken, Len(Buffered), Buffered,
                   Len(kept), kept, Len(delivered), overflowed)
      BY <2>2, <2>5 DEF Intact
    <3> QED BY <3>1, <2>1, <2>4, DrawnIs
  <2>6. ~swapped => buffer = 1
    BY <2>1 DEF swapped, ClientAssumption
  <2> QED BY <2>3, <2>5, <2>6 DEF StreamIntact
<1> QED BY <1>4, <1>6, <1>7, <1>8

(* The invariant the theorems below follow from.                           *)
THEOREM Invariant == Spec => []IInv
  BY ClientAssumption, Initially, Inductive, PTL DEF Spec

(* Every variable of the client keeps its type, and no buffer holds more   *)
(* than it has room for.                                                   *)
THEOREM TypeCorrect == Spec => []TypeOK
  BY ClientAssumption, Implied, Invariant, PTL

(* Until a connect overtakes a completion of an earlier connection, the    *)
(* disconnect slots are called at most once for each connection, however   *)
(* many io threads there are.                                              *)
THEOREM NotifiesOnce == Spec => []NotifiedOnce
  BY ClientAssumption, Implied, Invariant, PTL

(* Until then data_ serves one receive at a time.                          *)
THEOREM OneReceive == Spec => []SingleReceive
  BY ClientAssumption, Implied, Invariant, PTL

(* Until then the data slots see every byte once and in order, and as long *)
(* as the buffer is not exchanged, the bytes the application has read and  *)
(* those that are buffered or about to be are bytes that were to be        *)
(* buffered, in order and none twice, those buffered are the newest, and   *)
(* they are all of them before the buffer is given more than it holds.     *)
THEOREM StreamKept == Spec => []StreamIntact
  BY ClientAssumption, Implied, Invariant, PTL

(* Until then a connected client stops being so only by a loss.            *)
LEMMA LossStep ==
  ASSUME ClientAssumption, IInv, [Next]_vars, is_connected, ~is_connected'
  PROVE  conn = 0 \/ gone \/ overtaken
<1>1. CASE DisconnectReturns \/ DestroyJoins
  BY <1>1 DEF DisconnectReturns, DestroyJoins, IInv, Quiet
<1>2. CASE \E i \in IoThreads : Lose(i)
  BY <1>2 DEF Lose, IInv, OneAtATime, Failing
<1> QED
  BY <1>1, <1>2 DEF Next, AppReturns, handle_read_data, Take, Deliver, Write, ReceiveNext, Fail,
     Connect, Disconnect, Destroy, ConnectReceives, ConnectReturns, DestroyReturns, DoBufferData,
     SetBuffer, ReadCall, ReadReturns, Arrive, PeerCloses, vars, code

THEOREM ClosedByLoss == Spec => OnlyALossCloses
<1>1. IInv /\ [Next]_vars => [is_connected /\ ~is_connected' => conn = 0 \/ gone \/ overtaken]_vars
  BY ClientAssumption, LossStep
<1> QED BY <1>1, Invariant, PTL DEF Spec, OnlyALossCloses
=============================================================================
