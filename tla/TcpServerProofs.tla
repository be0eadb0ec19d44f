--------------------------- MODULE TcpServerProofs ---------------------------
(* The chain of accepts, the look-ups under the mutex, the types and the   *)
(* roster of TcpServer, for every number of peers and starts.  The roster  *)
(* rests on three things no property states: a peer's socket is accepted   *)
(* once (OnceOnly), so there is a number for every client yet to be made   *)
(* (Numbered), and the one worker does one thing at a time (Register).     *)
EXTENDS TcpServer, FunctionTheorems, FiniteSetTheorems, SequenceTheorems, TLAPS

Events == [what : {"accepted", "failed", "aborted", "lost"}, with : Peers \cup {NoPeer}]
WorkerStates ==
  [at : {"none", "idle", "ended", "making", "listing", "listed",
         "rearming", "losing", "erasing", "crashed"},
   with : Peers \cup {NoPeer}]

(* What of the types the counting of chains needs.                         *)
Typed ==
  /\ acceptor \in BOOLEAN /\ mutex \in BOOLEAN
  /\ accepts \in Nat /\ ready \in Seq(Events)
  /\ worker \in [Workers -> WorkerStates]
  /\ target \in Peers \cup {NoPeer}
  /\ starts \in 0 .. MaxStarts
  /\ broken \in BOOLEAN /\ crossed \in BOOLEAN /\ faulted \in BOOLEAN

(* A worker that no start has made is nowhere.                             *)
Begun == IF app = "starting" THEN starts - 1 ELSE starts
Unmade ==
  /\ \A w \in Workers : w > Begun => worker[w].at = "none"
  /\ app = "starting" => starts > 0

(* Between looking a client up and the last use of it the mutex is held.   *)
Guarded ==
  /\ app \in {"closing", "clearing"} => mutex /\ Listed(target)
  /\ ~faulted

(* Every start begins one chain. *)
Chained == AcceptChain /\ Chains <= starts

(* Whose socket a queue brings, each once, and whom else it speaks of      *)
Holds(q, p) == \E k \in 1 .. Len(q) : q[k] = Accepted(p)
Single(q) == \A j, k \in 1 .. Len(q) : q[j] = q[k] /\ q[j].what = "accepted" => j = k
OfPeers(q) == \A k \in 1 .. Len(q) : q[k].what \in {"accepted", "lost"} => q[k].with \in Peers

Doing(at, p) == \E w \in Workers : worker[w] = [at |-> at, with |-> p]
InHand == {"making", "listing", "listed", "rearming", "losing", "erasing"}

(* The types of the clients and of the rest, and that whoever has a client *)
(* in hand has the client of a peer.                                       *)
Named ==
  /\ is_running \in BOOLEAN /\ accept_connection \in BOOLEAN
  /\ stopped \in BOOLEAN /\ crashed \in BOOLEAN
  /\ all_clients \in [Ids -> Peers \cup {NoPeer}]
  /\ ID_Counter \in Nat
  /\ is_connected \in [Peers -> BOOLEAN] /\ id \in [Peers -> Ids]
  /\ registered \in SUBSET Peers /\ receiving \in SUBSET Peers
  /\ app \in {"idle", "starting", "closing", "clearing", "joining", "destroyed"}
  /\ peer \in [Peers -> {"away", "calling", "refused", "open", "gone", "closed"}]
  /\ \A w \in Workers : worker[w].at \in InHand => worker[w].with \in Peers
  /\ OfPeers(ready)
  /\ app \in {"closing", "clearing"} => target \in Peers

(* A peer's socket is accepted once: it is in one completion or in the     *)
(* hands of one worker, and of none before and after that.                 *)
OnceOnly ==
  /\ \A p \in Peers : peer[p] \in {"away", "calling", "refused"}
       => ~Holds(ready, p) /\ ~Doing("making", p)
  /\ Single(ready)
  /\ \A v, w \in Workers : worker[v] = worker[w] /\ worker[v].at = "making" => v = w
  /\ \A p \in Peers : ~(Holds(ready, p) /\ Doing("making", p))

(* For whom a client may still be made, and the numbers left for them      *)
Fresh(p) == peer[p] \in {"away", "calling"} \/ Holds(ready, p) \/ Doing("making", p)
Newcomers == {p \in Peers : Fresh(p)}
Numbered == ID_Counter + Cardinality(Newcomers) <= Cardinality(Peers)

(* In a server that is not restarted the one worker keeps the roster: no   *)
(* newcomer is on it; each client has a number of its own and is listed    *)
(* under it; and whoever is connected, or listed, has its reason.          *)
Known(p) == is_connected[p] \/ Listed(p) \/ p \in registered
Register ==
  /\ \A p \in Newcomers : ~Known(p)
  /\ \A p \in Peers : Known(p) => id[p] < ID_Counter
  /\ \A p, q \in Peers : Known(p) /\ Known(q) /\ id[p] = id[q] => p = q
  /\ \A p \in Peers, i \in Ids : all_clients[i] = p => i = id[p]
  /\ \A p \in Peers : is_connected[p] => Doing("listing", p) \/ all_clients[id[p]] = p
  /\ \A p \in Peers : Listed(p) => is_connected[p] \/ Doing("erasing", p) \/ peer[p] = "closed"
  /\ \A p \in Peers : Listed(p) => p \in registered \/ Doing("listed", p)
  /\ \A p \in Peers : /\ Doing("listing", p) => is_connected[p] /\ ~Listed(p)
                      /\ Doing("listed", p) => Listed(p)
                      /\ Doing("erasing", p) => ~is_connected[p] /\ p \in registered
  /\ app = "clearing" => peer[target] = "closed"
Enrolled == starts <= 1 => Register

IInv ==
  /\ Typed /\ Unmade /\ Guarded /\ Chained
  /\ Named /\ OnceOnly /\ Numbered /\ Enrolled
-----------------------------------------------------------------------------
(* Counting the completions of accepts in a queue                          *)
Ofs(q) == {k \in 1 .. Len(q) : IsOfAccept(q[k])}

LEMMA OfsFinite ==
  ASSUME NEW q \in Seq(Events)
  PROVE  IsFiniteSet(Ofs(q)) /\ Cardinality(Ofs(q)) \in Nat
<1>1. IsFiniteSet(1 .. Len(q))
  BY LenProperties, FS_Interval
<1>2. Ofs(q) \in SUBSET (1 .. Len(q))
  BY DEF Ofs
<1>3. IsFiniteSet(Ofs(q))
  BY <1>1, <1>2, FS_Subset
<1> QED BY <1>3, FS_CardinalityType

LEMMA OfsAppend ==
  ASSUME NEW q \in Seq(Events), NEW e \in Events
  PROVE  Cardinality(Ofs(Append(q, e))) = Cardinality(Ofs(q)) + (IF IsOfAccept(e) THEN 1 ELSE 0)
<1> DEFINE r == Append(q, e)
<1>1. /\ Len(r) = Len(q) + 1 /\ Len(q) \in Nat
      /\ \A k \in 1 .. Len(q) : r[k] = q[k]
      /\ r[Len(q) + 1] = e
  BY AppendProperties, LenProperties
<1>2. Len(q) + 1 \notin Ofs(q)
  BY <1>1 DEF Ofs
<1> HIDE DEF r
<1>3. CASE IsOfAccept(e)
  <2>1. Ofs(r) = Ofs(q) \cup {Len(q) + 1}
    BY <1>1, <1>3 DEF Ofs
  <2> QED BY <1>2, <1>3, <2>1, OfsFinite, FS_AddElement DEF r
<1>4. CASE ~IsOfAccept(e)
  <2>1. Ofs(r) = Ofs(q)
    BY <1>1, <1>4 DEF Ofs
  <2> QED BY <1>4, <2>1, OfsFinite DEF r
<1> QED BY <1>3, <1>4

LEMMA OfsTail ==
  ASSUME NEW q \in Seq(Events), q # << >>
  PROVE  Cardinality(Ofs(Tail(q))) = Cardinality(Ofs(q)) - (IF IsOfAccept(Head(q)) THEN 1 ELSE 0)
<1> DEFINE r == Tail(q)
           rest == Ofs(q) \ {1}
           next == [k \in Ofs(r) |-> k + 1]
<1>1. /\ r \in Seq(Events) /\ Len(r) = Len(q) - 1 /\ Len(q) \in Nat /\ Len(q) > 0
      /\ \A k \in 1 .. Len(r) : r[k] = q[k + 1]
      /\ Head(q) = q[1]
  BY HeadTailProperties, LenProperties, EmptySeq
<1> HIDE DEF r
<1>2. next \in [Ofs(r) -> rest]
  BY <1>1 DEF Ofs
<1>3. \A a, b \in Ofs(r) : next[a] = next[b] => a = b
  BY <1>1 DEF Ofs
<1>4. \A t \in rest : \E s \in Ofs(r) : next[s] = t
  <2> TAKE t \in rest
  <2>1. t - 1 \in Ofs(r)
    BY <1>1 DEF Ofs
  <2>2. next[t - 1] = t
    BY <2>1, <1>1 DEF Ofs
  <2> QED BY <2>1, <2>2
<1>5. next \in Bijection(Ofs(r), rest)
  BY <1>2, <1>3, <1>4, Fun_IsBij
<1>6. Cardinality(rest) = Cardinality(Ofs(r))
  BY <1>1, <1>5, OfsFinite, FS_Bijection DEF ExistsBijection
<1>7. 1 \in Ofs(q) <=> IsOfAccept(Head(q))
  BY <1>1 DEF Ofs
<1>8. Cardinality(rest) = Cardinality(Ofs(q)) - (IF IsOfAccept(Head(q)) THEN 1 ELSE 0)
  <2>1. IsFiniteSet(Ofs(q)) /\ Cardinality(Ofs(q)) \in Nat
    BY OfsFinite
  <2>2. Cardinality(Ofs(q) \ {1}) = IF 1 \in Ofs(q) THEN Cardinality(Ofs(q)) - 1 ELSE Cardinality(Ofs(q))
    BY <2>1, FS_RemoveElement
  <2> QED BY <1>7, <2>1, <2>2
<1> QED BY <1>6, <1>8 DEF r

LEMMA OfsAborted ==
  ASSUME NEW q \in Seq(Events), NEW n \in Nat
  PROVE  /\ q \o [k \in 1 .. n |-> Aborted] \in Seq(Events)
         /\ Ofs(q \o [k \in 1 .. n |-> Aborted]) = Ofs(q)
<1> DEFINE t == [k \in 1 .. n |-> Aborted]
           r == q \o t
<1>1. Aborted \in Events /\ ~IsOfAccept(Aborted)
  BY DEF Aborted, Events, IsOfAccept
<1>2. t \in [1 .. n -> Events] /\ \A k \in 1 .. n : t[k] = Aborted
  BY <1>1
<1>3. t \in Seq(Events)
  BY <1>2, SeqDef
<1>4. Len(t) = n
  BY <1>2, <1>3, LenProperties
<1> HIDE DEF t
<1>5. /\ r \in Seq(Events) /\ Len(r) = Len(q) + n /\ Len(q) \in Nat
      /\ \A i \in 1 .. Len(q) + n : r[i] = IF i <= Len(q) THEN q[i] ELSE t[i - Len(q)]
  BY <1>3, <1>4, ConcatProperties, LenProperties
<1> HIDE DEF r
<1>6. \A i \in 1 .. Len(q) + n : IsOfAccept(r[i]) <=> i <= Len(q) /\ IsOfAccept(q[i])
  <2> TAKE i \in 1 .. Len(q) + n
  <2>1. CASE i <= Len(q)
    BY <1>5, <2>1
  <2>2. CASE i > Len(q)
    <3>1. i - Len(q) \in 1 .. n
      BY <1>5, <2>2
    <3>2. r[i] = Aborted
      BY <1>2, <1>5, <2>2, <3>1
    <3> QED BY <1>1, <1>5, <2>2, <3>2
  <2> QED BY <1>5, <2>1, <2>2
<1>7. Ofs(r) = Ofs(q)
  BY <1>5, <1>6 DEF Ofs
<1> QED BY <1>5, <1>7 DEF r, t

(* Counting the workers inside handle_accept                               *)
AcceptStates == {"making", "listing", "listed", "rearming"}
Takers(f) == {w \in Workers : f[w].at \in AcceptStates}

LEMMA TakersFinite ==
  ASSUME ServerAssumption, NEW f
  PROVE  IsFiniteSet(Takers(f)) /\ Cardinality(Takers(f)) \in Nat
<1>1. IsFiniteSet(Workers)
  BY FS_Interval DEF Workers, ServerAssumption
<1>2. Takers(f) \in SUBSET Workers
  BY DEF Takers
<1>3. IsFiniteSet(Takers(f))
  BY <1>1, <1>2, FS_Subset
<1> QED BY <1>3, FS_CardinalityType

Weight(v) == IF v.at \in AcceptStates THEN 1 ELSE 0

LEMMA TakersChange ==
  ASSUME ServerAssumption, NEW f \in [Workers -> WorkerStates], NEW w \in Workers, NEW v
  PROVE  Cardinality(Takers([f EXCEPT ![w] = v])) = Cardinality(Takers(f)) - Weight(f[w]) + Weight(v)
<1> DEFINE g == [f EXCEPT ![w] = v]
<1>1. \A x \in Workers : g[x] = IF x = w THEN v ELSE f[x]
  OBVIOUS
<1> HIDE DEF g
<1>2. IsFiniteSet(Takers(f)) /\ Cardinality(Takers(f)) \in Nat
  BY TakersFinite
<1>3. CASE f[w].at \in AcceptStates <=> v.at \in AcceptStates
  <2>1. Takers(g) = Takers(f)
    BY <1>1, <1>3 DEF Takers
  <2> QED BY <1>2, <1>3, <2>1 DEF Weight, g
<1>4. CASE f[w].at \notin AcceptStates /\ v.at \in AcceptStates
  <2>1. Takers(g) = Takers(f) \cup {w} /\ w \notin Takers(f)
    BY <1>1, <1>4 DEF Takers
  <2>2. Cardinality(Takers(g)) = Cardinality(Takers(f)) + 1
    BY <2>1, <1>2, FS_AddElement
  <2> QED BY <1>2, <1>4, <2>2 DEF Weight, g
<1>5. CASE f[w].at \in AcceptStates /\ v.at \notin AcceptStates
  <2>1. Takers(g) = Takers(f) \ {w} /\ w \in Takers(f)
    BY <1>1, <1>5 DEF Takers
  <2>2. Cardinality(Takers(g)) = Cardinality(Takers(f)) - 1
    BY <2>1, <1>2, FS_RemoveElement
  <2> QED BY <1>2, <1>5, <2>2 DEF Weight, g
<1> QED BY <1>3, <1>4, <1>5
-----------------------------------------------------------------------------
LEMMA ChainsIs ==
  ASSUME ServerAssumption, Typed
  PROVE  /\ Chains = accepts + Cardinality(Ofs(ready)) + Cardinality(Takers(worker))
         /\ accepts \in Nat /\ Cardinality(Ofs(ready)) \in Nat /\ Cardinality(Takers(worker)) \in Nat
         /\ Chains \in Nat
<1>1. Chains = accepts + Cardinality(Ofs(ready)) + Cardinality(Takers(worker))
  BY DEF Chains, Ofs, Takers, Accepting, AcceptStates
<1>2. accepts \in Nat /\ Cardinality(Ofs(ready)) \in Nat /\ Cardinality(Takers(worker)) \in Nat
  BY OfsFinite, TakersFinite DEF Typed
<1> QED BY <1>1, <1>2

LEMMA ChainsIsAfter ==
  ASSUME NEW a, NEW r, NEW t, a = accepts', r = Cardinality(Ofs(ready')), t = Cardinality(Takers(worker'))
  PROVE  Chains' = a + r + t
  BY DEF Chains, Ofs, Takers, Accepting, AcceptStates

LEMMA ChainsNat ==
  ASSUME ServerAssumption, Typed'
  PROVE  Chains' \in Nat
<1>1. accepts' \in Nat /\ ready' \in Seq(Events)
  BY DEF Typed
<1>2. Cardinality(Ofs(ready')) \in Nat /\ Cardinality(Takers(worker')) \in Nat
  BY <1>1, OfsFinite, TakersFinite
<1> QED BY <1>1, <1>2, ChainsIsAfter

(* Closing the acceptor ends the accepts that wait.                        *)
LEMMA ClosingAccepts ==
  ASSUME ServerAssumption, Typed, CloseAcceptor
  PROVE  /\ ready' \in Seq(Events) /\ accepts' = 0 /\ acceptor' = FALSE
         /\ Cardinality(Ofs(ready')) = Cardinality(Ofs(ready))
<1>1. ready' = ready \o [k \in 1 .. accepts |-> Aborted] /\ accepts' = 0 /\ acceptor' = FALSE
  BY DEF CloseAcceptor
<1>2. ready \in Seq(Events) /\ accepts \in Nat
  BY DEF Typed
<1> QED BY <1>1, <1>2, OfsAborted

(* What a step of a worker does to its state, the queue and the accepts.   *)
LEMMA WorkerTyped ==
  ASSUME ServerAssumption, Typed, NEW w \in Workers, WorkerStep(w)
  PROVE  /\ \E v \in WorkerStates : v.at # "none" /\ worker' = [worker EXCEPT ![w] = v]
         /\ worker[w].at # "none"
         /\ ready' \in Seq(Events)
         /\ accepts' \in Nat
         /\ broken' \in BOOLEAN
         /\ UNCHANGED <<acceptor, mutex, target, app, starts, crossed, faulted>>
<1>n. /\ worker \in [Workers -> WorkerStates] /\ ready \in Seq(Events) /\ accepts \in Nat
      /\ worker[w] \in WorkerStates /\ broken \in BOOLEAN
  BY DEF Typed
<1>a. ASSUME NEW at \in {"idle", "ended", "making", "listing", "listed",
                          "rearming", "losing", "erasing", "crashed"}, At(w, at)
      PROVE  \E v \in WorkerStates : v.at # "none" /\ worker' = [worker EXCEPT ![w] = v]
  <2> DEFINE v == [at |-> at, with |-> IF at \in {"idle", "ended", "crashed"} THEN NoPeer ELSE With(w)]
  <2>1. v \in WorkerStates /\ v.at # "none"
    BY <1>n DEF WorkerStates, With
  <2>2. worker' = [worker EXCEPT ![w] = v]
    BY <1>a DEF At
  <2> QED BY <2>1, <2>2
<1>1. CASE RunReturns(w)
  <2>1. worker[w].at = "idle" /\ At(w, "ended")
        /\ UNCHANGED <<acceptor, mutex, target, app, starts, broken, crossed, faulted, ready, accepts>>
    BY <1>1 DEF RunReturns, code, history
  <2> QED BY <2>1, <1>a, <1>n
<1>2. CASE Handle(w)
  <2>1. /\ worker[w].at = "idle" /\ ready # << >> /\ ready' = Tail(ready)
        /\ UNCHANGED <<accepts, acceptor, mutex, target, app, starts, crossed, faulted>>
    BY <1>2 DEF Handle, code
  <2>2. Head(ready) \in Events /\ ready' \in Seq(Events)
    BY <2>1, <1>n, HeadTailProperties
  <2>3. PICK v \in {worker[w], [at |-> "making", with |-> Head(ready).with],
                     [at |-> "losing", with |-> Head(ready).with]} : worker' = [worker EXCEPT ![w] = v]
    <3>1. worker = [worker EXCEPT ![w] = worker[w]]
      BY <1>n
    <3> QED BY <1>2, <3>1 DEF Handle
  <2>4. v \in WorkerStates /\ v.at # "none"
    BY <2>1, <2>2, <2>3, <1>n DEF Events, WorkerStates
  <2>5. broken' \in BOOLEAN
    BY <1>2, Zenon DEF Handle
  <2> QED BY <2>1, <2>2, <2>3, <2>4, <2>5, <1>n
<1>3. CASE MakeThrows(w)
  BY <1>3, <1>a, <1>n DEF MakeThrows, code, clients, context
<1>4. CASE MakeClient(w)
  <2>1. With(w) \in Peers \cup {NoPeer}
    BY <1>n DEF With, WorkerStates
  <2>2. Append(ready, Lost(With(w))) \in Seq(Events)
    <3>1. Lost(With(w)) \in Events
      BY <2>1 DEF Lost, Events
    <3> QED BY <3>1, <1>n, AppendProperties
  <2>3. ready' \in Seq(Events)
    BY <1>4, <2>2, <1>n DEF MakeClient
  <2> QED BY <1>4, <2>3, <1>a, <1>n DEF MakeClient, history
<1>5. CASE ListClient(w)
  BY <1>5, <1>a, <1>n DEF ListClient, clients, context, history
<1>6. CASE Announce(w)
  BY <1>6, <1>a, <1>n DEF Announce, code, context
<1>7. CASE handle_connection(w)
  <2>1. /\ worker[w].at = "rearming"
        /\ (accepts' = accepts + 1 /\ At(w, "idle")) \/ (accepts' = accepts /\ At(w, "crashed"))
        /\ UNCHANGED <<code, target, app, ready, starts, broken, crossed, faulted>>
    BY <1>7 DEF handle_connection, Rearmed
  <2>2. accepts' \in Nat
    BY <2>1, <1>n
  <2>3. \E v \in WorkerStates : v.at # "none" /\ worker' = [worker EXCEPT ![w] = v]
    BY <2>1, <1>a
  <2>4. UNCHANGED <<acceptor, mutex, target, app, starts, crossed, faulted, broken, ready>>
    BY <2>1 DEF code
  <2> QED BY <2>1, <2>2, <2>3, <2>4, <1>n
<1>8. CASE LoseClient(w)
  BY <1>8, <1>a, <1>n DEF LoseClient, code, context, history
<1>9. CASE disconnect(w)
  BY <1>9, <1>a, <1>n DEF disconnect, clients, context, history
<1> QED
  BY <1>1, <1>2, <1>3, <1>4, <1>5, <1>6, <1>7, <1>8, <1>9 DEF WorkerStep

LEMMA TypedInductive ==
  ASSUME ServerAssumption, Typed, [Next]_vars
  PROVE  Typed'
<1>c. ASSUME CloseAcceptor PROVE ready' \in Seq(Events) /\ accepts' \in Nat /\ acceptor' \in BOOLEAN
  BY <1>c, ClosingAccepts
<1> USE DEF Typed
<1>1. CASE StartAccepts
  <2>1. crossed' \in BOOLEAN
    BY <1>1, Zenon DEF StartAccepts
  <2>2. accepts' \in Nat /\ starts' \in 0 .. MaxStarts
    BY <1>1 DEF StartAccepts, ServerAssumption
  <2> QED BY <1>1, <2>1, <2>2 DEF StartAccepts
<1>2. CASE StartReturns
  <2>1. worker' = [worker EXCEPT ![starts].at = "idle"]
    BY <1>2 DEF StartReturns
  <2>2. ASSUME starts \in Workers PROVE [worker[starts] EXCEPT !.at = "idle"] \in WorkerStates
    BY <2>2 DEF WorkerStates
  <2>3. worker' \in [Workers -> WorkerStates]
    BY <2>1, <2>2
  <2> QED BY <1>2, <2>3 DEF StartReturns, clients, context, history
<1>3. CASE stop
  <2>1. CloseAcceptor /\ UNCHANGED <<mutex, worker, target, starts, broken, crossed, faulted>>
    BY <1>3 DEF stop, threads, history
  <2> QED BY <2>1, <1>c
<1>4. CASE Destroy
  <2>1. UNCHANGED <<mutex, worker, target, starts, broken, crossed, faulted>>
    BY <1>4 DEF Destroy, history
  <2>2. CloseAcceptor \/ UNCHANGED <<acceptor, accepts, ready>>
    BY <1>4 DEF Destroy
  <2>3. ready' \in Seq(Events) /\ accepts' \in Nat /\ acceptor' \in BOOLEAN
    BY <2>2, <1>c
  <2> QED BY <2>1, <2>3
<1>5. CASE accept_connection_
  BY <1>5 DEF accept_connection_, threads, context, history
<1>6. CASE DestroyJoins
  BY <1>6 DEF DestroyJoins, code, context, history
<1>7. CASE send_to_all_clients
  BY <1>7 DEF send_to_all_clients, threads, context, history
<1>8. CASE FindToClose
  <2>1. target' \in Peers /\ mutex' = TRUE
    BY <1>8 DEF FindToClose
  <2> QED BY <1>8, <2>1 DEF FindToClose, context, history
<1>9. ASSUME NEW p \in Peers \cup {NoPeer}
      PROVE  Append(ready, Lost(p)) \in Seq(Events) /\ Append(ready, Accepted(p)) \in Seq(Events)
             /\ Append(ready, Failed) \in Seq(Events)
  <2>1. Lost(p) \in Events /\ Accepted(p) \in Events /\ Failed \in Events
    BY DEF Lost, Accepted, Failed, Events
  <2> QED BY <2>1, AppendProperties
<1>10. CASE CloseSocket
  <2>1. ready' \in Seq(Events)
    BY <1>10, <1>9 DEF CloseSocket
  <2>2. faulted' \in BOOLEAN
    BY <1>10, Zenon DEF CloseSocket
  <2>3. UNCHANGED <<acceptor, mutex, target, worker, accepts, starts, broken, crossed>>
    BY <1>10 DEF CloseSocket, code
  <2> QED BY <2>1, <2>2, <2>3
<1>11. CASE ClearFlag
  <2>1. faulted' \in BOOLEAN
    BY <1>11, Zenon DEF ClearFlag
  <2>2. /\ mutex' = FALSE /\ target' = NoPeer
        /\ UNCHANGED <<acceptor, worker, accepts, ready, starts, broken, crossed>>
    BY <1>11 DEF ClearFlag, context
  <2> QED BY <2>1, <2>2
<1>12. CASE AcceptFails
  <2>1. ready' \in Seq(Events) /\ accepts' \in Nat
    BY <1>12, <1>9 DEF AcceptFails
  <2> QED BY <1>12, <2>1 DEF AcceptFails, code, threads, history
<1>13. ASSUME NEW p \in Peers, PeerCalls(p) \/ AcceptCompletes(p) \/ PeerGoes(p) PROVE Typed'
  <2>1. ready' \in Seq(Events) /\ accepts' \in Nat
    BY <1>13, <1>9, SMTT(20) DEF PeerCalls, AcceptCompletes, PeerGoes
  <2> QED BY <1>13, <2>1 DEF PeerCalls, AcceptCompletes, PeerGoes, code, threads, history
<1>14. ASSUME NEW w \in Workers, WorkerStep(w) PROVE Typed'
  <2>1. worker' \in [Workers -> WorkerStates]
    BY <1>14, WorkerTyped
  <2> QED BY <1>14, <2>1, WorkerTyped
<1>15. CASE UNCHANGED vars
  BY <1>15 DEF vars, code, threads, context, history
<1> QED
  BY <1>1, <1>2, <1>3, <1>4, <1>5, <1>6, <1>7, <1>8, <1>10, <1>11, <1>12, <1>13, <1>14, <1>15
     DEF Next, AppCalls, AppReturns, Network

(* Only the start that makes a worker moves it from where it is nowhere.   *)
LEMMA UnmadeInductive ==
  ASSUME ServerAssumption, Typed, Unmade, [Next]_vars
  PROVE  Unmade'
<1> USE DEF Typed
<1>1. CASE StartAccepts
  BY <1>1 DEF StartAccepts, Unmade, Begun
<1>2. CASE StartReturns
  <2>1. /\ app = "starting" /\ app' = "idle" /\ starts' = starts
        /\ worker' = [worker EXCEPT ![starts].at = "idle"]
    BY <1>2 DEF StartReturns, history
  <2>2. Begun' = starts /\ Begun = starts - 1
    BY <2>1 DEF Begun
  <2>3. ASSUME NEW w \in Workers, w > starts PROVE worker'[w].at = "none"
    <3>1. worker'[w] = worker[w] /\ w > starts - 1
      BY <2>1, <2>3 DEF Workers, ServerAssumption
    <3> QED BY <2>2, <3>1 DEF Unmade
  <2> QED BY <2>1, <2>2, <2>3 DEF Unmade
<1>3. ASSUME NEW w \in Workers, WorkerStep(w) PROVE Unmade'
  <2>1. PICK v \in WorkerStates : v.at # "none" /\ worker' = [worker EXCEPT ![w] = v]
    BY <1>3, WorkerTyped
  <2>2. worker[w].at # "none" /\ UNCHANGED <<app, starts>>
    BY <1>3, WorkerTyped
  <2>3. ~(w > Begun)
    BY <2>2 DEF Unmade
  <2>4. ASSUME NEW x \in Workers, x > Begun PROVE worker'[x].at = "none"
    BY <2>1, <2>3, <2>4 DEF Unmade
  <2>5. Begun' = Begun
    BY <2>2 DEF Begun
  <2> QED BY <2>2, <2>4, <2>5 DEF Unmade
<1>4. CASE ~StartAccepts /\ ~StartReturns /\ ~(\E w \in Workers : WorkerStep(w))
  <2>1. UNCHANGED <<worker, starts>> /\ (app' = app \/ (app # "starting" /\ app' # "starting"))
    BY <1>4 DEF Next, AppCalls, AppReturns, Network, stop, accept_connection_, Destroy, DestroyJoins,
       send_to_all_clients, FindToClose, CloseSocket, ClearFlag, PeerCalls, AcceptCompletes, AcceptFails,
       PeerGoes, vars, code, threads, context, history
  <2> QED BY <2>1 DEF Unmade, Begun
<1> QED BY <1>1, <1>2, <1>3, <1>4

(* What was found under the mutex stays in the map until it is given back. *)
LEMMA GuardedInductive ==
  ASSUME Typed, Guarded, [Next]_vars
  PROVE  Guarded'
<1>1. CASE FindToClose
  <2>1. mutex' = TRUE /\ Listed(target') /\ UNCHANGED <<all_clients, faulted>>
    BY <1>1 DEF FindToClose, history
  <2> QED BY <2>1 DEF Guarded, Listed
<1>2. CASE CloseSocket
  <2>1. app = "closing" /\ UNCHANGED <<mutex, all_clients, target>>
        /\ faulted' = (faulted \/ ~Listed(target))
    BY <1>2 DEF CloseSocket, code
  <2> QED BY <2>1 DEF Guarded, Listed
<1>3. CASE ClearFlag
  <2>1. app = "clearing" /\ app' = "idle" /\ faulted' = (faulted \/ ~Listed(target))
    BY <1>3 DEF ClearFlag
  <2> QED BY <2>1 DEF Guarded
<1>4. ASSUME NEW w \in Workers, WorkerStep(w) PROVE Guarded'
  <2>1. UNCHANGED <<app, mutex, target, faulted>>
    BY <1>4 DEF WorkerStep, RunReturns, Handle, MakeThrows, MakeClient, ListClient, Announce,
       handle_connection, LoseClient, disconnect, code, history, threads
  <2>2. mutex => all_clients' = all_clients
    BY <1>4 DEF WorkerStep, RunReturns, Handle, MakeThrows, MakeClient, ListClient, Announce,
       handle_connection, LoseClient, disconnect, MayErase, code
  <2> QED BY <2>1, <2>2 DEF Guarded, Listed
<1>5. CASE UNCHANGED <<all_clients, mutex, target, faulted>>
           /\ (app' = app \/ app' \notin {"closing", "clearing"})
  BY <1>5 DEF Guarded, Listed
<1>6. CASE send_to_all_clients
  BY <1>6 DEF send_to_all_clients, threads, history, Guarded
<1>7. CASE ~FindToClose /\ ~CloseSocket /\ ~ClearFlag /\ ~send_to_all_clients
           /\ ~(\E w \in Workers : WorkerStep(w))
  BY <1>5, <1>7 DEF Next, AppCalls, AppReturns, Network, StartAccepts, StartReturns, stop,
     accept_connection_, Destroy, DestroyJoins, PeerCalls, AcceptCompletes, AcceptFails,
     PeerGoes, vars, code, threads, context, history
<1> QED BY <1>1, <1>2, <1>3, <1>4, <1>6, <1>7
-----------------------------------------------------------------------------
(* The chain of accepts, step by step.                                     *)
LEMMA WorkerChain ==
  ASSUME ServerAssumption, Typed, AcceptChain, NEW w \in Workers, WorkerStep(w)
  PROVE  AcceptChain' /\ Chains' <= Chains
<1> DEFINE r == Cardinality(Ofs(ready))
           t == Cardinality(Takers(worker))
<1>n. /\ worker \in [Workers -> WorkerStates] /\ ready \in Seq(Events)
      /\ Chains = accepts + r + t
      /\ accepts \in Nat /\ r \in Nat /\ t \in Nat /\ Chains \in Nat
  BY ChainsIs DEF Typed
<1>b. /\ broken \in BOOLEAN /\ broken' \in BOOLEAN /\ acceptor' = acceptor /\ crossed' = crossed
  BY WorkerTyped DEF Typed
<1>e. Weight(worker[w]) = IF worker[w].at \in AcceptStates THEN 1 ELSE 0
  BY DEF Weight
<1> HIDE DEF r, t
<1>a. ASSUME NEW at, At(w, at)
      PROVE  Cardinality(Takers(worker')) =
               t - Weight(worker[w]) + (IF at \in AcceptStates THEN 1 ELSE 0)
  <2> DEFINE v == [at |-> at, with |-> IF at \in {"idle", "ended", "crashed"} THEN NoPeer ELSE With(w)]
  <2>1. worker' = [worker EXCEPT ![w] = v]
    BY <1>a DEF At
  <2>2. Weight(v) = IF at \in AcceptStates THEN 1 ELSE 0
    BY DEF Weight
  <2> HIDE DEF v
  <2>3. Cardinality(Takers(worker')) = Cardinality(Takers(worker)) - Weight(worker[w]) + Weight(v)
    BY <2>1, <1>n, TakersChange
  <2> QED BY <2>2, <2>3 DEF t
<1>s. ASSUME Chains' = Chains, broken' = broken PROVE AcceptChain' /\ Chains' <= Chains
  BY <1>s, <1>b, <1>n DEF AcceptChain
<1>l. ASSUME Chains' = Chains - 1, broken' = TRUE PROVE AcceptChain' /\ Chains' <= Chains
  BY <1>l, <1>b, <1>n DEF AcceptChain
<1>1. CASE RunReturns(w) \/ ListClient(w) \/ LoseClient(w) \/ disconnect(w)
  <2>1. UNCHANGED <<accepts, ready, broken>>
    BY <1>1 DEF RunReturns, ListClient, LoseClient, disconnect, context, history
  <2>2. PICK at : At(w, at) /\ (at \in AcceptStates <=> worker[w].at \in AcceptStates)
    BY <1>1 DEF RunReturns, ListClient, LoseClient, disconnect, AcceptStates
  <2>3. Cardinality(Takers(worker')) = t
    BY <2>2, <1>a, <1>e, <1>n
  <2>4. Chains' = Chains
    BY <2>1, <2>3, <1>n, ChainsIsAfter DEF r
  <2> QED BY <2>1, <2>4, <1>s
<1>2. CASE Handle(w)
  <2> DEFINE e == Head(ready)
  <2>1. /\ worker[w].at = "idle" /\ ready # << >> /\ ready' = Tail(ready) /\ accepts' = accepts
        /\ broken' = (broken \/ (IsOfAccept(e) /\ ~MayAccept(e)))
    BY <1>2 DEF Handle
  <2>2. Cardinality(Ofs(ready')) = r - (IF IsOfAccept(e) THEN 1 ELSE 0)
    BY <2>1, <1>n, OfsTail DEF r
  <2>3. Weight(worker[w]) = 0
    BY <2>1, <1>e DEF AcceptStates
  <2>4. CASE MayAccept(e)
    <3> DEFINE v == [at |-> "making", with |-> e.with]
    <3>1. worker' = [worker EXCEPT ![w] = v]
      <4>1. ~NoticeLoss(e)
        BY <2>4 DEF MayAccept, NoticeLoss
      <4> QED BY <1>2, <2>4, <4>1 DEF Handle
    <3>2. Weight(v) = 1
      BY DEF Weight, AcceptStates
    <3> HIDE DEF v
    <3>3. Cardinality(Takers(worker')) = t + 1
      <4>1. Cardinality(Takers([worker EXCEPT ![w] = v])) = t - Weight(worker[w]) + Weight(v)
        BY <1>n, TakersChange DEF t
      <4> QED BY <3>1, <3>2, <2>3, <4>1, <1>n
    <3>4. IsOfAccept(e)
      BY <2>4 DEF MayAccept, IsOfAccept
    <3>5. Chains' = Chains
      BY <2>1, <2>2, <3>3, <3>4, <1>n, ChainsIsAfter
    <3>6. broken' = broken
      BY <2>1, <2>4, <1>b, Zenon
    <3> QED BY <3>5, <3>6, <1>s
  <2>5. CASE ~MayAccept(e)
    <3>1. Cardinality(Takers(worker')) = t
      <4>1. CASE NoticeLoss(e)
        <5> DEFINE v == [at |-> "losing", with |-> e.with]
        <5>1. worker' = [worker EXCEPT ![w] = v]
          BY <1>2, <2>5, <4>1 DEF Handle
        <5>2. Weight(v) = 0
          BY DEF Weight, AcceptStates
        <5> HIDE DEF v
        <5>3. Cardinality(Takers([worker EXCEPT ![w] = v])) = t - Weight(worker[w]) + Weight(v)
          BY <1>n, TakersChange DEF t
        <5> QED BY <5>1, <5>2, <5>3, <2>3, <1>n
      <4>2. CASE ~NoticeLoss(e)
        <5>1. worker' = worker
          BY <1>2, <2>5, <4>2 DEF Handle
        <5> QED BY <5>1 DEF t
      <4> QED BY <4>1, <4>2
    <3>2. CASE IsOfAccept(e)
      <4>1. broken' = TRUE
        BY <2>1, <2>5, <3>2
      <4>2. Chains' = Chains - 1
        BY <2>1, <2>2, <3>1, <3>2, <1>n, ChainsIsAfter
      <4> QED BY <4>1, <4>2, <1>l
    <3>3. CASE ~IsOfAccept(e)
      <4>1. broken' = broken
        BY <2>1, <3>3, <1>b, Zenon
      <4>2. Chains' = Chains
        BY <2>1, <2>2, <3>1, <3>3, <1>n, ChainsIsAfter
      <4> QED BY <4>1, <4>2, <1>s
    <3> QED BY <3>2, <3>3
  <2> QED BY <2>4, <2>5
<1>3. CASE MakeThrows(w)
  <2>1. UNCHANGED <<accepts, ready>> /\ broken' = TRUE /\ At(w, "idle") /\ worker[w].at = "making"
    BY <1>3 DEF MakeThrows, context
  <2>2. Cardinality(Takers(worker')) = t - 1
    BY <2>1, <1>a, <1>e, <1>n DEF AcceptStates
  <2>3. Chains' = Chains - 1
    BY <2>1, <2>2, <1>n, ChainsIsAfter DEF r
  <2> QED BY <2>1, <2>3, <1>l
<1>4. CASE MakeClient(w)
  <2>1. /\ accepts' = accepts /\ broken' = broken /\ At(w, "listing") /\ worker[w].at = "making"
        /\ ready' = ready \/ ready' = Append(ready, Lost(With(w)))
    BY <1>4 DEF MakeClient, history
  <2>2. Cardinality(Takers(worker')) = t
    BY <2>1, <1>a, <1>e, <1>n DEF AcceptStates
  <2>3. Cardinality(Ofs(ready')) = r
    <3>1. Lost(With(w)) \in Events /\ ~IsOfAccept(Lost(With(w)))
      BY <1>n DEF Lost, Events, IsOfAccept, With, WorkerStates
    <3>2. Cardinality(Ofs(Append(ready, Lost(With(w))))) = r
      BY <3>1, <1>n, OfsAppend DEF r
    <3> QED BY <2>1, <3>2 DEF r
  <2>4. Chains' = Chains
    BY <2>1, <2>2, <2>3, <1>n, ChainsIsAfter
  <2> QED BY <2>1, <2>4, <1>s
<1>5. CASE Announce(w)
  <2>1. UNCHANGED <<accepts, ready>> /\ worker[w].at = "listed"
    BY <1>5 DEF Announce, context
  <2>2. CASE At(w, "rearming") /\ broken' = broken
    <3>1. Cardinality(Takers(worker')) = t
      BY <2>1, <2>2, <1>a, <1>e, <1>n DEF AcceptStates
    <3>2. Chains' = Chains
      BY <2>1, <3>1, <1>n, ChainsIsAfter DEF r
    <3> QED BY <2>2, <3>2, <1>s
  <2>3. CASE At(w, "idle") /\ broken' = TRUE
    <3>1. Cardinality(Takers(worker')) = t - 1
      BY <2>1, <2>3, <1>a, <1>e, <1>n DEF AcceptStates
    <3>2. Chains' = Chains - 1
      BY <2>1, <3>1, <1>n, ChainsIsAfter DEF r
    <3> QED BY <2>3, <3>2, <1>l
  <2> QED BY <1>5, <2>2, <2>3 DEF Announce
<1>6. CASE handle_connection(w)
  <2>1. worker[w].at = "rearming" /\ ready' = ready /\ broken' = broken
    BY <1>6 DEF handle_connection
  <2>2. CASE acceptor
    <3>1. accepts' = accepts + 1 /\ At(w, "idle")
      BY <1>6, <2>2 DEF handle_connection, Rearmed
    <3>2. Cardinality(Takers(worker')) = t - 1
      BY <2>1, <3>1, <1>a, <1>e, <1>n DEF AcceptStates
    <3>3. Chains' = Chains
      BY <2>1, <3>1, <3>2, <1>n, ChainsIsAfter DEF r
    <3> QED BY <2>1, <3>3, <1>s
  <2>3. CASE ~acceptor
    <3>1. accepts' = accepts /\ At(w, "crashed")
      BY <1>6, <2>3 DEF handle_connection
    <3>2. Cardinality(Takers(worker')) = t - 1
      BY <2>1, <3>1, <1>a, <1>e, <1>n DEF AcceptStates
    <3>3. Chains' = Chains - 1
      BY <2>1, <3>1, <3>2, <1>n, ChainsIsAfter DEF r
    <3> QED BY <2>3, <3>3, <1>b, <1>n DEF AcceptChain
  <2> QED BY <2>2, <2>3
<1> QED BY <1>1, <1>2, <1>3, <1>4, <1>5, <1>6 DEF WorkerStep

LEMMA ChainInductive ==
  ASSUME ServerAssumption, Typed, Unmade, Chained, [Next]_vars
  PROVE  Chained'
<1> DEFINE r == Cardinality(Ofs(ready))
           t == Cardinality(Takers(worker))
<1>n. /\ worker \in [Workers -> WorkerStates] /\ ready \in Seq(Events)
      /\ Chains = accepts + r + t
      /\ accepts \in Nat /\ r \in Nat /\ t \in Nat /\ Chains \in Nat
      /\ crossed \in BOOLEAN /\ broken \in BOOLEAN /\ starts \in Nat
  BY ChainsIs DEF Typed, ServerAssumption
<1>c. (acceptor /\ ~broken => Chains >= 1) /\ (~crossed => Chains <= 1) /\ Chains <= starts
  BY DEF Chained, AcceptChain
<1> HIDE DEF r, t
<1>s. ASSUME Chains' = Chains, UNCHANGED <<acceptor, broken, crossed, starts>> PROVE Chained'
  BY <1>s DEF Chained, AcceptChain
<1>u. ASSUME UNCHANGED <<accepts, ready, worker, acceptor, broken, crossed, starts>> PROVE Chained'
  BY <1>u DEF Chained, AcceptChain, Chains, Accepting
<1>l. ASSUME CloseAcceptor, UNCHANGED <<worker, broken, crossed, starts>> PROVE Chained'
  <2>1. acceptor' = FALSE /\ accepts' = 0 /\ Cardinality(Ofs(ready')) = r
    BY <1>l, ClosingAccepts DEF r
  <2>2. Cardinality(Takers(worker')) = t
    BY <1>l DEF t
  <2>3. Chains' = 0 + r + t
    BY <2>1, <2>2, ChainsIsAfter
  <2>4. Chains' <= Chains
    BY <2>3, <1>n
  <2> QED BY <2>1, <2>3, <2>4, <1>l, <1>c, <1>n DEF Chained, AcceptChain
<1>1. CASE StartAccepts
  <2>1. /\ starts' = starts + 1 /\ acceptor' = TRUE /\ accepts' = accepts + 1 /\ broken' = FALSE
        /\ crossed' = (crossed \/ Chains > 0) /\ UNCHANGED <<worker, ready>>
    BY <1>1 DEF StartAccepts
  <2>2. Chains' = Chains + 1
    BY <2>1, <1>n, ChainsIsAfter DEF r, t
  <2>3. ~crossed' => ~(Chains > 0)
    BY <2>1, Zenon
  <2> QED BY <2>1, <2>2, <2>3, <1>n, <1>c DEF Chained, AcceptChain
<1>2. CASE StartReturns
  <2> DEFINE v == [worker[starts] EXCEPT !.at = "idle"]
  <2>1. /\ app = "starting" /\ worker' = [worker EXCEPT ![starts].at = "idle"]
        /\ UNCHANGED <<accepts, ready, acceptor, broken, crossed, starts>>
    BY <1>2 DEF StartReturns, context, history
  <2>2. starts \in Workers
    BY <2>1 DEF Unmade, Typed, Workers, ServerAssumption
  <2>3. starts > Begun
    BY <2>1, <2>2 DEF Begun, Workers, ServerAssumption
  <2>4. worker[starts].at = "none"
    BY <2>2, <2>3 DEF Unmade
  <2>5. worker' = [worker EXCEPT ![starts] = v]
    BY <2>1
  <2>6. Weight(worker[starts]) = 0 /\ Weight(v) = 0
    BY <2>2, <2>4, <1>n DEF Weight, AcceptStates, WorkerStates
  <2> HIDE DEF v
  <2>7. Cardinality(Takers(worker')) = t
    <3>1. Cardinality(Takers([worker EXCEPT ![starts] = v])) = t - Weight(worker[starts]) + Weight(v)
      BY <2>2, <1>n, TakersChange DEF t
    <3> QED BY <2>5, <2>6, <3>1, <1>n
  <2>8. Chains' = Chains
    BY <2>1, <2>7, <1>n, ChainsIsAfter DEF r
  <2> QED BY <2>1, <2>8, <1>s
<1>3. CASE stop
  <2>1. CloseAcceptor /\ UNCHANGED <<worker, broken, crossed, starts>>
    BY <1>3 DEF stop, threads, history
  <2> QED BY <2>1, <1>l
<1>4. CASE Destroy
  <2>1. UNCHANGED <<worker, broken, crossed, starts>>
    BY <1>4 DEF Destroy, history
  <2>2. CloseAcceptor \/ UNCHANGED <<accepts, ready, acceptor>>
    BY <1>4 DEF Destroy
  <2> QED BY <2>1, <2>2, <1>l, <1>u
<1>5. ASSUME NEW e \in Events, ready' = Append(ready, e), IsOfAccept(e), accepts' = accepts - 1,
             UNCHANGED <<worker, acceptor, broken, crossed, starts>>
      PROVE  Chained'
  <2>1. Cardinality(Ofs(ready')) = r + 1
    BY <1>5, <1>n, OfsAppend DEF r
  <2>2. Chains' = Chains
    BY <2>1, <1>5, <1>n, ChainsIsAfter DEF t
  <2> QED BY <2>2, <1>5, <1>s
<1>6. ASSUME NEW p \in Peers \cup {NoPeer},
             ready' = Append(ready, Lost(p)) \/ ready' = ready,
             UNCHANGED <<accepts, worker, acceptor, broken, crossed, starts>>
      PROVE  Chained'
  <2>1. Lost(p) \in Events /\ ~IsOfAccept(Lost(p))
    BY DEF Lost, Events, IsOfAccept
  <2>2. Cardinality(Ofs(Append(ready, Lost(p)))) = r
    BY <2>1, <1>n, OfsAppend DEF r
  <2>3. Cardinality(Ofs(ready')) = r
    BY <2>2, <1>6 DEF r
  <2>4. Chains' = Chains
    BY <2>3, <1>6, <1>n, ChainsIsAfter DEF t
  <2> QED BY <2>4, <1>6, <1>s
<1>7. CASE AcceptFails
  <2>1. Failed \in Events /\ IsOfAccept(Failed)
    BY DEF Failed, Events, IsOfAccept
  <2>2. ready' = Append(ready, Failed) /\ accepts' = accepts - 1
        /\ UNCHANGED <<worker, acceptor, broken, crossed, starts>>
    BY <1>7 DEF AcceptFails, code, threads, history
  <2> QED BY <2>1, <2>2, <1>5
<1>8. ASSUME NEW p \in Peers, AcceptCompletes(p) PROVE Chained'
  <2>1. Accepted(p) \in Events /\ IsOfAccept(Accepted(p))
    BY DEF Accepted, Events, IsOfAccept
  <2>2. ready' = Append(ready, Accepted(p)) /\ accepts' = accepts - 1
        /\ UNCHANGED <<worker, acceptor, broken, crossed, starts>>
    BY <1>8 DEF AcceptCompletes, code, threads, history
  <2> QED BY <2>1, <2>2, <1>5
<1>9. ASSUME NEW p \in Peers, PeerGoes(p) PROVE Chained'
  <2>1. (ready' = Append(ready, Lost(p)) \/ ready' = ready)
        /\ UNCHANGED <<accepts, worker, acceptor, broken, crossed, starts>>
    BY <1>9 DEF PeerGoes, code, threads, history
  <2> QED BY <2>1, <1>6
<1>10. CASE CloseSocket
  <2>1. (ready' = Append(ready, Lost(target)) \/ ready' = ready)
        /\ UNCHANGED <<accepts, worker, acceptor, broken, crossed, starts>>
    BY <1>10 DEF CloseSocket, code
  <2>2. target \in Peers \cup {NoPeer}
    BY DEF Typed
  <2> QED BY <2>1, <2>2, <1>6
<1>11. ASSUME NEW w \in Workers, WorkerStep(w) PROVE Chained'
  <2>1. AcceptChain' /\ Chains' <= Chains /\ starts' = starts
    BY <1>11, WorkerChain, WorkerTyped DEF Chained
  <2>2. Chains' \in Nat
    BY TypedInductive, ChainsNat
  <2> QED BY <2>1, <2>2, <1>c, <1>n DEF Chained
<1>12. CASE \/ accept_connection_ \/ DestroyJoins \/ send_to_all_clients \/ FindToClose
            \/ ClearFlag \/ (\E p \in Peers : PeerCalls(p)) \/ UNCHANGED vars
  <2>1. UNCHANGED <<accepts, ready, worker, acceptor, broken, crossed, starts>>
    BY <1>12 DEF accept_connection_, DestroyJoins, send_to_all_clients, FindToClose, ClearFlag,
       PeerCalls, vars, code, threads, context, history
  <2> QED BY <2>1, <1>u
<1> QED
  BY <1>1, <1>2, <1>3, <1>4, <1>7, <1>8, <1>9, <1>10, <1>11, <1>12
     DEF Next, AppCalls, AppReturns, Network
-----------------------------------------------------------------------------
(* Whom a queue of completions speaks of                                   *)
LEMMA AcceptedIs ==
  ASSUME NEW e \in Events, e.what = "accepted"
  PROVE  e = Accepted(e.with)
BY DEF Events, Accepted

LEMMA QueueAppend ==
  ASSUME NEW q \in Seq(Events), NEW e \in Events
  PROVE  /\ \A p : Holds(Append(q, e), p) <=> Holds(q, p) \/ e = Accepted(p)
         /\ Single(q) /\ (e.what = "accepted" => ~Holds(q, e.with)) => Single(Append(q, e))
         /\ OfPeers(q) /\ (e.what \in {"accepted", "lost"} => e.with \in Peers) => OfPeers(Append(q, e))
<1> DEFINE r == Append(q, e)
<1>1. /\ Len(r) = Len(q) + 1 /\ Len(q) \in Nat
      /\ \A k \in 1 .. Len(q) : r[k] = q[k]
      /\ r[Len(q) + 1] = e
  BY AppendProperties, LenProperties
<1> HIDE DEF r
<1>2. \A k : k \in 1 .. Len(r) <=> k \in 1 .. Len(q) \/ k = Len(q) + 1
  BY <1>1
<1>3. \A p : Holds(r, p) <=> Holds(q, p) \/ e = Accepted(p)
  BY <1>1, <1>2 DEF Holds
<1>4. ASSUME Single(q), e.what = "accepted" => ~Holds(q, e.with) PROVE Single(r)
  <2>1. e.what = "accepted" => \A k \in 1 .. Len(q) : q[k] # e
    BY <1>4, AcceptedIs DEF Holds
  <2> SUFFICES ASSUME NEW j \in 1 .. Len(r), NEW k \in 1 .. Len(r), r[j] = r[k], r[j].what = "accepted"
               PROVE  j = k
    BY DEF Single
  <2>2. CASE j \in 1 .. Len(q) /\ k \in 1 .. Len(q)
    BY <2>2, <1>1, <1>4 DEF Single
  <2>3. CASE j = Len(q) + 1 \/ k = Len(q) + 1
    BY <2>1, <2>3, <1>1, <1>2
  <2> QED BY <2>2, <2>3, <1>2
<1>5. ASSUME OfPeers(q), e.what \in {"accepted", "lost"} => e.with \in Peers PROVE OfPeers(r)
  BY <1>1, <1>2, <1>5 DEF OfPeers
<1> QED BY <1>3, <1>4, <1>5 DEF r

LEMMA QueueTail ==
  ASSUME NEW q \in Seq(Events), q # << >>
  PROVE  /\ \A p : Holds(Tail(q), p) => Holds(q, p)
         /\ Single(q) => Single(Tail(q)) /\ \A p : Head(q) = Accepted(p) => ~Holds(Tail(q), p)
         /\ OfPeers(q) => OfPeers(Tail(q))
         /\ \A p : Head(q) = Accepted(p) => Holds(q, p)
         /\ OfPeers(q) /\ Head(q).what \in {"accepted", "lost"} => Head(q).with \in Peers
<1> DEFINE r == Tail(q)
<1>1. /\ Len(r) = Len(q) - 1 /\ Len(q) \in Nat /\ 1 \in 1 .. Len(q)
      /\ \A k \in 1 .. Len(r) : r[k] = q[k + 1]
      /\ Head(q) = q[1]
  BY HeadTailProperties, LenProperties, EmptySeq
<1> HIDE DEF r
<1>2. \A k \in 1 .. Len(r) : k + 1 \in 1 .. Len(q) /\ k + 1 # 1
  BY <1>1
<1>3. \A p : Holds(r, p) => Holds(q, p)
  BY <1>1, <1>2 DEF Holds
<1>4. ASSUME Single(q) PROVE Single(r)
  <2> SUFFICES ASSUME NEW j \in 1 .. Len(r), NEW k \in 1 .. Len(r), r[j] = r[k], r[j].what = "accepted"
               PROVE  j = k
    BY DEF Single
  <2>1. q[j + 1] = q[k + 1] /\ q[j + 1].what = "accepted"
    BY <1>1
  <2>2. j + 1 = k + 1
    BY <2>1, <1>2, <1>4 DEF Single
  <2> QED BY <2>2
<1>5. ASSUME Single(q), NEW p, Head(q) = Accepted(p) PROVE ~Holds(r, p)
  <2> SUFFICES ASSUME NEW k \in 1 .. Len(r), r[k] = Accepted(p) PROVE FALSE
    BY DEF Holds
  <2>1. q[k + 1] = q[1] /\ q[k + 1].what = "accepted" /\ k + 1 \in 1 .. Len(q) /\ k + 1 # 1
    BY <1>1, <1>2, <1>5 DEF Accepted
  <2> QED BY <2>1, <1>1, <1>5 DEF Single
<1>6. OfPeers(q) => OfPeers(r)
  BY <1>1, <1>2 DEF OfPeers
<1>7. \A p : Head(q) = Accepted(p) => Holds(q, p)
  BY <1>1 DEF Holds
<1>8. OfPeers(q) /\ Head(q).what \in {"accepted", "lost"} => Head(q).with \in Peers
  BY <1>1 DEF OfPeers
<1> QED BY <1>3, <1>4, <1>5, <1>6, <1>7, <1>8 DEF r

LEMMA QueueAborted ==
  ASSUME NEW q \in Seq(Events), NEW n \in Nat
  PROVE  LET r == q \o [k \in 1 .. n |-> Aborted]
         IN  /\ \A p : Holds(r, p) => Holds(q, p)
             /\ Single(q) => Single(r)
             /\ OfPeers(q) => OfPeers(r)
<1> DEFINE t == [k \in 1 .. n |-> Aborted]
           r == q \o t
<1>1. Aborted \in Events /\ Aborted.what = "aborted"
  BY DEF Aborted, Events
<1>2. t \in [1 .. n -> Events] /\ \A k \in 1 .. n : t[k] = Aborted
  BY <1>1
<1>3. t \in Seq(Events)
  BY <1>2, SeqDef
<1>4. Len(t) = n
  BY <1>2, <1>3, LenProperties
<1> HIDE DEF t
<1>5. /\ Len(r) = Len(q) + n /\ Len(q) \in Nat
      /\ \A i \in 1 .. Len(q) + n : r[i] = IF i <= Len(q) THEN q[i] ELSE t[i - Len(q)]
  BY <1>3, <1>4, ConcatProperties, LenProperties
<1> HIDE DEF r
<1>6. \A i \in 1 .. Len(r) : (i \in 1 .. Len(q) /\ r[i] = q[i]) \/ r[i] = Aborted
  <2> TAKE i \in 1 .. Len(r)
  <2>1. CASE i <= Len(q)
    BY <1>5, <2>1
  <2>2. CASE i > Len(q)
    <3>1. i - Len(q) \in 1 .. n
      BY <1>5, <2>2
    <3> QED BY <1>2, <1>5, <2>2, <3>1
  <2> QED BY <1>5, <2>1, <2>2
<1>7. \A p : Accepted(p) # Aborted
  BY DEF Accepted, Aborted
<1>8. \A p : Holds(r, p) => Holds(q, p)
  BY <1>6, <1>7 DEF Holds
<1>9. Single(q) => Single(r)
  BY <1>1, <1>6 DEF Single
<1>10. OfPeers(q) => OfPeers(r)
  BY <1>1, <1>6 DEF OfPeers
<1> QED BY <1>8, <1>9, <1>10 DEF r, t

(* An event that is not an accept brings no one in. *)
LEMMA QueueOther ==
  ASSUME NEW q \in Seq(Events), NEW e \in Events, e.what # "accepted", Single(q)
  PROVE  Single(Append(q, e)) /\ \A p : Holds(Append(q, e), p) => Holds(q, p)
<1>1. \A p : e # Accepted(p)
  BY DEF Accepted
<1> QED BY <1>1, QueueAppend

LEMMA EventsAre ==
  ASSUME NEW p \in Peers \cup {NoPeer}
  PROVE  /\ Accepted(p) \in Events /\ Accepted(p).what = "accepted" /\ Accepted(p).with = p
         /\ Lost(p) \in Events /\ Lost(p).what = "lost" /\ Lost(p).with = p
         /\ Failed \in Events /\ Failed.what = "failed"
BY DEF Accepted, Lost, Failed, Events

(* A step that gives no one a completion or a worker that makes a client    *)
(* leaves every caller where it was, or turns it away.                      *)
LEMMA OnceFrame ==
  ASSUME OnceOnly, Single(ready'), \A p \in Peers : Holds(ready', p) => Holds(ready, p),
         \A w \in Workers : worker'[w].at = "making" => worker'[w] = worker[w],
         \A p \in Peers : /\ peer'[p] \in {"away", "calling", "refused"}
                               => peer[p] \in {"away", "calling", "refused"}
                          /\ peer'[p] \in {"away", "calling"} => peer[p] \in {"away", "calling"}
  PROVE  OnceOnly' /\ Newcomers' \subseteq Newcomers
<1>1. \A p \in Peers : Doing("making", p)' => Doing("making", p)
  <2> SUFFICES ASSUME NEW p \in Peers, NEW w \in Workers, worker'[w] = [at |-> "making", with |-> p]
               PROVE  Doing("making", p)
    BY DEF Doing
  <2>1. worker'[w].at = "making"
    OBVIOUS
  <2>2. worker[w] = [at |-> "making", with |-> p]
    BY <2>1
  <2> QED BY <2>2 DEF Doing
<1>2. \A v, w \in Workers : worker'[v] = worker'[w] /\ worker'[v].at = "making" => v = w
  <2> SUFFICES ASSUME NEW v \in Workers, NEW w \in Workers, worker'[v] = worker'[w], worker'[v].at = "making"
               PROVE  v = w
    OBVIOUS
  <2>1. worker'[v] = worker[v] /\ worker'[w] = worker[w]
    OBVIOUS
  <2>2. worker[v] = worker[w] /\ worker[v].at = "making"
    BY <2>1
  <2> QED BY <2>2 DEF OnceOnly
<1>3. Newcomers' \subseteq Newcomers
  BY <1>1 DEF Newcomers, Fresh
<1>4. \A p \in Peers : peer'[p] \in {"away", "calling", "refused"} => ~Holds(ready', p) /\ ~Doing("making", p)'
  BY <1>1 DEF OnceOnly
<1>5. \A p \in Peers : ~(Holds(ready', p) /\ Doing("making", p)')
  BY <1>1 DEF OnceOnly
<1> QED BY <1>2, <1>3, <1>4, <1>5 DEF OnceOnly

(* A caller gets one completion.                                           *)
LEMMA OnceAccepted ==
  ASSUME ServerAssumption, Typed, Named, OnceOnly, NEW p \in Peers, AcceptCompletes(p)
  PROVE  OnceOnly' /\ Newcomers' \subseteq Newcomers
<1>1. /\ peer[p] = "calling" /\ peer' = [peer EXCEPT ![p] = "open"]
      /\ ready' = Append(ready, Accepted(p)) /\ worker' = worker
  BY DEF AcceptCompletes, threads
<1>2. /\ ready \in Seq(Events) /\ Single(ready) /\ p \in Peers \cup {NoPeer}
      /\ peer \in [Peers -> {"away", "calling", "refused", "open", "gone", "closed"}]
  BY DEF Typed, OnceOnly, Named
<1>3. ~Holds(ready, p) /\ ~Doing("making", p)
  BY <1>1 DEF OnceOnly
<1>4. Accepted(p) \in Events /\ Accepted(p).with = p
  BY <1>2, EventsAre
<1>5. Single(ready') /\ \A q : Holds(ready', q) <=> Holds(ready, q) \/ Accepted(p) = Accepted(q)
  BY <1>1, <1>2, <1>3, <1>4, QueueAppend
<1>6. \A q \in Peers : Holds(ready', q) <=> Holds(ready, q) \/ q = p
  BY <1>5 DEF Accepted
<1>7. \A q : Doing("making", q)' <=> Doing("making", q)
  BY <1>1 DEF Doing
<1>8. peer'[p] = "open" /\ \A q \in Peers : q # p => peer'[q] = peer[q]
  BY <1>1, <1>2
<1>9. Newcomers' \subseteq Newcomers
  BY <1>1, <1>6, <1>7, <1>8 DEF Newcomers, Fresh
<1>10. OnceOnly'
  <2>1. \A q \in Peers : peer'[q] \in {"away", "calling", "refused"} => ~Holds(ready', q) /\ ~Doing("making", q)'
    BY <1>6, <1>7, <1>8 DEF OnceOnly
  <2>2. \A q \in Peers : ~(Holds(ready', q) /\ Doing("making", q)')
    BY <1>3, <1>6, <1>7 DEF OnceOnly
  <2>3. \A v, w \in Workers : worker'[v] = worker'[w] /\ worker'[v].at = "making" => v = w
    BY <1>1 DEF OnceOnly
  <2> QED BY <1>5, <2>1, <2>2, <2>3 DEF OnceOnly
<1> QED BY <1>9, <1>10

(* A worker that takes an accepted socket takes it from the queue. *)
LEMMA OnceHandled ==
  ASSUME ServerAssumption, Typed, Named, OnceOnly, NEW w \in Workers, Handle(w)
  PROVE  OnceOnly' /\ Newcomers' \subseteq Newcomers
<1> DEFINE e == Head(ready)
<1>1. /\ worker[w].at = "idle" /\ ready # << >> /\ ready' = Tail(ready) /\ peer' = peer
      /\ worker \in [Workers -> WorkerStates] /\ ready \in Seq(Events) /\ Single(ready) /\ OfPeers(ready)
  BY DEF Handle, Typed, OnceOnly, Named
<1>2. e \in Events
  BY <1>1, HeadTailProperties
<1>3. /\ Single(ready') /\ \A p : Holds(ready', p) => Holds(ready, p)
      /\ \A p : e = Accepted(p) => Holds(ready, p) /\ ~Holds(ready', p)
      /\ e.what \in {"accepted", "lost"} => e.with \in Peers
  BY <1>1, QueueTail
<1>4. CASE ~MayAccept(e)
  <2>1. \A x \in Workers : worker'[x].at = "making" => worker'[x] = worker[x]
    <3>1. CASE NoticeLoss(e)
      <4>1. worker' = [worker EXCEPT ![w] = [at |-> "losing", with |-> e.with]]
        BY <1>4, <3>1 DEF Handle
      <4> QED BY <4>1, <1>1
    <3>2. CASE ~NoticeLoss(e)
      <4>1. worker' = worker
        BY <1>4, <3>2 DEF Handle
      <4> QED BY <4>1
    <3> QED BY <3>1, <3>2
  <2> QED BY <2>1, <1>1, <1>3, OnceFrame
<1>5. CASE MayAccept(e)
  <2> DEFINE p == e.with
  <2>1. e = Accepted(p) /\ p \in Peers
    BY <1>2, <1>3, <1>5, AcceptedIs DEF MayAccept
  <2>2. worker' = [worker EXCEPT ![w] = [at |-> "making", with |-> p]]
    <3>1. ~NoticeLoss(e)
      BY <1>5 DEF MayAccept, NoticeLoss
    <3> QED BY <1>5, <3>1 DEF Handle
  <2> HIDE DEF e, p
  <2>3. Holds(ready, p) /\ ~Holds(ready', p)
    BY <1>3, <2>1
  <2>4. ~Doing("making", p) /\ peer[p] \notin {"away", "calling", "refused"}
    BY <2>1, <2>3 DEF OnceOnly
  <2>5. /\ worker'[w] = [at |-> "making", with |-> p]
        /\ \A x \in Workers : x # w => worker'[x] = worker[x]
    BY <2>2, <1>1
  <2>6. \A q : Doing("making", q)' <=> Doing("making", q) \/ q = p
    <3> TAKE q
    <3>1. Doing("making", q)' => Doing("making", q) \/ q = p
      BY <2>5 DEF Doing
    <3>2. Doing("making", q) => Doing("making", q)'
      <4> SUFFICES ASSUME NEW x \in Workers, worker[x] = [at |-> "making", with |-> q] PROVE Doing("making", q)'
        BY DEF Doing
      <4>1. x # w
        BY <1>1
      <4>2. worker'[x] = [at |-> "making", with |-> q]
        BY <4>1, <2>5
      <4> QED BY <4>2 DEF Doing
    <3>3. q = p => Doing("making", q)'
      BY <2>5 DEF Doing
    <3> QED BY <3>1, <3>2, <3>3
  <2>7. Newcomers' \subseteq Newcomers
    BY <2>3, <2>6, <1>1, <1>3 DEF Newcomers, Fresh
  <2>8. \A q \in Peers : peer'[q] \in {"away", "calling", "refused"} => ~Holds(ready', q) /\ ~Doing("making", q)'
    BY <2>4, <2>6, <1>1, <1>3 DEF OnceOnly
  <2>9. \A q \in Peers : ~(Holds(ready', q) /\ Doing("making", q)')
    BY <2>3, <2>6, <1>3 DEF OnceOnly
  <2>10. \A x, y \in Workers : worker'[x] = worker'[y] /\ worker'[x].at = "making" => x = y
    <3> SUFFICES ASSUME NEW x \in Workers, NEW y \in Workers, worker'[x] = worker'[y], worker'[x].at = "making"
                 PROVE  x = y
      OBVIOUS
    <3>1. CASE x = w \/ y = w
      <4>1. worker'[x] = [at |-> "making", with |-> p] /\ worker'[y] = [at |-> "making", with |-> p]
        BY <3>1, <2>5
      <4>2. \A z \in Workers : z # w => worker[z] # [at |-> "making", with |-> p]
        BY <2>4 DEF Doing
      <4> QED BY <4>1, <4>2, <2>5
    <3>2. CASE x # w /\ y # w
      BY <3>2, <2>5 DEF OnceOnly
    <3> QED BY <3>1, <3>2
  <2> QED BY <1>3, <2>7, <2>8, <2>9, <2>10 DEF OnceOnly
<1> QED BY <1>4, <1>5

(* Closing the acceptor turns callers away. *)
LEMMA OnceClosed ==
  ASSUME ServerAssumption, Typed, Named, OnceOnly, CloseAcceptor, worker' = worker
  PROVE  OnceOnly' /\ Newcomers' \subseteq Newcomers
<1>1. /\ ready \in Seq(Events) /\ accepts \in Nat /\ Single(ready)
      /\ ready' = ready \o [k \in 1 .. accepts |-> Aborted]
      /\ peer' = [p \in Peers |-> IF peer[p] = "calling" THEN "refused" ELSE peer[p]]
  BY DEF CloseAcceptor, Typed, OnceOnly
<1>2. Single(ready') /\ \A p : Holds(ready', p) => Holds(ready, p)
  BY <1>1, QueueAborted
<1>3. \A p \in Peers : /\ peer'[p] \in {"away", "calling", "refused"}
                            => peer[p] \in {"away", "calling", "refused"}
                       /\ peer'[p] \in {"away", "calling"} => peer[p] \in {"away", "calling"}
  BY <1>1
<1> QED BY <1>2, <1>3, OnceFrame

(* A worker that leaves the making of a client behind takes up no other. *)
LEMMA OnceWorked ==
  ASSUME ServerAssumption, Typed, Named, OnceOnly, NEW w \in Workers, WorkerStep(w), ~Handle(w)
  PROVE  OnceOnly' /\ Newcomers' \subseteq Newcomers
<1>1. PICK at \in {"idle", "ended", "listing", "listed", "rearming", "erasing", "crashed"} : At(w, at)
  BY DEF WorkerStep, RunReturns, MakeThrows, MakeClient, ListClient, Announce, handle_connection,
     LoseClient, disconnect
<1>2. \A x \in Workers : worker'[x].at = "making" => worker'[x] = worker[x]
  <2>1. worker \in [Workers -> WorkerStates]
    BY DEF Typed
  <2> DEFINE v == [at |-> at, with |-> IF at \in {"idle", "ended", "crashed"} THEN NoPeer ELSE With(w)]
  <2>2. worker' = [worker EXCEPT ![w] = v]
    BY <1>1 DEF At
  <2>3. v.at # "making"
    BY <1>1
  <2> HIDE DEF v
  <2> QED BY <2>1, <2>2, <2>3
<1>3. ready \in Seq(Events) /\ Single(ready)
  BY DEF Typed, OnceOnly
<1>4. Single(ready') /\ \A p : Holds(ready', p) => Holds(ready, p)
  <2>1. CASE MakeClient(w)
    <3>1. ready' = ready \/ ready' = Append(ready, Lost(With(w)))
      BY <2>1 DEF MakeClient
    <3>2. With(w) \in Peers \cup {NoPeer}
      BY DEF With, Typed, WorkerStates
    <3>3. Lost(With(w)) \in Events /\ Lost(With(w)).what # "accepted"
      BY <3>2, EventsAre
    <3> QED BY <3>1, <3>3, <1>3, QueueOther
  <2>2. CASE ~MakeClient(w)
    <3>1. ready' = ready
      BY <2>2 DEF WorkerStep, RunReturns, MakeThrows, ListClient, Announce, handle_connection,
         LoseClient, disconnect, context
    <3> QED BY <3>1, <1>3
  <2> QED BY <2>1, <2>2
<1>5. peer' = peer
  BY DEF WorkerStep, RunReturns, MakeThrows, MakeClient, ListClient, Announce, handle_connection,
     LoseClient, disconnect, context
<1> QED BY <1>2, <1>4, <1>5, OnceFrame

LEMMA OnceInductive ==
  ASSUME ServerAssumption, Typed, Named, OnceOnly, [Next]_vars
  PROVE  OnceOnly' /\ Newcomers' \subseteq Newcomers
<1>n. /\ ready \in Seq(Events) /\ Single(ready) /\ target \in Peers \cup {NoPeer}
      /\ worker \in [Workers -> WorkerStates]
      /\ peer \in [Peers -> {"away", "calling", "refused", "open", "gone", "closed"}]
  BY DEF Typed, Named, OnceOnly
<1>f. ASSUME ready' = ready \/ (\E e \in Events : e.what # "accepted" /\ ready' = Append(ready, e)),
             \A w \in Workers : worker'[w].at = "making" => worker'[w] = worker[w],
             \A p \in Peers : /\ peer'[p] \in {"away", "calling", "refused"}
                                   => peer[p] \in {"away", "calling", "refused"}
                              /\ peer'[p] \in {"away", "calling"} => peer[p] \in {"away", "calling"}
      PROVE  OnceOnly' /\ Newcomers' \subseteq Newcomers
  <2>1. Single(ready') /\ \A p : Holds(ready', p) => Holds(ready, p)
    <3>1. CASE ready' = ready
      BY <3>1, <1>n
    <3>2. ASSUME NEW e \in Events, e.what # "accepted", ready' = Append(ready, e)
          PROVE  Single(ready') /\ \A p : Holds(ready', p) => Holds(ready, p)
      BY <3>2, <1>n, QueueOther
    <3>3. CASE \E e \in Events : e.what # "accepted" /\ ready' = Append(ready, e)
      BY <3>2, <3>3
    <3> QED BY <3>1, <3>3, <1>f
  <2>2. \A w \in Workers : worker'[w].at = "making" => worker'[w] = worker[w]
    BY <1>f
  <2>3. \A p \in Peers : /\ peer'[p] \in {"away", "calling", "refused"}
                              => peer[p] \in {"away", "calling", "refused"}
                         /\ peer'[p] \in {"away", "calling"} => peer[p] \in {"away", "calling"}
    BY <1>f
  <2>4. Single(ready')
    BY <2>1
  <2>5. \A p \in Peers : Holds(ready', p) => Holds(ready, p)
    BY <2>1
  <2> QED BY <2>2, <2>3, <2>4, <2>5, OnceFrame
<1>1. CASE stop
  <2>1. CloseAcceptor /\ worker' = worker
    BY <1>1 DEF stop, threads
  <2> QED BY <2>1, OnceClosed
<1>2. CASE Destroy
  <2>1. worker' = worker /\ (CloseAcceptor \/ UNCHANGED <<ready, peer>>)
    BY <1>2 DEF Destroy
  <2> QED BY <2>1, <1>f, OnceClosed
<1>3. CASE StartReturns
  <2>1. worker' = [worker EXCEPT ![starts].at = "idle"] /\ UNCHANGED <<ready, peer>>
    BY <1>3 DEF StartReturns, context
  <2>2. \A w \in Workers : worker'[w].at = "making" => worker'[w] = worker[w]
    BY <2>1, <1>n DEF WorkerStates
  <2> QED BY <2>1, <2>2, <1>f
<1>4. CASE CloseSocket
  <2>1. /\ worker' = worker /\ peer' = [peer EXCEPT ![target] = "closed"]
        /\ ready' = ready \/ ready' = Append(ready, Lost(target))
    BY <1>4 DEF CloseSocket
  <2>2. Lost(target) \in Events /\ Lost(target).what # "accepted"
    BY <1>n, EventsAre
  <2>3. \A p \in Peers : peer'[p] = "closed" \/ peer'[p] = peer[p]
    BY <2>1, <1>n
  <2>4. \A p \in Peers : /\ peer'[p] \in {"away", "calling", "refused"}
                              => peer[p] \in {"away", "calling", "refused"}
                         /\ peer'[p] \in {"away", "calling"} => peer[p] \in {"away", "calling"}
    BY <2>3
  <2> QED BY <2>1, <2>2, <2>4, <1>f
<1>5. CASE AcceptFails
  <2>1. ready' = Append(ready, Failed) /\ worker' = worker /\ peer' = peer
    BY <1>5 DEF AcceptFails, threads
  <2>2. Failed \in Events /\ Failed.what # "accepted"
    BY <1>n, EventsAre
  <2> QED BY <2>1, <2>2, <1>f
<1>6. ASSUME NEW p \in Peers, PeerCalls(p) PROVE OnceOnly' /\ Newcomers' \subseteq Newcomers
  <2>1. peer[p] = "away" /\ peer' = [peer EXCEPT ![p] = "calling"] /\ UNCHANGED <<ready, worker>>
    BY <1>6 DEF PeerCalls, threads
  <2>2. \A q \in Peers : peer'[q] = peer[q] \/ peer[q] = "away"
    BY <2>1, <1>n
  <2>3. \A q \in Peers : /\ peer'[q] \in {"away", "calling", "refused"}
                              => peer[q] \in {"away", "calling", "refused"}
                         /\ peer'[q] \in {"away", "calling"} => peer[q] \in {"away", "calling"}
    BY <2>2
  <2> QED BY <2>1, <2>3, <1>f
<1>7. ASSUME NEW p \in Peers, PeerGoes(p) PROVE OnceOnly' /\ Newcomers' \subseteq Newcomers
  <2>1. /\ worker' = worker /\ peer' = [peer EXCEPT ![p] = "gone"]
        /\ ready' = ready \/ ready' = Append(ready, Lost(p))
    BY <1>7 DEF PeerGoes, threads
  <2>2. p \in Peers \cup {NoPeer}
    OBVIOUS
  <2>3. Lost(p) \in Events /\ Lost(p).what # "accepted"
    BY <2>2, EventsAre
  <2>4. \A q \in Peers : peer'[q] = "gone" \/ peer'[q] = peer[q]
    BY <2>1, <1>n
  <2>5. \A q \in Peers : /\ peer'[q] \in {"away", "calling", "refused"}
                              => peer[q] \in {"away", "calling", "refused"}
                         /\ peer'[q] \in {"away", "calling"} => peer[q] \in {"away", "calling"}
    BY <2>4
  <2> QED BY <2>1, <2>3, <2>5, <1>f
<1>8. CASE StartAccepts \/ accept_connection_ \/ DestroyJoins \/ send_to_all_clients \/ FindToClose
           \/ ClearFlag \/ UNCHANGED vars
  <2>1. UNCHANGED <<ready, worker, peer>>
    BY <1>8 DEF StartAccepts, accept_connection_, DestroyJoins, send_to_all_clients, FindToClose,
       ClearFlag, vars, threads, context
  <2> QED BY <2>1, <1>f
<1> QED
  BY <1>1, <1>2, <1>3, <1>4, <1>5, <1>6, <1>7, <1>8, OnceAccepted, OnceHandled, OnceWorked
     DEF Next, AppCalls, AppReturns, Network

(* There is a number for every client that may still be made. *)
LEMMA NewcomersFinite ==
  ASSUME ServerAssumption
  PROVE  IsFiniteSet(Newcomers) /\ Cardinality(Newcomers) \in Nat /\ Cardinality(Peers) \in Nat
<1>1. Newcomers \in SUBSET Peers
  BY DEF Newcomers
<1>2. IsFiniteSet(Peers)
  BY DEF ServerAssumption
<1>3. IsFiniteSet(Newcomers)
  BY <1>1, <1>2, FS_Subset
<1> QED BY <1>2, <1>3, FS_CardinalityType

LEMMA MakingIsNew ==
  ASSUME ServerAssumption, Typed, Named, NEW w \in Workers, worker[w].at = "making"
  PROVE  worker[w] = [at |-> "making", with |-> With(w)] /\ With(w) \in Newcomers
<1>1. worker[w] = [at |-> "making", with |-> With(w)]
  BY DEF Typed, WorkerStates, With
<1>2. With(w) \in Peers
  BY DEF Named, InHand, With
<1> QED BY <1>1, <1>2 DEF Newcomers, Fresh, Doing

LEMMA NumberLeft ==
  ASSUME ServerAssumption, Typed, Named, Numbered, NEW w \in Workers, worker[w].at = "making"
  PROVE  ID_Counter \in Ids
<1>1. Newcomers # {}
  BY MakingIsNew
<1>2. IsFiniteSet(Newcomers) /\ Cardinality(Newcomers) \in Nat /\ Cardinality(Peers) \in Nat
  BY NewcomersFinite
<1>3. Cardinality(Newcomers) # 0
  BY <1>1, <1>2, FS_EmptySet
<1>4. ID_Counter \in Nat
  BY DEF Named
<1> QED BY <1>2, <1>3, <1>4 DEF Numbered, Ids

(* A peer whose client is made is no newcomer any more. *)
LEMMA MadeIsKnown ==
  ASSUME ServerAssumption, Typed, Named, OnceOnly, NEW w \in Workers, MakeClient(w)
  PROVE  With(w) \in Newcomers /\ With(w) \notin Newcomers'
<1>p. PICK p : p = With(w)
  OBVIOUS
<1>1. worker[w] = [at |-> "making", with |-> p] /\ p \in Newcomers /\ p \in Peers
  BY <1>p, MakingIsNew DEF MakeClient, Newcomers
<1>2. /\ ID_Counter' = ID_Counter + 1 /\ peer' = peer
      /\ worker' = [worker EXCEPT ![w] = [at |-> "listing", with |-> p]]
      /\ ready' = ready \/ ready' = Append(ready, Lost(p))
  BY <1>p DEF MakeClient, NextNumber, At
<1>3. worker \in [Workers -> WorkerStates] /\ ready \in Seq(Events) /\ Single(ready)
      /\ p \in Peers \cup {NoPeer}
  BY <1>1 DEF Typed, OnceOnly
<1>4. Doing("making", p)
  BY <1>1 DEF Doing
<1>5. peer[p] \notin {"away", "calling"} /\ ~Holds(ready, p)
  BY <1>1, <1>4 DEF OnceOnly
<1>6. ~Holds(ready', p)
  <2>1. Lost(p) \in Events /\ Lost(p).what # "accepted"
    BY <1>3, EventsAre
  <2>2. Holds(Append(ready, Lost(p)), p) => Holds(ready, p)
    BY <2>1, <1>3, QueueOther
  <2> QED BY <2>2, <1>2, <1>5
<1>7. ~Doing("making", p)'
  <2> SUFFICES ASSUME NEW x \in Workers, worker'[x] = [at |-> "making", with |-> p] PROVE FALSE
    BY DEF Doing
  <2>1. x # w /\ worker[x] = [at |-> "making", with |-> p]
    BY <1>2, <1>3
  <2>2. worker[x] = worker[w] /\ worker[x].at = "making"
    BY <2>1, <1>1
  <2> QED BY <2>1, <2>2 DEF OnceOnly
<1>8. p \notin Newcomers'
  BY <1>2, <1>5, <1>6, <1>7 DEF Newcomers, Fresh
<1> QED BY <1>1, <1>8, <1>p

LEMMA NumberedInductive ==
  ASSUME ServerAssumption, Typed, Named, OnceOnly, Numbered, [Next]_vars
  PROVE  Numbered'
<1>n. IsFiniteSet(Newcomers) /\ Cardinality(Newcomers) \in Nat /\ Cardinality(Peers) \in Nat
      /\ ID_Counter \in Nat
  BY NewcomersFinite DEF Named
<1>1. OnceOnly' /\ Newcomers' \subseteq Newcomers
  BY OnceInductive
<1>2. ASSUME NEW T \in SUBSET Newcomers
      PROVE  Cardinality(T) \in Nat /\ Cardinality(T) <= Cardinality(Newcomers)
  BY <1>n, FS_Subset, FS_CardinalityType
<1>3. ASSUME NEW w \in Workers, MakeClient(w) PROVE Numbered'
  <2>p. PICK p : p = With(w)
    OBVIOUS
  <2>1. p \in Newcomers /\ p \notin Newcomers'
    BY <1>3, <2>p, MadeIsKnown
  <2>2. ID_Counter' = ID_Counter + 1
    BY <1>3 DEF MakeClient, NextNumber
  <2>3. Newcomers' \in SUBSET (Newcomers \ {p})
    BY <1>1, <2>1
  <2>4. IsFiniteSet(Newcomers \ {p}) /\ Cardinality(Newcomers \ {p}) = Cardinality(Newcomers) - 1
    BY <1>n, <2>1, FS_RemoveElement
  <2>5. Cardinality(Newcomers') \in Nat /\ Cardinality(Newcomers') <= Cardinality(Newcomers) - 1
    BY <2>3, <2>4, FS_Subset, FS_CardinalityType
  <2> QED BY <1>n, <2>2, <2>5 DEF Numbered
<1>4. CASE ~(\E w \in Workers : MakeClient(w))
  <2>1. ID_Counter' = ID_Counter
    BY <1>4 DEF Next, AppCalls, AppReturns, Network, WorkerStep, StartAccepts, StartReturns, stop,
       accept_connection_, Destroy, DestroyJoins, send_to_all_clients, FindToClose, CloseSocket, ClearFlag,
       PeerCalls, AcceptCompletes, AcceptFails, PeerGoes, RunReturns, Handle, MakeThrows, ListClient,
       Announce, handle_connection, LoseClient, disconnect, vars, code
  <2>2. Cardinality(Newcomers') \in Nat /\ Cardinality(Newcomers') <= Cardinality(Newcomers)
    BY <1>1, <1>2
  <2> QED BY <1>n, <2>1, <2>2 DEF Numbered
<1> QED BY <1>3, <1>4

(* Whoever has a client in hand has the client of a peer.                  *)
LEMMA InHandWorked ==
  ASSUME ServerAssumption, Typed, Named, NEW w \in Workers, WorkerStep(w)
  PROVE  \A x \in Workers : worker'[x].at \in InHand => worker'[x].with \in Peers
<1>1. worker \in [Workers -> WorkerStates] /\ ready \in Seq(Events) /\ OfPeers(ready)
      /\ \A x \in Workers : worker[x].at \in InHand => worker[x].with \in Peers
  BY DEF Typed, Named
<1>2. CASE Handle(w)
  <2> DEFINE e == Head(ready)
  <2>1. ready # << >>
    BY <1>2 DEF Handle
  <2>2. e.what \in {"accepted", "lost"} => e.with \in Peers
    BY <2>1, <1>1, QueueTail
  <2>3. CASE MayAccept(e)
    <3>1. ~NoticeLoss(e) /\ e.what = "accepted"
      BY <2>3 DEF MayAccept, NoticeLoss
    <3>2. worker' = [worker EXCEPT ![w] = [at |-> "making", with |-> e.with]]
      BY <1>2, <2>3, <3>1 DEF Handle
    <3> HIDE DEF e
    <3> QED BY <1>1, <2>2, <3>1, <3>2
  <2>4. CASE ~MayAccept(e) /\ NoticeLoss(e)
    <3>1. e.what = "lost"
      BY <2>4 DEF NoticeLoss
    <3>2. worker' = [worker EXCEPT ![w] = [at |-> "losing", with |-> e.with]]
      BY <1>2, <2>4 DEF Handle
    <3> HIDE DEF e
    <3> QED BY <1>1, <2>2, <3>1, <3>2
  <2>5. CASE ~MayAccept(e) /\ ~NoticeLoss(e)
    <3>1. worker' = worker
      BY <1>2, <2>5 DEF Handle
    <3> QED BY <1>1, <3>1
  <2> QED BY <2>3, <2>4, <2>5
<1>3. CASE ~Handle(w)
  <2>1. PICK at : At(w, at) /\ (at \in {"idle", "ended", "crashed"} \/ worker[w].at \in InHand)
    BY <1>3 DEF WorkerStep, RunReturns, MakeThrows, MakeClient, ListClient, Announce,
       handle_connection, LoseClient, disconnect, InHand
  <2> DEFINE v == [at |-> at, with |-> IF at \in {"idle", "ended", "crashed"} THEN NoPeer ELSE With(w)]
  <2>2. worker' = [worker EXCEPT ![w] = v]
    BY <2>1 DEF At
  <2>3. v.at \in InHand => v.with \in Peers
    <3>1. v.at \in InHand => at \notin {"idle", "ended", "crashed"}
      BY DEF InHand
    <3> QED BY <3>1, <2>1, <1>1 DEF With
  <2> HIDE DEF v
  <2> QED BY <1>1, <2>2, <2>3
<1> QED BY <1>2, <1>3

(* The types of the clients, of the map and of the numbers *)
LEMMA WorkerNamed ==
  ASSUME ServerAssumption, Typed, Named, Numbered, NEW w \in Workers, WorkerStep(w)
  PROVE  Named'
<1>0. \A x \in Workers : worker'[x].at \in InHand => worker'[x].with \in Peers
  BY InHandWorked
<1>n. ready \in Seq(Events) /\ OfPeers(ready) /\ With(w) \in Peers \cup {NoPeer}
  BY DEF Typed, Named, With, WorkerStates
<1>w. worker[w].at \in InHand => With(w) \in Peers
  BY DEF Named, With
<1>q. OfPeers(ready')
  <2>1. CASE Handle(w)
    BY <2>1, <1>n, QueueTail DEF Handle
  <2>2. CASE MakeClient(w)
    <3>1. With(w) \in Peers
      BY <2>2, <1>w DEF MakeClient, InHand
    <3>2. Lost(With(w)) \in Events /\ Lost(With(w)).with = With(w)
      BY <1>n, EventsAre
    <3>3. OfPeers(Append(ready, Lost(With(w))))
      BY <3>1, <3>2, <1>n, QueueAppend
    <3> QED BY <2>2, <3>3, <1>n DEF MakeClient
  <2>3. CASE ~Handle(w) /\ ~MakeClient(w)
    BY <2>3, <1>n DEF WorkerStep, RunReturns, MakeThrows, ListClient, Announce, handle_connection,
       LoseClient, disconnect, context
  <2> QED BY <2>1, <2>2, <2>3
<1>f. /\ UNCHANGED <<is_running, accept_connection, app, target, peer>>
      /\ stopped' \in {stopped, TRUE} /\ crashed' \in {crashed, TRUE}
  BY DEF WorkerStep, RunReturns, Handle, MakeThrows, MakeClient, ListClient, Announce, handle_connection,
     LoseClient, disconnect, context, code, history
<1>1. /\ all_clients' \in [Ids -> Peers \cup {NoPeer}] /\ ID_Counter' \in Nat
      /\ is_connected' \in [Peers -> BOOLEAN] /\ id' \in [Peers -> Ids]
      /\ registered' \in SUBSET Peers /\ receiving' \in SUBSET Peers
  <2>n. /\ all_clients \in [Ids -> Peers \cup {NoPeer}] /\ ID_Counter \in Nat
        /\ is_connected \in [Peers -> BOOLEAN] /\ id \in [Peers -> Ids]
        /\ registered \in SUBSET Peers /\ receiving \in SUBSET Peers
    BY DEF Named
  <2>1. CASE MakeClient(w)
    <3>1. With(w) \in Peers /\ ID_Counter \in Ids
      BY <2>1, <1>w, NumberLeft DEF MakeClient, InHand
    <3>2. /\ id' = [id EXCEPT ![With(w)] = ID_Counter] /\ ID_Counter' = ID_Counter + 1
          /\ is_connected' = [is_connected EXCEPT ![With(w)] = TRUE]
          /\ receiving' = receiving \/ receiving' = receiving \cup {With(w)}
          /\ UNCHANGED <<all_clients, registered>>
      BY <2>1 DEF MakeClient, NextNumber
    <3>3. receiving' \in SUBSET Peers
      BY <3>1, <3>2, <2>n
    <3> QED BY <3>1, <3>2, <3>3, <2>n
  <2>2. CASE ListClient(w)
    <3>1. With(w) \in Peers
      BY <2>2, <1>w DEF ListClient, InHand
    <3>2. all_clients' = [all_clients EXCEPT ![id[With(w)]] = With(w)]
          /\ UNCHANGED <<ID_Counter, is_connected, id, registered, receiving>>
      BY <2>2 DEF ListClient, clients, context
    <3> QED BY <3>1, <3>2, <2>n
  <2>3. CASE Announce(w)
    <3>1. With(w) \in Peers
      BY <2>3, <1>w DEF Announce, InHand
    <3>2. registered' = registered \cup {With(w)}
          /\ UNCHANGED <<ID_Counter, is_connected, id, all_clients, receiving>>
      BY <2>3 DEF Announce, code, context
    <3> QED BY <3>1, <3>2, <2>n
  <2>4. CASE LoseClient(w)
    <3>1. With(w) \in Peers
      BY <2>4, <1>w DEF LoseClient, InHand
    <3>2. is_connected' = [is_connected EXCEPT ![With(w)] = FALSE]
          /\ UNCHANGED <<ID_Counter, id, all_clients, registered, receiving>>
      BY <2>4 DEF LoseClient, code, context
    <3> QED BY <3>1, <3>2, <2>n
  <2>5. CASE disconnect(w)
    <3>1. With(w) \in Peers
      BY <2>5, <1>w DEF disconnect, InHand
    <3>2. all_clients' = [all_clients EXCEPT ![id[With(w)]] = NoPeer]
          /\ UNCHANGED <<ID_Counter, is_connected, id, registered, receiving>>
      BY <2>5 DEF disconnect, clients, context
    <3> QED BY <3>1, <3>2, <2>n
  <2>6. CASE RunReturns(w) \/ Handle(w) \/ MakeThrows(w) \/ handle_connection(w)
    <3>1. UNCHANGED <<all_clients, ID_Counter, is_connected, id, registered, receiving>>
      BY <2>6 DEF RunReturns, Handle, MakeThrows, handle_connection, code, clients, context
    <3> QED BY <3>1, <2>n
  <2> QED BY <2>1, <2>2, <2>3, <2>4, <2>5, <2>6 DEF WorkerStep
<1>2. /\ is_running' \in BOOLEAN /\ accept_connection' \in BOOLEAN
      /\ stopped' \in BOOLEAN /\ crashed' \in BOOLEAN
      /\ app' \in {"idle", "starting", "closing", "clearing", "joining", "destroyed"}
      /\ peer' \in [Peers -> {"away", "calling", "refused", "open", "gone", "closed"}]
      /\ app' \in {"closing", "clearing"} => target' \in Peers
  BY <1>f DEF Named
<1> QED BY <1>0, <1>q, <1>1, <1>2 DEF Named

LEMMA NamedInductive ==
  ASSUME ServerAssumption, Typed, Named, Numbered, [Next]_vars
  PROVE  Named'
<1>n. ready \in Seq(Events) /\ accepts \in Nat /\ target \in Peers \cup {NoPeer}
      /\ worker \in [Workers -> WorkerStates]
  BY DEF Typed
<1>a. ASSUME NEW e \in Events, e.what \in {"accepted", "lost"} => e.with \in Peers
      PROVE  OfPeers(Append(ready, e))
  BY <1>a, <1>n, QueueAppend DEF Named
<1>p. ASSUME NEW p \in Peers
      PROVE  OfPeers(Append(ready, Lost(p))) /\ OfPeers(Append(ready, Accepted(p)))
  <2>1. p \in Peers \cup {NoPeer}
    OBVIOUS
  <2>2. /\ Lost(p) \in Events /\ Lost(p).with = p
        /\ Accepted(p) \in Events /\ Accepted(p).with = p
    BY <2>1, EventsAre
  <2> QED BY <2>2, <1>a
<1>c. ASSUME CloseAcceptor
      PROVE  OfPeers(ready') /\ peer' \in [Peers -> {"away", "calling", "refused", "open", "gone", "closed"}]
  <2>1. ready' = ready \o [k \in 1 .. accepts |-> Aborted]
        /\ peer' = [p \in Peers |-> IF peer[p] = "calling" THEN "refused" ELSE peer[p]]
    BY <1>c DEF CloseAcceptor
  <2>2. OfPeers(ready)
    BY DEF Named
  <2>3. OfPeers(ready')
    BY <2>1, <2>2, <1>n, QueueAborted
  <2> QED BY <2>1, <2>3 DEF Named
<1>1. CASE StartAccepts
  BY <1>1 DEF StartAccepts, Named, clients
<1>2. CASE StartReturns
  <2>1. \A w \in Workers : worker'[w].at \in InHand => worker'[w] = worker[w]
    BY <1>2, <1>n DEF StartReturns, InHand, WorkerStates
  <2>2. /\ is_running' = TRUE /\ app' = "idle"
        /\ UNCHANGED <<accept_connection, all_clients, ID_Counter, is_connected, id, registered,
                       stopped, receiving, ready, peer, crashed>>
    BY <1>2 DEF StartReturns, clients, context, history
  <2> QED BY <2>1, <2>2 DEF Named
<1>3. CASE stop
  <2>1. /\ CloseAcceptor /\ is_running' = FALSE
        /\ UNCHANGED <<accept_connection, all_clients, ID_Counter, is_connected, id, registered,
                       app, target, worker, stopped, receiving, crashed>>
    BY <1>3 DEF stop, clients, threads, history
  <2>2. OfPeers(ready') /\ peer' \in [Peers -> {"away", "calling", "refused", "open", "gone", "closed"}]
    BY <2>1, <1>c
  <2> QED BY <2>1, <2>2 DEF Named
<1>4. CASE Destroy
  <2>1. /\ app' = "joining" /\ stopped' = TRUE
        /\ UNCHANGED <<is_running, accept_connection, all_clients, ID_Counter, is_connected, id,
                       registered, worker, receiving, crashed>>
        /\ CloseAcceptor \/ UNCHANGED <<ready, peer>>
    BY <1>4 DEF Destroy, clients, history
  <2>2. OfPeers(ready') /\ peer' \in [Peers -> {"away", "calling", "refused", "open", "gone", "closed"}]
    BY <2>1, <1>c DEF Named
  <2> QED BY <2>1, <2>2 DEF Named
<1>5. CASE accept_connection_ \/ DestroyJoins \/ send_to_all_clients
  <2>1. /\ accept_connection' \in BOOLEAN
        /\ app' = app \/ app' = "destroyed"
        /\ UNCHANGED <<is_running, all_clients, ID_Counter, is_connected, id, registered,
                       target, worker, stopped, receiving, ready, peer, crashed>>
    BY <1>5 DEF accept_connection_, DestroyJoins, send_to_all_clients, Named, code, clients, threads,
       context, history
  <2> QED BY <2>1 DEF Named
<1>6. CASE FindToClose
  <2>1. /\ target' \in Peers /\ app' = "closing"
        /\ UNCHANGED <<is_running, accept_connection, all_clients, ID_Counter, is_connected, id, registered,
                       worker, stopped, receiving, ready, peer, crashed>>
    BY <1>6 DEF FindToClose, clients, context, history
  <2> QED BY <2>1 DEF Named
<1>7. CASE CloseSocket
  <2>1. target \in Peers
    BY <1>7 DEF CloseSocket, Named
  <2>2. /\ app' = "clearing" /\ peer' = [peer EXCEPT ![target] = "closed"]
        /\ receiving' = receiving \ {target}
        /\ ready' = Append(ready, Lost(target)) \/ ready' = ready
        /\ UNCHANGED <<is_running, accept_connection, all_clients, ID_Counter, is_connected, id, registered,
                       worker, stopped, target, crashed>>
    BY <1>7 DEF CloseSocket, code, clients
  <2>3. OfPeers(ready') /\ receiving' \in SUBSET Peers
    BY <2>1, <2>2, <1>p DEF Named
  <2> QED BY <2>1, <2>2, <2>3 DEF Named
<1>8. CASE ClearFlag
  <2>1. target \in Peers
    BY <1>8 DEF ClearFlag, Named
  <2>2. /\ app' = "idle" /\ is_connected' = [is_connected EXCEPT ![target] = FALSE]
        /\ UNCHANGED <<is_running, accept_connection, all_clients, ID_Counter, id, registered,
                       worker, stopped, receiving, ready, peer, crashed>>
    BY <1>8 DEF ClearFlag, context
  <2> QED BY <2>1, <2>2 DEF Named
<1>9. CASE AcceptFails
  <2>1. Failed \in Events /\ Failed.what = "failed"
    BY <1>n, EventsAre
  <2>2. OfPeers(ready')
    BY <2>1, <1>9, <1>a DEF AcceptFails
  <2>3. UNCHANGED <<is_running, accept_connection, all_clients, ID_Counter, is_connected, id, registered,
                    app, target, worker, stopped, receiving, peer, crashed>>
    BY <1>9 DEF AcceptFails, code, clients, threads, history
  <2> QED BY <2>2, <2>3 DEF Named
<1>10. ASSUME NEW p \in Peers, PeerCalls(p) \/ AcceptCompletes(p) \/ PeerGoes(p) PROVE Named'
  <2>1. PICK s \in {"calling", "open", "gone"} : peer' = [peer EXCEPT ![p] = s]
    BY <1>10 DEF PeerCalls, AcceptCompletes, PeerGoes
  <2>2. /\ receiving' \in {receiving, receiving \ {p}}
        /\ ready' \in {ready, Append(ready, Lost(p)), Append(ready, Accepted(p))}
        /\ UNCHANGED <<is_running, accept_connection, all_clients, ID_Counter, is_connected, id, registered,
                       app, target, worker, stopped, crashed>>
    BY <1>10 DEF PeerCalls, AcceptCompletes, PeerGoes, code, clients, threads, history
  <2>3. OfPeers(ready') /\ receiving' \in SUBSET Peers
    BY <2>2, <1>p DEF Named
  <2> QED BY <2>1, <2>2, <2>3 DEF Named
<1>11. CASE UNCHANGED vars
  BY <1>11 DEF vars, code, clients, threads, context, history, Named
<1> QED
  BY <1>1, <1>2, <1>3, <1>4, <1>5, <1>6, <1>7, <1>8, <1>9, <1>10, <1>11, WorkerNamed
     DEF Next, AppCalls, AppReturns, Network
-----------------------------------------------------------------------------
(* The map, while there is one worker                                      *)
LEMMA RegisterFrame ==
  ASSUME Register, Newcomers' \subseteq Newcomers,
         UNCHANGED <<all_clients, is_connected, id, registered, ID_Counter>>,
         \A at \in {"listing", "listed", "erasing"}, p \in Peers : Doing(at, p)' <=> Doing(at, p),
         \A p \in Peers : peer[p] = "closed" => peer'[p] = "closed",
         app' = "clearing" => peer'[target'] = "closed"
  PROVE  Register'
<1>1. \A p \in Peers : /\ Doing("listing", p)' <=> Doing("listing", p)
                       /\ Doing("listed", p)' <=> Doing("listed", p)
                       /\ Doing("erasing", p)' <=> Doing("erasing", p)
  OBVIOUS
<1>2. \A p : (Listed(p)' <=> Listed(p)) /\ (Known(p)' <=> Known(p))
  BY DEF Listed, Known
<1>3. \A p \in Newcomers' : ~Known(p)'
  BY <1>2 DEF Register
<1>4. /\ \A p \in Peers : Known(p)' => id'[p] < ID_Counter'
      /\ \A p, q \in Peers : Known(p)' /\ Known(q)' /\ id'[p] = id'[q] => p = q
      /\ \A p \in Peers, i \in Ids : all_clients'[i] = p => i = id'[p]
  BY <1>2 DEF Register
<1>5. \A p \in Peers : is_connected'[p] => Doing("listing", p)' \/ all_clients'[id'[p]] = p
  BY <1>1 DEF Register
<1>6. \A p \in Peers : Listed(p)' => is_connected'[p] \/ Doing("erasing", p)' \/ peer'[p] = "closed"
  BY <1>1, <1>2 DEF Register
<1>7. \A p \in Peers : Listed(p)' => p \in registered' \/ Doing("listed", p)'
  BY <1>1, <1>2 DEF Register
<1>8. \A p \in Peers : /\ Doing("listing", p)' => is_connected'[p] /\ ~Listed(p)'
                       /\ Doing("listed", p)' => Listed(p)'
                       /\ Doing("erasing", p)' => ~is_connected'[p] /\ p \in registered'
  BY <1>1, <1>2 DEF Register
<1> QED BY <1>3, <1>4, <1>5, <1>6, <1>7, <1>8 DEF Register

(* The one worker's state says who is doing what. *)
LEMMA OneWorker ==
  ASSUME ServerAssumption, Typed, Unmade, starts <= 1, NEW w \in Workers, WorkerStep(w)
  PROVE  \A at, p : at # "none" =>
           /\ Doing(at, p) <=> worker[w] = [at |-> at, with |-> p]
           /\ Doing(at, p)' <=> worker'[w] = [at |-> at, with |-> p]
<1>1. worker[w].at # "none"
  BY WorkerTyped
<1>2. PICK v : worker' = [worker EXCEPT ![w] = v]
  BY WorkerTyped
<1>3. starts \in Nat /\ w \in Nat /\ w >= 1 /\ worker \in [Workers -> WorkerStates]
  BY DEF Typed, ServerAssumption, Workers
<1>4. ~(w > Begun)
  BY <1>1 DEF Unmade
<1>5. w = 1 /\ Begun <= 1
  BY <1>3, <1>4 DEF Begun
<1>6. ASSUME NEW x \in Workers, x # w PROVE worker[x].at = "none" /\ worker'[x].at = "none"
  <2>1. x > Begun
    BY <1>5, <1>6, <1>3 DEF Workers, ServerAssumption, Begun
  <2>2. worker[x].at = "none"
    BY <2>1 DEF Unmade
  <2>3. worker'[x] = worker[x]
    BY <1>2, <1>3, <1>6
  <2> QED BY <2>2, <2>3
<1> SUFFICES ASSUME NEW at, NEW p, at # "none"
             PROVE  /\ Doing(at, p) <=> worker[w] = [at |-> at, with |-> p]
                    /\ Doing(at, p)' <=> worker'[w] = [at |-> at, with |-> p]
  OBVIOUS
<1>7. \A x \in Workers : worker[x] = [at |-> at, with |-> p] => x = w
  <2> SUFFICES ASSUME NEW x \in Workers, worker[x] = [at |-> at, with |-> p], x # w PROVE FALSE
    OBVIOUS
  <2>1. worker[x].at = at
    OBVIOUS
  <2> QED BY <2>1, <1>6
<1>8. \A x \in Workers : worker'[x] = [at |-> at, with |-> p] => x = w
  <2> SUFFICES ASSUME NEW x \in Workers, worker'[x] = [at |-> at, with |-> p], x # w PROVE FALSE
    OBVIOUS
  <2>1. worker'[x].at = at
    OBVIOUS
  <2> QED BY <2>1, <1>6
<1> QED BY <1>7, <1>8 DEF Doing

(* A step of the worker that is none of the five that touch the map, the    *)
(* flags or the slots                                                       *)
LEMMA RegisterAside ==
  ASSUME ServerAssumption, Typed, Named, Unmade, OnceOnly, Register, starts <= 1,
         NEW w \in Workers, RunReturns(w) \/ Handle(w) \/ MakeThrows(w) \/ handle_connection(w),
         Newcomers' \subseteq Newcomers
  PROVE  Register'
<1>1. WorkerStep(w)
  BY DEF WorkerStep
<1>2. worker[w].at \in {"idle", "making", "rearming"} /\ worker \in [Workers -> WorkerStates]
  BY DEF RunReturns, Handle, MakeThrows, handle_connection, Typed
<1>3. worker'[w].at \in {"idle", "making", "losing", "ended", "crashed"}
  BY <1>2 DEF RunReturns, Handle, MakeThrows, handle_connection, At
<1>4. \A at \in {"listing", "listed", "erasing"}, p \in Peers : ~Doing(at, p)' /\ ~Doing(at, p)
  <2> SUFFICES ASSUME NEW at \in {"listing", "listed", "erasing"}, NEW p \in Peers
               PROVE  ~Doing(at, p)' /\ ~Doing(at, p)
    OBVIOUS
  <2>1. at # "none"
    OBVIOUS
  <2>2. /\ Doing(at, p) <=> worker[w] = [at |-> at, with |-> p]
        /\ Doing(at, p)' <=> worker'[w] = [at |-> at, with |-> p]
    BY <1>1, <2>1, OneWorker
  <2>3. [at |-> at, with |-> p].at = at
    OBVIOUS
  <2> QED BY <2>2, <2>3, <1>2, <1>3
<1>5. UNCHANGED <<all_clients, is_connected, id, registered, ID_Counter, peer, app, target>>
  BY DEF RunReturns, Handle, MakeThrows, handle_connection, code, clients, context
<1>6. app' = "clearing" => peer'[target'] = "closed"
  BY <1>5 DEF Register
<1> QED BY <1>4, <1>5, <1>6, RegisterFrame

(* With one worker, what it holds is all that is being done. *)
LEMMA OnlyDoing ==
  ASSUME ServerAssumption, Typed, Unmade, starts <= 1, NEW w \in Workers, WorkerStep(w),
         NEW at, at # "none", NEW p
  PROVE  /\ worker[w] = [at |-> at, with |-> p] =>
              \A s, q : s # "none" => (Doing(s, q) <=> s = at /\ q = p)
         /\ worker'[w] = [at |-> at, with |-> p] =>
              \A s, q : s # "none" => (Doing(s, q)' <=> s = at /\ q = p)
<1>1. \A s, q : s # "none" =>
        /\ Doing(s, q) <=> worker[w] = [at |-> s, with |-> q]
        /\ Doing(s, q)' <=> worker'[w] = [at |-> s, with |-> q]
  BY OneWorker
<1>2. \A s, q : [at |-> at, with |-> p] = [at |-> s, with |-> q] <=> s = at /\ q = p
  <2> SUFFICES ASSUME NEW s, NEW q
               PROVE  [at |-> at, with |-> p] = [at |-> s, with |-> q] <=> s = at /\ q = p
    OBVIOUS
  <2>1. /\ [at |-> at, with |-> p].at = at /\ [at |-> at, with |-> p].with = p
        /\ [at |-> s, with |-> q].at = s /\ [at |-> s, with |-> q].with = q
    OBVIOUS
  <2> QED BY <2>1
<1>3. ASSUME worker[w] = [at |-> at, with |-> p], NEW s, NEW q, s # "none"
      PROVE  Doing(s, q) <=> s = at /\ q = p
  <2>1. Doing(s, q) <=> worker[w] = [at |-> s, with |-> q]
    BY <1>1, <1>3
  <2> QED BY <2>1, <1>2, <1>3
<1>4. ASSUME worker'[w] = [at |-> at, with |-> p], NEW s, NEW q, s # "none"
      PROVE  Doing(s, q)' <=> s = at /\ q = p
  <2>1. Doing(s, q)' <=> worker'[w] = [at |-> s, with |-> q]
    BY <1>1, <1>4
  <2> QED BY <2>1, <1>2, <1>4
<1> QED BY <1>3, <1>4

(* A client that is made is known from now on, under a new number. *)
LEMMA RegisterMade ==
  ASSUME ServerAssumption, Typed, Named, Unmade, OnceOnly, Numbered, Register, starts <= 1,
         NEW w \in Workers, MakeClient(w), Newcomers' \subseteq Newcomers
  PROVE  Register'
<1>p. PICK p : p = With(w)
  OBVIOUS
<1>1. worker[w] = [at |-> "making", with |-> p] /\ p \in Newcomers /\ p \in Peers /\ WorkerStep(w)
  BY <1>p, MakingIsNew DEF MakeClient, Newcomers, WorkerStep
<1>2. /\ id' = [id EXCEPT ![p] = ID_Counter] /\ ID_Counter' = ID_Counter + 1
      /\ is_connected' = [is_connected EXCEPT ![p] = TRUE]
      /\ worker' = [worker EXCEPT ![w] = [at |-> "listing", with |-> p]]
      /\ UNCHANGED <<all_clients, registered, peer, app, target>>
  BY <1>p DEF MakeClient, NextNumber, At
<1>n. /\ worker \in [Workers -> WorkerStates] /\ ID_Counter \in Nat
      /\ id \in [Peers -> Ids] /\ is_connected \in [Peers -> BOOLEAN]
  BY DEF Typed, Named
<1>3. Newcomers' \subseteq Newcomers /\ p \notin Newcomers'
  BY <1>p, MadeIsKnown
<1>4. worker'[w] = [at |-> "listing", with |-> p]
  BY <1>2, <1>n
<1>5. /\ \A q : ~Doing("listing", q) /\ ~Doing("listed", q) /\ ~Doing("erasing", q)
      /\ \A q : ~Doing("listed", q)' /\ ~Doing("erasing", q)' /\ (Doing("listing", q)' <=> q = p)
  BY <1>1, <1>4, OnlyDoing
<1>6. ~Known(p) /\ ~Listed(p)
  BY <1>1 DEF Register, Known
<1>7. /\ \A q : Listed(q)' <=> Listed(q)
      /\ id'[p] = ID_Counter /\ is_connected'[p] = TRUE
      /\ \A q \in Peers : q # p => id'[q] = id[q] /\ is_connected'[q] = is_connected[q]
      /\ \A q \in Peers : id[q] \in Int
  BY <1>1, <1>2, <1>n DEF Listed, Ids
<1>8. \A q \in Peers : Known(q)' <=> Known(q) \/ q = p
  BY <1>2, <1>7 DEF Known
<1>9. \A q \in Newcomers' : ~Known(q)'
  BY <1>3, <1>8 DEF Register, Newcomers
<1>10. \A q \in Peers : Known(q)' => id'[q] < ID_Counter'
  BY <1>2, <1>7, <1>8, <1>n DEF Register
<1>11. \A q, r \in Peers : Known(q)' /\ Known(r)' /\ id'[q] = id'[r] => q = r
  BY <1>7, <1>8, <1>n DEF Register
<1>12. \A q \in Peers, i \in Ids : all_clients'[i] = q => i = id'[q]
  BY <1>2, <1>6, <1>7 DEF Register, Listed
<1>13. \A q \in Peers : is_connected'[q] => Doing("listing", q)' \/ all_clients'[id'[q]] = q
  BY <1>2, <1>5, <1>7 DEF Register
<1>14. \A q \in Peers : Listed(q)' => is_connected'[q] \/ Doing("erasing", q)' \/ peer'[q] = "closed"
  BY <1>2, <1>5, <1>7 DEF Register
<1>15. \A q \in Peers : Listed(q)' => q \in registered' \/ Doing("listed", q)'
  BY <1>2, <1>5, <1>7 DEF Register
<1>16. \A q \in Peers : /\ Doing("listing", q)' => is_connected'[q] /\ ~Listed(q)'
                        /\ Doing("listed", q)' => Listed(q)'
                        /\ Doing("erasing", q)' => ~is_connected'[q] /\ q \in registered'
  BY <1>5, <1>6, <1>7
<1>17. app' = "clearing" => peer'[target'] = "closed"
  BY <1>2 DEF Register
<1> QED BY <1>9, <1>10, <1>11, <1>12, <1>13, <1>14, <1>15, <1>16, <1>17 DEF Register

(* It takes its place in the map, which no other client has. *)
LEMMA RegisterListed ==
  ASSUME ServerAssumption, Typed, Named, Unmade, Register, starts <= 1,
         NEW w \in Workers, ListClient(w), Newcomers' \subseteq Newcomers
  PROVE  Register'
<1>p. PICK p : p = With(w)
  OBVIOUS
<1>1. worker[w] = [at |-> "listing", with |-> p] /\ p \in Peers /\ WorkerStep(w)
  BY <1>p DEF ListClient, WorkerStep, Typed, WorkerStates, With, Named, InHand
<1>2. /\ all_clients' = [all_clients EXCEPT ![id[p]] = p]
      /\ worker' = [worker EXCEPT ![w] = [at |-> "listed", with |-> p]]
      /\ UNCHANGED <<id, ID_Counter, is_connected, registered, peer, app, target>>
  BY <1>p DEF ListClient, At, clients, context
<1>n. /\ worker \in [Workers -> WorkerStates] /\ id \in [Peers -> Ids]
      /\ all_clients \in [Ids -> Peers \cup {NoPeer}]
  BY DEF Typed, Named
<1>4. worker'[w] = [at |-> "listed", with |-> p]
  BY <1>2, <1>n
<1>5. /\ \A q : ~Doing("listed", q) /\ ~Doing("erasing", q) /\ (Doing("listing", q) <=> q = p)
      /\ \A q : ~Doing("listing", q)' /\ ~Doing("erasing", q)' /\ (Doing("listed", q)' <=> q = p)
  BY <1>1, <1>4, OnlyDoing
<1>6. is_connected[p] /\ ~Listed(p) /\ Known(p)
  BY <1>1, <1>5 DEF Register, Known
<1>7. id[p] \in Ids /\ all_clients'[id[p]] = p /\ \A i \in Ids : i # id[p] => all_clients'[i] = all_clients[i]
  BY <1>1, <1>2, <1>n
<1>8. \A q \in Peers : Listed(q)' => Listed(q) \/ q = p
  BY <1>7 DEF Listed
<1>9. Listed(p)'
  BY <1>2, <1>7 DEF Listed
<1>10. \A q \in Peers : Known(q)' => Known(q)
  BY <1>2, <1>6, <1>8 DEF Known
<1>11. /\ \A q \in Newcomers' : ~Known(q)'
       /\ \A q \in Peers : Known(q)' => id'[q] < ID_Counter'
       /\ \A q, r \in Peers : Known(q)' /\ Known(r)' /\ id'[q] = id'[r] => q = r
  BY <1>2, <1>10 DEF Register, Newcomers
<1>12. \A q \in Peers, i \in Ids : all_clients'[i] = q => i = id'[q]
  BY <1>2, <1>7 DEF Register
<1>13. \A q \in Peers : is_connected'[q] => Doing("listing", q)' \/ all_clients'[id'[q]] = q
  <2> SUFFICES ASSUME NEW q \in Peers, is_connected'[q] PROVE all_clients'[id'[q]] = q
    OBVIOUS
  <2>1. CASE q = p
    BY <2>1, <1>2, <1>7
  <2>2. CASE q # p
    <3>1. Known(q) /\ all_clients[id[q]] = q /\ id[q] \in Ids
      BY <2>2, <1>2, <1>5, <1>n DEF Known, Register
    <3>2. id[q] # id[p]
      BY <3>1, <2>2, <1>1, <1>6 DEF Register
    <3> QED BY <3>1, <3>2, <1>2, <1>7
  <2> QED BY <2>1, <2>2
<1>14. \A q \in Peers : Listed(q)' => is_connected'[q] \/ Doing("erasing", q)' \/ peer'[q] = "closed"
  BY <1>2, <1>5, <1>6, <1>8 DEF Register
<1>15. \A q \in Peers : Listed(q)' => q \in registered' \/ Doing("listed", q)'
  BY <1>2, <1>5, <1>8 DEF Register
<1>16. \A q \in Peers : /\ Doing("listing", q)' => is_connected'[q] /\ ~Listed(q)'
                        /\ Doing("listed", q)' => Listed(q)'
                        /\ Doing("erasing", q)' => ~is_connected'[q] /\ q \in registered'
  BY <1>5, <1>9
<1>17. app' = "clearing" => peer'[target'] = "closed"
  BY <1>2 DEF Register
<1> QED BY <1>11, <1>12, <1>13, <1>14, <1>15, <1>16, <1>17 DEF Register

(* A client gets its slot while it is in the map. *)
LEMMA RegisterAnnounced ==
  ASSUME ServerAssumption, Typed, Named, Unmade, Register, starts <= 1,
         NEW w \in Workers, Announce(w), Newcomers' \subseteq Newcomers
  PROVE  Register'
<1>p. PICK p : p = With(w)
  OBVIOUS
<1>1. worker[w] = [at |-> "listed", with |-> p] /\ p \in Peers /\ WorkerStep(w)
  BY <1>p DEF Announce, WorkerStep, Typed, WorkerStates, With, Named, InHand
<1>2. /\ registered' = registered \cup {p}
      /\ UNCHANGED <<id, ID_Counter, is_connected, all_clients, peer, app, target>>
  BY <1>p DEF Announce, code, context
<1>3. worker'[w].at \in {"idle", "rearming"}
  BY DEF Announce, At, Typed
<1>4. /\ \A q : ~Doing("listing", q) /\ ~Doing("erasing", q) /\ (Doing("listed", q) <=> q = p)
      /\ \A q : ~Doing("listing", q)' /\ ~Doing("erasing", q)' /\ ~Doing("listed", q)'
  <2>1. \A q : ~Doing("listing", q) /\ ~Doing("erasing", q) /\ (Doing("listed", q) <=> q = p)
    BY <1>1, OnlyDoing
  <2>2. ASSUME NEW at, NEW q, at # "none", Doing(at, q)' PROVE worker'[w].at = at
    <3>1. worker'[w] = [at |-> at, with |-> q]
      BY <1>1, <2>2, OneWorker
    <3>2. [at |-> at, with |-> q].at = at
      OBVIOUS
    <3> QED BY <3>1, <3>2
  <2> QED BY <2>1, <2>2, <1>3
<1>5. \A q : Listed(q)' <=> Listed(q)
  BY <1>2 DEF Listed
<1>6. Listed(p)
  BY <1>1, <1>4 DEF Register
<1>7. \A q \in Peers : Known(q)' => Known(q)
  BY <1>2, <1>5, <1>6 DEF Known
<1>8. /\ \A q \in Newcomers' : ~Known(q)'
      /\ \A q \in Peers : Known(q)' => id'[q] < ID_Counter'
      /\ \A q, r \in Peers : Known(q)' /\ Known(r)' /\ id'[q] = id'[r] => q = r
      /\ \A q \in Peers, i \in Ids : all_clients'[i] = q => i = id'[q]
  BY <1>2, <1>7 DEF Register, Newcomers
<1>9. \A q \in Peers : is_connected'[q] => Doing("listing", q)' \/ all_clients'[id'[q]] = q
  BY <1>2, <1>4 DEF Register
<1>10. \A q \in Peers : Listed(q)' => is_connected'[q] \/ Doing("erasing", q)' \/ peer'[q] = "closed"
  BY <1>2, <1>4, <1>5 DEF Register
<1>11. \A q \in Peers : Listed(q)' => q \in registered' \/ Doing("listed", q)'
  BY <1>2, <1>4, <1>5 DEF Register
<1>12. app' = "clearing" => peer'[target'] = "closed"
  BY <1>2 DEF Register
<1> QED BY <1>4, <1>8, <1>9, <1>10, <1>11, <1>12 DEF Register

(* A client that is lost leaves by way of disconnect if it is in the map.  *)
LEMMA RegisterLost ==
  ASSUME ServerAssumption, Typed, Named, Unmade, Register, starts <= 1,
         NEW w \in Workers, LoseClient(w), Newcomers' \subseteq Newcomers
  PROVE  Register'
<1>p. PICK p : p = With(w)
  OBVIOUS
<1>1. worker[w] = [at |-> "losing", with |-> p] /\ p \in Peers /\ WorkerStep(w)
  BY <1>p DEF LoseClient, WorkerStep, Typed, WorkerStates, With, Named, InHand
<1>2. /\ is_connected' = [is_connected EXCEPT ![p] = FALSE]
      /\ UNCHANGED <<id, ID_Counter, registered, all_clients, peer, app, target>>
  BY <1>p DEF LoseClient, code, context
<1>n. worker \in [Workers -> WorkerStates] /\ is_connected \in [Peers -> BOOLEAN]
  BY DEF Typed, Named
<1>3. worker'[w] = IF p \in registered THEN [at |-> "erasing", with |-> p]
                   ELSE [at |-> "idle", with |-> NoPeer]
  BY <1>p, <1>n DEF LoseClient, At, With
<1>4. \A q : ~Doing("listing", q) /\ ~Doing("listed", q) /\ ~Doing("erasing", q)
  BY <1>1, OnlyDoing
<1>5. \A q : ~Doing("listing", q)' /\ ~Doing("listed", q)' /\ (Doing("erasing", q)' <=> p \in registered /\ q = p)
  <2>1. CASE p \in registered
    <3>1. worker'[w] = [at |-> "erasing", with |-> p]
      BY <2>1, <1>3
    <3> QED BY <3>1, <2>1, <1>1, OnlyDoing
  <2>2. CASE p \notin registered
    <3>1. worker'[w] = [at |-> "idle", with |-> NoPeer]
      BY <2>2, <1>3
    <3> QED BY <3>1, <2>2, <1>1, OnlyDoing
  <2> QED BY <2>1, <2>2
<1>6. /\ \A q : Listed(q)' <=> Listed(q)
      /\ \A q \in Peers : is_connected'[q] => is_connected[q]
      /\ \A q \in Peers : q # p => is_connected'[q] = is_connected[q]
      /\ ~is_connected'[p]
  BY <1>1, <1>2, <1>n DEF Listed
<1>7. \A q \in Peers : Known(q)' => Known(q)
  BY <1>2, <1>6 DEF Known
<1>8. /\ \A q \in Newcomers' : ~Known(q)'
      /\ \A q \in Peers : Known(q)' => id'[q] < ID_Counter'
      /\ \A q, r \in Peers : Known(q)' /\ Known(r)' /\ id'[q] = id'[r] => q = r
      /\ \A q \in Peers, i \in Ids : all_clients'[i] = q => i = id'[q]
  BY <1>2, <1>7 DEF Register, Newcomers
<1>9. \A q \in Peers : is_connected'[q] => Doing("listing", q)' \/ all_clients'[id'[q]] = q
  BY <1>2, <1>4, <1>6 DEF Register
<1>10. \A q \in Peers : Listed(q)' => q \in registered
  BY <1>4, <1>6 DEF Register
<1>11. \A q \in Peers : Listed(q)' => is_connected'[q] \/ Doing("erasing", q)' \/ peer'[q] = "closed"
  <2> SUFFICES ASSUME NEW q \in Peers, Listed(q)'
               PROVE  is_connected'[q] \/ Doing("erasing", q)' \/ peer'[q] = "closed"
    OBVIOUS
  <2>1. CASE q = p
    BY <2>1, <1>5, <1>10
  <2>2. CASE q # p
    BY <2>2, <1>2, <1>4, <1>6 DEF Register
  <2> QED BY <2>1, <2>2
<1>12. \A q \in Peers : Listed(q)' => q \in registered' \/ Doing("listed", q)'
  BY <1>2, <1>10
<1>13. \A q \in Peers : /\ Doing("listing", q)' => is_connected'[q] /\ ~Listed(q)'
                        /\ Doing("listed", q)' => Listed(q)'
                        /\ Doing("erasing", q)' => ~is_connected'[q] /\ q \in registered'
  BY <1>2, <1>5, <1>6
<1>14. app' = "clearing" => peer'[target'] = "closed"
  BY <1>2 DEF Register
<1> QED BY <1>8, <1>9, <1>11, <1>12, <1>13, <1>14 DEF Register

(* What disconnect erases is the client that was lost, and no other.       *)
LEMMA RegisterErased ==
  ASSUME ServerAssumption, Typed, Named, Unmade, Register, starts <= 1,
         NEW w \in Workers, disconnect(w), Newcomers' \subseteq Newcomers
  PROVE  Register'
<1>p. PICK p : p = With(w)
  OBVIOUS
<1>1. worker[w] = [at |-> "erasing", with |-> p] /\ p \in Peers /\ WorkerStep(w)
  BY <1>p DEF disconnect, WorkerStep, Typed, WorkerStates, With, Named, InHand
<1>2. /\ all_clients' = [all_clients EXCEPT ![id[p]] = NoPeer]
      /\ UNCHANGED <<id, ID_Counter, is_connected, registered, peer, app, target>>
  BY <1>p DEF disconnect, clients, context
<1>n. /\ worker \in [Workers -> WorkerStates] /\ id \in [Peers -> Ids]
      /\ all_clients \in [Ids -> Peers \cup {NoPeer}] /\ NoPeer \notin Peers
  BY DEF Typed, Named, ServerAssumption
<1>3. worker'[w] = [at |-> "idle", with |-> NoPeer]
  BY <1>n DEF disconnect, At
<1>4. /\ \A q : ~Doing("listing", q) /\ ~Doing("listed", q) /\ (Doing("erasing", q) <=> q = p)
      /\ \A q : ~Doing("listing", q)' /\ ~Doing("listed", q)' /\ ~Doing("erasing", q)'
  BY <1>1, <1>3, OnlyDoing
<1>5. ~is_connected[p] /\ p \in registered /\ Known(p)
  BY <1>1, <1>4 DEF Register, Known
<1>6. id[p] \in Ids /\ all_clients'[id[p]] = NoPeer /\ \A i \in Ids : i # id[p] => all_clients'[i] = all_clients[i]
  BY <1>1, <1>2, <1>n
<1>7. \A q \in Peers, i \in Ids : all_clients'[i] = q => all_clients[i] = q /\ q # p
  <2> SUFFICES ASSUME NEW q \in Peers, NEW i \in Ids, all_clients'[i] = q
               PROVE  all_clients[i] = q /\ q # p
    OBVIOUS
  <2>1. i # id[p] /\ all_clients[i] = q
    BY <1>6, <1>n
  <2>2. i = id[q]
    BY <2>1 DEF Register
  <2> QED BY <2>1, <2>2
<1>8. \A q \in Peers : Listed(q)' => Listed(q) /\ q # p
  BY <1>7 DEF Listed, Ids
<1>9. \A q \in Peers : Known(q)' => Known(q)
  BY <1>2, <1>8 DEF Known
<1>10. /\ \A q \in Newcomers' : ~Known(q)'
       /\ \A q \in Peers : Known(q)' => id'[q] < ID_Counter'
       /\ \A q, r \in Peers : Known(q)' /\ Known(r)' /\ id'[q] = id'[r] => q = r
  BY <1>2, <1>9 DEF Register, Newcomers
<1>11. \A q \in Peers, i \in Ids : all_clients'[i] = q => i = id'[q]
  BY <1>2, <1>7 DEF Register
<1>12. \A q \in Peers : is_connected'[q] => Doing("listing", q)' \/ all_clients'[id'[q]] = q
  <2> SUFFICES ASSUME NEW q \in Peers, is_connected'[q] PROVE all_clients'[id'[q]] = q
    OBVIOUS
  <2>1. Known(q) /\ all_clients[id[q]] = q /\ id[q] \in Ids /\ q # p
    BY <1>2, <1>4, <1>5, <1>n DEF Known, Register
  <2>2. id[q] # id[p]
    BY <2>1, <1>1, <1>5 DEF Register
  <2> QED BY <2>1, <2>2, <1>2, <1>6
<1>13. \A q \in Peers : Listed(q)' => is_connected'[q] \/ Doing("erasing", q)' \/ peer'[q] = "closed"
  BY <1>2, <1>4, <1>8 DEF Register
<1>14. \A q \in Peers : Listed(q)' => q \in registered' \/ Doing("listed", q)'
  BY <1>2, <1>4, <1>8 DEF Register
<1>15. app' = "clearing" => peer'[target'] = "closed"
  BY <1>2 DEF Register
<1> QED BY <1>4, <1>10, <1>11, <1>12, <1>13, <1>14, <1>15 DEF Register

(* The application clears the flag of a client whose socket it has closed, *)
(* which is in the map.                                                    *)
LEMMA RegisterCleared ==
  ASSUME ServerAssumption, Typed, Named, Guarded, Register, ClearFlag, Newcomers' \subseteq Newcomers
  PROVE  Register'
<1>1. /\ is_connected' = [is_connected EXCEPT ![target] = FALSE]
      /\ app' = "idle"
      /\ UNCHANGED <<id, ID_Counter, registered, all_clients, peer, worker>>
  BY DEF ClearFlag, context
<1>n. is_connected \in [Peers -> BOOLEAN]
  BY DEF Named
<1>2. Listed(target) /\ target \in Peers /\ peer[target] = "closed"
  BY DEF ClearFlag, Guarded, Named, Register
<1>3. \A at, q : Doing(at, q)' <=> Doing(at, q)
  BY <1>1 DEF Doing
<1>4. /\ \A q : Listed(q)' <=> Listed(q)
      /\ \A q \in Peers : q # target => is_connected'[q] = is_connected[q]
      /\ ~is_connected'[target]
  BY <1>1, <1>2, <1>n DEF Listed
<1>5. \A q \in Peers : is_connected'[q] => is_connected[q]
  BY <1>4
<1>6. \A q \in Peers : Known(q)' => Known(q)
  BY <1>1, <1>4, <1>5 DEF Known
<1>7. /\ \A q \in Newcomers' : ~Known(q)'
      /\ \A q \in Peers : Known(q)' => id'[q] < ID_Counter'
      /\ \A q, r \in Peers : Known(q)' /\ Known(r)' /\ id'[q] = id'[r] => q = r
      /\ \A q \in Peers, i \in Ids : all_clients'[i] = q => i = id'[q]
  BY <1>1, <1>6 DEF Register, Newcomers
<1>8. \A q \in Peers : is_connected'[q] => Doing("listing", q)' \/ all_clients'[id'[q]] = q
  BY <1>1, <1>3, <1>5 DEF Register
<1>9. \A q \in Peers : Listed(q)' => is_connected'[q] \/ Doing("erasing", q)' \/ peer'[q] = "closed"
  <2> SUFFICES ASSUME NEW q \in Peers, Listed(q)'
               PROVE  is_connected'[q] \/ Doing("erasing", q)' \/ peer'[q] = "closed"
    OBVIOUS
  <2>1. CASE q = target
    BY <2>1, <1>1, <1>2
  <2>2. CASE q # target
    BY <2>2, <1>1, <1>3, <1>4 DEF Register
  <2> QED BY <2>1, <2>2
<1>10. \A q \in Peers : Listed(q)' => q \in registered' \/ Doing("listed", q)'
  BY <1>1, <1>3, <1>4 DEF Register
<1>11. \A q \in Peers : /\ Doing("listing", q)' => is_connected'[q] /\ ~Listed(q)'
                        /\ Doing("listed", q)' => Listed(q)'
                        /\ Doing("erasing", q)' => ~is_connected'[q] /\ q \in registered'
  <2> SUFFICES ASSUME NEW q \in Peers
               PROVE  /\ Doing("listing", q)' => is_connected'[q] /\ ~Listed(q)'
                      /\ Doing("listed", q)' => Listed(q)'
                      /\ Doing("erasing", q)' => ~is_connected'[q] /\ q \in registered'
    OBVIOUS
  <2>1. Doing("listing", q) => is_connected[q] /\ ~Listed(q)
    BY DEF Register
  <2>2. (Doing("listed", q) => Listed(q)) /\ (Doing("erasing", q) => ~is_connected[q] /\ q \in registered)
    BY DEF Register
  <2>3. Doing("listing", q) => q # target
    BY <2>1, <1>2
  <2> QED BY <2>1, <2>2, <2>3, <1>1, <1>3, <1>4, <1>5
<1> QED BY <1>1, <1>7, <1>8, <1>9, <1>10, <1>11 DEF Register

(* Nothing else touches what the register speaks of.                       *)
LEMMA RegisterElsewhere ==
  ASSUME ServerAssumption, Typed, Named, Unmade, Register,
         AppCalls \/ StartReturns \/ DestroyJoins \/ CloseSocket \/ Network \/ UNCHANGED vars,
         Newcomers' \subseteq Newcomers
  PROVE  Register'
<1>n. /\ worker \in [Workers -> WorkerStates]
      /\ peer \in [Peers -> {"away", "calling", "refused", "open", "gone", "closed"}]
  BY DEF Typed, Named
<1>1. UNCHANGED <<all_clients, is_connected, id, registered, ID_Counter>>
  BY DEF AppCalls, StartReturns, DestroyJoins, CloseSocket, Network, vars, StartAccepts, stop,
     accept_connection_, Destroy, send_to_all_clients, FindToClose, PeerCalls, AcceptCompletes,
     AcceptFails, PeerGoes, code, clients
<1>2. ASSUME NEW at \in {"listing", "listed", "erasing"}, NEW p \in Peers
      PROVE  Doing(at, p)' <=> Doing(at, p)
  <2>1. CASE StartReturns
    <3>1. starts \in Workers /\ worker[starts].at = "none"
      BY <2>1 DEF StartReturns, Unmade, Begun, Typed, ServerAssumption, Workers
    <3>2. worker' = [worker EXCEPT ![starts].at = "idle"]
      BY <2>1 DEF StartReturns
    <3>3. \A w \in Workers : w # starts => worker'[w] = worker[w]
      BY <3>2, <1>n
    <3>4. worker'[starts].at = "idle"
      BY <3>1, <3>2, <1>n DEF WorkerStates
    <3>5. [at |-> at, with |-> p].at = at
      OBVIOUS
    <3> QED BY <3>1, <3>3, <3>4, <3>5 DEF Doing
  <2>2. CASE ~StartReturns
    <3>1. UNCHANGED worker
      BY <2>2 DEF AppCalls, DestroyJoins, CloseSocket, Network, vars, StartAccepts, stop,
         accept_connection_, Destroy, send_to_all_clients, FindToClose, PeerCalls, AcceptCompletes,
         AcceptFails, PeerGoes, threads
    <3> QED BY <3>1 DEF Doing
  <2> QED BY <2>1, <2>2
<1>3. ASSUME NEW p \in Peers, peer[p] = "closed" PROVE peer'[p] = "closed"
  BY <1>3, <1>n DEF AppCalls, StartReturns, DestroyJoins, CloseSocket, Network, vars, StartAccepts,
     stop, accept_connection_, Destroy, CloseAcceptor, send_to_all_clients, FindToClose, PeerCalls,
     AcceptCompletes, AcceptFails, PeerGoes, context
<1>4. app' = "clearing" => peer'[target'] = "closed"
  <2>1. CASE CloseSocket
    <3>1. target \in Peers
      BY <2>1 DEF CloseSocket, Named
    <3> QED BY <2>1, <3>1, <1>n DEF CloseSocket
  <2>2. CASE ~CloseSocket
    <3>1. app' = "clearing" => app = "clearing" /\ target' = target
      BY <2>2 DEF AppCalls, StartReturns, DestroyJoins, Network, vars, StartAccepts,
         stop, accept_connection_, Destroy, send_to_all_clients, FindToClose, PeerCalls,
         AcceptCompletes, AcceptFails, PeerGoes, threads
    <3>2. app = "clearing" => target \in Peers /\ peer[target] = "closed"
      BY DEF Named, Register
    <3> QED BY <3>1, <3>2, <1>3
  <2> QED BY <2>1, <2>2
<1> QED BY <1>1, <1>2, <1>3, <1>4, RegisterFrame

LEMMA EnrolledInductive ==
  ASSUME ServerAssumption, Typed, Unmade, Guarded, Named, OnceOnly, Numbered, Enrolled, [Next]_vars
  PROVE  Enrolled'
<1>1. Newcomers' \subseteq Newcomers
  BY OnceInductive
<1>2. starts' <= 1 => starts <= 1
  <2>1. starts' \in {starts, starts + 1} /\ starts \in Int
    BY DEF Next, AppCalls, AppReturns, Network, WorkerStep, StartAccepts, StartReturns, stop,
       accept_connection_, Destroy, DestroyJoins, send_to_all_clients, FindToClose, CloseSocket, ClearFlag,
       PeerCalls, AcceptCompletes, AcceptFails, PeerGoes, RunReturns, Handle, MakeThrows, MakeClient,
       ListClient, Announce, handle_connection, LoseClient, disconnect, vars, history, Typed, ServerAssumption
  <2> QED BY <2>1
<1> SUFFICES ASSUME starts' <= 1 PROVE Register'
  BY DEF Enrolled
<1>3. starts <= 1 /\ Register
  BY <1>2 DEF Enrolled
<1>4. ASSUME NEW w \in Workers, WorkerStep(w) PROVE Register'
  BY <1>1, <1>3, <1>4, RegisterAside, RegisterMade, RegisterListed, RegisterAnnounced,
     RegisterLost, RegisterErased DEF WorkerStep
<1>5. CASE ClearFlag
  BY <1>1, <1>3, <1>5, RegisterCleared
<1>6. CASE AppCalls \/ StartReturns \/ DestroyJoins \/ CloseSocket \/ Network \/ UNCHANGED vars
  BY <1>1, <1>3, <1>6, RegisterElsewhere
<1> QED BY <1>4, <1>5, <1>6 DEF Next, AppReturns
-----------------------------------------------------------------------------
LEMMA Initially == ASSUME ServerAssumption PROVE Init => IInv
<1> SUFFICES ASSUME Init PROVE IInv
  OBVIOUS
<1>1. /\ acceptor = FALSE /\ mutex = FALSE /\ accepts = 0 /\ ready = << >> /\ target = NoPeer
      /\ app = "idle" /\ starts = 0 /\ broken = FALSE /\ crossed = FALSE /\ faulted = FALSE
      /\ worker = [w \in Workers |-> [at |-> "none", with |-> NoPeer]]
  BY DEF Init
<1>2. [at |-> "none", with |-> NoPeer] \in WorkerStates
  BY DEF WorkerStates
<1>3. worker \in [Workers -> WorkerStates] /\ \A w \in Workers : worker[w].at = "none"
  BY <1>1, <1>2
<1>4. ready \in Seq(Events) /\ Len(ready) = 0
  BY <1>1, EmptySeq
<1>5. Typed
  <2>1. accepts \in Nat /\ starts \in 0 .. MaxStarts /\ target \in Peers \cup {NoPeer}
    BY <1>1 DEF ServerAssumption
  <2>2. /\ acceptor \in BOOLEAN /\ mutex \in BOOLEAN
        /\ broken \in BOOLEAN /\ crossed \in BOOLEAN /\ faulted \in BOOLEAN
    BY <1>1
  <2> QED BY <1>3, <1>4, <2>1, <2>2 DEF Typed
<1>6. Unmade /\ Guarded
  BY <1>1, <1>3 DEF Unmade, Guarded
<1>7. Chains = 0
  <2>1. Ofs(ready) = {} /\ Takers(worker) = {}
    BY <1>3, <1>4 DEF Ofs, Takers, AcceptStates
  <2> QED BY <2>1, <1>1, <1>5, ChainsIs, FS_EmptySet
<1>8. Chained
  BY <1>1, <1>7 DEF Chained, AcceptChain
<1>9. /\ is_running = FALSE /\ accept_connection = TRUE /\ stopped = FALSE /\ crashed = FALSE
      /\ all_clients = [i \in Ids |-> NoPeer] /\ ID_Counter = 0
      /\ is_connected = [p \in Peers |-> FALSE] /\ id = [p \in Peers |-> 0]
      /\ registered = {} /\ receiving = {} /\ peer = [p \in Peers |-> "away"]
  BY DEF Init
<1>10. \A at, p : at # "none" => ~Doing(at, p)
  <2> SUFFICES ASSUME NEW at, NEW p, at # "none", NEW w \in Workers, worker[w] = [at |-> at, with |-> p]
               PROVE  FALSE
    BY DEF Doing
  <2>1. worker[w].at = at
    OBVIOUS
  <2> QED BY <2>1, <1>3
<1>11. \A p : ~Holds(ready, p)
  BY <1>4 DEF Holds
<1>12. \A p \in Peers : ~Known(p)
  <2>1. NoPeer \notin Peers
    BY DEF ServerAssumption
  <2> QED BY <1>9, <2>1 DEF Known, Listed
<1>13. IsFiniteSet(Peers) /\ Cardinality(Peers) \in Nat
  BY FS_CardinalityType DEF ServerAssumption
<1>14. Named
  <2>1. \A p \in Peers : 0 \in Ids
    <3> SUFFICES ASSUME NEW p \in Peers PROVE 0 \in Ids
      OBVIOUS
    <3>1. Cardinality(Peers) # 0
      BY <1>13, FS_EmptySet
    <3> QED BY <3>1, <1>13 DEF Ids
  <2>2. id \in [Peers -> Ids]
    BY <2>1, <1>9
  <2>3. \A w \in Workers : worker[w].at \in InHand => worker[w].with \in Peers
    BY <1>3 DEF InHand
  <2>4. OfPeers(ready)
    BY <1>4 DEF OfPeers
  <2>5. /\ is_running \in BOOLEAN /\ accept_connection \in BOOLEAN
        /\ stopped \in BOOLEAN /\ crashed \in BOOLEAN /\ ID_Counter \in Nat
        /\ registered \in SUBSET Peers /\ receiving \in SUBSET Peers
    BY <1>9
  <2>6. /\ all_clients \in [Ids -> Peers \cup {NoPeer}] /\ is_connected \in [Peers -> BOOLEAN]
        /\ peer \in [Peers -> {"away", "calling", "refused", "open", "gone", "closed"}]
    BY <1>9
  <2> QED BY <1>1, <2>2, <2>3, <2>4, <2>5, <2>6 DEF Named
<1>15. OnceOnly
  BY <1>3, <1>4, <1>10, <1>11 DEF OnceOnly, Single
<1>16. Numbered
  <2>1. Newcomers = Peers
    BY <1>9 DEF Newcomers, Fresh
  <2> QED BY <2>1, <1>9, <1>13 DEF Numbered
<1>17. Enrolled
  <2>1. /\ \A p \in Newcomers : ~Known(p)
        /\ \A p \in Peers, i \in Ids : all_clients[i] = p => i = id[p]
    BY <1>12 DEF Newcomers, Known, Listed
  <2>2. \A p \in Peers : ~is_connected[p] /\ ~Listed(p)
    BY <1>12 DEF Known
  <2> QED BY <2>1, <2>2, <1>1, <1>10, <1>12 DEF Enrolled, Register
<1> QED BY <1>5, <1>6, <1>8, <1>14, <1>15, <1>16, <1>17 DEF IInv

LEMMA Inductive == ASSUME ServerAssumption, IInv, [Next]_vars PROVE IInv'
<1> USE DEF IInv
<1>1. Typed' /\ Unmade' /\ Guarded' /\ Chained'
  BY TypedInductive, UnmadeInductive, GuardedInductive, ChainInductive
<1>2. Named' /\ Numbered'
  BY NamedInductive, NumberedInductive
<1>3. OnceOnly'
  BY OnceInductive
<1>4. Enrolled'
  BY EnrolledInductive
<1> QED BY <1>1, <1>2, <1>3, <1>4

(* The invariant the theorems below follow from.                           *)
THEOREM Invariant == Spec => []IInv
  BY ServerAssumption, Initially, Inductive, PTL DEF Spec

(* A server that listens has an accept outstanding, completed or being     *)
(* handled unless a handler ended the chain, and never two unless a start  *)
(* met the rest of an earlier chain.                                       *)
THEOREM OneChain == Spec => []AcceptChain
<1>1. IInv => AcceptChain
  BY DEF IInv, Chained
<1> QED BY <1>1, Invariant, PTL

(* disconnect_client never uses a client that has left the map.            *)
THEOREM LookupsFresh == Spec => []NoStaleLookup
<1>1. IInv => NoStaleLookup
  BY DEF IInv, Guarded, NoStaleLookup
<1> QED BY <1>1, Invariant, PTL

(* Every variable keeps its type: above all, no client ever gets a number  *)
(* beyond the peers there are, and no more accepts are outstanding than    *)
(* the server was started times.                                           *)
THEOREM TypeCorrect == Spec => []TypeOK
<1>1. ASSUME IInv PROVE TypeOK
  <2> USE <1>1 DEF IInv
  <2>1. accepts \in 0 .. MaxStarts
    <3>1. starts \in 0 .. MaxStarts /\ accepts \in Nat /\ MaxStarts \in Nat
      BY ServerAssumption DEF Typed, ServerAssumption
    <3>2. Chains \in Nat /\ accepts <= Chains /\ Chains <= starts
      BY ServerAssumption, ChainsIs DEF Chained
    <3> QED BY <3>1, <3>2
  <2> QED BY <2>1 DEF Typed, Named, TypeOK, Events, WorkerStates
<1> QED BY <1>1, Invariant, PTL

(* A server that is not restarted has every connected client in its map    *)
(* under that client's number, and no other longer than until it is erased *)
(* or because the server closed it.                                        *)
THEOREM RosterKept == Spec => []Roster
<1>1. ASSUME IInv PROVE Roster
  <2> SUFFICES ASSUME starts <= 1, NEW p \in Peers
               PROVE  /\ is_connected[p] => Listing(p) \/ all_clients[id[p]] = p
                      /\ \A i \in Ids : all_clients[i] = p =>
                           i = id[p] /\ (is_connected[p] \/ Erasing(p) \/ peer[p] = "closed")
    BY DEF Roster
  <2>1. Register
    BY <1>1 DEF IInv, Enrolled
  <2>2. (Doing("listing", p) => Listing(p)) /\ (Doing("erasing", p) => Erasing(p))
    BY DEF Doing, Listing, Erasing
  <2>3. \A i \in Ids : all_clients[i] = p => Listed(p)
    BY DEF Listed
  <2> QED BY <2>1, <2>2, <2>3 DEF Register
<1> QED BY <1>1, Invariant, PTL
=============================================================================
