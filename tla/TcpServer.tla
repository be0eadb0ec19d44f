------------------------------ MODULE TcpServer ------------------------------
(***************************************************************************)
(* hp::peripheral::TCPServer (peripheral/src/tcp_server.cc): the chain of  *)
(* accepts, the map of clients, and the calls of the application's thread. *)
(* A worker thread runs the handlers of the io_context; every start adds   *)
(* one, and the earlier ones live on.  Of a TCPClient there is here what   *)
(* the server sees: its number, its flag, its receive and the slot that    *)
(* takes it from the map.  Its making is one step here (with a second      *)
(* worker two clients could get one number), and what it receives is a     *)
(* matter of TcpClient.                                                    *)
(* Not here: get_client, which changes nothing, and send_to_client, which  *)
(* uses what it has looked up without the mutex.                           *)
(* A definition named X_Y is X with the slip Y, kept beside it to see that *)
(* a property notices; no specification uses it.                           *)
(***************************************************************************)
EXTENDS Integers, Sequences, FiniteSets

CONSTANTS
  Peers,         (* those who connect, each once                          *)
  NoPeer,
  MaxStarts      (* bound: how often the server is started                *)

ASSUME ServerAssumption ==
  /\ IsFiniteSet(Peers) /\ NoPeer \notin Peers
  /\ MaxStarts \in Nat \ {0}

VARIABLES
  is_running, accept_connection,
  acceptor,      (* whether acceptor_ is set                              *)
  all_clients,   (* all_clients_map_: the client of each id, or NoPeer    *)
  mutex,         (* whether the application holds clients_mutex_ (what a  *)
                 (* worker does under it is one step)                     *)
  ID_Counter,
  is_connected, id, registered,   (* of each peer's TCPClient             *)
  app, target,   (* where the application's thread is, and with whom      *)
  worker,        (* what each worker is at, and with whom                 *)
  stopped,       (* whether the io_context has stopped, which is for good *)
  accepts,       (* how many accepts are outstanding                      *)
  receiving,     (* whose clients have a receive outstanding              *)
  ready,         (* completions the io_context is about to run            *)
  peer,          (* the state of each peer's connection                   *)
  starts,
  broken,        (* whether the chain of accepts has ended                *)
  crossed,       (* whether a start ever met a chain that was still alive *)
  faulted,       (* whether a client found under the mutex was used after *)
                 (* it had left the map                                   *)
  crashed        (* whether a null acceptor_ was used                     *)

code == <<is_running, accept_connection, acceptor, all_clients, mutex, ID_Counter>>
clients == <<is_connected, id, registered>>
threads == <<app, target, worker>>
context == <<stopped, accepts, receiving, ready, peer>>
history == <<starts, broken, crossed, faulted, crashed>>
vars == <<code, clients, threads, context, history>>

Workers == 1 .. MaxStarts
Ids == 0 .. Cardinality(Peers) - 1

Init ==
  /\ is_running = FALSE /\ accept_connection = TRUE /\ acceptor = FALSE
  /\ all_clients = [i \in Ids |-> NoPeer]
  /\ mutex = FALSE /\ ID_Counter = 0
  /\ is_connected = [p \in Peers |-> FALSE] /\ id = [p \in Peers |-> 0]
  /\ registered = {}
  /\ app = "idle" /\ target = NoPeer
  /\ worker = [w \in Workers |-> [at |-> "none", with |-> NoPeer]]
  /\ stopped = FALSE /\ accepts = 0 /\ receiving = {} /\ ready = << >>
  /\ peer = [p \in Peers |-> "away"]
  /\ starts = 0 /\ broken = FALSE /\ crossed = FALSE
  /\ faulted = FALSE /\ crashed = FALSE

(* What the handlers are called with. *)
Accepted(p) == [what |-> "accepted", with |-> p]
Failed == [what |-> "failed", with |-> NoPeer]
Aborted == [what |-> "aborted", with |-> NoPeer]
Lost(p) == [what |-> "lost", with |-> p]

Accepting(w) ==
  worker[w].at \in {"making", "listing", "listed", "rearming"}

(* How many chains of accepts there are. *)
IsOfAccept(e) == e.what \in {"accepted", "failed"}
Chains ==
  accepts + Cardinality({k \in 1 .. Len(ready) : IsOfAccept(ready[k])})
          + Cardinality({w \in Workers : Accepting(w)})

abandoned == mutex /\ app \notin {"closing", "clearing"}
Listed(p) == \E i \in Ids : all_clients[i] = p
-----------------------------------------------------------------------------
(* start *)
StartAccepts ==
  /\ app = "idle" /\ ~is_running
  /\ starts < MaxStarts
  /\ starts' = starts + 1
  /\ acceptor' = TRUE
  /\ accepts' = accepts + 1
  /\ crossed' = (crossed \/ Chains > 0)
  /\ broken' = FALSE
  /\ app' = "starting"
  /\ UNCHANGED <<is_running, accept_connection, all_clients, mutex, ID_Counter>>
  /\ UNCHANGED <<clients, target, worker, stopped, receiving, ready, peer, faulted, crashed>>

StartReturns ==
  /\ app = "starting"
  /\ worker' = [worker EXCEPT ![starts].at = "idle"]
  /\ is_running' = TRUE
  /\ app' = "idle"
  /\ UNCHANGED <<accept_connection, acceptor, all_clients, mutex, ID_Counter>>
  /\ UNCHANGED <<clients, target, context, history>>

(* What becomes of accepts and callers when the acceptor is closed. *)
CloseAcceptor ==
  /\ acceptor' = FALSE
  /\ accepts' = 0
  /\ ready' = ready \o [k \in 1 .. accepts |-> Aborted]
  /\ peer' = [p \in Peers |-> IF peer[p] = "calling" THEN "refused" ELSE peer[p]]

stop ==
  /\ app = "idle" /\ starts > 0
  /\ is_running' = FALSE
  /\ CloseAcceptor
  /\ UNCHANGED <<accept_connection, all_clients, mutex, ID_Counter>>
  /\ UNCHANGED <<clients, threads, stopped, receiving, history>>

accept_connection_ ==
  /\ app = "idle"
  /\ accept_connection' = ~accept_connection
  /\ UNCHANGED <<is_running, acceptor, all_clients, mutex, ID_Counter>>
  /\ UNCHANGED <<clients, threads, context, history>>

(* The destructor stops the io_context and joins the last worker.  (That   *)
(* of a restarted server leaves the others running on a dead object, and   *)
(* that of one never started joins a null thread: not here.)               *)
Destroy ==
  /\ app = "idle" /\ starts = 1
  /\ stopped' = TRUE
  /\ IF is_running THEN CloseAcceptor ELSE UNCHANGED <<acceptor, accepts, ready, peer>>
  /\ app' = "joining"
  /\ UNCHANGED <<is_running, accept_connection, all_clients, mutex, ID_Counter>>
  /\ UNCHANGED <<clients, target, worker, receiving, history>>

DestroyJoins ==
  /\ app = "joining" /\ worker[starts].at = "ended"
  /\ app' = "destroyed"
  /\ UNCHANGED <<code, clients, target, worker, context, history>>
-----------------------------------------------------------------------------
(* The calls that use clients under the mutex.  send_to_all_clients        *)
(* changes nothing unless one of its sends throws: then the mutex stays    *)
(* locked, and whoever takes it later waits for ever.                      *)
send_to_all_clients ==
  /\ app = "idle" /\ ~mutex
  /\ \E p \in Peers : Listed(p) /\ is_connected[p] /\ peer[p] # "open"
  /\ mutex' = TRUE
  /\ UNCHANGED <<is_running, accept_connection, acceptor, all_clients, ID_Counter>>
  /\ UNCHANGED <<clients, threads, context, history>>

(* disconnect_client finds a client, closes its socket, and clears its flag. *)
FindToClose ==
  /\ app = "idle" /\ ~mutex
  /\ \E p \in Peers : Listed(p) /\ is_connected[p] /\ target' = p
  /\ mutex' = TRUE
  /\ app' = "closing"
  /\ UNCHANGED <<is_running, accept_connection, acceptor, all_clients, ID_Counter>>
  /\ UNCHANGED <<clients, worker, context, history>>

CloseSocket ==
  /\ app = "closing"
  /\ receiving' = receiving \ {target}
  /\ ready' = IF target \in receiving THEN Append(ready, Lost(target)) ELSE ready
  /\ peer' = [peer EXCEPT ![target] = "closed"]
  /\ faulted' = (faulted \/ ~Listed(target))
  /\ app' = "clearing"
  /\ UNCHANGED <<code, clients, target, worker, stopped, accepts>>
  /\ UNCHANGED <<starts, broken, crossed, crashed>>

ClearFlag ==
  /\ app = "clearing"
  /\ is_connected' = [is_connected EXCEPT ![target] = FALSE]
  /\ faulted' = (faulted \/ ~Listed(target))
  /\ mutex' = FALSE
  /\ app' = "idle" /\ target' = NoPeer
  /\ UNCHANGED <<is_running, accept_connection, acceptor, all_clients, ID_Counter>>
  /\ UNCHANGED <<id, registered, worker, context>>
  /\ UNCHANGED <<starts, broken, crossed, crashed>>
-----------------------------------------------------------------------------
(* The network *)
PeerCalls(p) ==
  /\ peer[p] = "away" /\ acceptor
  /\ peer' = [peer EXCEPT ![p] = "calling"]
  /\ UNCHANGED <<code, clients, threads, stopped, accepts, receiving, ready, history>>

AcceptCompletes(p) ==
  /\ accepts > 0 /\ peer[p] = "calling"
  /\ accepts' = accepts - 1
  /\ peer' = [peer EXCEPT ![p] = "open"]
  /\ ready' = Append(ready, Accepted(p))
  /\ UNCHANGED <<code, clients, threads, stopped, receiving, history>>

(* The process is out of descriptors, say. *)
AcceptFails ==
  /\ accepts > 0
  /\ accepts' = accepts - 1
  /\ ready' = Append(ready, Failed)
  /\ UNCHANGED <<code, clients, threads, stopped, receiving, peer, history>>

PeerGoes(p) ==
  /\ peer[p] = "open"
  /\ peer' = [peer EXCEPT ![p] = "gone"]
  /\ receiving' = receiving \ {p}
  /\ ready' = IF p \in receiving THEN Append(ready, Lost(p)) ELSE ready
  /\ UNCHANGED <<code, clients, threads, stopped, accepts, history>>
-----------------------------------------------------------------------------
(* A worker *)
With(w) == worker[w].with
At(w, at) ==
  worker' = [worker EXCEPT ![w] =
    [at |-> at, with |-> IF at \in {"idle", "ended", "crashed"} THEN NoPeer ELSE With(w)]]

(* run returns when the io_context is stopped, or has nothing to wait for, *)
(* which stops it.                                                         *)
Busy == \E w \in Workers : worker[w].at \notin {"none", "idle", "ended"}
OutOfWork == accepts = 0 /\ receiving = {} /\ ready = << >> /\ ~Busy

RunReturns(w) ==
  /\ worker[w].at = "idle" /\ (stopped \/ OutOfWork)
  /\ At(w, "ended")
  /\ stopped' = TRUE
  /\ UNCHANGED <<code, clients, app, target, accepts, receiving, ready, peer, history>>

(* handle_accept goes on with an accepted socket only while it may accept; *)
(* the client's handle_read_data goes on after an error if is_connected_.  *)
MayAccept(e) == e.what = "accepted" /\ accept_connection

NoticeLoss_Inverted(e) == e.what = "lost" /\ ~is_connected[e.with]
NoticeLoss(e) == e.what = "lost" /\ is_connected[e.with]

Handle(w) ==
  /\ worker[w].at = "idle" /\ ~stopped /\ ready # << >>
  /\ LET e == Head(ready) IN
     /\ worker' = CASE MayAccept(e) -> [worker EXCEPT ![w] = [at |-> "making", with |-> e.with]]
                    [] NoticeLoss(e) -> [worker EXCEPT ![w] = [at |-> "losing", with |-> e.with]]
                    [] OTHER -> worker
     /\ broken' = (broken \/ (IsOfAccept(e) /\ ~MayAccept(e)))
  /\ ready' = Tail(ready)
  /\ UNCHANGED <<code, clients, app, target, stopped, accepts, receiving, peer>>
  /\ UNCHANGED <<starts, crossed, faulted, crashed>>

(* The TCPClient is made: it throws if its peer has already gone. *)
MakeThrows(w) ==
  /\ worker[w].at = "making" /\ peer[With(w)] # "open"
  /\ At(w, "idle") /\ broken' = TRUE
  /\ UNCHANGED <<code, clients, app, target, context>>
  /\ UNCHANGED <<starts, crossed, faulted, crashed>>

NextNumber_Same == ID_Counter
NextNumber == ID_Counter + 1

(* Numbered, counted, receiving, and marked as connected *)
MakeClient(w) ==
  /\ worker[w].at = "making"
  /\ id' = [id EXCEPT ![With(w)] = ID_Counter]
  /\ ID_Counter' = NextNumber
  /\ IF peer[With(w)] = "open"
       THEN receiving' = receiving \cup {With(w)} /\ UNCHANGED ready
       ELSE ready' = Append(ready, Lost(With(w))) /\ UNCHANGED receiving
  /\ is_connected' = [is_connected EXCEPT ![With(w)] = TRUE]
  /\ At(w, "listing")
  /\ UNCHANGED <<is_running, accept_connection, acceptor, all_clients, mutex>>
  /\ UNCHANGED <<registered, app, target, stopped, accepts, peer, history>>

(* Its place in the map, under the mutex *)
ListClient(w) ==
  /\ worker[w].at = "listing" /\ ~mutex
  /\ all_clients' = [all_clients EXCEPT ![id[With(w)]] = With(w)]
  /\ At(w, "listed")
  /\ UNCHANGED <<is_running, accept_connection, acceptor, mutex, ID_Counter>>
  /\ UNCHANGED <<clients, app, target, context, history>>

(* connect does nothing for a socket that is open.  disconnect is made the *)
(* client's slot, and the application's slots are called, and may throw.   *)
Announce(w) ==
  /\ worker[w].at = "listed"
  /\ registered' = registered \cup {With(w)}
  /\ \/ At(w, "rearming") /\ UNCHANGED broken
     \/ At(w, "idle") /\ broken' = TRUE
  /\ UNCHANGED <<code, is_connected, id, app, target, context>>
  /\ UNCHANGED <<starts, crossed, faulted, crashed>>

Rearmed_Never == 0
Rearmed_Twice == 2
Rearmed == 1

handle_connection(w) ==
  /\ worker[w].at = "rearming"
  /\ IF acceptor
       THEN /\ accepts' = accepts + Rearmed
            /\ At(w, "idle") /\ UNCHANGED crashed
       ELSE /\ crashed' = TRUE
            /\ At(w, "crashed") /\ UNCHANGED accepts
  /\ UNCHANGED <<code, clients, app, target, stopped, receiving, ready, peer>>
  /\ UNCHANGED <<starts, broken, crossed, faulted>>

(* A client that was lost: its flag, and disconnect if that is registered. *)
LoseClient(w) ==
  /\ worker[w].at = "losing"
  /\ is_connected' = [is_connected EXCEPT ![With(w)] = FALSE]
  /\ At(w, IF With(w) \in registered THEN "erasing" ELSE "idle")
  /\ UNCHANGED <<code, id, registered, app, target, context, history>>

MayErase_Unlocked == TRUE
MayErase == ~mutex

disconnect(w) ==
  /\ worker[w].at = "erasing" /\ MayErase
  /\ all_clients' = [all_clients EXCEPT ![id[With(w)]] = NoPeer]
  /\ At(w, "idle")
  /\ UNCHANGED <<is_running, accept_connection, acceptor, mutex, ID_Counter>>
  /\ UNCHANGED <<clients, app, target, context, history>>

WorkerStep(w) ==
  \/ RunReturns(w) \/ Handle(w)
  \/ MakeThrows(w) \/ MakeClient(w)
  \/ ListClient(w) \/ Announce(w) \/ handle_connection(w)
  \/ LoseClient(w) \/ disconnect(w)
-----------------------------------------------------------------------------
AppReturns ==
  StartReturns \/ DestroyJoins \/ CloseSocket \/ ClearFlag

AppCalls ==
  \/ StartAccepts \/ stop \/ accept_connection_ \/ Destroy
  \/ send_to_all_clients \/ FindToClose

Network ==
  \/ AcceptFails
  \/ \E p \in Peers : PeerCalls(p) \/ AcceptCompletes(p) \/ PeerGoes(p)

Next == ~crashed /\ (AppCalls \/ AppReturns \/ Network \/ \E w \in Workers : WorkerStep(w))

Spec == Init /\ [][Next]_vars

(* Calls run to their end, the workers keep running, and the network hands *)
(* a caller to an accept that waits.                                       *)
FairSpec ==
  /\ Spec
  /\ WF_vars(~crashed /\ AppReturns)
  /\ WF_vars(~crashed /\ \E w \in Workers : WorkerStep(w))
  /\ WF_vars(~crashed /\ \E p \in Peers : AcceptCompletes(p))
-----------------------------------------------------------------------------
TypeOK ==
  /\ is_running \in BOOLEAN /\ accept_connection \in BOOLEAN
  /\ acceptor \in BOOLEAN /\ mutex \in BOOLEAN
  /\ all_clients \in [Ids -> Peers \cup {NoPeer}]
  /\ ID_Counter \in Nat
  /\ is_connected \in [Peers -> BOOLEAN] /\ id \in [Peers -> Ids]
  /\ registered \subseteq Peers
  /\ app \in {"idle", "starting", "closing", "clearing", "joining", "destroyed"}
  /\ target \in Peers \cup {NoPeer}
  /\ worker \in [Workers ->
       [at : {"none", "idle", "ended", "making", "listing", "listed",
              "rearming", "losing", "erasing", "crashed"},
        with : Peers \cup {NoPeer}]]
  /\ stopped \in BOOLEAN /\ accepts \in 0 .. MaxStarts
  /\ receiving \subseteq Peers
  /\ ready \in Seq([what : {"accepted", "failed", "aborted", "lost"}, with : Peers \cup {NoPeer}])
  /\ peer \in [Peers -> {"away", "calling", "refused", "open", "gone", "closed"}]
  /\ starts \in 0 .. MaxStarts
  /\ broken \in BOOLEAN /\ crossed \in BOOLEAN
  /\ faulted \in BOOLEAN /\ crashed \in BOOLEAN

(* A server that listens has one accept outstanding, completed or being    *)
(* handled, though only the handler's last call makes the next one: unless *)
(* a handler failed or turned its client away there is at least one, and   *)
(* unless a start met the rest of an earlier chain there is no second.     *)
AcceptChain ==
  /\ acceptor /\ ~broken => Chains >= 1
  /\ ~crossed => Chains <= 1

(* As long as the server is not restarted, its map holds every client that *)
(* is connected under that client's own number, and a client that is not   *)
(* connected only until it is erased, or because the server closed it.     *)
Erasing(p) == \E w \in Workers : worker[w] = [at |-> "erasing", with |-> p]
Listing(p) == \E w \in Workers : worker[w] = [at |-> "listing", with |-> p]
Roster ==
  starts <= 1 => \A p \in Peers :
    /\ is_connected[p] => Listing(p) \/ all_clients[id[p]] = p
    /\ \A i \in Ids : all_clients[i] = p =>
         i = id[p] /\ (is_connected[p] \/ Erasing(p) \/ peer[p] = "closed")

(* No call that looks a client up under the mutex uses it after it has     *)
(* left the map.                                                           *)
NoStaleLookup == ~faulted

(* Whoever calls a server is accepted or refused, unless the chain ended,  *)
(* the io_context ran out of work before a restart, a send threw inside    *)
(* the mutex, or stop came between an accept and the next.                 *)
Answered ==
  \A p \in Peers :
    peer[p] = "calling" ~> peer[p] # "calling" \/ broken \/ stopped \/ abandoned \/ crashed

(* A client whose peer has gone leaves the map, in a server that was not   *)
(* restarted, unless disconnect_client closed it first.                    *)
LostLeaves ==
  \A p \in Peers :
    peer[p] = "gone" /\ Listed(p) ~>
      ~Listed(p) \/ peer[p] = "closed" \/ starts > 1 \/ stopped \/ abandoned \/ crashed
=============================================================================
