------------------------------ MODULE TcpClient ------------------------------
(***************************************************************************)
(* hp::peripheral::TCPClient (peripheral/src/tcp_client.cc), a client made *)
(* from an address.  The application's thread connects, disconnects,       *)
(* exchanges the buffer and destroys the client; another of its threads    *)
(* reads; every successful connect adds a thread that runs the io_context. *)
(* Nothing but the buffers is locked.  A byte is named by its place in the *)
(* order of arrival.  A buffer is the sequence of bytes it holds, which is *)
(* what CircularBuffer is shown to be (ByteStream): of what is written it  *)
(* keeps the newest, and nobody looks at the result that says so.          *)
(* Not here: message extraction (the first start_find_messages builds an   *)
(* extractor from a null packet structure and crashes, so that its thread  *)
(* never runs), sending, and the counters behind the rate printers.        *)
(* A definition named X_Y is X with the slip Y, kept beside it to see that *)
(* a property notices; no specification uses it.                           *)
(***************************************************************************)
EXTENDS Integers, Sequences, FiniteSets, Functions

CONSTANTS
  MaxConnects,   (* bound: successful connects, and so io threads         *)
  MaxBytes,      (* bound: bytes received                                 *)
  MaxBuffers,    (* bound: the first buffer and those set_buffer brings   *)
  DataSize,      (* how many bytes data_ has: MAX_LENGTH                  *)
  ReceiveSizes,  (* how many of them a receive may bring                  *)
  Capacity       (* how many bytes a buffer holds: one less than its size *)

ASSUME ClientAssumption ==
  /\ MaxConnects \in Nat /\ MaxBytes \in Nat /\ MaxBuffers \in Nat \ {0}
  /\ DataSize \in Nat /\ ReceiveSizes \subseteq 1 .. DataSize
  /\ Capacity \in Nat

VARIABLES
  is_connected, do_buffer_data,
  buffer,        (* which buffer buffer_ points to; earlier ones are gone *)
  content,       (* the bytes in each buffer                              *)
  data,          (* the bytes in data_                                    *)
  app,           (* where the application's thread is                     *)
  reader,        (* the buffer its reading thread has loaded, or 0        *)
  io,            (* what each io thread is at                             *)
  conn,          (* the connection the open socket is on, or 0            *)
  gone,          (* whether the peer has ended that connection            *)
  receiving,     (* how many receives are outstanding on it               *)
  ready,         (* completions the io_context is about to run            *)
  connects,      (* how many connects have succeeded                      *)
  arrived,       (* how many bytes have been received                     *)
  delivered,     (* the bytes the data slots were called with             *)
  kept,          (* those of them that were then to be buffered           *)
  taken,         (* the bytes the application has read from buffers       *)
  overflowed,    (* whether a buffer ever lost bytes to newer ones        *)
  notified,      (* of each connection, how often the disconnect slots    *)
                 (* were called while it was the last that was made       *)
  faulted,       (* whether a buffer was used after its destruction       *)
  overtaken,     (* whether a connect ever met a completion of an earlier *)
                 (* connection, waiting or being handled                  *)
  hasty          (* whether an error was handled before the connect that  *)
                 (* started its receive had set is_connected_             *)

code == <<is_connected, do_buffer_data, buffer, content, data>>
threads == <<app, reader, io>>
network == <<conn, gone, receiving, ready, connects, arrived>>
history == <<delivered, kept, taken, overflowed, notified, faulted, overtaken, hasty>>
vars == <<code, threads, network, history>>

IoThreads == 1 .. MaxConnects
Connections == 1 .. MaxConnects
Idle == [at |-> "idle", from |-> 0, size |-> 0, buf |-> 0]

Init ==
  /\ is_connected = FALSE /\ do_buffer_data = TRUE
  /\ buffer = 1 /\ content = [b \in 1 .. MaxBuffers |-> << >>]
  /\ data = [k \in 1 .. DataSize |-> 0]
  /\ app = "idle" /\ reader = 0 /\ io = [i \in IoThreads |-> Idle]
  /\ conn = 0 /\ gone = FALSE /\ receiving = 0 /\ ready = << >>
  /\ connects = 0 /\ arrived = 0
  /\ delivered = << >> /\ kept = << >> /\ taken = << >>
  /\ overflowed = FALSE /\ notified = [c \in Connections |-> 0]
  /\ faulted = FALSE /\ overtaken = FALSE /\ hasty = FALSE

Failed(c) == [from |-> c, error |-> TRUE, size |-> 0]
Received(c, n) == [from |-> c, error |-> FALSE, size |-> n]

(* What a socket that closes or loses its peer makes of its receives. *)
Aborted == ready \o [k \in 1 .. receiving |-> Failed(conn)]

(* socket_->async_receive: on a socket that is closed or has lost its peer *)
(* it fails at once.                                                       *)
async_receive ==
  IF conn = 0 \/ gone
    THEN ready' = Append(ready, Failed(conn)) /\ UNCHANGED receiving
    ELSE receiving' = receiving + 1 /\ UNCHANGED ready

NoHandler == ready = << >> /\ \A i \in IoThreads : io[i] = Idle
-----------------------------------------------------------------------------
(* connect.  It changes nothing if is_connected_ is set, if the peer       *)
(* refuses, or if the socket is still open from an earlier connection.     *)
MayConnect == ~is_connected /\ conn = 0

Connect ==
  /\ app = "idle" /\ MayConnect
  /\ connects < MaxConnects
  /\ connects' = connects + 1
  /\ conn' = connects + 1 /\ gone' = FALSE
  /\ app' = "opened"
  /\ overtaken' = (overtaken \/ ~NoHandler)
  /\ UNCHANGED <<code, reader, io, receiving, ready, arrived>>
  /\ UNCHANGED <<delivered, kept, taken, overflowed, notified, faulted, hasty>>

(* The thread is created and the first receive started ... *)
ConnectReceives ==
  /\ app = "opened"
  /\ app' = "receiving"
  /\ async_receive
  /\ UNCHANGED <<code, reader, io, conn, gone, connects, arrived, history>>

(* ... and only then is the client marked as connected. *)
ConnectReturns ==
  /\ app = "receiving"
  /\ app' = "idle"
  /\ is_connected' = TRUE
  /\ UNCHANGED <<do_buffer_data, buffer, content, data, reader, io, network, history>>

Close_IfConnected ==
  /\ IF is_connected
       THEN conn' = 0 /\ ready' = Aborted /\ receiving' = 0
       ELSE UNCHANGED <<conn, ready, receiving>>
  /\ UNCHANGED <<gone, connects, arrived>>
Close ==
  /\ conn' = 0
  /\ ready' = Aborted
  /\ receiving' = 0
  /\ UNCHANGED <<gone, connects, arrived>>

Disconnect ==
  /\ app = "idle"
  /\ app' = "disconnecting"
  /\ Close
  /\ UNCHANGED <<code, reader, io, history>>

DisconnectReturns ==
  /\ app = "disconnecting"
  /\ app' = "idle"
  /\ is_connected' = FALSE
  /\ UNCHANGED <<do_buffer_data, buffer, content, data, reader, io, network, history>>

(* The destructor closes, takes the work from the io_context, and joins the *)
(* io threads, which end when nothing is outstanding.                       *)
Destroy ==
  /\ app = "idle" /\ reader = 0
  /\ app' = "destroying"
  /\ Close
  /\ UNCHANGED <<code, reader, io, history>>

DestroyJoins ==
  /\ app = "destroying"
  /\ app' = "joining"
  /\ is_connected' = FALSE
  /\ UNCHANGED <<do_buffer_data, buffer, content, data, reader, io, network, history>>

DestroyReturns ==
  /\ app = "joining"
  /\ receiving = 0 /\ NoHandler
  /\ app' = "destroyed"
  /\ UNCHANGED <<code, reader, io, network, history>>
-----------------------------------------------------------------------------
(* It matters to bytes still to be delivered only. *)
DoBufferData ==
  /\ app = "idle" /\ Len(delivered) < MaxBytes
  /\ do_buffer_data' = ~do_buffer_data
  /\ UNCHANGED <<is_connected, buffer, content, data, threads, network, history>>

(* set_buffer copies the new buffer onto itself, and lets go of the old one *)
(* with all that is in it.                                                  *)
SetBuffer ==
  /\ app = "idle" /\ buffer < MaxBuffers
  /\ buffer' = buffer + 1
  /\ content' = [content EXCEPT ![buffer] = << >>]
  /\ UNCHANGED <<is_connected, do_buffer_data, data, threads, network>>
  /\ UNCHANGED <<delivered, kept, taken, overflowed, notified, faulted, overtaken, hasty>>

(* The reading calls load buffer_ and then read from what it pointed to:   *)
(* a byte, as many as were asked for, none in time, or all there are.      *)
ReadCall ==
  /\ reader = 0 /\ app \notin {"destroying", "joining", "destroyed"}
  /\ reader' = buffer
  /\ UNCHANGED <<code, app, io, network, history>>

ReadReturns ==
  /\ reader # 0
  /\ IF reader = buffer
       THEN /\ \E n \in 0 .. Len(content[reader]) :
                 /\ taken' = taken \o SubSeq(content[reader], 1, n)
                 /\ content' = [content EXCEPT ![reader] = SubSeq(@, n + 1, Len(@))]
            /\ UNCHANGED faulted
       ELSE /\ faulted' = TRUE
            /\ UNCHANGED <<taken, content>>
  /\ reader' = 0
  /\ UNCHANGED <<is_connected, do_buffer_data, buffer, data, app, io, network>>
  /\ UNCHANGED <<delivered, kept, overflowed, notified, overtaken, hasty>>
-----------------------------------------------------------------------------
(* The network: bytes for a receive, and the end of the connection.        *)
Arrive(n) ==
  /\ receiving > 0 /\ arrived + n <= MaxBytes
  /\ arrived' = arrived + n
  /\ data' = [k \in DOMAIN data |-> IF k <= n THEN arrived + k ELSE data[k]]
  /\ receiving' = receiving - 1
  /\ ready' = Append(ready, Received(conn, n))
  /\ UNCHANGED <<is_connected, do_buffer_data, buffer, content, threads, conn, gone, connects, history>>

PeerCloses ==
  /\ conn # 0 /\ ~gone
  /\ gone' = TRUE
  /\ ready' = Aborted
  /\ receiving' = 0
  /\ UNCHANGED <<code, threads, conn, connects, arrived, history>>
-----------------------------------------------------------------------------
(* handle_read_data, on an io thread                                       *)
IsError_Inverted(e) == ~e.error
IsError(e) == e.error

Started == IF app = "opened" THEN connects - 1 ELSE connects

Take(i) ==
  /\ io[i].at = "idle" /\ i <= Started /\ ready # << >>
  /\ io' = [io EXCEPT ![i] =
       [at |-> IF IsError(Head(ready)) THEN "failed" ELSE "received",
        from |-> Head(ready).from, size |-> Head(ready).size, buf |-> 0]]
  /\ ready' = Tail(ready)
  /\ UNCHANGED <<code, app, reader, conn, gone, receiving, connects, arrived, history>>

(* What the handler of a receive of n bytes finds in data_ *)
Bytes(n) == [k \in 1 .. n |-> data[k]]

(* The data slots run, and do_buffer_data_ is tested. *)
Deliver(i) ==
  /\ io[i].at = "received"
  /\ delivered' = delivered \o Bytes(io[i].size)
  /\ kept' = IF do_buffer_data THEN kept \o Bytes(io[i].size) ELSE kept
  /\ io' = [io EXCEPT ![i].at = IF do_buffer_data THEN "writing" ELSE "written",
                      ![i].buf = buffer]
  /\ UNCHANGED <<code, app, reader, network, taken, overflowed, notified, faulted, overtaken, hasty>>

(* CircularBuffer::write, of all that the buffer then has to hold *)
Newest(s, n) == SubSeq(s, Len(s) - n + 1, Len(s))
Overflows(s) == Len(s) > Capacity
Put(s) == IF Overflows(s) THEN Newest(s, Capacity) ELSE s

Buffering(i) == content[buffer] \o Bytes(io[i].size)

Write(i) ==
  /\ io[i].at = "writing"
  /\ IF io[i].buf = buffer
       THEN /\ content' = [content EXCEPT ![buffer] = Put(Buffering(i))]
            /\ overflowed' = (overflowed \/ Overflows(Buffering(i)))
            /\ UNCHANGED faulted
       ELSE /\ faulted' = TRUE
            /\ UNCHANGED <<content, overflowed>>
  /\ io' = [io EXCEPT ![i].at = "written"]
  /\ UNCHANGED <<is_connected, do_buffer_data, buffer, data, app, reader, network>>
  /\ UNCHANGED <<delivered, kept, taken, notified, overtaken, hasty>>

Rearm_First(i) == io[i].at \in {"received", "written"}
Rearm_Both(i) == io[i].at \in {"received", "written"} /\ receiving = 0
Rearm_Never(i) == FALSE
Rearm(i) == io[i].at = "written"

ReceiveNext(i) ==
  /\ Rearm(i)
  /\ async_receive
  /\ io' = [io EXCEPT ![i] = IF io[i].at = "written" THEN Idle ELSE @]
  /\ UNCHANGED <<code, app, reader, conn, gone, connects, arrived, history>>

(* After an error, is_connected_ is tested ... *)
NoticeLoss(i) == is_connected

Fail(i) ==
  /\ io[i].at = "failed"
  /\ io' = [io EXCEPT ![i] = IF NoticeLoss(i) THEN [@ EXCEPT !.at = "lost"] ELSE Idle]
  /\ hasty' = (hasty \/ (~is_connected /\ app = "receiving" /\ io[i].from = conn))
  /\ UNCHANGED <<code, app, reader, network>>
  /\ UNCHANGED <<delivered, kept, taken, overflowed, notified, faulted, overtaken>>

(* ... and if it was set, it is cleared and the disconnect slots run. *)
Lose(i) ==
  /\ io[i].at = "lost"
  /\ is_connected' = FALSE
  /\ notified' = [notified EXCEPT ![connects] = @ + 1]
  /\ io' = [io EXCEPT ![i] = Idle]
  /\ UNCHANGED <<do_buffer_data, buffer, content, data, app, reader, network>>
  /\ UNCHANGED <<delivered, kept, taken, overflowed, faulted, overtaken, hasty>>

handle_read_data(i) == Take(i) \/ Deliver(i) \/ Write(i) \/ ReceiveNext(i) \/ Fail(i) \/ Lose(i)
-----------------------------------------------------------------------------
AppReturns == ConnectReceives \/ ConnectReturns \/ DisconnectReturns \/ DestroyJoins \/ DestroyReturns

Next ==
  \/ Connect \/ Disconnect \/ Destroy \/ AppReturns
  \/ DoBufferData \/ SetBuffer \/ ReadCall \/ ReadReturns
  \/ \E n \in ReceiveSizes : Arrive(n)
  \/ PeerCloses
  \/ \E i \in IoThreads : handle_read_data(i)

Spec == Init /\ [][Next]_vars

(* Calls that were begun run to their end and the io threads keep running. *)
FairSpec == Spec /\ WF_vars(AppReturns) /\ WF_vars(\E i \in IoThreads : handle_read_data(i))
-----------------------------------------------------------------------------
TypeOK ==
  /\ is_connected \in BOOLEAN /\ do_buffer_data \in BOOLEAN
  /\ buffer \in 1 .. MaxBuffers
  /\ content \in [1 .. MaxBuffers -> Seq(Nat)]
  /\ \A b \in 1 .. MaxBuffers : Len(content[b]) <= Capacity
  /\ data \in [1 .. DataSize -> Nat]
  /\ app \in {"idle", "opened", "receiving", "disconnecting", "destroying", "joining", "destroyed"}
  /\ reader \in 0 .. MaxBuffers
  /\ io \in [IoThreads -> [at : {"idle", "received", "writing", "written", "failed", "lost"},
                           from : Nat, size : 0 .. DataSize, buf : 0 .. MaxBuffers]]
  /\ conn \in 0 .. MaxConnects /\ gone \in BOOLEAN
  /\ receiving \in 0 .. MaxConnects
  /\ ready \in Seq([from : Nat, error : BOOLEAN, size : 0 .. DataSize])
  /\ connects \in 0 .. MaxConnects /\ arrived \in Nat
  /\ delivered \in Seq(Nat) /\ kept \in Seq(Nat)
  /\ taken \in Seq(Nat) /\ overflowed \in BOOLEAN
  /\ notified \in [Connections -> Nat]
  /\ faulted \in BOOLEAN /\ overtaken \in BOOLEAN
  /\ hasty \in BOOLEAN

swapped == buffer > 1

Handling == {i \in IoThreads : io[i] # Idle}

(* data_ is one array: as long as no connect overtook a completion of an   *)
(* earlier connection, at most one receive is outstanding, completed or    *)
(* being handled, so that nothing overwrites bytes that are still in use.  *)
SingleReceive ==
  overtaken \/ receiving + Len(ready) + Cardinality(Handling) <= 1

Writing == {i \in IoThreads : io[i].at = "writing"}
Unwritten == IF Writing = {} THEN << >> ELSE Bytes(io[CHOOSE i \in Writing : TRUE].size)

(* What the present buffer holds or is about to be given *)
Buffered == content[buffer] \o Unwritten
Ascending(s) == \A j, k \in DOMAIN s : j < k => s[j] < s[k]

(* Under the same condition the slots see every byte once and in order.    *)
(* And unless set_buffer came in between, nothing uses a buffer that is     *)
(* gone, what is read and then buffered are bytes that were to be buffered, *)
(* in order and none twice, what is buffered are the newest of them, and    *)
(* none of them is lost before the buffer, which holds Capacity bytes, is   *)
(* given more than it holds.                                                *)
StreamIntact ==
  overtaken \/
    /\ \A k \in DOMAIN delivered : delivered[k] = k
    /\ swapped \/ /\ ~faulted
                  /\ Range(taken) \subseteq Range(kept) /\ Ascending(taken \o Buffered)
                  /\ Len(Buffered) <= Len(kept) /\ Buffered = Newest(kept, Len(Buffered))
                  /\ overflowed \/ taken \o Buffered = kept

(* The disconnect slots are called at most once for each connection, though *)
(* the io threads test is_connected_ and clear it in two steps, as long as  *)
(* no connect overtook a completion of an earlier connection.  After that   *)
(* the new connection may have two receives, and its end be told twice.     *)
NotifiedOnce == overtaken \/ \A c \in Connections : notified[c] <= 1

(* A client that is connected stops being so only when the application has  *)
(* closed the socket or the peer has gone, unless a completion of an        *)
(* earlier connection was overtaken.                                        *)
OnlyALossCloses ==
  [][is_connected /\ ~is_connected' => conn = 0 \/ gone \/ overtaken]_vars

(* A client whose peer has gone does not stay connected, unless the error   *)
(* was handled before the connect had set is_connected_.                    *)
LossNoticed == is_connected /\ gone ~> ~is_connected \/ ~gone \/ hasty

(* The destructor joins io threads that all come to their end. *)
DestructorReturns == app = "destroying" ~> app = "destroyed"
=============================================================================
