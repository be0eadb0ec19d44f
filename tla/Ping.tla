-------------------------------- MODULE Ping --------------------------------
(***************************************************************************)
(* Ping (peripheral/src/ping.cc): one call of ping_until_disconnect.  One  *)
(* thread runs the io_service; one deadline timer carries either the       *)
(* timeout of the last request or the sending of the next, and the         *)
(* handlers do not look at the error code, so that cancelling the timer    *)
(* runs its handler at once.  Time is counted in seconds since the last    *)
(* request was sent.                                                       *)
(* A definition named X_Y is X with the slip Y, kept beside it to see that *)
(* a property notices; no specification uses it.                           *)
(***************************************************************************)
EXTENDS IcmpPacket, FiniteSets

CONSTANTS
  Counter,       (* ping_until_disconnect's argument                      *)
  Identifier,    (* the process's: get_identifier                         *)
  Shapes,        (* what datagrams the socket hears: version, length of   *)
                 (* the header in words, ICMP type and identifier         *)
  MaxReplies,    (* bound: how many echo replies arrive in a behaviour    *)
  MaxCopies      (* bound: how many of them answer the same request       *)

ASSUME PingAssumption ==
  /\ Counter \in Nat \ {0} /\ Identifier \in Short
  /\ Shapes \subseteq [version : 0 .. 15, words : 0 .. 15, icmp : Byte, id : Short]
  /\ MaxReplies \in Nat /\ MaxCopies \in Nat

VARIABLES
  status,            (* "new", "running", "stopped" or "thrown"           *)
  sequence_number, num_replies, time_out,
  request,           (* the ICMP header of the last request               *)
  elapsed,           (* seconds since time_sent_, counted up to 2         *)
  timer,             (* the handler that waits on the timer, or "none"    *)
  ready,             (* the handlers the io_service is about to run       *)
  arrived,           (* the sequence numbers of the replies that came     *)
  answered,          (* the requests whose reply came before their        *)
                     (* timeout was handled                               *)
  wrapped            (* whether the sequence numbers have begun anew      *)

history == <<arrived, answered, wrapped>>
vars == <<status, sequence_number, num_replies, time_out, request, elapsed, timer, ready, history>>

Timeout == 2         (* seconds(2) in start_send                          *)
Interval == 1        (* seconds(1) in handle_timeout                      *)
Due_AtOnce == [timeout |-> Timeout, send |-> 0]
Due == [timeout |-> Timeout, send |-> Interval]

Init ==
  /\ status = "new"
  /\ sequence_number = 0 /\ num_replies = 0 /\ time_out = 0
  /\ request = << >>
  /\ elapsed = 0
  /\ timer = "none" /\ ready = << >>
  /\ arrived = << >> /\ answered = {} /\ wrapped = FALSE

(* What cancel, and expires_at, make of the handler that was waiting. *)
Cancelled_Dropped(queue) == queue
Cancelled(queue) == IF timer = "none" THEN queue ELSE Append(queue, timer)

(* Sets the timer anew and waits on it with another handler. *)
Arm_NoWait(handler, queue) ==
  /\ ready' = Cancelled(queue)
  /\ timer' = "none"

Arm(handler, queue) ==
  /\ ready' = Cancelled(queue)
  /\ timer' = handler

(* The send succeeds, or it throws out of the io_service. *)
start_send(queue) ==
  /\ sequence_number' = (sequence_number + 1) % Word
  /\ request' = Request(Identifier, sequence_number')
  /\ elapsed' = 0
  /\ \/ /\ status' = "running"
        /\ num_replies' = 0
        /\ Arm("timeout", queue)
     \/ /\ status' = "thrown"
        /\ ready' = queue
        /\ UNCHANGED <<num_replies, timer>>
  /\ wrapped' = (wrapped \/ sequence_number' = 0)
  /\ UNCHANGED <<time_out, arrived, answered>>

ping_until_disconnect == status = "new" /\ start_send(<< >>)

SendNext ==
  /\ status = "running" /\ ready # << >> /\ Head(ready) = "send"
  /\ start_send(Tail(ready))

Misses_KeptWhenAnswered == IF num_replies = 0 THEN time_out + 1 ELSE time_out
Misses == IF num_replies = 0 THEN time_out + 1 ELSE 0

TooMany_Late(n) == n > Counter
TooMany(n) == n = Counter

handle_timeout ==
  /\ status = "running" /\ ready # << >> /\ Head(ready) = "timeout"
  /\ time_out' = Misses
  /\ IF num_replies = 0 /\ TooMany(Misses)
       THEN /\ ready' = Cancelled(Tail(ready))
            /\ timer' = "none"
            /\ status' = "stopped"
       ELSE /\ Arm("send", Tail(ready))
            /\ UNCHANGED status
  /\ UNCHANGED <<sequence_number, num_replies, request, elapsed, history>>

Awaiting == timer = "timeout" \/ \E i \in 1 .. Len(ready) : ready[i] = "timeout"

(* A reply comes from the host that was asked: the socket hears more, also *)
(* the requests of this process and the replies to others.                 *)
IsGenuine(shape) ==
  shape.version = 4 /\ shape.words \in 5 .. 15 /\ shape.icmp = echo_reply /\ shape.id = Identifier

(* A datagram is received, and a new receive is started.  A reply to the   *)
(* last request counts, each time it comes.                                *)
handle_receive(shape, s) ==
  /\ status = "running"
  /\ arrived' = IF IsGenuine(shape) THEN Append(arrived, s) ELSE arrived
  /\ answered' = IF IsGenuine(shape) /\ s = sequence_number /\ Awaiting
                   THEN answered \cup {s} ELSE answered
  /\ IF IsReply(Datagram(shape.version, shape.words, shape.icmp, shape.id, s),
                Identifier, sequence_number)
       THEN /\ num_replies' = num_replies + 1
            /\ ready' = Cancelled(ready)
            /\ timer' = "none"
       ELSE UNCHANGED <<num_replies, ready, timer>>
  /\ UNCHANGED <<status, sequence_number, time_out, request, elapsed, wrapped>>

(* The numbers that requests have had *)
Sent == IF wrapped THEN 0 .. Word - 1 ELSE 1 .. sequence_number

(* The network may lose, delay and repeat replies. *)
Copies(s) == Cardinality({i \in 1 .. Len(arrived) : arrived[i] = s})
Receive ==
  /\ Len(arrived) < MaxReplies
  /\ \E shape \in Shapes, s \in Sent :
       Copies(s) < MaxCopies /\ handle_receive(shape, s)

TimerExpires ==
  /\ status = "running" /\ timer # "none" /\ elapsed >= Due[timer]
  /\ ready' = Append(ready, timer)
  /\ timer' = "none"
  /\ UNCHANGED <<status, sequence_number, num_replies, time_out, request, elapsed, history>>

(* A second passes; after the longest wait the count no longer matters. *)
Tick ==
  /\ status = "running" /\ elapsed < Timeout
  /\ elapsed' = elapsed + 1
  /\ UNCHANGED <<status, sequence_number, num_replies, time_out, request, timer, ready, history>>

Next ==
  ping_until_disconnect \/ SendNext \/ handle_timeout \/ Receive \/ TimerExpires \/ Tick

Spec == Init /\ [][Next]_vars

(* The io_service runs what is ready, timers expire and time passes;       *)
(* nothing obliges the network to answer.                                  *)
FairSpec ==
  /\ Spec
  /\ WF_vars(ping_until_disconnect)
  /\ WF_vars(SendNext \/ handle_timeout)
  /\ WF_vars(TimerExpires)
  /\ WF_vars(Tick)
-----------------------------------------------------------------------------
TypeOK ==
  /\ status \in {"new", "running", "stopped", "thrown"}
  /\ sequence_number \in 0 .. Word - 1 /\ num_replies \in Nat
  /\ time_out \in 0 .. Counter
  /\ request \in Seq(Byte)
  /\ elapsed \in 0 .. Timeout
  /\ timer \in {"none", "timeout", "send"}
  /\ ready \in Seq({"timeout", "send"})
  /\ arrived \in Seq(Nat) /\ answered \subseteq Nat /\ wrapped \in BOOLEAN

SendsAgain == status = "running" /\ sequence_number' # sequence_number

(* Requests are sent no less than one second apart (the comment in         *)
(* handle_timeout).                                                        *)
RequestsSpaced ==
  [][SendsAgain => elapsed >= Interval]_vars

(* They are, while every request is answered at most once. *)
SpacedWithoutDuplicates ==
  [][SendsAgain /\ (\A s \in Sent : Copies(s) <= 1) =>
     elapsed >= Interval]_vars

(* The chain timeout - send - timeout never breaks and never doubles: as   *)
(* long as the pinger runs, exactly one of its two handlers is waiting on  *)
(* the timer or about to run.                                              *)
SingleChain ==
  status = "running" => Len(ready) + (IF timer = "none" THEN 0 ELSE 1) = 1

(* The requests whose timeout has been handled. *)
Settled == IF Awaiting THEN sequence_number - 1 ELSE sequence_number

(* The host is given up only after Counter requests in a row were not      *)
(* answered in time, and then at once: time_out_ counts exactly the        *)
(* unanswered requests since the last answered one.  (Until the numbers    *)
(* begin anew; the property then no longer knows requests by them.)        *)
CountsTheSilence ==
  /\ status \in {"running", "stopped"} /\ ~wrapped =>
       /\ \A s \in Settled - time_out + 1 .. Settled : s \notin answered
       /\ Settled > time_out => Settled - time_out \in answered
  /\ status = "running" => time_out < Counter
  /\ status = "stopped" => time_out = Counter

(* Every request carries a checksum that its receiver finds right, and the *)
(* number and identifier by which its reply is to be known.                *)
RequestVerifies ==
  request # << >> =>
    /\ Verifies(request \o body)
    /\ sequence_number_of(request) = sequence_number /\ identifier(request) = Identifier

(* Once replies stop coming, ping_until_disconnect returns. *)
Returns == <>(status \in {"stopped", "thrown"})
=============================================================================
