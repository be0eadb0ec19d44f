---------------------------- MODULE ModuleBusProofs ----------------------------
(* The safety of ModuleBus for any modules and any number of messages.     *)
EXTENDS ModuleBus, TLAPS

Early == {"unsent", "sent", "inserting", "copying", "received", "dispatched"}
Filing == {"READ_FILE", "WRITE_FILE", "reading", "writing"}

(* What is known of a message by the place of its thread.                  *)
Placed(s) ==
  /\ s > sent => pc[s] = "unsent"
  /\ pc[s] = "unsent" => s \notin disturbed
  /\ pc[s] \in Early \cup Filing => s \notin unopened
  /\ pc[s] \in Early => handled[s] = 0
  /\ pc[s] \in Filing => handled[s] = 1 /\ msg[s].to = DataAccess
  /\ pc[s] = "received" => msg[s].to # DataAccess
  /\ pc[s] = "dispatched" => msg[s].to = DataAccess
  /\ pc[s] \in {"READ_FILE", "reading"} => msg[s].type = "READ_FILE"
  /\ pc[s] \in {"WRITE_FILE", "writing"} => msg[s].type = "WRITE_FILE"
  /\ pc[s] = "done" =>
       handled[s] = IF msg[s].to # DataAccess \/ IsForFiles(msg[s].type) THEN 1 ELSE 0

AllPlaced == \A s \in Sends : Placed(s)

(* With care, modules come and go while no thread runs, and every running  *)
(* message can be taken, so that no lookup inserts.                        *)
Careful ==
  careless \/
    /\ Defined
    /\ app \in {"adding", "removing"} => Running = {}
    /\ \A s \in Running : CanTake(msg[s]) /\ pc[s] # "inserting"

(* Until two writes overlap, the file is empty while it is written and     *)
(* otherwise what the last write wrote that could open it, and an          *)
(* undisturbed read has nothing of it yet or all.                          *)
Quiet == \A t \in disturbed : msg[t].type # "WRITE_FILE"
Writing == \E t \in Sends : pc[t] = "writing"

Whole(s) == msg[s].content = IF s \in unopened THEN << >> ELSE Lines(atStart[s])

Undisturbed ==
  /\ \A t, u \in Sends : pc[t] = "writing" /\ pc[u] = "writing" => t = u
  /\ file = IF Writing THEN << >> ELSE written
  /\ \A s \in Sends \ disturbed : pc[s] = "reading" =>
       ~Writing /\ atStart[s] = written /\ msg[s].content \in {<< >>, file}
  /\ \A s \in Sends \ disturbed :
       pc[s] = "done" /\ msg[s].to = DataAccess /\ msg[s].type = "READ_FILE" => Whole(s)

IInv == TypeOK /\ AllPlaced /\ Careful /\ (Quiet => Undisturbed)
-----------------------------------------------------------------------------
(* What set_content and Go change.                                         *)
LEMMA ContentSet ==
  ASSUME TypeOK, NEW s \in Sends, NEW c \in Seq(Nat), set_content(s, c)
  PROVE  /\ msg' \in [Sends -> AnyMessage] /\ msg'[s].content = c
         /\ \A t \in Sends : msg'[t].to = msg[t].to /\ msg'[t].type = msg[t].type
         /\ \A t \in Sends : t # s => msg'[t] = msg[t]
<1>1. msg \in [Sends -> AnyMessage]
  BY DEF TypeOK
<1> DEFINE m == [msg[s] EXCEPT !.content = c]
<1>2. msg' = [msg EXCEPT ![s] = m]
  BY DEF set_content
<1>3. m \in AnyMessage /\ m.content = c /\ m.to = msg[s].to /\ m.type = msg[s].type
  BY <1>1 DEF AnyMessage
<1> HIDE DEF m
<1> QED BY <1>1, <1>2, <1>3

LEMMA LinesTyped == ASSUME BusAssumption, NEW c \in Seq(Nat) PROVE Lines(c) \in Seq(Nat)
  BY DEF Lines, BusAssumption

LEMMA Gone ==
  ASSUME TypeOK, NEW s \in Sends, NEW at, Go(s, at)
  PROVE  pc' = [pc EXCEPT ![s] = at] /\ pc'[s] = at /\ \A t \in Sends : t # s => pc'[t] = pc[t]
  BY DEF TypeOK, Go

(* What a step of a message's thread leaves alone.                         *)
LEMMA DeliverKeeps ==
  ASSUME BusAssumption, TypeOK, NEW s \in Sends, Deliver(s)
  PROVE  /\ app' = app /\ sent' = sent /\ careless' = careless
         /\ s \in Running
         /\ \A t \in Sends : t # s => pc'[t] = pc[t]
         /\ \A t \in Sends : msg'[t].to = msg[t].to /\ msg'[t].type = msg[t].type
<1>1. /\ app' = app /\ sent' = sent /\ careless' = careless /\ s \in Running
  BY DEF Deliver, Lookup, CopyAndCall, OtherHandles, message_received,
         OpenToWrite, FailToWrite, FlushAndClose, OpenToRead, FailToRead, ReadSome,
      outcome, Running
<1>2. \A t \in Sends : t # s => pc'[t] = pc[t]
  <2>1. pc' = pc \/ \E at : Go(s, at)
    BY DEF Deliver, Lookup, CopyAndCall, Throw, OtherHandles, message_received, OpenToWrite, FailToWrite, FlushAndClose,
           OpenToRead, FailToRead, ReadSome
  <2> QED BY <2>1, Gone
<1>3. \A t \in Sends : msg'[t].to = msg[t].to /\ msg'[t].type = msg[t].type
  <2>1. msg' = msg \/ \E c \in Seq(Nat) : set_content(s, c)
    <3>1. CASE ReadSome(s)
      <4>1. msg[s].content \in Seq(Nat) /\ file \in Seq(Nat)
        BY DEF AnyMessage, TypeOK
      <4>2. msg[s].content \o SubSeq(file, Len(msg[s].content) + 1, Len(file)) \in Seq(Nat)
        BY <4>1
      <4>3. Lines(msg[s].content) \in Seq(Nat)
        BY <4>1, LinesTyped
      <4> QED BY <3>1, <4>2, <4>3 DEF ReadSome
    <3>2. CASE OpenToRead(s) \/ FailToRead(s)
      <4>1. << >> \in Seq(Nat)
        OBVIOUS
      <4> QED BY <3>2, <4>1 DEF OpenToRead, FailToRead
    <3> QED BY <3>1, <3>2
      DEF Deliver, Lookup, CopyAndCall, OtherHandles, message_received, OpenToWrite, FailToWrite, FlushAndClose, memory
  <2> QED BY <2>1, ContentSet
<1> QED BY <1>1, <1>2, <1>3
-----------------------------------------------------------------------------
(* Every variable keeps its type.                                          *)
LEMMA TypeInductive ==
  ASSUME BusAssumption, TypeOK, AllPlaced, [Next]_vars
  PROVE  TypeOK'
<1> USE BusAssumption DEF TypeOK
<1>u. CASE UNCHANGED vars
  BY <1>u DEF vars, memory, threads, outcome, filing
<1>1. ASSUME NEW d \in Modules, NEW how \in {"adding", "removing"}, Change(d, how) PROVE TypeOK'
  <2>1. module_maps' \in [Modules -> {"absent", "empty", "set"}]
    BY <1>1 DEF Change
  <2>2. raced' \in BOOLEAN /\ careless' \in BOOLEAN
    BY <1>1, Zenon DEF Change
  <2> QED BY <1>1, <2>1, <2>2 DEF Change, filing
<1>2. CASE AppReturns
  BY <1>2 DEF AppReturns, ChangeReturns, SendReturns, DestroyReturns, memory, outcome, filing
<1>3. CASE Destroy
  BY <1>3 DEF Destroy, memory, outcome, filing
<1>4. ASSUME NEW m \in Messages, NEW how \in {"waiting", "idle"}, Send(how, m) PROVE TypeOK'
  <2>1. sent + 1 \in Sends /\ sent' \in 0 .. MaxSends /\ m \in AnyMessage
    BY <1>4 DEF Send, Sends
  <2>2. msg' \in [Sends -> AnyMessage]
    BY <1>4, <2>1 DEF Send
  <2>3. careless' \in BOOLEAN
    BY <1>4, Zenon DEF Send
  <2> QED BY <1>4, <2>1, <2>2, <2>3 DEF Send, Go, filing
<1>5. ASSUME NEW s \in Sends, Deliver(s) PROVE TypeOK'
  <2>1. CASE Lookup(s)
    <3>1. raced' \in BOOLEAN
      <4>1. raced' = (Reading \/ Changing) \/ raced' = Changing
        BY <2>1 DEF Lookup
      <4>2. (Reading \/ Changing) \in BOOLEAN /\ Changing \in BOOLEAN
        BY Zenon DEF Reading, Changing
      <4> QED BY <4>1, <4>2
    <3>2. module_maps' \in [Modules -> {"absent", "empty", "set"}]
      BY <2>1 DEF Lookup
    <3> QED BY <2>1, <3>1, <3>2 DEF Lookup, Go, filing
  <2>2. CASE CopyAndCall(s)
    <3>1. terminated' \in BOOLEAN
      <4>1. terminated' = terminated \/ terminated' = (~(app = "waiting" /\ s = sent))
        BY <2>2 DEF CopyAndCall, Throw
      <4>2. (~(app = "waiting" /\ s = sent)) \in BOOLEAN
        BY Zenon
      <4> QED BY <4>1, <4>2
    <3> QED BY <2>2, <3>1 DEF CopyAndCall, Throw, Go, memory, filing
  <2>3. CASE OtherHandles(s)
    BY <2>3 DEF OtherHandles, Go, memory, outcome, filing, AllPlaced, Placed, Early
  <2>4. CASE message_received(s)
    <3>1. terminated' \in BOOLEAN
      <4>1. terminated' = terminated \/ terminated' = (~(app = "waiting" /\ s = sent))
        BY <2>4 DEF message_received, Throw
      <4>2. (~(app = "waiting" /\ s = sent)) \in BOOLEAN
        BY Zenon
      <4> QED BY <4>1, <4>2
    <3>2. handled' \in [Sends -> 0 .. 1]
      BY <2>4 DEF message_received, AllPlaced, Placed, Early
    <3>3. pc' \in [Sends -> {"unsent", "sent", "inserting", "copying", "received", "dispatched",
                       "READ_FILE", "WRITE_FILE", "reading", "writing", "done", "threw"}]
      BY <2>4 DEF message_received, Throw, Go, FileFunctions
    <3> QED BY <2>4, <3>1, <3>2, <3>3 DEF message_received, memory, filing
  <2>5. CASE OpenToWrite(s)
    BY <2>5 DEF OpenToWrite, Go, Opened, Busy, outcome
  <2>6. CASE FlushAndClose(s)
    <3>1. msg[s].content \in Seq(Nat)
      BY DEF AnyMessage
    <3>2. file' \in Seq(Nat) /\ written' \in Seq(Nat)
      BY <2>6, <3>1 DEF FlushAndClose, Over
    <3> QED BY <2>6, <3>2 DEF FlushAndClose, Go, outcome
  <2>7. CASE OpenToRead(s) \/ FailToRead(s)
    <3>1. msg' \in [Sends -> AnyMessage]
      <4>1. set_content(s, << >>) /\ << >> \in Seq(Nat)
        BY <2>7 DEF OpenToRead, FailToRead
      <4> QED BY <4>1, ContentSet
    <3> QED BY <2>7, <3>1, ZenonT(30) DEF OpenToRead, FailToRead, Go, outcome
  <2>9. CASE FailToWrite(s)
    BY <2>9 DEF FailToWrite, Go, memory, outcome
  <2>8. CASE ReadSome(s)
    <3>1. msg[s].content \in Seq(Nat)
      BY DEF AnyMessage
    <3>2. msg[s].content \o SubSeq(file, Len(msg[s].content) + 1, Len(file)) \in Seq(Nat)
      BY <3>1
    <3>3. Lines(msg[s].content) \in Seq(Nat)
      BY <3>1, LinesTyped
    <3>4. \E c \in Seq(Nat) : set_content(s, c)
      BY <2>8, <3>2, <3>3 DEF ReadSome
    <3>5. msg' \in [Sends -> AnyMessage]
      BY <3>4, ContentSet
    <3> QED BY <2>8, <3>5 DEF ReadSome, Go, outcome, filing
  <2> QED BY <1>5, <2>1, <2>2, <2>3, <2>4, <2>5, <2>6, <2>7, <2>8, <2>9 DEF Deliver
<1> QED
  BY <1>u, <1>1, <1>2, <1>3, <1>4, <1>5
  DEF Next, AppCalls, initialize, add_connection, remove_connection, send_message, send_message_async, Modules
-----------------------------------------------------------------------------
(* A message whose thread has not moved keeps its place.                   *)
LEMMA Unmoved ==
  ASSUME TypeOK, NEW t \in Sends, Placed(t), pc'[t] = pc[t], handled'[t] = handled[t],
         msg'[t].to = msg[t].to, msg'[t].type = msg[t].type, sent' \in {sent, sent + 1},
         t \in disturbed' => t \in disturbed \/ pc[t] # "unsent",
         t \in unopened' => t \in unopened
  PROVE  Placed(t)'
<1>1. t > sent' => t > sent
  BY DEF TypeOK, Sends
<1> QED BY <1>1 DEF Placed

LEMMA PlacedInductive ==
  ASSUME BusAssumption, TypeOK, AllPlaced, [Next]_vars
  PROVE  AllPlaced'
<1>u. CASE UNCHANGED vars
  BY <1>u DEF vars, memory, threads, outcome, filing, AllPlaced, Placed
<1>1. ASSUME NEW d \in Modules, NEW how \in {"adding", "removing"}, Change(d, how) PROVE AllPlaced'
  BY <1>1 DEF Change, filing, AllPlaced, Placed
<1>2. CASE AppReturns \/ Destroy
  BY <1>2
  DEF AppReturns, ChangeReturns, SendReturns, DestroyReturns, Destroy, memory, outcome, filing, AllPlaced, Placed
<1>4. ASSUME NEW m \in Messages, NEW how \in {"waiting", "idle"}, Send(how, m) PROVE AllPlaced'
  <2>s. PICK s \in Sends : s = sent + 1
    BY <1>4, BusAssumption DEF Send, Sends, TypeOK
  <2>1. s > sent /\ s = sent'
    BY <1>4, <2>s DEF Send, TypeOK
  <2>2. /\ pc'[s] = "sent" /\ \A t \in Sends : t # s => pc'[t] = pc[t]
    BY <1>4, <2>s, Gone DEF Send
  <2>3. \A t \in Sends : t # s => msg'[t] = msg[t]
    BY <1>4, <2>s DEF Send, TypeOK
  <2>4. handled' = handled /\ disturbed' = disturbed /\ unopened' = unopened /\ sent' \in {sent, sent + 1}
    BY <1>4 DEF Send, filing
  <2>5. pc[s] = "unsent" /\ handled[s] = 0 /\ s \notin disturbed /\ s \notin unopened
    BY <2>1 DEF AllPlaced, Placed, Early
  <2>6. Placed(s)'
    BY <2>1, <2>2, <2>4, <2>5 DEF Placed, Filing, TypeOK, Sends
  <2>7. ASSUME NEW t \in Sends, t # s PROVE Placed(t)'
    BY <2>2, <2>3, <2>4, <2>7, Unmoved DEF AllPlaced
  <2> QED BY <2>6, <2>7 DEF AllPlaced
<1>5. ASSUME NEW s \in Sends, Deliver(s) PROVE AllPlaced'
  <2>1. sent' = sent
    BY <1>5, DeliverKeeps
  <2>2. \A t \in Sends : t # s => pc'[t] = pc[t]
    BY <1>5, DeliverKeeps
  <2>3. \A t \in Sends : msg'[t].to = msg[t].to /\ msg'[t].type = msg[t].type
    BY <1>5, DeliverKeeps
  <2>4. \A t \in Sends : t # s => handled'[t] = handled[t]
    BY <1>5
    DEF Deliver, Lookup, CopyAndCall, OtherHandles, message_received,
        OpenToWrite, FailToWrite, FlushAndClose, OpenToRead, FailToRead, ReadSome, TypeOK
  <2>5. \A t \in Sends : t # s /\ t \in disturbed' => t \in disturbed \/ pc[t] # "unsent"
    BY <1>5
    DEF Deliver, Lookup, CopyAndCall, OtherHandles, message_received,
        OpenToWrite, FailToWrite, FlushAndClose, OpenToRead, FailToRead, ReadSome, Busy, filing
  <2>9. \A t \in Sends : t # s /\ t \in unopened' => t \in unopened
    BY <1>5
    DEF Deliver, Lookup, CopyAndCall, OtherHandles, message_received, OpenToWrite, FlushAndClose, OpenToRead, ReadSome,
        FailToWrite, FailToRead, filing
  <2>6. Placed(s)
    BY DEF AllPlaced
  <2>o. pc[s] # "unsent" /\ ~(s > sent)
    BY <1>5, <2>6
    DEF Placed, Deliver, Lookup, CopyAndCall, OtherHandles, message_received,
        OpenToWrite, FailToWrite, FlushAndClose, OpenToRead, FailToRead, ReadSome
  <2>7. Placed(s)'
    <3>1. CASE Lookup(s)
      <4>1. pc'[s] \in {"inserting", "copying"} /\ handled' = handled
        BY <3>1, Gone DEF Lookup
      <4> QED BY <3>1, <4>1, <2>1, <2>o, <2>6 DEF Placed, Early, Filing, Lookup, filing
    <3>2. CASE CopyAndCall(s)
      <4>1. \/ pc'[s] = "threw"
            \/ msg[s].to = DataAccess /\ pc'[s] = "dispatched"
            \/ msg[s].to # DataAccess /\ pc'[s] = "received"
        BY <3>2, Gone DEF CopyAndCall, Throw
      <4> QED BY <3>2, <4>1, <2>1, <2>3, <2>o, <2>6 DEF Placed, Early, Filing, CopyAndCall, filing
    <3>3. CASE OtherHandles(s)
      <4>1. pc'[s] = "done" /\ handled'[s] = handled[s] + 1
        BY <3>3, Gone DEF OtherHandles, TypeOK
      <4> QED BY <3>3, <4>1, <2>1, <2>3, <2>o, <2>6 DEF Placed, Early, Filing, OtherHandles, filing
    <3>4. CASE message_received(s)
      <4>1. CASE msg[s].type \in FileFunctions
        <5>1. ~(IsForFiles(msg[s].type) /\ msg[s].type \notin FileFunctions)
          BY <4>1
        <5>2. handled' = [handled EXCEPT ![s] = @ + 1] /\ Go(s, msg[s].type)
          BY <3>4, <4>1, <5>1 DEF message_received
        <5>3. pc'[s] = msg[s].type /\ handled'[s] = handled[s] + 1
          BY <5>2, Gone DEF TypeOK
        <5> QED BY <3>4, <4>1, <5>3, <2>1, <2>3, <2>o, <2>6
          DEF Placed, Early, Filing, message_received, FileFunctions, filing
      <4>2. CASE IsForFiles(msg[s].type) /\ msg[s].type \notin FileFunctions
        <5>1. Go(s, "threw")
          BY <3>4, <4>2 DEF message_received, Throw
        <5> QED BY <5>1, Gone, <2>1, <2>o, <2>6 DEF Placed, Early, Filing
      <4>3. CASE ~IsForFiles(msg[s].type)
        <5>1. msg[s].type \notin FileFunctions
          BY <4>3 DEF IsForFiles, FileFunctions
        <5>2. Go(s, "done") /\ handled' = handled
          BY <3>4, <4>3, <5>1 DEF message_received
        <5>3. pc'[s] = "done"
          BY <5>2, Gone
        <5>4. ~IsForFiles(msg'[s].type)
          BY <4>3, <2>3 DEF IsForFiles
        <5> QED BY <3>4, <5>2, <5>3, <5>4, <2>1, <2>3, <2>o, <2>6
          DEF Placed, Early, Filing, message_received, filing
      <4> QED BY <4>1, <4>2, <4>3
    <3>5. CASE OpenToWrite(s)
      <4>1. pc'[s] = "writing" /\ handled' = handled
        BY <3>5, Gone DEF OpenToWrite
      <4> QED BY <3>5, <4>1, <2>1, <2>3, <2>o, <2>6 DEF Placed, Early, Filing, OpenToWrite
    <3>6. CASE FlushAndClose(s)
      <4>1. pc'[s] = "done" /\ handled' = handled
        BY <3>6, Gone DEF FlushAndClose
      <4> QED BY <3>6, <4>1, <2>1, <2>3, <2>o, <2>6 DEF Placed, Early, Filing, FlushAndClose, IsForFiles
    <3>7. CASE OpenToRead(s)
      <4>1. pc'[s] = "reading" /\ handled' = handled
        BY <3>7, Gone DEF OpenToRead
      <4> QED BY <3>7, <4>1, <2>1, <2>3, <2>o, <2>6 DEF Placed, Early, Filing, OpenToRead
    <3>8. CASE ReadSome(s)
      <4>1. (pc'[s] = "done" \/ pc'[s] = pc[s]) /\ handled' = handled
        BY <3>8, Gone DEF ReadSome
      <4> QED BY <3>8, <4>1, <2>1, <2>3, <2>o, <2>6 DEF Placed, Early, Filing, ReadSome, IsForFiles, filing
    <3>9. CASE FailToWrite(s) \/ FailToRead(s)
      <4>1. pc'[s] = "done" /\ handled' = handled
        BY <3>9, Gone DEF FailToWrite, FailToRead
      <4> QED BY <3>9, <4>1, <2>1, <2>3, <2>o, <2>6
        DEF Placed, Early, Filing, FailToWrite, FailToRead, IsForFiles
    <3> QED BY <1>5, <3>1, <3>2, <3>3, <3>4, <3>5, <3>6, <3>7, <3>8, <3>9 DEF Deliver
  <2>8. ASSUME NEW t \in Sends, t # s PROVE Placed(t)'
    BY <2>1, <2>2, <2>3, <2>4, <2>5, <2>8, <2>9, Unmoved DEF AllPlaced
  <2> QED BY <2>7, <2>8 DEF AllPlaced
<1> QED
  BY <1>u, <1>1, <1>2, <1>4, <1>5
  DEF Next, AppCalls, initialize, add_connection, remove_connection, send_message, send_message_async, Modules
-----------------------------------------------------------------------------
(* What care promises stays true.                                         *)
LEMMA CarefulInductive ==
  ASSUME BusAssumption, TypeOK, AllPlaced, Careful, [Next]_vars
  PROVE  Careful'
<1>u. CASE UNCHANGED vars
  BY <1>u DEF vars, memory, threads, outcome, filing, Careful, Defined, Running, CanTake
<1>1. ASSUME NEW d \in Modules, NEW how \in {"adding", "removing"}, Change(d, how) PROVE Careful'
  <2> SUFFICES ASSUME ~careless' PROVE Careful'
    BY DEF Careful
  <2>1. ~careless /\ Running = {} /\ app = "idle"
    BY <1>1, Zenon DEF Change
  <2>2. Running' = {}
    BY <1>1, <2>1 DEF Change, Running
  <2>3. ~Reading /\ ~Changing
    BY <2>1 DEF Reading, Changing, Running
  <2>4. Defined'
    BY <1>1, <2>1, <2>3 DEF Change, Defined, Careful
  <2> QED BY <2>2, <2>4 DEF Careful
<1>2. CASE AppReturns \/ Destroy
  <2>1. UNCHANGED <<memory, outcome, pc>> /\ app' \notin {"adding", "removing"}
    BY <1>2 DEF AppReturns, ChangeReturns, SendReturns, DestroyReturns, Destroy
  <2> QED BY <2>1 DEF Careful, Defined, Running, CanTake, memory, outcome
<1>4. ASSUME NEW m \in Messages, NEW how \in {"waiting", "idle"}, Send(how, m) PROVE Careful'
  <2> SUFFICES ASSUME ~careless' PROVE Careful'
    BY DEF Careful
  <2>1. ~careless /\ CanTake(m)
    BY <1>4, Zenon DEF Send
  <2>s. PICK s \in Sends : s = sent + 1
    BY <1>4, BusAssumption DEF Send, Sends, TypeOK
  <2>2. /\ pc'[s] = "sent" /\ \A t \in Sends : t # s => pc'[t] = pc[t]
    BY <1>4, <2>s, Gone DEF Send
  <2>3. msg'[s] = m /\ \A t \in Sends : t # s => msg'[t] = msg[t]
    BY <1>4, <2>s DEF Send, TypeOK
  <2>4. Defined' /\ module_maps' = module_maps /\ app' \notin {"adding", "removing"}
    BY <1>4, <2>1 DEF Send, Careful, Defined
  <2>5. ASSUME NEW t \in Running' PROVE CanTake(msg[t])' /\ pc'[t] # "inserting"
    <3>1. CASE t = s
      BY <3>1, <2>1, <2>2, <2>3, <2>4 DEF CanTake
    <3>2. CASE t # s
      BY <3>2, <2>1, <2>2, <2>3, <2>4, <2>5 DEF CanTake, Careful, Running
    <3> QED BY <3>1, <3>2
  <2> QED BY <2>4, <2>5 DEF Careful
<1>5. ASSUME NEW s \in Sends, Deliver(s) PROVE Careful'
  <2>1. /\ app' = app /\ sent' = sent /\ careless' = careless /\ s \in Running
        /\ \A t \in Sends : t # s => pc'[t] = pc[t]
        /\ \A t \in Sends : msg'[t].to = msg[t].to /\ msg'[t].type = msg[t].type
    BY <1>5, DeliverKeeps
  <2> SUFFICES ASSUME ~careless PROVE Careful'
    BY <2>1 DEF Careful
  <2>2. /\ Defined /\ app \notin {"adding", "removing"}
        /\ \A t \in Running : CanTake(msg[t]) /\ pc[t] # "inserting"
    BY <2>1 DEF Careful
  <2>3. module_maps[msg[s].to] = "set" /\ ~Changing
    <3>1. \A t \in Sends : pc[t] # "inserting"
      BY <2>2 DEF Running
    <3> QED BY <2>1, <2>2, <3>1 DEF CanTake, Changing
  <2>4. module_maps' = module_maps /\ pc'[s] # "inserting" /\ raced' = raced /\ terminated' = terminated
    <3>1. CASE Lookup(s)
      <4>1. Go(s, "copying") /\ raced' = Changing /\ UNCHANGED <<module_maps, terminated>>
        BY <3>1, <2>3 DEF Lookup, Inserts
      <4>2. raced = FALSE
        BY <2>2 DEF Defined, TypeOK
      <4>3. Changing = FALSE
        BY <2>3, Zenon DEF Changing
      <4>4. pc'[s] # "inserting"
        BY <4>1, Gone
      <4> QED BY <4>1, <4>2, <4>3, <4>4
    <3>2. CASE CopyAndCall(s)
      <4>1. UNCHANGED <<module_maps, raced, terminated>> /\ \E at \in {"dispatched", "received"} : Go(s, at)
        BY <3>2, <2>3 DEF CopyAndCall, memory
      <4> QED BY <4>1, Gone
    <3>3. CASE message_received(s)
      <4>1. msg[s].to = DataAccess
        BY <3>3 DEF message_received, AllPlaced, Placed
      <4>2. ~(IsForFiles(msg[s].type) /\ msg[s].type \notin FileFunctions)
        BY <4>1, <2>1, <2>2 DEF CanTake
      <4>3. CASE msg[s].type \in FileFunctions
        <5>1. Go(s, msg[s].type) /\ UNCHANGED <<module_maps, raced, terminated>>
          BY <3>3, <4>2, <4>3 DEF message_received, memory
        <5> QED BY <5>1, <4>3, Gone DEF FileFunctions
      <4>4. CASE msg[s].type \notin FileFunctions
        <5>1. Go(s, "done") /\ UNCHANGED <<module_maps, raced, terminated>>
          BY <3>3, <4>2, <4>4 DEF message_received, memory
        <5> QED BY <5>1, Gone
      <4> QED BY <4>3, <4>4
    <3>4. CASE OtherHandles(s) \/ OpenToWrite(s) \/ FailToWrite(s) \/ FlushAndClose(s)
               \/ OpenToRead(s) \/ FailToRead(s) \/ ReadSome(s)
      <4>1. UNCHANGED <<module_maps, raced, terminated>> /\ (pc' = pc \/ \E at : at # "inserting" /\ Go(s, at))
        BY <3>4 DEF OtherHandles,
                    OpenToWrite, FailToWrite, FlushAndClose, OpenToRead, FailToRead, ReadSome, memory, outcome
      <4> QED BY <4>1, <2>1, <2>2, Gone
    <3> QED BY <1>5, <3>1, <3>2, <3>3, <3>4 DEF Deliver
  <2>5. Defined'
    BY <2>2, <2>4 DEF Defined
  <2>6. \A t \in Running' : CanTake(msg[t])' /\ pc'[t] # "inserting"
    <3>1. ASSUME NEW t \in Running' PROVE t \in Running
      BY <2>1, <3>1 DEF Running
    <3> QED BY <3>1, <2>1, <2>2, <2>4 DEF CanTake, Running
  <2> QED BY <2>1, <2>2, <2>5, <2>6 DEF Careful
<1> QED
  BY <1>u, <1>1, <1>2, <1>4, <1>5
  DEF Next, AppCalls, initialize, add_connection, remove_connection, send_message, send_message_async, Modules
-----------------------------------------------------------------------------
(* disturbed only grows, and a message in it keeps its type.               *)
LEMMA QuietBefore ==
  ASSUME BusAssumption, TypeOK, AllPlaced, [Next]_vars, Quiet'
  PROVE  Quiet
<1>1. disturbed \subseteq disturbed'
  BY DEF Next, AppCalls, initialize, add_connection, remove_connection, Change, send_message, send_message_async,
     Send, Destroy, AppReturns, ChangeReturns, SendReturns, DestroyReturns, Deliver, Lookup, CopyAndCall,
     OtherHandles, message_received,
     OpenToWrite, FailToWrite, FlushAndClose, OpenToRead, FailToRead, ReadSome, filing, vars
<1>2. ASSUME NEW t \in disturbed PROVE msg'[t].type = msg[t].type
  <2>1. t \in Sends /\ pc[t] # "unsent"
    BY DEF TypeOK, AllPlaced, Placed
  <2>2. ASSUME NEW s \in Sends, Deliver(s) PROVE msg'[t].type = msg[t].type
    BY <2>1, <2>2, DeliverKeeps
  <2>3. ASSUME NEW how, NEW m \in Messages, Send(how, m) PROVE msg'[t].type = msg[t].type
    <3>1. t # sent + 1
      BY <2>1 DEF AllPlaced, Placed, TypeOK, Sends
    <3> QED BY <2>1, <2>3, <3>1 DEF Send, TypeOK
  <2>4. CASE msg' = msg
    BY <2>4
  <2> QED BY <2>2, <2>3, <2>4
    DEF Next, AppCalls, initialize, add_connection, remove_connection, Change, send_message, send_message_async,
        Destroy, AppReturns, ChangeReturns, SendReturns, DestroyReturns, memory, vars
<1> QED BY <1>1, <1>2 DEF Quiet

(* A step of a thread that neither reads nor writes, and one of the        *)
(* application, leaves the file and who uses it alone.                     *)
LEMMA Unconcerned ==
  ASSUME TypeOK, AllPlaced, Undisturbed, UNCHANGED <<file, written, atStart, disturbed>>,
         \A s \in Sends :
           \/ pc'[s] = pc[s] /\ msg'[s] = msg[s] /\ (s \in unopened' <=> s \in unopened)
           \/ /\ pc'[s] \notin {"writing", "reading"} /\ pc[s] \notin {"writing", "reading"}
              /\ pc'[s] = "done" => \/ msg'[s].to # DataAccess \/ msg'[s].type # "READ_FILE"
                                    \/ s \in unopened' /\ msg'[s].content = << >>
  PROVE  Undisturbed'
<1>1. \A s \in Sends : pc'[s] = "writing" <=> pc[s] = "writing"
  OBVIOUS
<1>2. Writing' <=> Writing
  BY <1>1 DEF Writing
<1>3. file' = IF Writing' THEN << >> ELSE written'
  BY <1>2 DEF Undisturbed
<1>4. \A s \in Sends \ disturbed' : pc'[s] = "reading" =>
         ~Writing' /\ atStart'[s] = written' /\ msg'[s].content \in {<< >>, file'}
  BY <1>2 DEF Undisturbed
<1>5. \A s \in Sends \ disturbed' :
       pc'[s] = "done" /\ msg'[s].to = DataAccess /\ msg'[s].type = "READ_FILE" => Whole(s)'
  BY DEF Undisturbed, Whole, Lines
<1>6. \A t, u \in Sends : pc'[t] = "writing" /\ pc'[u] = "writing" => t = u
  BY <1>1 DEF Undisturbed
<1> QED BY <1>3, <1>4, <1>5, <1>6 DEF Undisturbed

LEMMA UndisturbedInductive ==
  ASSUME BusAssumption, TypeOK, AllPlaced, Quiet => Undisturbed, [Next]_vars
  PROVE  Quiet' => Undisturbed'
<1> SUFFICES ASSUME Quiet' PROVE Undisturbed'
  OBVIOUS
<1>q. Undisturbed
  BY QuietBefore
<1>u. CASE UNCHANGED vars
  BY <1>u, <1>q, Unconcerned DEF vars, memory, threads, filing
<1>1. ASSUME NEW d \in Modules, NEW how \in {"adding", "removing"}, Change(d, how) PROVE Undisturbed'
  BY <1>1, <1>q, Unconcerned DEF Change, filing
<1>2. CASE AppReturns \/ Destroy
  <2>1. UNCHANGED <<memory, pc, filing>>
    BY <1>2 DEF AppReturns, ChangeReturns, SendReturns, DestroyReturns, Destroy
  <2> QED BY <2>1, <1>q, Unconcerned DEF memory, filing
<1>4. ASSUME NEW m \in Messages, NEW how \in {"waiting", "idle"}, Send(how, m) PROVE Undisturbed'
  <2>s. PICK s \in Sends : s = sent + 1
    BY <1>4, BusAssumption DEF Send, Sends, TypeOK
  <2>1. pc[s] = "unsent"
    BY <2>s DEF AllPlaced, Placed, TypeOK
  <2>2. /\ pc'[s] = "sent" /\ \A t \in Sends : t # s => pc'[t] = pc[t]
    BY <1>4, <2>s, Gone DEF Send
  <2>3. \A t \in Sends : t # s => msg'[t] = msg[t]
    BY <1>4, <2>s DEF Send, TypeOK
  <2>4. UNCHANGED <<file, filing>>
    BY <1>4 DEF Send
  <2> QED BY <2>1, <2>2, <2>3, <2>4, <1>q, Unconcerned DEF filing
<1>5. ASSUME NEW s \in Sends, Deliver(s) PROVE Undisturbed'
  <2>1. \A t \in Sends : t # s => pc'[t] = pc[t]
    BY <1>5, DeliverKeeps
  <2>p. Placed(s)
    BY DEF AllPlaced
  <2>2. CASE Lookup(s) \/ CopyAndCall(s) \/ OtherHandles(s) \/ message_received(s)
    <3>1. UNCHANGED <<file, msg, filing>> /\ pc[s] \notin {"writing", "reading"}
      BY <2>2 DEF Lookup, CopyAndCall, OtherHandles, message_received, memory
    <3>2. \E at : /\ Go(s, at) /\ at \notin {"writing", "reading"}
                  /\ at = "done" => msg[s].to # DataAccess \/ msg[s].type # "READ_FILE"
      <4>1. CASE Lookup(s)
        BY <4>1 DEF Lookup
      <4>2. CASE CopyAndCall(s)
        BY <4>2 DEF CopyAndCall, Throw
      <4>3. CASE OtherHandles(s)
        BY <4>3, <2>p DEF OtherHandles, Placed
      <4>4. CASE message_received(s)
        <5>1. CASE msg[s].type \in FileFunctions
          <6>1. Go(s, msg[s].type)
            BY <4>4, <5>1 DEF message_received
          <6> QED BY <6>1, <5>1 DEF FileFunctions
        <5>2. CASE msg[s].type \notin FileFunctions
          <6>1. Go(s, "done") \/ Go(s, "threw")
            BY <4>4, <5>2 DEF message_received, Throw
          <6> QED BY <6>1, <5>2 DEF FileFunctions
        <5> QED BY <5>1, <5>2
      <4> QED BY <2>2, <4>1, <4>2, <4>3, <4>4
    <3>3. /\ pc'[s] \notin {"writing", "reading"}
          /\ pc'[s] = "done" => msg'[s].to # DataAccess \/ msg'[s].type # "READ_FILE"
      BY <3>1, <3>2, Gone
    <3> QED BY <3>1, <3>3, <2>1, <1>q, Unconcerned DEF filing
  <2>7. CASE FailToWrite(s) \/ FailToRead(s)
    <3>1. /\ UNCHANGED <<file, written, atStart, disturbed>> /\ pc[s] \in {"WRITE_FILE", "READ_FILE"}
          /\ unopened' = unopened \cup {s}
      BY <2>7 DEF FailToWrite, FailToRead, memory
    <3>2. pc'[s] = "done"
      BY <2>7, Gone DEF FailToWrite, FailToRead
    <3>3. \A t \in Sends : t # s => msg'[t] = msg[t]
      <4>1. msg' = msg \/ (set_content(s, << >>) /\ << >> \in Seq(Nat))
        BY <2>7 DEF FailToWrite, FailToRead, memory
      <4> QED BY <4>1, ContentSet
    <3>4. msg'[s].type # "READ_FILE" \/ msg'[s].content = << >>
      <4>1. CASE FailToWrite(s)
        BY <4>1, <2>p DEF FailToWrite, memory, Placed
      <4>2. CASE FailToRead(s)
        <5>1. set_content(s, << >>) /\ << >> \in Seq(Nat)
          BY <4>2 DEF FailToRead
        <5> QED BY <5>1, ContentSet
      <4> QED BY <2>7, <4>1, <4>2
    <3> QED BY <3>1, <3>2, <3>3, <3>4, <2>1, <1>q, Unconcerned
  <2>3. CASE OpenToWrite(s)
    <3>1. pc'[s] = "writing" /\ pc[s] = "WRITE_FILE" /\ msg[s].type = "WRITE_FILE"
      BY <2>3, <2>p, Gone DEF OpenToWrite, Placed
    <3>2. \A t \in Sends : pc[t] # "writing"
      <4>1. (\E t \in Sends : pc[t] = "writing") => s \in disturbed' /\ msg' = msg
        BY <2>3 DEF OpenToWrite
      <4> QED BY <4>1, <3>1 DEF Quiet
    <3>3. file' = << >> /\ UNCHANGED <<msg, atStart, unopened>>
      BY <2>3 DEF OpenToWrite, Opened
    <3>4. \A t \in Sends : pc[t] = "reading" => t \in disturbed'
      BY <2>3 DEF OpenToWrite, Busy
    <3>5. disturbed \subseteq disturbed'
      BY <2>3 DEF OpenToWrite
    <3>6. Writing'
      BY <3>1 DEF Writing
    <3>7. \A t, u \in Sends : pc'[t] = "writing" /\ pc'[u] = "writing" => t = u
      BY <2>1, <3>2
    <3>8. \A t \in Sends \ disturbed' : pc'[t] # "reading"
      BY <3>1, <3>4, <2>1
    <3>9. \A t \in Sends \ disturbed' :
            pc'[t] = "done" /\ msg'[t].to = DataAccess /\ msg'[t].type = "READ_FILE" => Whole(t)'
      BY <3>1, <3>3, <3>5, <2>1, <1>q DEF Undisturbed, Whole, Lines
    <3> QED BY <3>3, <3>6, <3>7, <3>8, <3>9 DEF Undisturbed, Lines
  <2>4. CASE FlushAndClose(s)
    <3>1. pc'[s] = "done" /\ pc[s] = "writing" /\ msg[s].type = "WRITE_FILE"
      BY <2>4, <2>p, Gone DEF FlushAndClose, Placed
    <3>2. Writing /\ file = << >>
      BY <3>1, <1>q DEF Writing, Undisturbed
    <3>3. UNCHANGED <<msg, atStart, disturbed, unopened>> /\ written' = msg[s].content
      BY <2>4 DEF FlushAndClose
    <3>4. file' = written'
      <4>1. msg[s].content \in Seq(Nat)
        BY DEF TypeOK, AnyMessage
      <4>2. Over(msg[s].content, << >>) = msg[s].content
        <5>1. SubSeq(<< >>, Len(msg[s].content) + 1, Len(<< >>)) = << >>
          BY <4>1
        <5>2. msg[s].content \o << >> = msg[s].content
          BY <4>1
        <5> QED BY <5>1, <5>2, Zenon DEF Over
      <4> QED BY <2>4, <3>2, <3>3, <4>2 DEF FlushAndClose
    <3>5. \A t \in Sends : pc'[t] # "writing"
      BY <2>1, <3>1, <1>q DEF Undisturbed
    <3>6. \A t \in Sends \ disturbed' : pc'[t] # "reading"
      BY <2>1, <3>1, <3>2, <3>3, <1>q DEF Undisturbed
    <3>7. \A t \in Sends \ disturbed' :
            pc'[t] = "done" /\ msg'[t].to = DataAccess /\ msg'[t].type = "READ_FILE" => Whole(t)'
      BY <3>1, <3>3, <2>1, <1>q DEF Undisturbed, Whole, Lines
    <3>8. ~Writing'
      BY <3>5 DEF Writing
    <3> QED BY <3>4, <3>5, <3>6, <3>7, <3>8 DEF Undisturbed, Lines
  <2>5. CASE OpenToRead(s)
    <3>1. pc'[s] = "reading" /\ pc[s] = "READ_FILE"
      BY <2>5, Gone DEF OpenToRead
    <3>2. \A t \in Sends : pc'[t] = "writing" <=> pc[t] = "writing"
      BY <2>1, <3>1
    <3>3. Writing' <=> Writing
      BY <3>2 DEF Writing
    <3>4. set_content(s, << >>) /\ << >> \in Seq(Nat)
      BY <2>5 DEF OpenToRead
    <3>5. msg'[s].content = << >> /\ \A t \in Sends : t # s => msg'[t] = msg[t]
      BY <3>4, ContentSet
    <3>6. UNCHANGED <<file, written, unopened>> /\ (Writing => s \in disturbed') /\ disturbed \subseteq disturbed'
      BY <2>5 DEF OpenToRead, Writing
    <3>7. atStart'[s] = written /\ \A t \in Sends : t # s => atStart'[t] = atStart[t]
      BY <2>5 DEF OpenToRead, TypeOK
    <3>8. \A t \in Sends \ disturbed' : pc'[t] = "reading" =>
            ~Writing' /\ atStart'[t] = written' /\ msg'[t].content \in {<< >>, file'}
      BY <3>3, <3>5, <3>6, <3>7, <2>1, <1>q DEF Undisturbed
    <3>9. \A t \in Sends \ disturbed' :
            pc'[t] = "done" /\ msg'[t].to = DataAccess /\ msg'[t].type = "READ_FILE" => Whole(t)'
      BY <3>1, <3>5, <3>6, <3>7, <2>1, <1>q DEF Undisturbed, Whole, Lines
    <3>10. file' = IF Writing' THEN << >> ELSE written'
      BY <3>3, <3>6, <1>q DEF Undisturbed
    <3>11. \A t, u \in Sends : pc'[t] = "writing" /\ pc'[u] = "writing" => t = u
      BY <3>2, <1>q DEF Undisturbed
    <3> QED BY <3>8, <3>9, <3>10, <3>11 DEF Undisturbed, Lines
  <2>6. CASE ReadSome(s)
    <3> DEFINE got == msg[s].content
    <3>g. got \in Seq(Nat) /\ file \in Seq(Nat)
      BY DEF TypeOK, AnyMessage
    <3>1. pc[s] = "reading" /\ pc'[s] \in {"reading", "done"} /\ UNCHANGED <<file, filing>>
      BY <2>6, Gone DEF ReadSome
    <3>2. \A t \in Sends : pc'[t] = "writing" <=> pc[t] = "writing"
      BY <2>1, <3>1
    <3>3. Writing' <=> Writing
      BY <3>2 DEF Writing
    <3>4. \A t \in Sends : t # s => msg'[t] = msg[t]
      <4>1. \E c \in Seq(Nat) : set_content(s, c)
        <5>1. got \o SubSeq(file, Len(got) + 1, Len(file)) \in Seq(Nat) /\ Lines(got) \in Seq(Nat)
          BY <3>g, LinesTyped
        <5> QED BY <2>6, <5>1 DEF ReadSome
      <4> QED BY <4>1, ContentSet
    <3>5. ASSUME s \notin disturbed
          PROVE  IF pc'[s] = "reading" THEN msg'[s].content = file ELSE msg'[s].content = Lines(atStart[s])
      <4>1. ~Writing /\ atStart[s] = written /\ got \in {<< >>, file} /\ file = written
        BY <3>1, <3>5, <1>q DEF Undisturbed
      <4>2. CASE Len(file) > Len(got)
        <5>1. got = << >>
          BY <4>1, <4>2, <3>g
        <5>2. got \o SubSeq(file, Len(got) + 1, Len(file)) = file
          BY <5>1, <3>g
        <5>3. set_content(s, file) /\ pc' = pc
          BY <2>6, <4>2, <5>2 DEF ReadSome
        <5> QED BY <5>3, <3>1, <3>g, ContentSet
      <4>3. CASE ~(Len(file) > Len(got))
        <5>1. got = file
          BY <4>1, <4>3, <3>g
        <5>2. set_content(s, Lines(got)) /\ Go(s, "done")
          BY <2>6, <4>3 DEF ReadSome
        <5>3. msg'[s].content = Lines(got) /\ pc'[s] = "done"
          BY <5>2, <3>g, LinesTyped, ContentSet, Gone
        <5> QED BY <4>1, <5>1, <5>3
      <4> QED BY <4>2, <4>3
    <3> HIDE DEF got
    <3>6. UNCHANGED <<disturbed, atStart, written, unopened>> /\ s \notin unopened
      BY <3>1, <2>p DEF filing, Placed, Filing
    <3>7. \A t \in Sends \ disturbed' : pc'[t] = "reading" =>
            ~Writing' /\ atStart'[t] = written' /\ msg'[t].content \in {<< >>, file'}
      BY <3>1, <3>3, <3>4, <3>5, <3>6, <2>1, <1>q DEF Undisturbed
    <3>8. \A t \in Sends \ disturbed' :
            pc'[t] = "done" /\ msg'[t].to = DataAccess /\ msg'[t].type = "READ_FILE" => Whole(t)'
      BY <3>1, <3>4, <3>5, <3>6, <2>1, <1>q DEF Undisturbed, Whole, Lines
    <3>9. file' = IF Writing' THEN << >> ELSE written'
      BY <3>1, <3>3, <3>6, <1>q DEF Undisturbed
    <3>10. \A t, u \in Sends : pc'[t] = "writing" /\ pc'[u] = "writing" => t = u
      BY <3>2, <1>q DEF Undisturbed
    <3> QED BY <3>7, <3>8, <3>9, <3>10 DEF Undisturbed, Lines
  <2> QED BY <1>5, <2>2, <2>3, <2>4, <2>5, <2>6, <2>7 DEF Deliver
<1> QED
  BY <1>u, <1>1, <1>2, <1>4, <1>5
  DEF Next, AppCalls, initialize, add_connection, remove_connection, send_message, send_message_async, Modules
-----------------------------------------------------------------------------
LEMMA Initially == ASSUME BusAssumption, Init PROVE IInv
<1>1. TypeOK
  <2>1. NoMessage \in AnyMessage
    BY DEF NoMessage, AnyMessage, Modules, MessageType
  <2>2. << >> \in Seq(Nat) /\ 0 \in 0 .. MaxSends
    BY BusAssumption
  <2>3. msg \in [Sends -> AnyMessage] /\ file \in Seq(Nat) /\ written \in Seq(Nat)
        /\ atStart \in [Sends -> Seq(Nat)]
    BY <2>1, <2>2 DEF Init
  <2>4. module_maps \in [Modules -> {"absent", "empty", "set"}] /\ handled \in [Sends -> 0 .. 1]
    BY DEF Init
  <2>5. pc \in [Sends -> {"unsent", "sent", "inserting", "copying", "received", "dispatched",
                       "READ_FILE", "WRITE_FILE", "reading", "writing", "done", "threw"}]
    BY DEF Init
  <2>6. /\ app = "idle" /\ sent \in 0 .. MaxSends
        /\ disturbed \subseteq Sends /\ unopened \subseteq Sends
        /\ raced \in BOOLEAN /\ terminated \in BOOLEAN /\ careless \in BOOLEAN
    BY <2>2 DEF Init
  <2> QED BY <2>3, <2>4, <2>5, <2>6 DEF TypeOK
<1>2. AllPlaced
  BY DEF Init, AllPlaced, Placed, Early, Filing
<1>3. Careful
  BY DEF Init, Careful, Defined, Running
<1>4. Undisturbed
  BY DEF Init, Undisturbed, Writing, Lines
<1> QED BY <1>1, <1>2, <1>3, <1>4 DEF IInv

LEMMA Inductive == ASSUME BusAssumption, IInv, [Next]_vars PROVE IInv'
  BY TypeInductive, PlacedInductive, CarefulInductive, UndisturbedInductive DEF IInv

(* The invariant the theorems below follow from.                           *)
THEOREM Invariant == Spec => []IInv
  BY BusAssumption, Initially, Inductive, PTL DEF Spec

(* Every variable keeps its type.                                          *)
THEOREM TypeCorrect == Spec => []TypeOK
<1>1. IInv => TypeOK
  BY DEF IInv
<1> QED BY <1>1, Invariant, PTL

(* While modules come and go only between messages, and every message has  *)
(* somebody to take it, the map is not changed beside another access, no   *)
(* exception ends a thread, and what is done was handled once.             *)
THEOREM CareIsEnough == Spec => []SafeWithCare
<1>1. IInv => SafeWithCare
  BY DEF IInv, SafeWithCare, Careful, AllPlaced, Placed
<1> QED BY <1>1, Invariant, PTL

(* As long as no two writes have overlapped, a read that no write has      *)
(* overlapped gives all of what the last write wrote that could open the   *)
(* file, or nothing if it could not open the file itself.                  *)
THEOREM ReadsAllOfIt == Spec => []ReadsWhole
<1>1. ASSUME IInv PROVE ReadsWhole
  <2> SUFFICES ASSUME NEW s \in Sends,
                      pc[s] = "done", msg[s].to = DataAccess, msg[s].type = "READ_FILE", s \notin disturbed,
                      \A t \in disturbed : msg[t].type # "WRITE_FILE"
               PROVE  Whole(s)
    BY DEF ReadsWhole, Whole
  <2> QED BY <1>1 DEF IInv, Quiet, Undisturbed
<1> QED BY <1>1, Invariant, PTL
=============================================================================
