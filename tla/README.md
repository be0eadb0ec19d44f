# TLA+ models of hp-lib

hp-lib is a C++ library of communication building blocks: byte and message
buffers, TCP client and server, a serial port, a pinger, and a message bus
between application modules. This directory holds TLA+ models of it, the TLC
configurations that check them on small instances, and machine-checked proofs
(TLAPS) of what matters most. Everything is written from the C++ sources; paths
below are relative to the root of the repository. `PROJECT.json` lists the
components, the runs, the lines each definition models, the hazards and the
theorems.

    tlc -workers 2 -config MCCircularBuffer.cfg MCCircularBuffer.tla   # a run
    tlapm CircularBufferProofs.tla                                     # the proofs

## 1. The system

| component | state | operations | works with |
|---|---|---|---|
| `CircularBuffer` (`common/src/circular_buffer.cc`) | byte vector, `head_`, `tail_`, `size_`, mutex, condition variable, `destructor_call_` | `read`, `write`, `read_next_byte`, `get_all_bytes`, `clear_buffer`, `erase_buffer`, `set_new_buffer_size`, `set_size` | filled by the io threads of `TCPClient` and `SerialPort`, emptied by `MessageExtractor` and the application |
| `Buffer<Type>` (`common/include/hp/common/buffer/buffer_template.h`) | ring of message pointers, two atomic indices | `write`, `get_next_packet` | the extraction thread writes, the application takes |
| `Ping` (`peripheral/src/ping.cc`) | sequence number, reply and silence counts, one timer, one io_service | `ping_until_disconnect` and the completion handlers | the network |
| `TCPClient` (`peripheral/src/tcp_client.cc`) | socket, `is_connected_`, buffers, threads, signals, process-wide id counter | `connect`, `disconnect`, the receive handler, `set_buffer`, reads, `send`, `start_find_messages` | writes a `CircularBuffer` from its io thread, calls the application's slots |
| `TCPServer` (`peripheral/src/tcp_server.cc`) | acceptor, map of clients, its mutex | `start`, `stop`, the accept handler, sends, `disconnect` | owns `TCPClient`s, is called back by them |
| `SerialPort` (`peripheral/src/serial_port.cc`) | port, `mutex_`, io_service, threads | `start`, `stop`, the read loop, sends | writes a `CircularBuffer` |
| `MessageExtractor`, packet structures (`peripheral/src/message_extractor.cc`, `abstract_message.h`) | section list | `find_message`, `calc_len` | reads a `CircularBuffer` byte by byte |
| `ModulesCommunicationManager` (`communication/`) | map from module to callback, thread group | add, remove, send, send_async | calls the modules |
| `DataAccessModule`, `FSManager`, `FileManager` (`dataaccess/`) | map from message type to handler | dispatch, read and write of a file | receives from the bus |
| `UDPServer`, the controller, `src/main.cpp` | - | stubs | - |

What makes each correct, and what is hard about it:

- **CircularBuffer** - readers get the bytes in the order they were written, each
  byte once; an overflowing write drops exactly the oldest ones and says so;
  no reader sleeps beside enough bytes; no copy leaves the vector. Hard: copies
  in several pieces, notification against sleep, timeouts, spurious wake-ups, a
  destructor that does not take the mutex, `get_all_bytes` that counts without
  it, and resizing calls that change one half of the geometry.
- **Buffer** - each message taken once and in order, from slots that exist. Hard:
  no lock, and an index that is out of range for an instant.
- **Ping** - a steady chain of requests, and a host given up after exactly N silent
  ones. Hard: one timer for two handlers, cancellation that runs the handler,
  replies that are lost, late or repeated.
- **TCPClient** - a connection state that agrees with the socket's, one receive in
  flight, the bytes of a connection in the buffer in order, a loss told once, a
  destructor that ends. Hard: a buffer of 1023 bytes whose overflow nobody looks at, completions of an earlier connection, flags tested
  and set in two steps by several io threads, a buffer swapped under them.
- **TCPServer** - a server that keeps accepting, a map that holds the connected
  clients, lookups that stay valid. Hard: a chain of accepts that only the
  handler's last call continues, restart, a mutex that an exception leaves locked.
- **MessageExtractor** - all sections registered, a length field read for its value.
  Hard: sign extension, byte order, fields of odd lengths.
- **The bus and data access** - a message reaches the module that registered, once; a
  read gives what was written. Hard: a map changed under a shared lock,
  callbacks that are not there, a file that is emptied before it is written, or
  cannot be opened at all.

The hazards, each at its line, are in `PROJECT.json`.

## 2. Modules

| module | what it is |
|---|---|
| `ByteStream` | abstract specification: a bounded FIFO of bytes that keeps the newest |
| `CircularBuffer` | the monitor: `read`, `write`, `read_next_byte`, `clear_buffer`, constructor, destructor; refines `ByteStream` |
| `CircularBufferFull` | extends `CircularBuffer` with `get_all_bytes`, `erase_buffer`, `set_new_buffer_size`, `set_size` |
| `MessageRing` | `Buffer<Type>` |
| `TcpClient` | a `TCPClient` with its application's threads, its io threads and its peer |
| `TcpServer` | a `TCPServer` with its workers, its clients and their peers |
| `MessageExtractor` | a packet structure, the extractors made for it, and `calc_len` |
| `ModuleBus` | the communication manager composed with data access and its file |
| `IcmpPacket` | the bytes of the ICMP and IPv4 headers that `Ping` uses, and the checksum |
| `Ping` | one call of `ping_until_disconnect`; extends `IcmpPacket` |
| `...Proofs` | the theorems about the module whose name it begins with |
| `MC...` | instances for TLC, with one `.cfg` per run |

In each module a definition named `X_Y` is the definition `X` with a slip `Y`
(a forgotten wrap, an index off by one). No specification uses it: it is there
to be put in the place of `X`, to see that the property meant to notice does.

### CircularBuffer

A byte is represented by its position in the stream of all bytes ever written, so
a byte that is stale, lost or repeated differs from the right one. `head`,
`tail`, `size` and `buf` are the members; `lock` is the mutex; `pc`
says where each thread is in its call; `rem` is the holder's local `len_data`.
`room` is what `remain_bytes()` returned on entry, from which the local
`overflow` follows. Subtractions are taken modulo `Word`, as on `uint32_t`.

| code | actions |
|---|---|
| `write`, lock and overflow test | `WriteEnter` |
| `write`, one turn of the copy loop | `WriteChunk`: `CopyIn`, or `Fault` if it leaves the vector |
| `write`, tail, notification, return | `WriteExit` |
| `read`, `read_next_byte`, up to the lock | `ReadCall` |
| lock, wait predicate, test of `count()` | `ReadTest` |
| the condition variable | `Sleep`, `Expire`, `SpuriousWake` |
| `read`, one turn of the copy loop; return | `ReadChunk` (`CopyOut` or `Fault`); `ReadExit` |
| `clear_buffer`; the destructor | `clear_buffer`; `Destroy` |

`Sleep` is a step apart from `ReadTest`: the mutex is held between, which stops
writers but not the destructor. That is how the model loses the wake-up of
line 24. After the destructor has begun no call starts; the calls under way are
followed to their end. What happens when the members themselves are destroyed
under a caller is not modelled. Only the flag's transition is kept of the
data race on `destructor_call_`: a `bool` that is stored once.

### CircularBufferFull

`get_all_bytes` calls `count()` without the mutex. `remain_bytes()` loads each
index twice, for the comparison and for the subtraction, in an order C++ leaves
open; each load is a step (`BulkLoad`), and `BulkRead` computes the count from
what was loaded: as a 32-bit number and then as an `int`, which may be negative, and
then `resize` throws. `size_` is taken once, when the count is computed. `raced`
is a history variable. The resizing calls are one action each.

### MessageRing

Every access to an index or a slot is a step: `StoreBegin`, `StoreEnd`, `Publish`,
`WrapWrite` for `write`, and `GetCall`, `Poll`, `Copy`, `Advance`, `WrapRead` for
`get_next_packet`. The slots are not atomic: a copy that meets an assignment of
the same slot yields the old pointer, the new one or `Torn`. `overrun` and
`misled` are history variables that say when one of the two known faults of the
ring came about. There is one writer and one reader.

### TcpClient

A client made from an address. `conn` numbers the connection the socket is on (0:
closed), `receiving` counts the receives outstanding, `ready` holds the
completions the io_context is about to run, and `io` says what each io thread is
doing: every successful `connect` adds one thread that runs the same io_context.
A byte is its place in the order of arrival. `data` is the array `data_`, of
which a receive fills the first `size` bytes. `content` holds the bytes in each
buffer, at most `Capacity` (one less than the 1024 of `initialize`), and `Put` is
`CircularBuffer::write` as `ByteStream` promises it: of what the buffer then has
to hold the newest stay. That it dropped some is what the code does not look at, and
what the history variable `overflowed` remembers. `delivered`, `kept` and `taken`
are the bytes the slots were called with, those of them that were to be
buffered, and those read; `notified` counts, for each connection, the calls of the
disconnect slots while it was the last one made.

| code | actions |
|---|---|
| `connect`: opened; receive started; `is_connected_` set | `Connect`, `ConnectReceives`, `ConnectReturns` |
| `disconnect` | `Disconnect`, `DisconnectReturns` |
| the destructor: close, then join | `Destroy`, `DestroyJoins`, `DestroyReturns` |
| `do_buffer_data`, `set_buffer` | `DoBufferData`, `SetBuffer` |
| the reading calls | `ReadCall` (loads `buffer_`), `ReadReturns` |
| `handle_read_data`, no error | `Take`, `Deliver` (slots, test of `do_buffer_data_`), `Write`, `ReceiveNext` |
| `handle_read_data`, error | `Take`, `Fail` (test of `is_connected_`), `Lose` |
| the network | `Arrive`, `PeerCloses` |

Nothing in the client but the buffer is locked, so another thread can come between any two of
these. Three history variables mark what the code cannot survive, and the
properties claim nothing beyond them: `overtaken`, a connect met a completion of
an earlier connection (after which two receives may be outstanding and the end of the new
connection be told twice); `hasty`, an error was handled before `connect` had set
`is_connected_`; `faulted`, a buffer was used after `set_buffer` let go of
it. The runs reach all three.

### TcpServer

`accepts` counts the accepts outstanding, `receiving` the clients whose receive
is, `ready` the completions; `worker` says what each thread that runs the
io_context does with which peer. `start` makes a worker each time. A
`TCPClient` is here its id, its flag `is_connected`, and whether the server's
slot is registered with it.

| code | actions |
|---|---|
| `start`; `stop`; `accept_connection`; the destructor | `StartAccepts`, `StartReturns`; `stop`; `accept_connection_`; `Destroy`, `DestroyJoins` |
| `handle_accept` | `Handle`, `MakeThrows` or `MakeClient` (the constructor, with `ID_Counter_`), `ListClient` (the map, under the mutex), `Announce` (signals) |
| `handle_connection` | `handle_connection`: the next accept, or the use of an acceptor that `stop` has taken |
| the client's `handle_read_data`, and `disconnect` | `Handle`, `LoseClient`, `disconnect` |
| `send_to_all_clients` | only the send that throws and leaves the mutex locked; otherwise it changes nothing |
| `disconnect_client` | `FindToClose`, `CloseSocket`, `ClearFlag` |
| `run()` returns | `RunReturns` |
| the network | `PeerCalls`, `AcceptCompletes`, `AcceptFails`, `PeerGoes` |

History variables again mark what ends a promise: `broken`, a handler ended the
chain (a failed accept, a client turned away, an exception); `crossed`, a start
met the rest of an earlier chain; `crashed`, `handle_connection` used a null
acceptor, where the model ends. `abandoned` says that an exception left the
mutex locked. `Answered` names each of these as an alternative: what it
shows is that nothing else keeps a caller waiting.

### MessageExtractor

`packet` is the list of sections in the packet structure, to which every
extractor made for it appends the application's again (`Construct`).
`Register` is one turn of `is_packet_sections_correct`: the section is cast to the class
of the type it names, which a section of struct `Other` does not have
(`crashed`). `find_message` and `FindNext` go through the sections; at any
section but a header the code uses `extractor_`, which nobody sets, and the
model ends (`undefined`). `calc_len` is an operator over a length field, with
the sign extension of `char` and `int`; `field` is a variable only so that TLC goes through
the fields of an instance.

### ModuleBus

`module_maps` says of each module whether it is absent, mapped to a function or
to an empty one, as `operator[]` leaves it. Each message has a thread
(`pc`); for `send_message` it is the application's own, which waits.

| code | actions |
|---|---|
| `add_connection`, `remove_connection`, `DataAccessModule::initialize` | `Change`, `ChangeReturns` |
| `send_message`, `send_message_async` | `Send`, `SendReturns` |
| the lookup in the map; the copy and call of the function | `Lookup`; `CopyAndCall` or `Throw` |
| another module's callback | `OtherHandles` |
| `DataAccessModule::message_received`, `FSManager::message_handler` | `message_received` |
| `FileManager::write` | `OpenToWrite` (truncates), `FlushAndClose`; `FailToWrite`: not opened, nothing is written |
| `FileManager::read` | `OpenToRead`, `ReadSome`; `FailToRead`: not opened, the content is empty |
| the destructor | `Destroy`, `DestroyReturns` |

Accesses to the map take time (`copying`, `inserting`, `adding`,
`removing`); two that overlap, one of them a change, are a data race
(`raced`), and an exception that leaves a thread of its own ends the program
(`terminated`): in both the model ends. `careless` records that the application
did what invites them; `disturbed` the reads and writes another write overlapped;
`unopened` those whose file could not be opened, which the code reports to nobody.
A file that is open is read and written without errors.

### Ping and IcmpPacket

`timer` is the handler that waits on the deadline timer, `ready` the handlers the
io_service will run. `expires_at` and `cancel` complete the pending wait, and as
the handlers take no error code, that runs them at once (`Cancelled`). Requests
are the bytes `start_send` builds (`Request`, with `compute_checksum`); what the socket hears
are datagrams as bytes (`Datagram`), which `handle_receive` takes apart
(`IsReply`). The network loses, delays and repeats replies, and brings the
process's own requests, replies to other processes and headers that cannot be
read. Time is counted in seconds since the last request, and stops counting
at two, the longest wait. `send_to` may throw out of `run()`; the state is then
`thrown`. The sequence number is a number of 16 bits; `wrapped` records that it
began anew.

## 3. Runs

| run | checks | shows |
|---|---|---|
| `circular_buffer` | `TypeOK`, `WindowIntact`, `NoLostWakeup`, `NoFault`, `ImplementsStream` | the buffer is the abstract stream, in all interleavings of a writer and two readers with timeouts, spurious wake-ups, `clear_buffer` and the destructor |
| `circular_buffer_live` | `MutexReleased`, `TimedReadReturns` | the mutex is always given back; a read with a timeout returns |
| `circular_buffer_full` | `BulkReadFailsOnlyIfRaced`, `FaultOnlyIfUnsound` | what unlocked counting and resizing can break, and that nothing else breaks it |
| `circular_buffer_resize` | `NoFault`, violated | after `set_new_buffer_size` a copy leaves the vector |
| `message_ring` | `TypeOK`, `InBounds`, `NeverNull`, `InOrderUnlessDisturbed`, `EachIsTaken` | the ring is safe always, and exact until it is overrun or the reader is misled |
| `message_ring_wrap` | `InOrderUnlessOverrun`, violated | the reader is misled without any overrun |
| `ping` | `TypeOK`, `SingleChain`, `CountsTheSilence`, `RequestVerifies`, `SpacedWithoutDuplicates`, `Returns` | one chain of timers, silence counted exactly, requests whose checksum verifies, termination |
| `ping_duplicates` | `RequestsSpaced`, violated | a repeated reply makes the next request leave at once |
| `tcp_client` | `TypeOK`, `SingleReceive`, `StreamIntact`, `NotifiedOnce`, `OnlyALossCloses`, `LossNoticed`, `DestructorReturns` | the client over a reconnect, until a completion of the first connection is overtaken: one receive, every byte once and in order, the newest of them in the buffer and all of them until it overflows, one notification for each connection, and a destructor that ends |
| `tcp_server` | `TypeOK`, `AcceptChain`, `Roster`, `NoStaleLookup`, `Answered`, `LostLeaves` | the chain of accepts, the map of clients, and what can keep a caller waiting |
| `message_extractor` | `TypeOK`, `SectionsRegistered`, `LengthIsValue` | the registration of sections, and exactly which length fields are read for what they say |
| `module_bus` | `TypeOK`, `SafeWithCare`, `ReadsWhole` | what the application has to heed for the unlocked map to be safe, and when a read of the file gives all of what was last written to it |

Bounds, and why they are enough:

- `circular_buffer`: a ring of 4 with writes of 1, 2 and 5 bytes and at most 7 bytes in all: a
  write can fit, wrap, overflow and lap the whole ring; reads of 1 and 3
  bytes wrap and wait. Two readers are needed to have one take what the other was woken
  for. `Word` = 16 leaves no value to be confused with another.
- `circular_buffer_live`: a ring of 3 and 4 bytes keep the liveness graph small; a read of 2
  wraps, is satisfied, starves or expires, and a read of 3 asks for more than the ring can ever hold.
- `circular_buffer_full`: one writer and one reader, since the four loads
  multiply the interleavings; vectors of 0, 3 and 6 and ring sizes of 2 and 6
  fall on both sides of 4. `Word` = 32 keeps a wrapped difference apart
  from a true count, as 2^32 does.
- `message_ring`: 3 slots and 8 messages: both indices wrap twice and the writer can run a lap ahead.
- `ping`: `Counter` = 2, five replies, two copies of each: a host can recover
  between silences and fail again. The identifier is chosen so that the checksum of
  the first request carries once and that of the second twice. `Word` is the
  code's 2^16, which no run reaches; the theorems cover the wrap.
- `tcp_client`: two connects (so two io threads and a connection with a past), one exchange of
  the buffer, and four bytes for a buffer of three: two receives of two bytes, or one that
  is longer than the buffer; the buffer overflows unless something is read in time.
- `tcp_server`: two peers and one restart: one client can be lost while another
  is accepted, and a second chain can meet the first.
- `message_extractor`: bytes of 4 bits; all lists of up to two sections and three longer ones, two
  extractors; fields of 1 to 4 bytes whose digits lie on both sides of the sign bit, and one of 5.
- `module_bus`: `DataAccess` and one other module, three messages: a read between or
  beside two writes, each of which may not be opened, a second message after one that
  inserted an empty function.

Deadlock is not checked: a destroyed buffer, client, server or bus, a
reader that waits for bytes the bound no longer allows, a full quota of
messages, a stopped pinger, and what is undefined in the code are states in which the system
really stops or only the bound or the model stops it.

Fairness. Only liveness properties use it.

- A thread that holds the buffer's mutex runs
  to its release (`WF` of `HolderStep`: the sections contain no wait but the
  condition variable's). A thread that asks for the mutex gets it if it is free
  again and again (`SF` of `ReadTest`), and `wait_for` has an absolute
  deadline, so wake-ups cannot postpone it for ever (`SF` of `Expire`). No write, no
  untimed read, no `clear_buffer` and no destructor is ever assumed to happen.
- In the ring both threads keep running, as the loops of `peripheral/test/ip/packet1.cc` do; a
  new write is not assumed.
- In the pinger the io_service runs what is ready, timers expire and time passes; no reply is assumed.
- In the client a call that was begun goes on (`AppReturns`), and the io threads run what
  is ready; neither a call nor anything from the network is assumed.
- In the server calls and workers go on likewise, and the network hands a caller
  to an accept that waits (`AcceptCompletes`). The mutex needs no strong fairness: it is
  free but for the two steps of `disconnect_client`, or locked for ever (`abandoned`).
- The bus and the extractor have safety properties only.

## 4. What was found

Shown by a run that TLC finds violated:

- `set_new_buffer_size` and `erase_buffer` leave `size_` behind (`circular_buffer.cc:85-95`).
  `FaultOnlyIfUnsound` shows that this, and `set_size`, are the only way a copy
  leaves the vector.
- `write_index_++` shows `size_` to the reader before it is reset (`buffer_template.h:43-45`).
- The guard on the first reply is commented out in `ping.cc:99`, so a second reply
  cuts the pause between requests.

Met while modelling, and to be seen in the exemptions the properties carry:

- The comments of `ping.cc:44` and `:97` speak of five seconds; the code waits two.
- A receive aborted by `disconnect` may be handled after the next `connect`, and
  then marks the new connection as lost (`tcp_client.cc:135`; `overtaken`). Received bytes
  handled that late start a second receive, and the end of the new connection may be told twice.
- The client ignores that its buffer overflowed (`tcp_client.cc:130`; `overflowed`).
- A file that cannot be opened reads like an empty one, and what should have been written is lost without
  a word (`file_manager.cc:33`, `:43`; `unopened`).
- The first `start_find_messages` builds a `MessageExtractor` from a null packet
  structure (`tcp_client.cc:72`). `MessageExtractor::extractor_` is never set.
- A message to a module that has not connected calls an empty function
  (`modules_communication_manager.cc:46`; `careless`).
- `is_crc_exist()` returns `is_cmd_exist_` (`abstract_message.h:274`).
- A second extractor for one packet structure appends all its sections again; a length of one
  byte above 127 and one of three bytes, highest first, are misread, and longer ones than
  four are read as 0 (`Readable` names the others, which are read right).

## 5. Proofs

Everything here is proved for all values of the constants, from the assumptions
named in the module alone, but for `BulkReadsFailOnlyIfRaced`, whose statement
carries a hypothesis of its own. Every property of a passing run that is not a
liveness property is the subject of a theorem.

| module | theorems |
|---|---|
| `CircularBufferProofs` | `TypeCorrect`, `WindowSafe` (`WindowIntact`), `WakeupSafe` (`NoLostWakeup`), `MemorySafe` (`NoFault`), `Implements` (`ImplementsStream`) |
| `CircularBufferFullProofs` | `FaultsOnlyIfUnsound` (`FaultOnlyIfUnsound`), `BulkReadsFailOnlyIfRaced` (`BulkReadFailsOnlyIfRaced`) |
| `MessageRingProofs` | `TypeCorrect`, `AlwaysInBounds` (`InBounds`), `NoNullMessage` (`NeverNull`), `TakenInOrder` (`InOrderUnlessDisturbed`) |
| `TcpClientProofs` | `TypeCorrect`, `OneReceive` (`SingleReceive`), `NotifiesOnce` (`NotifiedOnce`), `ClosedByLoss` (`OnlyALossCloses`), `StreamKept` (`StreamIntact`) |
| `TcpServerProofs` | `TypeCorrect`, `OneChain` (`AcceptChain`), `LookupsFresh` (`NoStaleLookup`), `RosterKept` (`Roster`) |
| `ModuleBusProofs` | `TypeCorrect`, `CareIsEnough` (`SafeWithCare`), `ReadsAllOfIt` (`ReadsWhole`) |
| `PingProofs` | `TypeCorrect`, `OneHandler` (`SingleChain`), `GivenUpInTime` (`CountsTheSilence`), `Spaced` (`SpacedWithoutDuplicates`), `RequestsVerify` (`RequestVerifies`) |
| `MessageExtractorProofs` | `TypeCorrect`, `SectionsComplete` (`SectionsRegistered`), `LengthsRead` (`LengthIsValue`) |

A module has an inductive invariant `IInv`, with a lemma that each action
keeps it, `Invariant == Spec => []IInv`, and the theorems that follow from it; in
`CircularBufferFullProofs` it is the conjunction of `Typed`, `Loaded`, `Small` and `Unraced`.

**CircularBuffer.** `TypeOK` is inductive alone: an index plus a chunk is at most `Size`
(`ChunkFits`, `NextIndex`), so its remainder is an index. The other three are not: that a
write leaves the window intact depends on what the writer knew when it took the
mutex, and that a sleeper's bytes are missing depends on nobody else holding the
mutex when it went to sleep. The inductive invariant adds

- `LockOwner`: the threads inside are exactly the holder of the mutex;
- `WriterInside`: while a write runs, the used part of the ring and the bytes already copied add up
  as the entry found them;
- `ReaderInside`: a reader that copies has at least as many bytes left as it still needs;
- `SleepersWait`: a reader asleep, or about to be, is short of bytes, except while a write that
  will notify it is under way.

The counting lemma `CountIsUsed` removes the modular arithmetic once: `count` is the
distance from tail to head.

**The refinement** maps the stream's `lo` and `hi` to `loBar` and `hiBar`, which hold
still while a write or a read is half done, and `got` to what completed calls
handed out. It needs three more conjuncts (`RInv`): a call has handed out nothing
before it copies, `len` is one of the lengths asked for, and a reader has so
far the bytes from `loBar` on (`ReadSoFar`). That the next memcpy takes the next bytes
(`TakenIsRun`) is where `WindowIntact` is used. `WriteExit` is `Put`, `ReadExit`
is `Get`, a return after a timeout or a destruction is `GiveUp`, `clear_buffer` is
`Discard`, the beginnings of calls are `Call`, and everything else stutters.

**CircularBufferFull.** Nothing of `CircularBuffer`'s invariant survives the resizing calls
but `Typed`: no number is negative and `size_` is not zero. That is enough
for `FaultsOnlyIfUnsound`, as `GeometrySound` is about the state before the step: with the
index inside and `size_` no more than the vector, `ChunkFits` holds again (`PlacesInside`).
For `get_all_bytes` the invariant says, of a call that nothing raced (`Undisturbed`), that what it
has loaded are the present indices, and later that it asks for the present
count; so its test succeeds. That the count it computes is the monitor's
(`SeenCountCurrent`) needs a ring, and ring sizes given to `set_size`, of at most half
a word (`Small`): beyond that a true count is a negative `int`, and `resize` throws
with nobody to blame. The sizes are 32 bits wide, so a buffer of no more than 2 GiB satisfies it.

**MessageRing.** The bounds follow from where each thread may see an index at
`Size` (`IndicesInRange`); that no slot is null from `FirstLap`: before the ring is first
full the reader is behind `write_index`, afterwards all slots are written. That
messages are taken in order needs their places (`InPlace`): the two indices are as far apart as
messages are unread, and the `j`-th unread message is in the `j`-th slot from the
reader's, as long as neither of the ring's two faults has come about.

**TcpClient.** Receives outstanding, completions and busy handlers are counted
together (`Load`). Each connect that has got so far has started one of these
(`Counted`), which bounds `receiving`, so that `TypeOK` needs it. Without an overtaking
connect the load is at most one, and an error that is still about belongs to a
socket that is closed or has lost its peer (`OneAtATime`), from which `OnlyALossCloses`
follows. `NotifiedOnce` needs `Told`: the present connection's one receive is still
about, or has ended with at most one call of the slots, and the connections
before it have ended.
The order of the stream is `Intact`: what is pending, a completed receive or one
being handled, is at the beginning of `data_` and is all that no slot has seen
(`Fresh`), which a second receive would overwrite. `Drawn` says, of the bytes
that were to be buffered, which of them were read, are buffered or about to be, and
that they are all unless a buffer overflowed; the lemmas `DrawnMore`, `DrawnLater`,
`DrawnLost` and `DrawnRead` say what a delivery, a write and a read make of that, once
and about sequences only, and `DrawnIs` what it means for `StreamIntact`.

**TcpServer.** `AcceptChain` is inductive with the types it counts over, once a
worker that no `start` has made is known to be nowhere (`Unmade`); the lemmas about `Ofs`
count completions in a queue. The lookups rest on the mutex: from lookup to last
use it is held and the client is in the map (`Guarded`). `TypeOK` is not inductive:
that `ID_Counter_` stays among the ids needs that a peer's socket is accepted
once (`OnceOnly`: it is in one completion or one worker's hands), so that the
numbers given and the clients that may still be made are together no more than the peers
(`Numbered`). `Roster` rests on the same and on the one worker there is until a
restart: `Register` says that a newcomer is nowhere on the roster, that ids are
distinct, and why a client that is listed but not connected still is.

**ModuleBus.** `Placed` says what the place of a message's thread tells of it.
`Careful` adds that with care nothing is inserted and the map is changed while no
thread runs; `Undisturbed` that, until two writes overlap, the file is empty
while it is written and otherwise what was written last, and that a read has
nothing of it yet or all. A step that fails to open the file leaves all of that as it
is (`Unconcerned`).

**Ping.** `Chain` says that either the timer or the queue holds the one handler;
`Counted` ties `num_replies` to the answered requests while the timeout is
awaited; `Hurried` counts the replies that a handler hurried by them stands for,
from which the spacing follows. That the bytes of a datagram are taken for a
reply exactly if they are one is `ReplyKnown`.
`RequestsVerify` is about the checksum, a sum over the words of a request that is a recursive
function. That such a function exists for every number of bytes, and what
it gives, needs induction, and the library's theorems for that take an operator;
but well-founded induction can be had for sets: `SetInduction` says that a set of
numbers that holds `n` whenever it holds all below `n` holds all, and follows from
`WFMin`. From it come `SumsExist` and `SumsAre`; `WordSumConcat` splits the sum at the
checksum field, and `ComplementIs` does the ones' complement arithmetic. The rest
is that the request last sent is the one of the present number (`Asked`).

**MessageExtractor.** `Registered` says that the packet is the application's list, once
for each extractor, and that what `exists` holds are the sections registered so far.
`LengthsRead` is arithmetic in the symbol `Base`: `Horner` says that one more digit
takes a number below `N` to one below `N * Base`, which bounds two and four
digits (`TwoFits`, `FourFits`), and `ModLifts` that the remainder undoes the sign of the `int`;
`LengthMisread` is the other direction, that a field not `Readable` gives another number unless it says zero.

Only model-checked is liveness (`MutexReleased`, `TimedReadReturns`, `EachIsTaken`, `Returns`,
`LossNoticed`, `DestructorReturns`, `Answered`, `LostLeaves`): fairness is about ENABLED,
which is out of the prover's reach. So are the three properties that are violated.

## 6. Not modelled

- `SerialPort`: `start` sets options on a port that is not open and throws every time
  (`serial_port.cc:116`), so that no read loop, send or wait is reached with an
  open port. A model of them would be of code that cannot run.
- `TCPClient`: sending and the rate printers (counters that only output reads), message extraction
  (see section 4), `set_buffer_size`, which needs a null pointer, `async_connect`, which is empty.
- `TCPServer`: `get_client`, which changes nothing; `send_to_client`'s look-up, which
  takes no mutex; the destructor of a server never started or started twice.
- `MessageExtractor`: what lies behind `extractor_`; `is_crc_ok` and `is_length_include_ok`, which
  nothing calls, and `set_crc_include_sections`, whose flags nothing else reads.
- `FileManager`: errors in reading or writing a file that is open.
- `Ping`: a second call on the same object, several pingers in one process.
- `UDPServer`, the controller, `src/main.cpp`: stubs.
- `Buffer` with two writers: no two extraction threads can start.

## 7. Plan

All modules planned are written, and every safety property of theirs is proved. What is left:

1. What liveness rests on, as safety: that a thread inside the mutex, or a worker in the midst of
   a handler, always has a next step, and that each such step brings a measure down.
2. `send_to_client` and `get_client` against `disconnect`, without the mutex.
