# A TLA+ model of spdr

spdr is a small C++ networking library: a `Node` exchanges messages with other
nodes over UDP, numbers its datagrams per peer, acknowledges what it received
in a bit field that rides on every datagram, and retransmits what was not
acknowledged. This directory holds TLA+ modules of that protocol and of the
node around it, the TLC configurations that check them, and proofs for TLAPS.

Source paths below are relative to the repository.

## 1. Inventory

| Component | State | Operations | Talks to |
|---|---|---|---|
| Acknowledgement window (`spdr/Node.cpp` `handle_incoming` 222-240, `handle_acks` 258-291) | `Peer::sequence_number`, `remote_sequence_number`, `ack_field` | duplicate check, recording a number, reading a peer's field | worker |
| Reliable connection (`Node.cpp` `do_send`, `handle_incoming`, `handle_acks`, `keep_alive`, `resend_reliable`) | one `Peer` entry per end, `sent_messages` | send, receive, keep alive, retransmit | socket, handlers |
| Peer table and worker loop (`Node.cpp` 74-88, 115-350, `Node.h` 147-166) | `peers`, `next_peer_id`, `sent_messages`, the worker's position in `step` | `connect`, `send`, `broadcast` (queue a task), `step` and what it calls | application through c9y's task queue; socket; event dispatch |
| Event dispatch (`Node.cpp` 90-113, 208-213, 313-316, `Node.h` 181-192) | callbacks, handler map, `handler_id`, the queue of the handler thread | `on_connect`, `on_disconnect`, `on_message`, `run` | application |
| Lifecycle (`Node.cpp` 50-72, 100-113) | worker thread, stop token, `handler_id` | constructors, destructor, `stop`, `run` | all of the above |
| `UdpSocket` (`spdr/UdpSocket.cpp`) | a file descriptor | `bind`, `send`, `recive` | operating system |
| `pack`/`unpack` (`spdr/pack.h`, `pack.cpp`) | none | conversions between values and bytes | `do_send`, `handle_incoming`, messages |
| Message templates (`Node.h`) | id and tuple of values | `pack`, `unpack` | `send`, `on_message` |
| `IpAddress` | host and port | comparison, resolution | peer table, socket |
| Chat example (`examples/chat`) | `users` of the server, `running` of the client | join, chat, disconnect callbacks | `Node` |

Tests (`spdr-test`) and build files hold no logic of the program; the tests were
read for what they promise.

How they interact. An application thread never touches the table: `connect`,
`send` and `broadcast` put a closure into the worker's queue (`c9y::sync`). The
worker runs `step` for ever: the queued closures (`c9y::sync_point`), then
datagrams until the socket is empty, then keep alives, timeouts and
retransmissions. Connect and message callbacks are queued to the thread that
`handler_id` names at that moment, and each thread runs its queue in order; the
disconnect callback is called by the worker itself, in the middle of `timeout`.
Both sides use the atomic `next_peer_id`, and `handler_id`, which `run` writes
while the worker reads it.

What is hard about it:

- UDP loses, delays, reorders and duplicates; retransmissions race
  acknowledgements, and carry the acknowledgements of their first transmission.
- The window is shifted, bits are set at one offset and read at another, the
  shift distance is not bounded, and sequence numbers wrap.
- `connect` and a first datagram from the same address race for the entry; ids
  are handed out by two threads.
- Entries come and go (timeouts) while tasks, messages and callbacks that name
  them are queued.
- The disconnect callback overtakes queued callbacks of the same peer; `run`
  redirects callbacks to another thread while some are queued for the first.
- Acknowledgements travel only on traffic, so progress depends on keep alives;
  a retransmission counts as traffic but carries an old acknowledgement; `step` leaves the receive loop only when the socket is empty.
- Values travel as the sender's platform lays them out; datagrams are cut to the
  receive buffer; reading past the end is not noticed.
- Sockets get ports by `bind` or by sending first; an exception on the worker
  thread ends the process.

What makes each part correct:

- *Window*: what was rejected once stays rejected; what is rejected, or
  acknowledged, has arrived.
- *Connection*: exactly-once delivery in order; a message leaves
  `sent_messages` only when it has arrived; it leaves eventually.
- *Table*: an id names one peer for ever; one entry per address; an
  acknowledgement concerns the peer that sent it; a number identifies a
  datagram of a pair of nodes.
- *Dispatch*: the connect callback comes first, disconnect last; a message
  callback names its sender.
- *Lifecycle*: a handler thread is known before anything can be received; a
  stopped node quits.
- *Chat*: `users` holds exactly the joined peers that have not disconnected, and
  what is announced of a peer is in order.
- *Transport*: a handler gets the values that were sent; a bind or an unpacking
  fails only for a reason its author can see; answers find the entry that asked
  for them.

The list of hazards, each with its line and with the properties that cover it,
is in `PROJECT.json`.

## 2. The modules

| Module | What it is |
|---|---|
| `AckField` | The arithmetic of the window as operators on sets of bit positions |
| `Connection` | Two ends with one entry each over a UDP network; extends `AckField` |
| `Channel` | The abstract specification: a pair of exactly-once FIFO channels |
| `Node` | Peer tables, workers, task queues and callbacks of several nodes; extends `AckField` |
| `Retransmission` | One direction of a connection with fairness; what each direction of `Connection` implements; extends `AckField` |
| `KeepAlives` | The clocks of `keep_alive` and `resend_reliable` at the two ends of a connection over a perfect network |
| `Dispatch` | The two threads of a node from construction to destruction, their queues and `handler_id` |
| `Chat` | The callbacks of the chat server on the threads of `Dispatch`, which it extends |
| `Pack` | `pack` and `unpack` on platforms with different layouts |
| `Transport` | Addresses, sockets and bytes under the nodes; extends `Pack` |
| `MCConnection`, `MCNode`, `MCKeepAlives`, `MCTransport` | Functions, links, layouts and symmetry sets for TLC |
| `AckFieldProofs`, `ConnectionProofs`, `ChannelProofs`, `RetransmissionProofs`, `NodeProofs`, `ChatProofs`, `PackProofs`, `TransportProofs` | Theorems and proofs |

The modules look at one protocol from different sides. `Connection` has one
entry per end and everything that happens to its window; `Node` has the table,
the queues and several nodes; `Dispatch` and `Chat` have the threads and what
callbacks do; `Transport` has what is under `do_send` and `handle_incoming`.
What one module looks at closely the others leave open: whether a datagram is
taken for a duplicate is any choice in `Dispatch` and `Transport`, when a keep
alive, a timeout or a retransmission is due is any choice everywhere but in
`KeepAlives`, which callback runs next is any choice in `Node`, and entries are
never removed in `Connection`, `Retransmission` and `KeepAlives`.

Definitions named `X_Something` next to a definition `X` are variants of it,
such as a slip in the code would give; they are not part of any specification.
They serve to see that a property notices the slip.

### AckField

An `ack_field` is the set of positions of its one bits. `Recived` is the
duplicate check, `RemoteAfter` and `FieldAfter` are the first half of
`handle_acks`, `Acked` the second. A shift by `ACK_COUNT` or more is undefined
in C++; `ShiftLeft` then allows both results that compilers produce (the
distance modulo the width, and zero), so `FieldAfter` is a set. `Increment` and
`Minus` wrap at `SeqMod`.

The shift by 31 of the signed constant 1 (lines 233, 269, 276, 283) is taken as
bit 31, as every compiler has it and C++20 demands.

### Connection

| Action | Code |
|---|---|
| `Connect` | `Node::connect` for an address without an entry |
| `Send` | `do_send` of an application message, with the copy in `sent_messages` |
| `KeepAlive` | `do_send` of `KEEP_ALIVE` from `keep_alive` |
| `ResendReliable` | `resend_reliable` for any set of messages |
| `HandleIncoming` | `handle_incoming` of one datagram with `handle_acks`, or the creation of the entry by it |

Abstractions: the time thresholds may have elapsed at any moment, for any of
the entries and messages. The network of an end is a set that only grows;
`SocketSend` chooses which datagrams are lost, and a datagram that is not lost
may be received at any later time and again, which gives delay, reordering and
duplication. The two ends have one protocol id, all messages have handlers, a
payload is a member of `Msgs`. `sent_messages` is a set (each message is sent
once and its number differs from the others' until numbers wrap). Entries are
not removed here: that is `timeout`, in `Node`.

`MaxGap` is a premise about the network, not a limit of the code: a datagram
reaches `handle_incoming` only while it is at most `MaxGap` ahead of the newest
one processed. With `MaxGap` at the largest number there is no restriction;
`MaxGap = 1` says that datagrams first arrive in the order of their numbers,
with nothing missing (older ones may still be repeated, and retransmissions
fill in what was lost).

The history variables `sent`, `arrived` and `overflowed` are read by properties
and by `Fresh` (no message is sent twice), not by the protocol.

### Channel

Each end has `sent` a sequence; `delivered` of the other end grows by the next
element of it. `Connection!FIFO` instantiates it with `sent` as the application
messages of `Connection`'s `sent`.

### Node

Every variable is a function on `Nodes`. `peers[n]` is a function on the ids in
use, like the `std::map`; `tasks[n]` is the c9y queue of the worker's tasks,
`events[n]` holds the callbacks that wait in the queue of one thread or another;
`calls[n]` records the callbacks that have
run. `phase[n]` is where the worker is:

| `phase` | Actions | Code |
|---|---|---|
| `sync_point` | `RunConnect`, `RunSend`, `RunBroadcast`; `SyncPoint` ends it | `c9y::sync_point()` and the closures, 84-86, 133-178 |
| `handle_incoming` | `HandleIncoming`; `IncomingDone` ends it | 121-126, 180-291 |
| `keep_alive` | `KeepAlive` for any set of entries | 293-304 |
| `timeout` | `Timeout` of one entry; `TimeoutDone` ends it | 306-321 |
| `resend_reliable` | `ResendReliable` for any set of messages | 323-349 |

`Connect`, `Send`, `Broadcast` and `Call` belong to the application and the
handler thread and interleave with all of these. `Timeout` is one entry at a
time because `disconnect_cb` runs between two removals and the other threads
run meanwhile; `KeepAlive` and `ResendReliable` are single steps because
nothing another thread can see lies between their iterations.

Abstractions beyond those of `Connection`: the address of a node is the node;
`listen` is left out, a datagram sent before it counts as lost; callbacks are
registered before the first datagram. `run` may rewrite `handler_id` at any time,
so that callbacks wait in the queues of two threads: `Call` runs any of those in
`events`, and what is true here is true for every order of them. Which orders
the two threads give is in `Dispatch`. `RunSend` without an entry drops the task, as
a build without assertions does. The application passes to `send` only ids it
got from `connect` or from a callback (`Knows`). `id` is chosen per node in
`Init`, so that all combinations of equal and different protocol ids occur.

### Retransmission

One end of `Connection` as sender, the other as receiver of its datagrams. The
receiver's own datagrams carry its window (`Report`) and no number that
matters to this direction, so its numbers are left out and it can report for
ever in finitely many states. What does matter is whether the receiver has
messages of its own that wait for an acknowledgement (`waiting`): it repeats
them with old windows, and puts off its keep alives with each repetition
(336-339).

| Action | Code |
|---|---|
| `Send`, `KeepAlive` | `do_send` of the sender (133-168), from `send` and from `keep_alive` |
| `ResendReliable` | 323-349 |
| `ReportByMessage`, `ReportByKeepAlive` | `do_send` of the receiver, with `lack` and `ack_field` (153-154), of a message of its own or of a keep alive |
| `Receive` | `handle_incoming` of the receiver with the first half of `handle_acks`; the second may erase its last message |
| `ReceiveReport` | the second half of `handle_acks` at the sender (280-290) |

`Connection` instantiates it twice, as `ToServer` and `ToClient`, with either end
as the sender: the datagrams in flight to the receiver become their numbers, and
the fields of those in flight from it, and of everything it has sent as a
message and may repeat, become reports. The refinement, `OneWaySpec`, says that
a retransmission with an old window or a mixture of messages and keep alives never
does more to the sender than a window the receiver has had at some time.

### KeepAlives

Both ends with the times that decide who sends what (`last_message_sent`, the
time of each message), over a network that loses and reorders nothing and delays
for at most `Delay` ticks. Windows are numbers here (by `FullWindow` of
`Connection`), and keep alives have no numbers.

| Action | Code |
|---|---|
| `Send` | `do_send` of a message (133-168), with the window of this moment |
| `Round` | `keep_alive` (293-304) and then `resend_reliable` (323-349) of one step: the first sends the window of now, the second what was sent before |
| `Receive` | `handle_incoming` with `handle_acks` (180-291) |
| `Tick` | the clock; the worker has nothing overdue and the network is in time |

`resend_reliable` reads the clock a little later than `keep_alive` does; a
message that becomes late in between is repeated one step earlier than here,
which puts off keep alives at most more.

### Dispatch

| Action | Code |
|---|---|
| `Construct` | the end of either constructor: `handler_id` is set to the given thread or to the worker's (50-66) |
| `WorkerStart`, `Test` | the loop of the worker's closure (53-58), which runs from before the end of the constructor |
| `Listen`, `RunBind` | `listen` and its closure (74-79) |
| `Run` | `run`: rewrites `handler_id`, then loops until a stop is requested (105-113) |
| `Stop` | `stop`, at any time after the construction (100-103) |
| `Destroy` | the destructor, which joins the worker (68-72) |
| `Take`, `Leave` | `c9y::sync_point` on either thread |
| `Accept` | the first datagram from an address: the entry, and the closure of the connect callback (197-214); `Post` is `c9y::sync` to `handler_id` |
| `Deliver` | the rest of that call, or a whole one for a known address: the closure of the message callback, with the window left open (216-255, `Node.h` 184-191) |
| `TimeoutDone` | 306-321 when no further entry has timed out |

`busy` is the callback each thread is in; what it does is given by the module
that extends `Dispatch`. `handle_incoming` reads `handler_id` for the connect
callback and again for the message (208, `Node.h` 188), and `run` may write it
before, between and after: hence two actions. A `sync_point` may stop after any number of closures:
c9y's own rule (those that were there when it started) is one of the choices.

### Chat

`Script` is what a callback of `ChatServer` does after its lookup in `users`
(`ChatServer.cpp` 34-76), and `Insert`, `Erase` and `Say` are its steps; the
other thread can run between any two. `Timeout` starts the disconnect callback
on the worker, and `Return` from it erases the entry. `RunBroadcast` appends
what is sent to `said`, which is what every chatter is told about the peer.
Clients send a join first and lines afterwards (`ChatClient.cpp` 45-61); they
arrive in any order and any number of times, also the join: the network may
reorder and, after a timeout, the server takes old numbers for new ones.
`overtaken` records the peers one of whose callbacks passed another that was
queued or running, and `greeted` those whose connect callback has run. `Arrive`
is `Accept` of a client's datagram, `Hand` is `Deliver` of one of its messages,
and `Resume` is `Hand` as the rest of a call that `Arrive` began.

### Pack

A platform is a record of sizes: `sizeof` of each fundamental type, and which of
them `size_t` is. A fundamental value is the number its bytes spell (`Left`,
`Bytes`, `Number`), `Fits` says which values a type has. `PackTuple` gives bytes, `UnpackTuple` values and the rest of
the stream. The stream is modelled as `std::istream` behaves: a read that finds
too little takes what there is, sets the fail bit, and all later reads leave
their variables alone, which hold zero, or for the length of a vector
(`pack.h` 88) anything. `Base` is 256 in the code; the sizes are parameters.

### Transport

| Action | Code |
|---|---|
| `Listen`, `Connect`, `Send` | `Node::listen`, `IpAddress(name, port)` with `Node::connect`, `Node::send` |
| `RunBind` | `UdpSocket::bind` (87-98); fails on a socket that has a port, or on a port in use |
| `RunConnect` | the closure of `connect` |
| `RunSend`, `KeepAlive` | `do_send`: header and values packed on the sender's platform, `SocketSend` is `UdpSocket::send` (100-110), which gives the socket a port or throws; a message for an entry that has timed out is dropped |
| `Resend` | `resend_reliable` of any message that has been sent to an entry that is still there (323-349) |
| `Timeout` | `timeout` of one entry (306-321) |
| `HandleIncoming` | `recive` (cut at `RECV_SIZE`), the header unpacked on the receiver's platform, the protocol id, the entry by `operator ==`, and the handler with the unpacked values; a `std::string` or a `resize` of a length that memory does not allow (`TooLong`) throws in a `noexcept` function (`pack.cpp` 176, `pack.h` 91) |

`Targets` and `Source` are the operating system's part: a datagram to `0.0.0.0`
or `127.0.0.1` stays on the host and comes from `127.0.0.1`; otherwise it comes
from the host's address. The socket does not block, and `UdpSocket::send` throws
whenever `sendto` does not return the size: `SocketSend` may fail at any call, for
reasons that are the system's own, and does for a payload above `MaxDatagram`.
`failed` says why a process has ended: an exception on
the worker thread, or out of a `noexcept` function, terminates it. The numbers
in a header are any of `Windows`; duplicates are decided by a free choice.

Four assumptions name what an instance has to satisfy. `TransportAssumption`:
the types of the parameters; the reserved addresses differ, and no host has one.
`CallsAssumption`: what an application may ask for; a port that the system picks
is none that an application names (a node stands for its own).
`HeaderAssumption`: an unsigned int has one size on all platforms (four bytes on
every platform the code is built for) and holds the numbers of a header, and five
of them, twenty bytes in the code, are below the limit of a datagram and fit the
receive buffer. `ValuesAssumption`: what an application sends are values of the
types of the message on its own platform, as the compiler demands of a `long` or
an `unsigned short`; a string has no more characters than an unsigned int can
count (`pack` cuts the others, `pack.cpp` 95-103), and no string or vector is
longer than the memory of every node allows (`MaxLength`).

## 3. The runs

Deadlock checking is off everywhere but in `keep_alives_starved`, where the
clock never stops: elsewhere all counters are bounded and a bounded system
stops when its bounds are used up; `Chat` also stops when the node is destroyed.

| Run | Instance | Shows |
|---|---|---|
| `conn_reorder` | width 4, `MaxGap` 4, 4 datagrams from the client, 1 from the server, 2 messages, at most 2 deliveries at each end | Any loss, reordering, duplication, with shifts beyond the width: `TypeOK`, `WindowExplained`, `RejectedNearArrival`, `ForgottenNearArrival`, `RejectedForGood`, and that each direction implements `Retransmission` (`OneWaySpec`) |
| `conn_inorder` | width 3, `MaxGap` 1, 4 and 2 datagrams, 3 messages | `InOrder`, `ForgottenHasArrived`, and the refinement `FIFOSpec` |
| `conn_duplicate` | width 3, `MaxGap` 2 | `AtMostOnce` fails |
| `conn_false_ack` | width 3, `MaxGap` 2 | `ForgottenHasArrived` fails |
| `conn_wrap` | width 2, modulus 4 | `NewestNotTooOld` fails |
| `node_pair` | two nodes that may connect to each other, 1 and 2 peer ids, one datagram per entry, one message, two protocol ids | `TypeOK`, `DuplicateByConnect`, `NumbersIdentify`, `Genuine`, `EntryKept` |
| `node_cross_ack` | a node with two peers | `AckedWasHeard` fails |
| `node_assert` | a client and a server | `NoSendToNobody` fails |
| `retransmission` | width 2, 3 datagrams | `TypeOK`, `StuckForGood`, and with fairness `Settled` |
| `keep_alives_starved` | two messages of each end, thresholds of 2 ticks, delay of 1 | `UpdatedAckSent` fails |
| `chat` | one client address, 2 peer ids, 3 datagrams received | `TypeOK`, `GhostExplained`, `AnnouncedInOrder`, `ConnectFirst`, `OnHandlerThread`, `HandlerKnown`, and with fairness `JoinAnnounced`, `Quits` |
| `transport` | a server on one host, a client on either, three platforms for the client and two for the server, two calls each, 2 ids of the client and 1 of the server | `TypeOK`, `FaithfulValues`, `BindExplained`, `UnpackExplained`, `AnswersMatched` |

Why the bounds are enough. `RejectedNearArrival` and `ForgottenNearArrival` can
go wrong only by two numbers or more in a window that was never shifted too far,
which takes a gap of three and therefore a width of 4: smaller widths would make
them empty. Four numbers then give the newest number, one inside the window and
one at its edge, and a first datagram numbered 4 that shifts too far. The two
ends run the same code, so it does not matter which has the larger bound. In
`conn_inorder` the four numbers exceed the width of 3, and the server's two
datagrams carry acknowledgements while the client retransmits. In `node_pair`
the client has two ids, so that it may have two entries for the server (from
`connect` and from a datagram), or lose its entry by a timeout and make another
that numbers from 1 again; the datagram of each entry is a message or a keep
alive and carries acknowledgements. That a callback does not name another peer
than the sender, and that numbers stay apart while an entry sends more than once,
takes a third node and longer sequences: this the theorems say, for every number
of nodes and datagrams.

In `keep_alives_starved` two messages per end are
enough to repeat one in every interval that a keep alive would need. Both
thresholds are equal, as they are in the code (250 ms, `Node.cpp` 38-40), and
longer than the way of a datagram.

In `retransmission` three numbers exceed the width of 2: the oldest message can
be inside the window, at its edge and out of it. In `chat` two ids let a client
be timed out and come back, or the node lose two entries; three datagrams are a
join, a line and one more join, or a join on either side of the handover by
`run`. In `transport` the buffer of 35 bytes and the limit of 42 stand for 512
bytes and 64 kB: there are messages below both, between them and above, and the
messages of two schemas are cut in a string, in the length of a vector and in
its elements; those of a third have a `long` in front of a string, so that
another platform takes characters for the length of the string; an empty string in front of a vector puts the cut inside a length,
where a slip in the unpacking of strings would look like a cut that is not there. The byte has two values (`Base` 2), enough for lengths up to 12 to
be right on one platform and wrong on another. `Junk` is zero or a length larger
than `MaxLength`. The second id of the client is for the entry that a datagram
makes, after a timeout or next to the entry of `connect`.

Bounds in guards: `MaxSeq` (numbers used), `Messages` (of each end),
`MaxDeliveries`, `MaxCalls` and
`MaxReceived` (handler calls), `MaxPeers` (ids handed out), `MaxAsked` (calls of
the application). Each stops the action that would exceed it.

### Fairness

`Retransmission!FairSpec`: every message in `sent_messages` is repeated
(`resend_reliable` every `RESEND_THRESHOLD`), a receiver none of whose own
messages waits reports (`keep_alive` every `KEEP_ALIVE_THRESHOLD`), a datagram
that is sent again and again is received, and so is the receiver's window once
it no longer changes. The first two are what the worker's loop does as long as
it runs and the peer has an entry; the last two are the assumption that the
network does not lose for ever, without which no protocol makes progress. Nobody
is assumed to send a new message. A receiver whose own messages wait is not
assumed to report at all, since `resend_reliable` refreshes `last_message_sent`
(339) and `keep_alive` then has nothing to do (299): that this can go on for
ever is what `keep_alives_starved` shows, and `Settled` allows it (`[]waiting`).

`KeepAlives!Spec`: time passes (`Tick`), the worker of each end does what is
overdue (`Round`) and what is in flight arrives (`Receive`). Nobody has to send
a message.

`Chat!FairSpec`: each thread goes on (`WF` of `Continue`), and a thread that
passes through `sync_point` again and again with closures in its queue runs them
(`SF` of `Execute`; weak fairness would not do, since between two sync points
they cannot run). Nothing is assumed about arrivals, timeouts or `stop`.

All leave out a worker that never leaves its receive loop because datagrams
arrive faster than it reads them (`Node.cpp` 121): the code does nothing about
this case.

### What the properties with an exception say

`GhostExplained`, `AnnouncedInOrder`, `ConnectFirst`, `Settled`,
`FaithfulValues`, `BindExplained`, `UnpackExplained` and `AnswersMatched` each
name what must have happened when what a user expects is broken, within what
their module models. All of the exceptions occur in the runs:

- a join callback that waits in the queue while the peer times out adds a user
  that nobody removes (`disconnect_cb` runs at once, `Node.cpp` 313);
- with a node constructed without a thread, callbacks queued before `run` are
  executed by the worker, those queued after it by the main thread, at the same
  time; the first message of a peer may run before its connect callback when
  `run` takes over between the two, or before the worker has come to the first;
- a message is not acknowledged while the receiver is a whole window ahead of
  it, or goes on repeating messages of its own;
- values arrive changed between platforms whose `long` or `size_t` differ in
  size, and behind the cut of a datagram larger than the receive buffer;
- a vector whose length is cut off is resized to an uninitialized number, and a
  string or a vector behind a value of another size to a number that was not a
  length;
- `listen` after `connect` fails if a datagram has gone out in between;
- a peer connected to by the empty name answers from another address, and the
  answer gets an entry of its own;
- an entry of `connect` times out, and the next keep alive of the peer makes
  another, with an id the application has not asked for and an `on_connect` of
  its own.

## 4. What the checks found

- **A late datagram can be delivered twice** (`conn_duplicate`). A datagram
  older than the newest is recorded at bit `diff` (line 276), looked up at bit
  `diff - 1` (line 233).
- **A lost message can be acknowledged** (`conn_false_ack`). A receiver sets bit
  `diff - 1` for number `lack - diff` (line 269); the sender reads bit `i` as
  `lack - i` (line 285). The newest number itself is not in the field, so an
  acknowledgement is in effect one number early: the message that was lost just
  before the newest datagram is taken as received. `ForgottenNearArrival` says
  that the error is never larger than one.
- **The window does not survive the wrap** (`conn_wrap`): numbers are compared
  as plain integers.
- **An acknowledgement of one peer erases messages for others**
  (`node_cross_ack`): `erase_if` (line 286) looks at the number only, and every
  peer's numbers start from 1.
- **The assertion of `do_send` can be reached** (`node_assert`) by a timeout
  between `send` and its task.
- **Retransmissions can keep both ends from ever acknowledging**
  (`keep_alives_starved`). They carry the window of the first transmission (line
  336) and count as traffic (line 339), so that no keep alive is sent (line 299).
  When both ends have sent two messages at different times, each repeats one of
  them within every 250 ms, and nothing is acknowledged although nothing was
  lost. A new message of either end would end it.

## 5. What is proved

All theorems hold for every number of nodes, width, modulus, number of messages
and bound that satisfies the named assumptions of the modules
(`AckFieldAssumption`, `ConnectionAssumption`, `MaxSeqAssumption`,
`RetransmissionAssumption`, `NodeAssumption`, `DispatchAssumption`,
`PackAssumption`, `TransportAssumption`, `CallsAssumption`, `HeaderAssumption`,
`ValuesAssumption`).

| Module | Theorem | Extra assumption |
|---|---|---|
| `ConnectionProofs` | `TypeCorrect`: `Spec => []TypeOK` | |
| | `RejectedForGoodHolds`: a rejected number stays rejected, undefined shifts included | |
| | `WindowExplainedHolds` | `NoWrap` |
| | `RejectedNearArrivalHolds`, `ForgottenNearArrivalHolds` | `NoWrap` |
| `ChannelProofs` | `InOrderHolds`, `ForgottenHasArrivedHolds`, `FIFOHolds` (refinement of `Channel`) | `NoWrap`, `MaxGap = 1` |
| | `OneWayHolds` (each direction refines `Retransmission`) | |
| `RetransmissionProofs` | `TypeCorrect`, `StuckForGoodHolds` | |
| `NodeProofs` | `TypeCorrect`, `DuplicateByConnectHolds`, `GenuineHolds` | |
| | `EntryKeptHolds`, `NumbersIdentifyHolds` | `NumbersFit` |
| `ChatProofs` | `TypeCorrect`, `HandlerKnownHolds`, `OnHandlerThreadHolds`, `GhostExplainedHolds`, `AnnouncedInOrderHolds`, `ConnectFirstHolds` | |
| `PackProofs` | `RoundTrip`: `unpack` gives back what `pack` was given | same sizes on both platforms |
| `TransportProofs` | `TypeCorrect`, `BindExplainedHolds`, `AnswersMatchedHolds`, `FaithfulValuesHolds`, `UnpackExplainedHolds` | |

`NoWrap` and `NumbersFit` say that fewer datagrams are sent than there are
numbers; `conn_wrap` shows that it is needed. `MaxGap = 1` is needed by
`conn_duplicate` and `conn_false_ack`.

*The argument without order.* `RejectedNearArrival` and `ForgottenNearArrival`
are not inductive: they say nothing of fields in flight, of those in messages
that wait for retransmission, or of the numbers behind bits outside the window.
`WindowExplained` is the strengthening: each bit `b` of a field reported at
number `r` stands for an arrival of `r - 1 - b` (set when that number was
superseded) or of `r - b` (set when it came late); shifting keeps this, and what
has arrived stays arrived, so a copy of a field made long ago stays explained.
`SendStep` and `ReceiveStep` reduce every step to what it means for one end:
nothing sent or one new datagram, nothing received or one datagram. It is under
the condition `~overflowed`, since a shift that is too far may leave any bits.

*The argument in order.* `InOrder` has three parts. `FullWindow`: what has
arrived is `1 .. remote`, and the field holds all bits below that. Both wrong
offsets then name numbers that have arrived as well, which is why the code works
in this case. `Numbered`: the numbers identify the datagrams of an end and
increase with its messages. `DeliveredPrefix`: the handlers were called with
exactly the messages numbered up to `remote`. With it a datagram is either
rejected or the next one, and each step is a step of `Channel` or a stutter
(`ChannelStep`).

*One direction.* `OneWayHolds` rests on a map of each action of
`Connection` to one of `Retransmission`: what one end sends is `Send`, `KeepAlive` or `ResendReliable`
for its own direction and a report or nothing for the other, a repetition
with an old window being one that is already among the reports (`SentKept`: what
`resend_reliable` repeats has been sent before). `StuckForGood`
rests on two facts: the remote number never goes back, so a message behind the
window stays behind it, and a report made from then on has no bit for it.

*The table.* `NodeProofs` first proves `TableOK`: `origin` has one record for
every id handed out (`Accounted`), every entry agrees with its record, and an id
that waits in a connect task is in no entry and in no other task (`Pending`).
`TypeOK` alone is not inductive: the closure of `connect` puts the id of its task
into the table, and nothing in the types says that it is below `next_peer_id`.
`SameEntry` then says of every step what becomes of an entry that stays;
`EntryKept` and `DuplicateByConnect` follow from it, because a new entry appears
only under a new id, and from `handle_incoming` only if no entry has the
address. For `Genuine` a message is followed on its way (`AskedFor`): in a task,
in a datagram, in `sent_messages` it is one its sender's application has asked
for; and `Named` says that callbacks name ids already handed out, so that an id
handed out later, for another address, cannot be one of them.

`NumbersIdentify` is not inductive:
a datagram comes back from `sent_messages`, and its number from an entry that
may have gone. `NumberedAt` follows every datagram of a node that is in flight
or may be sent again (`OnTheWay`) to an entry of its address whose counter is
past its number (`Traced`), unless the address has had two (`Twice`).

*The threads of the chat server.* `ChatProofs` needs to know of every closure in
a queue and of every callback in progress. `HandedOut`: they name ids that were
handed out. `ThreadsOK`: nothing is queued before `listen`, `handler_id` is what
the constructor was given until `run` makes it the main thread, a callback is
where its script says. For `GhostExplained` this is far from inductive: that a
join adds no user for good depends on where all other callbacks of the peer are.
`PeerOK` says of a peer none of whose callbacks has overtaken another that they
are on one thread at a time, that they are over when its entry is gone, and, for
each point inside a script (`Halfway`), what is in `users` and what has been
told. `AnnouncedInOrder` adds the order in which the announcements wait in the
worker's queue (`Ordered`). Every action of the two threads is then one case of
`PeersInvariant`. `ConnectFirst` needs to know where the connect callback of a
peer is from the moment `Accept` posts it: it has run, or it waits in front of
every message of the peer in the same queue, or the node was constructed without
a thread and it waits for the worker while the messages go to the main thread
(`GreetOK`).

*Sockets and addresses.* The invariant of `TransportProofs` has one part for each
place a fact can hide. `QueueOK`: the queue of a worker is what its application
asked for last, in order, and ids that wait to be connected are new and
distinct. `PortOK`: a socket with a port, or a table with an entry, means that
the worker has run a listen or a connect, and the port is the one the system
picked or one asked for. Since entries time out, facts about them are kept of
every address a node has had (`Had`: those in the table and those in `lost`).
`EntryOK`: such an address is one of `connect`, or is where a datagram came from.
`FlightOK`: a datagram came from an address its sender has had and from a port it
still has. `BindExplained` follows for the task at the head of the queue. For
`AnswersMatched` the datagram that would make an entry is followed back twice: it
was sent to a port that only the node itself has, so its sender has that address
from a datagram of the node; that one was sent to an address the node has had,
from a `connect`, and the answer comes from there unless it was `INADDR_ANY`. The
address then is in the table, so that no entry is made, or in `lost`.

*Bytes and values.* `RoundTrip` is about what recursion over the data computes.
The definitions of `Pack` are recursive functions, and where a proof would use
induction over an operator, `Induction` says it of a set: a set of numbers with
0 that is closed under the successor holds all, as a smallest number outside
would show. So `LeftSteps` gives the recursion of the bytes, `NumberBytes` that
they spell the number again, and `FlattenBefores` and `FlattenSplit` what a
concatenation has before and behind its `i`-th piece. Reading from the pieces
then finds each value in turn: `PlainSurvives`, `StringSurvives` and
`VectorSurvives` say it of one value followed by anything, `RoundTrip` of the
tuple. Nothing is said of platforms that disagree: there the runs show other
values.

`FaithfulValues` needs to know of every datagram what made it, and of that cause
that its values were ones the application asked for. `ValuesInv` has both:
`DataOK`, the data are the payload of the cause, and `CallOK`, what was asked is
among the calls of the node. The header always arrives (`HeaderHeard`): it lies
in front of the cut, and its type is the same everywhere. Hence the kind of a
message is right even when its values are not, and `handle_incoming` uses the
schema of the sender; the rest is `RoundTrip` for the payload if it is whole
(`ValuesHeard`). `UnpackExplained` is the same fact read from the other end: a
string or vector that arrives as it was sent is no longer than memory allows. The
clause of `TypeOK` on datagrams follows from `DataOK`.

All invariants, action properties and refinements that the passing runs check
are proved. Out of reach of the provers used, and left to TLC: liveness
(`Settled`, `UpdatedAckSent`, `JoinAnnounced`, `Quits`) and `ENABLED`. That the fairness of
`Retransmission` carries over to `Connection` is therefore not proved; the
refinement is that of its safety part.

## 6. Not modelled

- Assertions: the models are of builds without them (`NDEBUG`), except where a
  property states one (`NoSendToNobody`): `do_send` to a peer that has timed out
  returns (140). `assert(data.size() <= RECV_SIZE)` in
  `UdpSocket::send` is one of those left out, so that larger datagrams are cut
  by the receiver.
- `worker` being assigned after its thread has started, which only the assertion
  of `step` reads; closures that run after the destruction of the node (they
  need a further `c9y::sync_point` on the main thread); the order in which
  `ChatServer` destroys `users` and `node`.
- Callbacks replaced by `on_connect`, `on_disconnect` and `on_message` while the
  worker runs.
- Data races inside a container: `users` is changed by two threads, and lookups
  and changes are taken as whole.
- What `ChatClient` does with what it receives, and its `running` flag, a plain
  `bool` that the worker clears while the client waits for a line.
- Creation of sockets and its errors; why `sendto` fails, other than for the
  size: it may at any call, and nothing is said of when it does not; names that cannot be resolved, which throw in the application
  before anything happens; printing of addresses.
- Vectors of strings, of vectors or of tuples, which the templates of `pack.h`
  would take; vectors with more elements than an unsigned int counts, on which the
  loop of `pack` (`pack.h` 52) does not end.
- Hosts with another byte order than little-endian, and floating-point formats
  other than the one whose bytes are copied.
- The receive loop under steady traffic, see Fairness.
- Concrete times: every threshold may have elapsed at any moment, except in
  `KeepAlives`, where times are ticks and the timeout of 5 s is left out.
- A datagram to a node whose queue of callbacks nobody runs any more, and more
  threads than the worker and the one that calls `run`.
- The connecting side of the two threads: `Dispatch` has no `connect`, so that
  `HandlerKnown` and `ConnectFirst` are about a node that listens.
- Tests and build files.

## 7. Plan

Done, in this order: `AckField`, `Connection`, `Channel` and their proofs,
`Node`; then `Retransmission`, `Dispatch`, `Chat`, `Pack`, `Transport`, and the
proofs of `OneWaySpec`, `StuckForGood` and the table of `Node`; then the proofs of
`Chat`, of the rest of `Node`, of `Pack` and of `Transport`; then the two readings
of `handler_id` in `Dispatch`, the timeouts and failing sockets of `Transport`,
and `KeepAlives`.

What is left:

1. A proof that two nodes with one entry each and without timeouts implement
   `Connection`.
2. `KeepAlives` with windows and losses, to see for which times of arrival the
   starvation ends by itself, and as a specification that `Retransmission` with its
   fairness follows from.
