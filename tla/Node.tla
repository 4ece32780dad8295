-------------------------------- MODULE Node --------------------------------
(***************************************************************************)
(* The peer table of every Node, the worker that steps through it, the tasks *)
(* that the application queues to the worker (c9y::sync to worker) and the   *)
(* callbacks that the worker queues to a handler thread (c9y::sync to        *)
(* handler_id).                                                             *)
(*                                                                          *)
(* The address of a node is the node.  The window of an entry is the one of  *)
(* AckField; Connection looks at a pair of entries more closely.  Callbacks  *)
(* are registered before the first datagram.  Which thread a callback goes   *)
(* to, and so the order in which callbacks run, is the subject of Dispatch:  *)
(* here any callback that is queued may be the next one to run.             *)
(***************************************************************************)
EXTENDS AckField, Sequences, FiniteSets

CONSTANTS Nodes,
          Ids,         \* protocol ids
          Links,       \* the pairs <<n, a>> for which the application of n may connect to a
          Speakers,    \* the nodes whose application sends messages
          Msgs,        \* application messages, each is sent or broadcast at most once
          Handled,     \* the messages with a handler
          KEEP_ALIVE,  \* the message id of a keep alive
          MaxSeq,      \* bound: a node sends no datagram numbered above MaxSeq
          MaxPeers,    \* bound: peer ids that a node hands out
          MaxCalls     \* bound: callbacks made and queued at a node

ASSUME NodeAssumption ==
    /\ Links \subseteq Nodes \X Nodes
    /\ Speakers \subseteq Nodes
    /\ Handled \subseteq Msgs
    /\ KEEP_ALIVE \notin Msgs
    /\ MaxSeq \in [Nodes -> Nat]
    /\ MaxPeers \in [Nodes -> Nat]
    /\ MaxCalls \in Nat

Phases == {"sync_point", "handle_incoming", "keep_alive", "timeout", "resend_reliable"}

PeerId   == Nat
Datagram == [from : Nodes, seq : SeqNum, msg : Msgs \cup {KEEP_ALIVE},
             lack : SeqNum, acks : Field]
Peer     == [address : Nodes, sequence_number : SeqNum,
             remote_sequence_number : SeqNum, ack_field : Field]
Message  == [peer : PeerId, payload : Datagram]

VARIABLES
    id,             \* the protocol id the node was constructed with
    phase,          \* where the worker is in step()
    next_peer_id,
    peers,          \* the table: a function on the peer ids in use
    sent_messages,
    tasks,          \* queued to the worker
    events,         \* callbacks queued to a handler thread
    calls,          \* the callbacks that have run, in order
    network,        \* datagrams in flight to the node
    asked,          \* history: the messages its application has sent or broadcast
    origin,         \* history: every entry the table has had and who asked for it
    acked,          \* history: <<address, datagram>> erased by handle_acks
    heard           \* history: the datagrams handle_incoming has processed

stateVars == <<id, phase, next_peer_id, peers, sent_messages, tasks, events, calls, network>>
historyVars == <<asked, origin, acked, heard>>
vars      == <<stateVars, historyVars>>

\* What can be queued to a worker, and what to a handler thread.
ConnectTask(p, a) == [op |-> "connect", peer |-> p, address |-> a]
SendTask(p, m)    == [op |-> "send", peer |-> p, msg |-> m]
BroadcastTask(m)  == [op |-> "broadcast", msg |-> m]
Connected(p)      == [kind |-> "connect", peer |-> p]
Received(p, m)    == [kind |-> "message", peer |-> p, msg |-> m]
Disconnected(p)   == [kind |-> "disconnect", peer |-> p]

Task  == [op : {"connect"}, peer : PeerId, address : Nodes] \cup
         [op : {"send"}, peer : PeerId, msg : Msgs] \cup
         [op : {"broadcast"}, msg : Msgs]
Event == [kind : {"connect"}, peer : PeerId] \cup
         [kind : {"message"}, peer : PeerId, msg : Handled]
Callback == Event \cup [kind : {"disconnect"}, peer : PeerId]

TypeOK ==
    /\ id \in [Nodes -> Ids]
    /\ phase \in [Nodes -> Phases]
    /\ next_peer_id \in [Nodes -> PeerId]
    /\ DOMAIN peers = Nodes
    /\ \A n \in Nodes : /\ DOMAIN peers[n] \subseteq 0 .. (next_peer_id[n] - 1)
                        /\ \A p \in DOMAIN peers[n] : peers[n][p] \in Peer
    /\ sent_messages \in [Nodes -> SUBSET Message]
    /\ tasks \in [Nodes -> Seq(Task)]
    /\ events \in [Nodes -> Seq(Event)]
    /\ calls \in [Nodes -> Seq(Callback)]
    /\ network \in [Nodes -> SUBSET Datagram]
    /\ asked \in [Nodes -> SUBSET Msgs]
    /\ origin \in [Nodes -> SUBSET [peer : PeerId, address : Nodes, by : {"connect", "incoming"}]]
    /\ acked \in [Nodes -> SUBSET (Nodes \X Datagram)]
    /\ heard \in [Nodes -> SUBSET Datagram]

NewPeer(a) == [address |-> a, sequence_number |-> 1,
               remote_sequence_number |-> 0, ack_field |-> {}]

Init ==
    /\ id \in [Nodes -> Ids]
    /\ phase = [n \in Nodes |-> "sync_point"]
    /\ next_peer_id = [n \in Nodes |-> 0]
    /\ peers = [n \in Nodes |-> << >>]
    /\ sent_messages = [n \in Nodes |-> {}]
    /\ tasks = [n \in Nodes |-> << >>]
    /\ events = [n \in Nodes |-> << >>]
    /\ calls = [n \in Nodes |-> << >>]
    /\ network = [n \in Nodes |-> {}]
    /\ asked = [n \in Nodes |-> {}]
    /\ origin = [n \in Nodes |-> {}]
    /\ acked = [n \in Nodes |-> {}]
    /\ heard = [n \in Nodes |-> {}]

-----------------------------------------------------------------------------
(***************************************************************************)
(* The application, on any of its threads.                                  *)
(***************************************************************************)
Enqueue(n, t) == tasks' = [tasks EXCEPT ![n] = Append(@, t)]

\* Variant: the id is handed out and not counted.
NextId_Kept(p) == p

\* next_peer_id++
NextId(p) == p + 1

\* Node::connect: the id is handed out now, the entry is made by the worker.
Connect(n, a) ==
    /\ <<n, a>> \in Links
    /\ next_peer_id[n] < MaxPeers[n]
    /\ next_peer_id' = [next_peer_id EXCEPT ![n] = NextId(@)]
    /\ Enqueue(n, ConnectTask(next_peer_id[n], a))
    /\ origin' = [origin EXCEPT ![n] = @ \cup
           {[peer |-> next_peer_id[n], address |-> a, by |-> "connect"]}]
    /\ UNCHANGED <<phase, peers, sent_messages, events, calls, network, asked, acked, heard>>

\* The application has got the peer id p from connect or from a callback.
Knows(n, p) ==
    \/ \E o \in origin[n] : o.peer = p /\ o.by = "connect"
    \/ \E i \in 1 .. Len(calls[n]) : calls[n][i].peer = p

Ask(n, m) ==
    /\ n \in Speakers
    /\ \A k \in Nodes : m \notin asked[k]
    /\ asked' = [asked EXCEPT ![n] = @ \cup {m}]
    /\ UNCHANGED <<phase, next_peer_id, peers, sent_messages, events, calls, network,
                   origin, acked, heard>>

\* Node::send
Send(n, p, m) ==
    /\ Knows(n, p)
    /\ Ask(n, m)
    /\ Enqueue(n, SendTask(p, m))

\* Node::broadcast
Broadcast(n, m) ==
    /\ Ask(n, m)
    /\ Enqueue(n, BroadcastTask(m))

\* s without its element at i.
Without(s, i) == SubSeq(s, 1, i - 1) \o SubSeq(s, i + 1, Len(s))

(***************************************************************************)
(* A thread in c9y::sync_point runs a callback from its queue.  run()        *)
(* rewrites handler_id at any time, so that the callbacks of a node may wait *)
(* in the queues of two threads: any of them may be the next.               *)
(***************************************************************************)
Call(n) ==
    /\ \E i \in 1 .. Len(events[n]) :
           /\ calls' = [calls EXCEPT ![n] = Append(@, events[n][i])]
           /\ events' = [events EXCEPT ![n] = Without(@, i)]
    /\ UNCHANGED <<phase, next_peer_id, peers, sent_messages, tasks, network, historyVars>>

-----------------------------------------------------------------------------
(***************************************************************************)
(* The worker: sync_point, handle_incoming until nothing is left, then       *)
(* keep_alive, timeout and resend_reliable, over and over.                  *)
(***************************************************************************)
Goto(n, from, to) ==
    /\ phase[n] = from
    /\ phase' = [phase EXCEPT ![n] = to]

(***************************************************************************)
(* UdpSocket::send of pairs <<address, datagram>>: any of them may be lost,  *)
(* the others may arrive at any time, in any order and more than once.      *)
(***************************************************************************)
SocketSend(pairs) ==
    \E kept \in SUBSET pairs :
        network' = [a \in Nodes |-> network[a] \cup
                        {pair[2] : pair \in {k \in kept : k[1] = a}}]

Outgoing(n, p, m) == [from |-> n,
                      seq  |-> peers[n][p].sequence_number,
                      msg  |-> m,
                      lack |-> peers[n][p].remote_sequence_number,
                      acks |-> peers[n][p].ack_field]

\* do_send of m to each of the entries in ps.
DoSend(n, ps, m) ==
    /\ \A p \in ps : peers[n][p].sequence_number <= MaxSeq[n]
    /\ peers' = [peers EXCEPT ![n] = [p \in DOMAIN peers[n] |->
           IF p \in ps THEN [peers[n][p] EXCEPT !.sequence_number = Increment(@)]
           ELSE peers[n][p]]]
    /\ SocketSend({<<peers[n][p].address, Outgoing(n, p, m)>> : p \in ps})
    /\ sent_messages' = IF m = KEEP_ALIVE THEN sent_messages
           ELSE [sent_messages EXCEPT ![n] = @ \cup
                    {[peer |-> p, payload |-> Outgoing(n, p, m)] : p \in ps}]
    /\ UNCHANGED <<next_peer_id, events, calls, historyVars>>

Dequeue(n, op) ==
    /\ phase[n] = "sync_point"
    /\ tasks[n] # << >>
    /\ Head(tasks[n]).op = op
    /\ tasks' = [tasks EXCEPT ![n] = Tail(@)]
    /\ UNCHANGED phase

\* f with the value v at k.
With(f, k, v) == [x \in DOMAIN f \cup {k} |-> IF x = k THEN v ELSE f[x]]

\* The closure of connect.
RunConnect(n) ==
    /\ Dequeue(n, "connect")
    /\ LET t == Head(tasks[n])
       IN  peers' = [peers EXCEPT ![n] = With(@, t.peer, NewPeer(t.address))]
    /\ UNCHANGED <<next_peer_id, sent_messages, events, calls, network, historyVars>>

\* The closure of send.  Without an entry do_send asserts, or returns in a
\* build without assertions.
RunSend(n) ==
    /\ Dequeue(n, "send")
    /\ LET t == Head(tasks[n])
       IN  DoSend(n, {t.peer} \cap DOMAIN peers[n], t.msg)

\* The closure of broadcast.
RunBroadcast(n) ==
    /\ Dequeue(n, "broadcast")
    /\ DoSend(n, DOMAIN peers[n], Head(tasks[n]).msg)

\* Tasks that are queued from here on wait for the next round.
SyncPoint(n) ==
    /\ Goto(n, "sync_point", "handle_incoming")
    /\ UNCHANGED <<next_peer_id, peers, sent_messages, tasks, events, calls, network,
                   historyVars>>

\* Variant: an entry counts only until it has heard from its peer.
Found_Unheard(n, a) == {p \in DOMAIN peers[n] : /\ peers[n][p].address = a
                                                /\ peers[n][p].remote_sequence_number = 0}

\* The entries with the address a; find_if returns the lowest of them.
Found(n, a)    == {p \in DOMAIN peers[n] : peers[n][p].address = a}
FindPeer(n, a) == CHOOSE p \in Found(n, a) : \A q \in Found(n, a) : p <= q

\* Variant: the protocol id is not compared.
SameProtocol_Unchecked(n, d) == TRUE

\* The datagram carries the protocol id of the node that receives it.
SameProtocol(n, d) == id[d.from] = id[n]

Unacked(messages, d) == {m \in messages : m.payload.seq \notin Acked(d.lack, d.acks)}

\* The callbacks that handle_incoming queues for a datagram d of the entry p.
Dispatch(p, d, known, recived) ==
    (IF known THEN << >> ELSE <<Connected(p)>>) \o
    (IF ~recived /\ d.msg \in Handled THEN <<Received(p, d.msg)>> ELSE << >>)

(***************************************************************************)
(* handle_incoming of one datagram, with the handle_acks it calls.  A        *)
(* datagram with a foreign protocol id changes nothing.                     *)
(***************************************************************************)
HandleIncoming(n, d) ==
    LET known   == Found(n, d.from) # {}
        p       == IF known THEN FindPeer(n, d.from) ELSE next_peer_id[n]
        entry   == IF known THEN peers[n][p] ELSE NewPeer(d.from)
        recived == Recived(entry.remote_sequence_number, entry.ack_field, d.seq)
        queued  == Dispatch(p, d, known, recived)
        left    == Unacked(sent_messages[n], d)
    IN  /\ phase[n] = "handle_incoming"
        /\ d \in network[n]
        /\ SameProtocol(n, d)
        /\ known \/ p < MaxPeers[n]
        /\ Len(calls[n]) + Len(events[n]) + Len(queued) <= MaxCalls
        /\ next_peer_id' = [next_peer_id EXCEPT ![n] = IF known THEN @ ELSE NextId(@)]
        /\ \E f \in FieldAfter(entry.remote_sequence_number, entry.ack_field, d.seq) :
               peers' = [peers EXCEPT ![n] = With(@, p,
                   [entry EXCEPT !.remote_sequence_number = RemoteAfter(@, d.seq),
                                 !.ack_field = f])]
        /\ sent_messages' = [sent_messages EXCEPT ![n] = left]
        /\ events' = [events EXCEPT ![n] = @ \o queued]
        /\ origin' = IF known THEN origin ELSE [origin EXCEPT ![n] = @ \cup
               {[peer |-> p, address |-> d.from, by |-> "incoming"]}]
        /\ acked' = [acked EXCEPT ![n] = @ \cup
               {<<peers[n][m.peer].address, m.payload>> :
                   m \in {k \in sent_messages[n] \ left : k.peer \in DOMAIN peers[n]}}]
        /\ heard' = [heard EXCEPT ![n] = @ \cup {d}]
        /\ UNCHANGED <<phase, tasks, calls, network, asked>>

\* recive finds nothing, or what is left is still under way.
IncomingDone(n) ==
    /\ Goto(n, "handle_incoming", "keep_alive")
    /\ UNCHANGED <<next_peer_id, peers, sent_messages, tasks, events, calls, network,
                   historyVars>>

\* keep_alive, when KEEP_ALIVE_THRESHOLD has elapsed for the entries in due.
KeepAlive(n) ==
    /\ Goto(n, "keep_alive", "timeout")
    /\ \E due \in SUBSET DOMAIN peers[n] : DoSend(n, due, KEEP_ALIVE)
    /\ UNCHANGED tasks

\* timeout of the entry p, with the callback that the worker makes itself.
Timeout(n, p) ==
    /\ phase[n] = "timeout"
    /\ p \in DOMAIN peers[n]
    /\ Len(calls[n]) + Len(events[n]) < MaxCalls
    /\ peers' = [peers EXCEPT ![n] = [q \in DOMAIN peers[n] \ {p} |-> peers[n][q]]]
    /\ calls' = [calls EXCEPT ![n] = Append(@, Disconnected(p))]
    /\ UNCHANGED <<phase, next_peer_id, sent_messages, tasks, events, network, historyVars>>

\* No further entry has timed out.
TimeoutDone(n) ==
    /\ Goto(n, "timeout", "resend_reliable")
    /\ UNCHANGED <<next_peer_id, peers, sent_messages, tasks, events, calls, network,
                   historyVars>>

\* resend_reliable, when RESEND_THRESHOLD has elapsed for the messages in late.
ResendReliable(n) ==
    /\ Goto(n, "resend_reliable", "sync_point")
    /\ \E late \in SUBSET sent_messages[n] :
           LET orphans == {m \in late : m.peer \notin DOMAIN peers[n]}
           IN  /\ SocketSend({<<peers[n][m.peer].address, m.payload>> : m \in late \ orphans})
               /\ sent_messages' = [sent_messages EXCEPT ![n] = @ \ orphans]
    /\ UNCHANGED <<next_peer_id, peers, tasks, events, calls, historyVars>>

Step(n) ==
    \/ \E a \in Nodes : Connect(n, a)
    \/ \E p \in 0 .. (next_peer_id[n] - 1), m \in Msgs : Send(n, p, m)
    \/ \E m \in Msgs : Broadcast(n, m)
    \/ Call(n)
    \/ RunConnect(n)
    \/ RunSend(n)
    \/ RunBroadcast(n)
    \/ SyncPoint(n)
    \/ \E d \in network[n] : HandleIncoming(n, d)
    \/ IncomingDone(n)
    \/ KeepAlive(n)
    \/ \E p \in DOMAIN peers[n] : Timeout(n, p)
    \/ TimeoutDone(n)
    \/ ResendReliable(n)

\* The protocol id is set by the constructor.
Next == UNCHANGED id /\ \E n \in Nodes : Step(n)

Spec == Init /\ [][Next]_vars

-----------------------------------------------------------------------------
(***************************************************************************)
(* Connect and handle_incoming hand out ids on two threads: an entry of the  *)
(* table keeps its address and its numbers, it is never replaced.           *)
(***************************************************************************)
EntryKept ==
    [][\A n \in Nodes : \A p \in DOMAIN peers[n] \cap DOMAIN peers'[n] :
           /\ peers'[n][p].address = peers[n][p].address
           /\ peers'[n][p].sequence_number >= peers[n][p].sequence_number
           /\ peers'[n][p].remote_sequence_number >= peers[n][p].remote_sequence_number]_vars

\* What has been called and what is queued.
Callbacks(n) == {calls[n][i]  : i \in 1 .. Len(calls[n])} \cup
                {events[n][i] : i \in 1 .. Len(events[n])}

(***************************************************************************)
(* A message callback names a peer whose application has sent the message,   *)
(* and that speaks the same protocol.                                       *)
(***************************************************************************)
Genuine ==
    \A n \in Nodes : \A c \in Callbacks(n) : c.kind = "message" =>
        \A o \in origin[n] : o.peer = c.peer =>
            c.msg \in asked[o.address] /\ id[o.address] = id[n]

(***************************************************************************)
(* Two entries have the same address only if the user asked for one of       *)
(* them: handle_incoming never makes a second entry.                        *)
(***************************************************************************)
DuplicateByConnect ==
    \A n \in Nodes : \A p, q \in DOMAIN peers[n] :
        (p # q /\ peers[n][p].address = peers[n][q].address) =>
            \E o \in origin[n] : o.peer \in {p, q} /\ o.by = "connect"

(***************************************************************************)
(* Two different datagrams from one node to another have the same number     *)
(* only if the sender has had two entries for the address.                  *)
(***************************************************************************)
NumbersIdentify ==
    \A a \in Nodes : \A d, e \in network[a] :
        (d.from = e.from /\ d.seq = e.seq /\ d # e) =>
            Cardinality({o \in origin[d.from] : o.address = a}) > 1

-----------------------------------------------------------------------------
\* The assertion of do_send: a task to send is run while the entry exists.
NoSendToNobody ==
    \A n \in Nodes : (phase[n] = "sync_point" /\ tasks[n] # << >>) =>
        LET t == Head(tasks[n]) IN t.op = "send" => t.peer \in DOMAIN peers[n]

(***************************************************************************)
(* A message is erased by an acknowledgement only if the node it was sent to *)
(* has heard from the sender.                                               *)
(***************************************************************************)
AckedWasHeard ==
    \A n \in Nodes : \A pair \in acked[n] :
        \E d \in heard[pair[1]] : d.from = n
=============================================================================
