----------------------------- MODULE NodeProofs -----------------------------
(***************************************************************************)
(* Theorems about Node, for every set of nodes, links and messages and every *)
(* bound.                                                                   *)
(***************************************************************************)
EXTENDS Node, AckFieldProofs, WellFoundedInduction, SequenceTheorems,
        FiniteSetTheorems

\* find_if returns an entry with the address it looks for.
LEMMA FindPeerFound ==
    ASSUME TypeOK, NEW n \in Nodes, NEW a \in Nodes, Found(n, a) # {}
    PROVE  FindPeer(n, a) \in Found(n, a)
<1>1. Found(n, a) \subseteq Nat
  BY DEF Found, TypeOK, PeerId
<1> DEFINE less == {ss \in Nat \X Nat : ss[1] < ss[2]}
<1>2. IsWellFoundedOn(less, Nat)
  BY NatLessThanWellFounded DEF OpToRel
<1>3. PICK p \in Found(n, a) : \A q \in Found(n, a) : <<q, p>> \notin less
  BY <1>1, <1>2, WFMin
<1>a. \A q \in Nat : q < p => <<q, p>> \in less
  BY <1>1
<1>4. \A q \in Found(n, a) : p <= q
  <2> HIDE DEF less
  <2>1. SUFFICES ASSUME NEW q \in Found(n, a) PROVE p <= q
    OBVIOUS
  <2>2. ~(q < p)
    BY <1>1, <1>3, <1>a
  <2>3. QED
    BY <1>1, <2>2
<1>5. QED
  BY <1>4 DEF FindPeer

\* The socket adds the datagrams it is given to the network, and nothing else.
LEMMA SocketSendAdds ==
    ASSUME TypeOK, NEW pairs, SocketSend(pairs), NEW a \in Nodes, NEW d \in network'[a]
    PROVE  d \in network[a] \/ \E pair \in pairs : pair[1] = a /\ pair[2] = d
BY DEF SocketSend

\* Sending well-typed datagrams keeps the network well-typed.
LEMMA SocketSendType ==
    ASSUME TypeOK, NEW pairs \in SUBSET (Nodes \X Datagram), SocketSend(pairs)
    PROVE  network' \in [Nodes -> SUBSET Datagram]
<1>1. PICK kept \in SUBSET pairs :
          network' = [a \in Nodes |-> network[a] \cup
                          {pair[2] : pair \in {k \in kept : k[1] = a}}]
  BY DEF SocketSend
<1>2. \A pair \in kept : pair[2] \in Datagram
  OBVIOUS
<1>3. QED
  BY <1>1, <1>2 DEF TypeOK

\* do_send makes a well-typed datagram from an entry of the table.
LEMMA OutgoingType ==
    ASSUME TypeOK, NEW n \in Nodes, NEW p \in DOMAIN peers[n], NEW m \in Msgs \cup {KEEP_ALIVE}
    PROVE  Outgoing(n, p, m) \in Datagram /\ peers[n][p].address \in Nodes
<1>1. peers[n][p] \in Peer
  BY DEF TypeOK
<1>2. QED
  BY <1>1 DEF Outgoing, Datagram, Peer

\* do_send changes numbers of entries and adds datagrams.
LEMMA DoSendType ==
    ASSUME TypeOK, NEW n \in Nodes, NEW ps \in SUBSET DOMAIN peers[n],
           NEW m \in Msgs \cup {KEEP_ALIVE}, DoSend(n, ps, m)
    PROVE  /\ DOMAIN peers' = Nodes
           /\ \A k \in Nodes : /\ DOMAIN peers'[k] = DOMAIN peers[k]
                               /\ \A p \in DOMAIN peers'[k] : peers'[k][p] \in Peer
           /\ sent_messages' \in [Nodes -> SUBSET Message]
           /\ network' \in [Nodes -> SUBSET Datagram]
<1>1. peers' = [peers EXCEPT ![n] = [p \in DOMAIN peers[n] |->
           IF p \in ps THEN [peers[n][p] EXCEPT !.sequence_number = Increment(@)]
           ELSE peers[n][p]]]
  BY DEF DoSend
<1>2. DOMAIN peers' = Nodes
  BY <1>1 DEF TypeOK
<1>3. ASSUME NEW k \in Nodes
      PROVE  /\ DOMAIN peers'[k] = DOMAIN peers[k]
             /\ \A p \in DOMAIN peers'[k] : peers'[k][p] \in Peer
  <2>1. CASE k # n
    BY <1>1, <2>1 DEF TypeOK
  <2>2. CASE k = n
    <3>1. peers'[n] = [p \in DOMAIN peers[n] |->
              IF p \in ps THEN [peers[n][p] EXCEPT !.sequence_number = Increment(@)]
              ELSE peers[n][p]]
      BY <1>1 DEF TypeOK
    <3>2. ASSUME NEW p \in DOMAIN peers[n]
          PROVE  [peers[n][p] EXCEPT !.sequence_number = Increment(@)] \in Peer
      <4>1. peers[n][p] \in Peer
        BY DEF TypeOK
      <4>2. Increment(peers[n][p].sequence_number) \in SeqNum
        BY <4>1, IncrementType DEF Peer
      <4>3. QED
        BY <4>1, <4>2 DEF Peer
    <3>3. QED
      BY <2>2, <3>1, <3>2 DEF TypeOK
  <2>3. QED
    BY <2>1, <2>2
<1>4. sent_messages' \in [Nodes -> SUBSET Message]
  <2>1. \A p \in ps : [peer |-> p, payload |-> Outgoing(n, p, m)] \in Message
    BY OutgoingType, SMTT(60) DEF Message, TypeOK, PeerId
  <2>2. QED
    BY <2>1 DEF DoSend, TypeOK
<1>5. network' \in [Nodes -> SUBSET Datagram]
  <2>1. {<<peers[n][p].address, Outgoing(n, p, m)>> : p \in ps} \in SUBSET (Nodes \X Datagram)
    BY OutgoingType
  <2>2. QED
    BY <2>1, SocketSendType DEF DoSend
<1>6. QED
  BY <1>2, <1>3, <1>4, <1>5

\* Making or changing the entry p leaves a table of the same kind.
LEMMA WithType ==
    ASSUME TypeOK, NEW n \in Nodes, NEW p \in PeerId, NEW e \in Peer,
           peers' = [peers EXCEPT ![n] = With(peers[n], p, e)]
    PROVE  /\ DOMAIN peers' = Nodes
           /\ DOMAIN peers'[n] = DOMAIN peers[n] \cup {p}
           /\ \A q \in DOMAIN peers'[n] : peers'[n][q] = IF q = p THEN e ELSE peers[n][q]
           /\ \A k \in Nodes : k # n => peers'[k] = peers[k]
           /\ \A k \in Nodes : \A q \in DOMAIN peers'[k] : peers'[k][q] \in Peer
<1>1. peers'[n] = With(peers[n], p, e)
  BY DEF TypeOK
<1>2. \A k \in Nodes : k # n => peers'[k] = peers[k]
  BY DEF TypeOK
<1>3. QED
  BY <1>1, <1>2 DEF With, TypeOK

\* The task a worker takes from its queue.
LEMMA DequeueType ==
    ASSUME TypeOK, NEW n \in Nodes, NEW op, Dequeue(n, op)
    PROVE  /\ Head(tasks[n]) \in Task
           /\ tasks' \in [Nodes -> Seq(Task)]
<1>1. tasks[n] \in Seq(Task) /\ tasks[n] # << >>
  BY DEF Dequeue, TypeOK
<1>2. Head(tasks[n]) \in Task /\ Tail(tasks[n]) \in Seq(Task)
  BY <1>1
<1>3. QED
  BY <1>2 DEF Dequeue, TypeOK

\* The entry that handle_incoming finds or makes for a datagram.
Entry(n, d) == IF Found(n, d.from) # {} THEN peers[n][FindPeer(n, d.from)] ELSE NewPeer(d.from)
PeerOf(n, d) == IF Found(n, d.from) # {} THEN FindPeer(n, d.from) ELSE next_peer_id[n]

\* The entry that handle_incoming uses for a datagram, found or new, is well typed.
LEMMA EntryType ==
    ASSUME TypeOK, NEW n \in Nodes, NEW d \in Datagram
    PROVE  /\ Entry(n, d) \in Peer
           /\ Entry(n, d).address = d.from
           /\ PeerOf(n, d) \in PeerId
           /\ Found(n, d.from) # {} => PeerOf(n, d) \in DOMAIN peers[n]
<1>1. d.from \in Nodes
  BY DEF Datagram
<1>2. CASE Found(n, d.from) # {}
  <2>1. /\ FindPeer(n, d.from) \in DOMAIN peers[n]
        /\ peers[n][FindPeer(n, d.from)].address = d.from
    BY <1>1, <1>2, FindPeerFound DEF Found
  <2>2. QED
    BY <1>2, <2>1 DEF Entry, PeerOf, TypeOK, PeerId
<1>3. CASE Found(n, d.from) = {}
  BY <1>1, <1>3, AckFieldAssumption DEF Entry, PeerOf, NewPeer, Peer, SeqNum, Field, TypeOK
<1>4. QED
  BY <1>2, <1>3

\* What handle_incoming does, with its local names replaced.
LEMMA Incoming ==
    ASSUME TypeOK, NEW n \in Nodes, NEW d \in network[n], HandleIncoming(n, d)
    PROVE  LET known  == Found(n, d.from) # {}
               queued == Dispatch(PeerOf(n, d), d, known, Recived(
                             Entry(n, d).remote_sequence_number, Entry(n, d).ack_field, d.seq))
           IN  /\ d \in Datagram
               /\ SameProtocol(n, d)
               /\ next_peer_id' = [next_peer_id EXCEPT
                      ![n] = IF known THEN @ ELSE NextId(@)]
               /\ \E e \in Peer :
                      /\ e.address = d.from
                      /\ e.sequence_number = Entry(n, d).sequence_number
                      /\ e.remote_sequence_number >= Entry(n, d).remote_sequence_number
                      /\ peers' = [peers EXCEPT ![n] = With(peers[n], PeerOf(n, d), e)]
               /\ sent_messages' = [sent_messages EXCEPT ![n] = Unacked(@, d)]
               /\ events' = [events EXCEPT ![n] = @ \o queued]
               /\ queued \in Seq(Event)
               /\ origin' = IF known THEN origin ELSE [origin EXCEPT ![n] = @ \cup
                      {[peer |-> PeerOf(n, d), address |-> d.from, by |-> "incoming"]}]
               /\ acked' = [acked EXCEPT ![n] = @ \cup
                      {<<peers[n][m.peer].address, m.payload>> :
                          m \in {k \in sent_messages[n] \ Unacked(sent_messages[n], d) :
                                    k.peer \in DOMAIN peers[n]}}]
               /\ heard' = [heard EXCEPT ![n] = @ \cup {d}]
               /\ UNCHANGED <<phase, tasks, calls, network, asked>>
<1> DEFINE known  == Found(n, d.from) # {}
           queued == Dispatch(PeerOf(n, d), d, known, Recived(
                         Entry(n, d).remote_sequence_number, Entry(n, d).ack_field, d.seq))
<1>1. d \in Datagram
  BY DEF TypeOK
<1>2. PICK f \in FieldAfter(Entry(n, d).remote_sequence_number, Entry(n, d).ack_field, d.seq) :
          peers' = [peers EXCEPT ![n] = With(@, PeerOf(n, d),
              [Entry(n, d) EXCEPT !.remote_sequence_number = RemoteAfter(@, d.seq),
                                  !.ack_field = f])]
  BY DEF HandleIncoming, Entry, PeerOf
<1> DEFINE e == [Entry(n, d) EXCEPT !.remote_sequence_number = RemoteAfter(@, d.seq),
                                    !.ack_field = f]
<1>3. /\ e \in Peer
      /\ e.address = d.from
      /\ e.sequence_number = Entry(n, d).sequence_number
      /\ e.remote_sequence_number >= Entry(n, d).remote_sequence_number
  <2>1. Entry(n, d) \in Peer /\ Entry(n, d).address = d.from
    BY <1>1, EntryType
  <2>2. d.seq \in SeqNum
    BY <1>1 DEF Datagram
  <2>3. /\ RemoteAfter(Entry(n, d).remote_sequence_number, d.seq) \in SeqNum
        /\ RemoteAfter(Entry(n, d).remote_sequence_number, d.seq) >=
               Entry(n, d).remote_sequence_number
    BY <2>1, <2>2, RemoteAfterType DEF Peer
  <2>4. f \in Field
    BY <2>1, <2>2, FieldAfterType DEF Peer
  <2>5. QED
    BY <2>1, <2>3, <2>4 DEF Peer
<1>4. peers' = [peers EXCEPT ![n] = With(peers[n], PeerOf(n, d), e)]
  BY <1>2
<1>5. queued \in Seq(Event)
  <2>1. PeerOf(n, d) \in PeerId
    BY <1>1, EntryType
  <2>2. /\ <<Connected(PeerOf(n, d))>> \in Seq(Event)
        /\ d.msg \in Handled => <<Received(PeerOf(n, d), d.msg)>> \in Seq(Event)
    BY <2>1 DEF Connected, Received, Event
  <2>3. QED
    BY <2>2 DEF Dispatch
<1>6. QED
  <2>1. \E x \in Peer :
            /\ x.address = d.from
            /\ x.sequence_number = Entry(n, d).sequence_number
            /\ x.remote_sequence_number >= Entry(n, d).remote_sequence_number
            /\ peers' = [peers EXCEPT ![n] = With(peers[n], PeerOf(n, d), x)]
    BY <1>3, <1>4
  <2>2. QED
    BY <1>1, <1>5, <2>1 DEF HandleIncoming, Entry, PeerOf

-----------------------------------------------------------------------------
(***************************************************************************)
(* The inductive invariant.  origin records every id that has been handed   *)
(* out, once, and the address it was handed out for; an id that waits in a  *)
(* connect task is not in the table yet and waits in no other task.  Without *)
(* it the closure of connect could make an entry for an id in use.          *)
(***************************************************************************)
Accounted(n) ==
    /\ \A o \in origin[n] : o.peer < next_peer_id[n]
    /\ \A o, u \in origin[n] : o.peer = u.peer => o = u
    /\ \A p \in DOMAIN peers[n] :
           \E o \in origin[n] : o.peer = p /\ o.address = peers[n][p].address

Pending(n) ==
    \A i \in 1 .. Len(tasks[n]) : tasks[n][i].op = "connect" =>
        /\ [peer |-> tasks[n][i].peer, address |-> tasks[n][i].address, by |-> "connect"]
               \in origin[n]
        /\ tasks[n][i].peer \notin DOMAIN peers[n]
        /\ \A j \in 1 .. Len(tasks[n]) :
               (i # j /\ tasks[n][j].op = "connect") => tasks[n][i].peer # tasks[n][j].peer

TableOK == TypeOK /\ \A n \in Nodes : Accounted(n) /\ Pending(n)

\* What a worker takes off its queue, and what stays there.
LEMMA DequeueTasks ==
    ASSUME TypeOK, NEW n \in Nodes, NEW op, Dequeue(n, op)
    PROVE  /\ 1 \in 1 .. Len(tasks[n])
           /\ Head(tasks[n]) = tasks[n][1]
           /\ tasks[n][1].op = op
           /\ \A i \in 1 .. Len(tasks'[n]) : /\ i + 1 \in 1 .. Len(tasks[n])
                                             /\ tasks'[n][i] = tasks[n][i + 1]
           /\ \A k \in Nodes : k # n => tasks'[k] = tasks[k]
<1>1. tasks[n] \in Seq(Task) /\ tasks[n] # << >>
  BY DEF Dequeue, TypeOK
<1>2. tasks'[n] = Tail(tasks[n]) /\ \A k \in Nodes : k # n => tasks'[k] = tasks[k]
  BY DEF Dequeue, TypeOK
<1>3. Head(tasks[n]).op = op
  BY DEF Dequeue
<1>4. QED
  BY <1>1, <1>2, <1>3

\* A task that is queued stands behind the others.
LEMMA EnqueueTasks ==
    ASSUME TypeOK, NEW n \in Nodes, NEW t \in Task, Enqueue(n, t)
    PROVE  /\ tasks' \in [Nodes -> Seq(Task)]
           /\ Len(tasks'[n]) = Len(tasks[n]) + 1
           /\ tasks'[n][Len(tasks[n]) + 1] = t
           /\ \A i \in 1 .. Len(tasks[n]) : tasks'[n][i] = tasks[n][i]
           /\ \A k \in Nodes : k # n => tasks'[k] = tasks[k]
<1>1. tasks[n] \in Seq(Task)
  BY DEF TypeOK
<1>2. tasks'[n] = Append(tasks[n], t) /\ \A k \in Nodes : k # n => tasks'[k] = tasks[k]
  BY DEF Enqueue, TypeOK
<1>3. tasks' \in [Nodes -> Seq(Task)]
  BY <1>1, <1>2 DEF Enqueue, TypeOK
<1>4. QED
  BY <1>1, <1>2, <1>3

\* What is left of a sequence was in it.
LEMMA WithoutType ==
    ASSUME NEW T, NEW s \in Seq(T), NEW i \in 1 .. Len(s)
    PROVE  /\ Without(s, i) \in Seq(T)
           /\ \A j \in 1 .. Len(Without(s, i)) :
                  \E k \in 1 .. Len(s) : Without(s, i)[j] = s[k]
<1> DEFINE front == SubSeq(s, 1, i - 1)
           back  == SubSeq(s, i + 1, Len(s))
<1>1. /\ Len(s) \in Nat /\ i \in Nat /\ i <= Len(s) /\ 1 <= i
  OBVIOUS
<1>2. /\ front \in Seq(T) /\ Len(front) = i - 1
      /\ \A j \in 1 .. i - 1 : front[j] = s[j]
  BY <1>1
<1>3. /\ back \in Seq(T) /\ Len(back) = Len(s) - i
      /\ \A j \in 1 .. Len(s) - i : back[j] = s[i + j]
  BY <1>1
<1> HIDE DEF front, back
<1>4. /\ front \o back \in Seq(T)
      /\ Len(front \o back) = Len(front) + Len(back)
      /\ \A j \in 1 .. Len(front) + Len(back) :
             (front \o back)[j] = IF j <= Len(front) THEN front[j] ELSE back[j - Len(front)]
  BY <1>2, <1>3, ConcatProperties
<1>5. Without(s, i) = front \o back
  BY DEF Without, front, back
<1>6. ASSUME NEW j \in 1 .. Len(front \o back)
      PROVE  \E k \in 1 .. Len(s) : (front \o back)[j] = s[k]
  <2>1. CASE j <= i - 1
    <3>1. (front \o back)[j] = s[j] /\ j \in 1 .. Len(s)
      BY <1>1, <1>2, <1>3, <1>4, <2>1
    <3>2. QED
      BY <3>1
  <2>2. CASE j > i - 1
    <3>1. (front \o back)[j] = s[j + 1] /\ j + 1 \in 1 .. Len(s)
      BY <1>1, <1>2, <1>3, <1>4, <2>2
    <3>2. QED
      BY <3>1
  <2>3. QED
    BY <1>1, <2>1, <2>2
<1>7. QED
  BY <1>4, <1>5, <1>6

\* Every step of the application or the worker of one node keeps the types.
LEMMA TypeStep ==
    ASSUME TypeOK, NEW n \in Nodes, Accounted(n), Pending(n), Step(n), UNCHANGED id
    PROVE  TypeOK'
<1>1. ASSUME NEW a \in Nodes, Connect(n, a) PROVE TypeOK'
  <2>1. ConnectTask(next_peer_id[n], a) \in Task
    BY DEF ConnectTask, Task, TypeOK
  <2>2. tasks' \in [Nodes -> Seq(Task)]
    BY <1>1, <2>1, EnqueueTasks DEF Connect
  <2>3. /\ next_peer_id' \in [Nodes -> PeerId]
        /\ \A k \in Nodes : next_peer_id[k] <= next_peer_id'[k]
    BY <1>1 DEF Connect, NextId, TypeOK, PeerId
  <2>4. origin' \in [Nodes -> SUBSET [peer : PeerId, address : Nodes, by : {"connect", "incoming"}]]
    BY <1>1 DEF Connect, TypeOK
  <2>5. ASSUME NEW k \in Nodes, NEW p \in DOMAIN peers[k] PROVE p \in 0 .. (next_peer_id'[k] - 1)
    <3>1. /\ next_peer_id[k] \in Nat /\ next_peer_id'[k] \in Nat
          /\ next_peer_id[k] <= next_peer_id'[k]
      BY <2>3 DEF TypeOK, PeerId
    <3>2. p \in 0 .. (next_peer_id[k] - 1)
      BY DEF TypeOK
    <3>3. QED
      BY <3>1, <3>2
  <2>6. QED
    BY <1>1, <2>2, <2>3, <2>4, <2>5 DEF Connect, TypeOK
<1>2. ASSUME NEW p \in 0 .. (next_peer_id[n] - 1), NEW m \in Msgs, Send(n, p, m) PROVE TypeOK'
  <2>1. SendTask(p, m) \in Task
    BY DEF SendTask, Task, TypeOK, PeerId
  <2>2. tasks' \in [Nodes -> Seq(Task)]
    BY <1>2, <2>1, EnqueueTasks DEF Send
  <2>3. QED
    BY <1>2, <2>2 DEF Send, Ask, TypeOK
<1>3. ASSUME NEW m \in Msgs, Broadcast(n, m) PROVE TypeOK'
  <2>1. BroadcastTask(m) \in Task
    BY DEF BroadcastTask, Task, TypeOK
  <2>2. tasks' \in [Nodes -> Seq(Task)]
    BY <1>3, <2>1, EnqueueTasks DEF Broadcast
  <2>3. QED
    BY <1>3, <2>2 DEF Broadcast, Ask, TypeOK
<1>4. CASE Call(n)
  <2>1. PICK i \in 1 .. Len(events[n]) :
            /\ calls' = [calls EXCEPT ![n] = Append(@, events[n][i])]
            /\ events' = [events EXCEPT ![n] = Without(@, i)]
    BY <1>4 DEF Call
  <2>2. /\ calls[n] \in Seq(Callback)
        /\ events[n] \in Seq(Event)
    BY DEF TypeOK
  <2>3. events[n][i] \in Callback /\ Without(events[n], i) \in Seq(Event)
    BY <2>1, <2>2, WithoutType DEF Callback
  <2>4. Append(calls[n], events[n][i]) \in Seq(Callback)
    BY <2>2, <2>3
  <2>5. /\ calls' \in [Nodes -> Seq(Callback)]
        /\ events' \in [Nodes -> Seq(Event)]
    BY <2>1, <2>3, <2>4 DEF TypeOK
  <2>6. QED
    BY <1>4, <2>5 DEF Call, TypeOK, historyVars
<1>5. CASE RunConnect(n)
  <2> DEFINE t == Head(tasks[n])
  <2>1. t \in Task /\ t.op = "connect" /\ tasks' \in [Nodes -> Seq(Task)]
    BY <1>5, DequeueType, DequeueTasks DEF RunConnect
  <2>2. t.peer \in PeerId /\ t.address \in Nodes
    BY <2>1 DEF Task
  <2>3. NewPeer(t.address) \in Peer
    BY <2>2, AckFieldAssumption DEF NewPeer, Peer, SeqNum, Field
  <2>4. PICK p \in PeerId, e \in Peer :
            p = t.peer /\ peers' = [peers EXCEPT ![n] = With(peers[n], p, e)]
    <3>1. peers' = [peers EXCEPT ![n] = With(peers[n], t.peer, NewPeer(t.address))]
      BY <1>5 DEF RunConnect
    <3>2. QED
      BY <2>2, <2>3, <3>1
  <2>5. t.peer \in 0 .. (next_peer_id[n] - 1)
    <3>1. \E o \in origin[n] : o.peer = t.peer
      BY <1>5, <2>1, DequeueTasks, ZenonT(60) DEF RunConnect, Pending
    <3>2. QED
      BY <2>2, <3>1 DEF Accounted, TypeOK, PeerId
  <2>6. /\ DOMAIN peers' = Nodes
        /\ DOMAIN peers'[n] = DOMAIN peers[n] \cup {t.peer}
        /\ \A k \in Nodes : k # n => peers'[k] = peers[k]
        /\ \A k \in Nodes : \A q \in DOMAIN peers'[k] : peers'[k][q] \in Peer
    <3>1. /\ DOMAIN peers' = Nodes
          /\ DOMAIN peers'[n] = DOMAIN peers[n] \cup {p}
          /\ \A k \in Nodes : k # n => peers'[k] = peers[k]
          /\ \A k \in Nodes : \A q \in DOMAIN peers'[k] : peers'[k][q] \in Peer
      <4>1. peers' = [peers EXCEPT ![n] = With(peers[n], p, e)]
        BY <2>4
      <4>2. QED
        BY <4>1, WithType
    <3>2. QED
      BY <2>4, <3>1
  <2>7. \A k \in Nodes : DOMAIN peers'[k] \subseteq 0 .. (next_peer_id[k] - 1)
    BY <2>5, <2>6 DEF TypeOK
  <2>8. QED
    BY <1>5, <2>1, <2>6, <2>7 DEF RunConnect, Dequeue, TypeOK, historyVars
<1>6. ASSUME NEW ps \in SUBSET DOMAIN peers[n], NEW m \in Msgs \cup {KEEP_ALIVE},
             DoSend(n, ps, m), tasks' \in [Nodes -> Seq(Task)], phase' \in [Nodes -> Phases]
      PROVE  TypeOK'
  <2>1. /\ DOMAIN peers' = Nodes
        /\ \A k \in Nodes : /\ DOMAIN peers'[k] = DOMAIN peers[k]
                            /\ \A p \in DOMAIN peers'[k] : peers'[k][p] \in Peer
        /\ sent_messages' \in [Nodes -> SUBSET Message]
        /\ network' \in [Nodes -> SUBSET Datagram]
    BY <1>6, DoSendType
  <2>2. QED
    BY <1>6, <2>1 DEF DoSend, TypeOK, historyVars
<1>7. CASE RunSend(n)
  <2> DEFINE t == Head(tasks[n])
  <2>1. t \in Task /\ t.op = "send" /\ tasks' \in [Nodes -> Seq(Task)]
    BY <1>7, DequeueType, DequeueTasks DEF RunSend
  <2>2. t.msg \in Msgs
    BY <2>1 DEF Task
  <2>3. DoSend(n, {t.peer} \cap DOMAIN peers[n], t.msg) /\ phase' = phase
    BY <1>7 DEF RunSend, Dequeue
  <2>4. QED
    BY <1>6, <2>1, <2>2, <2>3 DEF TypeOK
<1>8. CASE RunBroadcast(n)
  <2> DEFINE t == Head(tasks[n])
  <2>1. t \in Task /\ t.op = "broadcast" /\ tasks' \in [Nodes -> Seq(Task)]
    BY <1>8, DequeueType, DequeueTasks DEF RunBroadcast
  <2>2. t.msg \in Msgs
    BY <2>1 DEF Task
  <2>3. DoSend(n, DOMAIN peers[n], t.msg) /\ phase' = phase
    BY <1>8 DEF RunBroadcast, Dequeue
  <2>4. QED
    BY <1>6, <2>1, <2>2, <2>3 DEF TypeOK
<1>9. ASSUME NEW from, NEW to \in Phases, Goto(n, from, to)
      PROVE  phase' \in [Nodes -> Phases]
  BY <1>9 DEF Goto, TypeOK
<1>10. CASE SyncPoint(n) \/ IncomingDone(n) \/ TimeoutDone(n)
  <2>1. phase' \in [Nodes -> Phases]
    BY <1>9, <1>10 DEF SyncPoint, IncomingDone, TimeoutDone, Phases
  <2>2. QED
    BY <1>10, <2>1 DEF SyncPoint, IncomingDone, TimeoutDone, TypeOK, historyVars
<1>11. ASSUME NEW d \in network[n], HandleIncoming(n, d) PROVE TypeOK'
  <2> DEFINE known == Found(n, d.from) # {}
             q     == PeerOf(n, d)
  <2>0. d \in Datagram /\ d.from \in Nodes /\ q \in PeerId
    BY EntryType, SMTT(60) DEF TypeOK, Datagram
  <2>1. PICK queued \in Seq(Event) : events' = [events EXCEPT ![n] = @ \o queued]
    BY <1>11, Incoming
  <2>2. PICK e \in Peer : peers' = [peers EXCEPT ![n] = With(peers[n], q, e)]
    <3>1. \E e \in Peer :
              /\ e.address = d.from
              /\ e.sequence_number = Entry(n, d).sequence_number
              /\ e.remote_sequence_number >= Entry(n, d).remote_sequence_number
              /\ peers' = [peers EXCEPT ![n] = With(peers[n], q, e)]
      BY <1>11, Incoming
    <3>2. QED
      BY <3>1
  <2>3. events' \in [Nodes -> Seq(Event)]
    BY <2>1 DEF TypeOK
  <2>4. next_peer_id' = [next_peer_id EXCEPT ![n] = IF known THEN @ ELSE NextId(@)]
    BY <1>11, Incoming
  <2>5. /\ next_peer_id' \in [Nodes -> PeerId]
        /\ \A k \in Nodes : next_peer_id[k] <= next_peer_id'[k]
        /\ q \in 0 .. (next_peer_id'[n] - 1)
    <3>1. next_peer_id[n] \in Nat
      BY DEF TypeOK, PeerId
    <3>2. CASE known
      <4>1. q \in DOMAIN peers[n]
        BY <2>0, <3>2, EntryType
      <4>2. QED
        BY <2>4, <3>1, <3>2, <4>1 DEF TypeOK, PeerId
    <3>3. CASE ~known
      <4>1. q = next_peer_id[n]
        BY <3>3 DEF PeerOf
      <4>2. QED
        BY <2>4, <3>1, <3>3, <4>1 DEF NextId, TypeOK, PeerId
    <3>4. QED
      BY <3>2, <3>3
  <2>6. /\ DOMAIN peers' = Nodes
        /\ DOMAIN peers'[n] = DOMAIN peers[n] \cup {q}
        /\ \A k \in Nodes : k # n => peers'[k] = peers[k]
        /\ \A k \in Nodes : \A r \in DOMAIN peers'[k] : peers'[k][r] \in Peer
    BY <2>0, <2>2, WithType
  <2>7. \A k \in Nodes : DOMAIN peers'[k] \subseteq 0 .. (next_peer_id'[k] - 1)
    <3>1. SUFFICES ASSUME NEW k \in Nodes, NEW r \in DOMAIN peers'[k]
                   PROVE  r \in 0 .. (next_peer_id'[k] - 1)
      OBVIOUS
    <3>2. next_peer_id[k] \in Nat /\ next_peer_id'[k] \in Nat /\ next_peer_id[k] <= next_peer_id'[k]
      BY <2>5 DEF TypeOK, PeerId
    <3>3. r \in 0 .. (next_peer_id[k] - 1) \/ (k = n /\ r = q)
      BY <2>6 DEF TypeOK
    <3>4. QED
      BY <2>5, <3>2, <3>3
  <2>8. sent_messages' \in [Nodes -> SUBSET Message]
    <3>1. sent_messages' = [sent_messages EXCEPT ![n] = Unacked(@, d)]
      BY <1>11, Incoming
    <3>2. QED
      BY <3>1 DEF Unacked, TypeOK
  <2>9. origin' \in [Nodes -> SUBSET [peer : PeerId, address : Nodes, by : {"connect", "incoming"}]]
    <3>1. origin' = IF known THEN origin ELSE [origin EXCEPT ![n] = @ \cup
              {[peer |-> q, address |-> d.from, by |-> "incoming"]}]
      BY <1>11, Incoming
    <3>2. QED
      BY <2>0, <3>1 DEF TypeOK
  <2>10. acked' \in [Nodes -> SUBSET (Nodes \X Datagram)]
    <3> DEFINE gone == {k \in sent_messages[n] \ Unacked(sent_messages[n], d) :
                           k.peer \in DOMAIN peers[n]}
    <3>1. \A m \in gone : <<peers[n][m.peer].address, m.payload>> \in Nodes \X Datagram
      BY DEF TypeOK, Message, Peer
    <3>2. acked' = [acked EXCEPT ![n] = @ \cup
              {<<peers[n][m.peer].address, m.payload>> : m \in gone}]
      BY <1>11, Incoming
    <3>3. {<<peers[n][m.peer].address, m.payload>> : m \in gone} \in SUBSET (Nodes \X Datagram)
      BY <3>1
    <3>4. acked[n] \in SUBSET (Nodes \X Datagram)
      BY DEF TypeOK
    <3>5. acked[n] \cup {<<peers[n][m.peer].address, m.payload>> : m \in gone}
              \in SUBSET (Nodes \X Datagram)
      BY <3>3, <3>4
    <3>6. QED
      BY <3>2, <3>5 DEF TypeOK
  <2>11. heard' = [heard EXCEPT ![n] = @ \cup {d}] /\ UNCHANGED <<phase, tasks, calls, network, asked>>
    BY <1>11, Incoming
  <2>12. heard' \in [Nodes -> SUBSET Datagram]
    BY <2>0, <2>11 DEF TypeOK
  <2>13. QED
    BY <2>3, <2>5, <2>6, <2>7, <2>8, <2>9, <2>10, <2>11, <2>12 DEF TypeOK
<1>12. CASE KeepAlive(n)
  <2>1. PICK due \in SUBSET DOMAIN peers[n] : DoSend(n, due, KEEP_ALIVE)
    BY <1>12 DEF KeepAlive
  <2>2. phase' \in [Nodes -> Phases] /\ tasks' = tasks
    BY <1>9, <1>12 DEF KeepAlive, Phases
  <2>3. QED
    BY <1>6, <2>1, <2>2 DEF TypeOK
<1>13. ASSUME NEW p \in DOMAIN peers[n], Timeout(n, p) PROVE TypeOK'
  <2>1. Disconnected(p) \in Callback
    BY DEF Disconnected, Callback, TypeOK, PeerId
  <2>2. calls' \in [Nodes -> Seq(Callback)]
    BY <1>13, <2>1 DEF Timeout, TypeOK
  <2>3. peers'[n] = [q \in DOMAIN peers[n] \ {p} |-> peers[n][q]]
    BY <1>13 DEF Timeout, TypeOK
  <2>4. DOMAIN peers' = Nodes /\ \A k \in Nodes : k # n => peers'[k] = peers[k]
    BY <1>13 DEF Timeout, TypeOK
  <2>5. \A k \in Nodes : /\ DOMAIN peers'[k] \subseteq 0 .. (next_peer_id[k] - 1)
                         /\ \A q \in DOMAIN peers'[k] : peers'[k][q] \in Peer
    BY <2>3, <2>4 DEF TypeOK
  <2>6. QED
    BY <1>13, <2>2, <2>4, <2>5 DEF Timeout, TypeOK, historyVars
<1>14. CASE ResendReliable(n)
  <2>1. PICK late \in SUBSET sent_messages[n] :
            LET orphans == {m \in late : m.peer \notin DOMAIN peers[n]}
            IN  /\ SocketSend({<<peers[n][m.peer].address, m.payload>> : m \in late \ orphans})
                /\ sent_messages' = [sent_messages EXCEPT ![n] = @ \ orphans]
    BY <1>14 DEF ResendReliable
  <2> DEFINE orphans == {m \in late : m.peer \notin DOMAIN peers[n]}
             pairs   == {<<peers[n][m.peer].address, m.payload>> : m \in late \ orphans}
  <2>2. pairs \in SUBSET (Nodes \X Datagram)
    BY DEF TypeOK, Message, Peer
  <2>3. network' \in [Nodes -> SUBSET Datagram]
    BY <2>1, <2>2, SocketSendType
  <2>4. sent_messages' \in [Nodes -> SUBSET Message]
    BY <2>1 DEF TypeOK
  <2>5. phase' \in [Nodes -> Phases]
    BY <1>9, <1>14 DEF ResendReliable, Phases
  <2>6. QED
    BY <1>14, <2>3, <2>4, <2>5 DEF ResendReliable, TypeOK, historyVars
<1>15. QED
  BY <1>1, <1>2, <1>3, <1>4, <1>5, <1>7, <1>8, <1>10, <1>11, <1>12, <1>13, <1>14 DEF Step

\* A step of one node leaves the table, the tasks and the callbacks of the others alone.
LEMMA OthersKept ==
    ASSUME TypeOK, NEW n \in Nodes, Step(n), NEW k \in Nodes, k # n
    PROVE  UNCHANGED <<peers[k], origin[k], tasks[k], next_peer_id[k],
                       sent_messages[k], calls[k], events[k], asked[k]>>
<1> USE DEF TypeOK
<1>1. ASSUME NEW a \in Nodes, Connect(n, a)
      PROVE  UNCHANGED <<peers[k], origin[k], tasks[k], next_peer_id[k],
                         sent_messages[k], calls[k], events[k], asked[k]>>
  BY <1>1 DEF Connect, Enqueue
<1>2. ASSUME NEW p, NEW m, Send(n, p, m) \/ Broadcast(n, m)
      PROVE  UNCHANGED <<peers[k], origin[k], tasks[k], next_peer_id[k],
                         sent_messages[k], calls[k], events[k], asked[k]>>
  BY <1>2 DEF Send, Broadcast, Ask, Enqueue
<1>3. CASE Call(n)
  BY <1>3 DEF Call, historyVars
<1>4. CASE RunConnect(n)
  BY <1>4 DEF RunConnect, Dequeue, historyVars
<1>5. CASE RunSend(n) \/ RunBroadcast(n)
  BY <1>5 DEF RunSend, RunBroadcast, DoSend, Dequeue, historyVars
<1>6. CASE SyncPoint(n) \/ IncomingDone(n) \/ TimeoutDone(n)
  BY <1>6 DEF SyncPoint, IncomingDone, TimeoutDone, historyVars
<1>7. ASSUME NEW d \in network[n], HandleIncoming(n, d)
      PROVE  UNCHANGED <<peers[k], origin[k], tasks[k], next_peer_id[k],
                         sent_messages[k], calls[k], events[k], asked[k]>>
  <2>1. peers'[k] = peers[k] /\ events'[k] = events[k]
    BY <1>7, Incoming
  <2>2. QED
    BY <1>7, <2>1 DEF HandleIncoming
<1>8. CASE KeepAlive(n)
  BY <1>8 DEF KeepAlive, DoSend, historyVars
<1>9. ASSUME NEW p, Timeout(n, p)
      PROVE  UNCHANGED <<peers[k], origin[k], tasks[k], next_peer_id[k],
                         sent_messages[k], calls[k], events[k], asked[k]>>
  BY <1>9 DEF Timeout, historyVars
<1>10. CASE ResendReliable(n)
  BY <1>10 DEF ResendReliable, historyVars
<1>11. QED
  BY <1>1, <1>2, <1>3, <1>4, <1>5, <1>6, <1>7, <1>8, <1>9, <1>10 DEF Step

\* The entry p of n is the one that was there, with the same or later numbers.
SameEntry(n, p) ==
    /\ p \in DOMAIN peers[n]
    /\ peers'[n][p].address = peers[n][p].address
    /\ peers'[n][p].remote_sequence_number >= peers[n][p].remote_sequence_number
    /\ MaxSeq[n] < SeqMod - 1 => peers'[n][p].sequence_number >= peers[n][p].sequence_number

\* do_send changes nothing of an entry but its number, and that upwards.
LEMMA DoSendKeeps ==
    ASSUME TypeOK, NEW n \in Nodes, NEW ps \in SUBSET DOMAIN peers[n], NEW m, DoSend(n, ps, m),
           NEW p \in DOMAIN peers'[n]
    PROVE  SameEntry(n, p)
<1>1. peers'[n] = [q \in DOMAIN peers[n] |->
           IF q \in ps THEN [peers[n][q] EXCEPT !.sequence_number = Increment(@)]
           ELSE peers[n][q]]
  BY DEF DoSend, TypeOK
<1>2. p \in DOMAIN peers[n] /\ peers[n][p] \in Peer
  BY <1>1 DEF TypeOK
<1>3. CASE p \notin ps
  <2>1. peers'[n][p] = peers[n][p]
    BY <1>1, <1>2, <1>3
  <2>2. peers[n][p].remote_sequence_number \in Int /\ peers[n][p].sequence_number \in Int
    BY <1>2, AckFieldAssumption DEF Peer, SeqNum
  <2>3. QED
    BY <1>2, <2>1, <2>2 DEF SameEntry
<1>4. CASE p \in ps
  <2>1. peers'[n][p] = [peers[n][p] EXCEPT !.sequence_number = Increment(@)]
    BY <1>1, <1>2, <1>4
  <2>2. /\ peers'[n][p].address = peers[n][p].address
        /\ peers'[n][p].remote_sequence_number = peers[n][p].remote_sequence_number
        /\ peers'[n][p].sequence_number = Increment(peers[n][p].sequence_number)
    BY <1>2, <2>1 DEF Peer
  <2>3. peers[n][p].remote_sequence_number \in Int /\ peers[n][p].sequence_number \in Int
    BY <1>2, AckFieldAssumption DEF Peer, SeqNum
  <2>4. peers[n][p].sequence_number <= MaxSeq[n] /\ MaxSeq[n] \in Nat
    BY <1>4, NodeAssumption DEF DoSend
  <2>5. QED
    BY <1>2, <2>2, <2>3, <2>4, AckFieldAssumption DEF SameEntry, Increment
<1>5. QED
  BY <1>3, <1>4

\* What a step does to the table, unless it makes an entry or hands out an id.
LEMMA TableKept ==
    ASSUME TypeOK, NEW n \in Nodes, Step(n),
           \A a \in Nodes : ~Connect(n, a),
           ~RunConnect(n),
           \A d \in network[n] : ~HandleIncoming(n, d)
    PROVE  /\ UNCHANGED <<next_peer_id, origin>>
           /\ \A p \in DOMAIN peers'[n] : SameEntry(n, p)
<1>0. ASSUME peers' = peers PROVE \A p \in DOMAIN peers'[n] : SameEntry(n, p)
  <2>1. SUFFICES ASSUME NEW p \in DOMAIN peers[n] PROVE SameEntry(n, p)
    BY <1>0
  <2>2. peers[n][p] \in Peer
    BY DEF TypeOK
  <2>3. peers[n][p].remote_sequence_number \in Int /\ peers[n][p].sequence_number \in Int
    BY <2>2, AckFieldAssumption DEF Peer, SeqNum
  <2>4. QED
    BY <1>0, <2>3 DEF SameEntry
<1>1. ASSUME NEW p, NEW m, Send(n, p, m) \/ Broadcast(n, m)
      PROVE  UNCHANGED <<next_peer_id, origin, peers>>
  BY <1>1 DEF Send, Broadcast, Ask
<1>2. CASE Call(n)
  BY <1>0, <1>2 DEF Call, historyVars
<1>3. CASE SyncPoint(n) \/ IncomingDone(n) \/ TimeoutDone(n)
  BY <1>0, <1>3 DEF SyncPoint, IncomingDone, TimeoutDone, historyVars
<1>4. CASE RunSend(n)
  <2> DEFINE t == Head(tasks[n])
  <2>1. DoSend(n, {t.peer} \cap DOMAIN peers[n], t.msg)
    BY <1>4 DEF RunSend
  <2>2. \A p \in DOMAIN peers'[n] : SameEntry(n, p)
    BY <2>1, DoSendKeeps
  <2>3. QED
    BY <2>1, <2>2 DEF DoSend, historyVars
<1>5. CASE RunBroadcast(n)
  <2>1. DoSend(n, DOMAIN peers[n], Head(tasks[n]).msg)
    BY <1>5 DEF RunBroadcast
  <2>2. \A p \in DOMAIN peers'[n] : SameEntry(n, p)
    BY <2>1, DoSendKeeps
  <2>3. QED
    BY <2>1, <2>2 DEF DoSend, historyVars
<1>6. CASE KeepAlive(n)
  <2>1. PICK due \in SUBSET DOMAIN peers[n] : DoSend(n, due, KEEP_ALIVE)
    BY <1>6 DEF KeepAlive
  <2>2. \A p \in DOMAIN peers'[n] : SameEntry(n, p)
    BY <2>1, DoSendKeeps
  <2>3. QED
    BY <2>1, <2>2 DEF DoSend, historyVars
<1>7. ASSUME NEW q \in DOMAIN peers[n], Timeout(n, q)
      PROVE  /\ UNCHANGED <<next_peer_id, origin>>
             /\ \A p \in DOMAIN peers'[n] : SameEntry(n, p)
  <2>1. peers'[n] = [r \in DOMAIN peers[n] \ {q} |-> peers[n][r]]
    BY <1>7 DEF Timeout, TypeOK
  <2>2. ASSUME NEW p \in DOMAIN peers'[n] PROVE SameEntry(n, p)
    <3>1. p \in DOMAIN peers[n] /\ peers'[n][p] = peers[n][p] /\ peers[n][p] \in Peer
      BY <2>1 DEF TypeOK
    <3>2. peers[n][p].remote_sequence_number \in Int /\ peers[n][p].sequence_number \in Int
      BY <3>1, AckFieldAssumption DEF Peer, SeqNum
    <3>3. QED
      BY <3>1, <3>2 DEF SameEntry
  <2>3. QED
    BY <1>7, <2>2 DEF Timeout, historyVars
<1>8. CASE ResendReliable(n)
  BY <1>0, <1>8 DEF ResendReliable, historyVars
<1>9. QED
  BY <1>0, <1>1, <1>2, <1>3, <1>4, <1>5, <1>6, <1>7, <1>8 DEF Step

\* An entry that a step does not touch is the same entry.
LEMMA Untouched ==
    ASSUME TypeOK, NEW n \in Nodes, NEW p \in DOMAIN peers[n], peers'[n][p] = peers[n][p]
    PROVE  SameEntry(n, p)
<1>1. peers[n][p] \in Peer
  BY DEF TypeOK
<1>2. peers[n][p].remote_sequence_number \in Int /\ peers[n][p].sequence_number \in Int
  BY <1>1, AckFieldAssumption DEF Peer, SeqNum
<1>3. QED
  BY <1>2 DEF SameEntry

\* The closure of connect makes the entry its task names, which was not there.
LEMMA TableConnect ==
    ASSUME TypeOK, NEW n \in Nodes, Accounted(n), Pending(n), RunConnect(n)
    PROVE  LET t == tasks[n][1]
           IN  /\ UNCHANGED <<next_peer_id, origin>>
               /\ [peer |-> t.peer, address |-> t.address, by |-> "connect"] \in origin[n]
               /\ t.peer \notin DOMAIN peers[n]
               /\ DOMAIN peers'[n] = DOMAIN peers[n] \cup {t.peer}
               /\ peers'[n][t.peer].address = t.address
               /\ \A p \in DOMAIN peers[n] : SameEntry(n, p)
<1> DEFINE t == tasks[n][1]
<1>1. /\ t = Head(tasks[n])
      /\ t \in Task
      /\ t.op = "connect"
      /\ 1 \in 1 .. Len(tasks[n])
  BY DequeueType, DequeueTasks DEF RunConnect
<1>2. t.peer \in PeerId /\ t.address \in Nodes
  BY <1>1 DEF Task
<1>3. /\ [peer |-> t.peer, address |-> t.address, by |-> "connect"] \in origin[n]
      /\ t.peer \notin DOMAIN peers[n]
  BY <1>1 DEF Pending
<1>4. peers'[n] = With(peers[n], t.peer, NewPeer(t.address))
  BY <1>1 DEF RunConnect, TypeOK
<1>5. /\ DOMAIN peers'[n] = DOMAIN peers[n] \cup {t.peer}
      /\ peers'[n][t.peer] = NewPeer(t.address)
      /\ \A p \in DOMAIN peers[n] : peers'[n][p] = peers[n][p]
  BY <1>3, <1>4 DEF With
<1>6. \A p \in DOMAIN peers[n] : SameEntry(n, p)
  BY <1>5, Untouched
<1>7. peers'[n][t.peer].address = t.address
  BY <1>5 DEF NewPeer
<1>8. QED
  BY <1>3, <1>5, <1>6, <1>7 DEF RunConnect, historyVars

(***************************************************************************)
(* handle_incoming makes an entry under a new id only if no entry has the    *)
(* address; every other entry is the same entry afterwards.                 *)
(***************************************************************************)
LEMMA TableIncoming ==
    ASSUME TypeOK, NEW n \in Nodes, Accounted(n), NEW d \in network[n], HandleIncoming(n, d)
    PROVE  LET q == PeerOf(n, d)
           IN  /\ \A p \in DOMAIN peers[n] : SameEntry(n, p)
               /\ peers'[n][q].address = d.from
               /\ DOMAIN peers'[n] = DOMAIN peers[n] \cup {q}
               /\ \/ /\ q \in DOMAIN peers[n]
                     /\ UNCHANGED <<next_peer_id, origin>>
                  \/ /\ q = next_peer_id[n]
                     /\ q \notin DOMAIN peers[n]
                     /\ \A p \in DOMAIN peers[n] : peers[n][p].address # d.from
                     /\ next_peer_id'[n] = next_peer_id[n] + 1
                     /\ origin'[n] = origin[n] \cup
                            {[peer |-> q, address |-> d.from, by |-> "incoming"]}
<1> DEFINE q     == PeerOf(n, d)
           known == Found(n, d.from) # {}
<1>1. d \in Datagram /\ Entry(n, d) \in Peer /\ q \in PeerId
  BY EntryType DEF TypeOK
<1>2. \E x \in Peer :
          /\ x.address = d.from
          /\ x.sequence_number = Entry(n, d).sequence_number
          /\ x.remote_sequence_number >= Entry(n, d).remote_sequence_number
          /\ peers' = [peers EXCEPT ![n] = With(peers[n], q, x)]
  BY Incoming
<1>3. PICK e \in Peer :
          /\ e.address = d.from
          /\ e.sequence_number = Entry(n, d).sequence_number
          /\ e.remote_sequence_number >= Entry(n, d).remote_sequence_number
          /\ peers' = [peers EXCEPT ![n] = With(peers[n], q, e)]
  BY <1>2
<1>4. /\ DOMAIN peers'[n] = DOMAIN peers[n] \cup {q}
      /\ peers'[n][q] = e
      /\ \A p \in DOMAIN peers[n] : p # q => peers'[n][p] = peers[n][p]
  BY <1>3 DEF With, TypeOK
<1>5. /\ next_peer_id' = [next_peer_id EXCEPT ![n] = IF known THEN @ ELSE NextId(@)]
      /\ origin' = IF known THEN origin ELSE [origin EXCEPT ![n] = @ \cup
             {[peer |-> q, address |-> d.from, by |-> "incoming"]}]
  BY Incoming
<1>6. CASE known
  <2>1. q \in DOMAIN peers[n] /\ Entry(n, d) = peers[n][q]
    BY <1>1, <1>6, EntryType DEF Entry, PeerOf
  <2>2. Entry(n, d).address = d.from
    BY <1>1, EntryType
  <2>3. e.sequence_number \in Int
    BY <1>3, AckFieldAssumption DEF Peer, SeqNum
  <2>4. SameEntry(n, q)
    BY <1>3, <1>4, <2>1, <2>2, <2>3 DEF SameEntry
  <2>5. \A p \in DOMAIN peers[n] : SameEntry(n, p)
    BY <1>4, <2>4, Untouched
  <2>6. UNCHANGED <<next_peer_id, origin>>
    BY <1>5, <1>6 DEF TypeOK
  <2>7. QED
    BY <1>3, <1>4, <2>1, <2>5, <2>6
<1>7. CASE ~known
  <2>1. q = next_peer_id[n] /\ next_peer_id[n] \in Nat
    BY <1>7 DEF PeerOf, TypeOK, PeerId
  <2>2. q \notin DOMAIN peers[n]
    BY <2>1 DEF TypeOK
  <2>3. \A p \in DOMAIN peers[n] : peers[n][p].address # d.from
    BY <1>7 DEF Found
  <2>4. /\ next_peer_id'[n] = next_peer_id[n] + 1
        /\ origin'[n] = origin[n] \cup {[peer |-> q, address |-> d.from, by |-> "incoming"]}
    BY <1>5, <1>7 DEF NextId, TypeOK
  <2>5. \A p \in DOMAIN peers[n] : SameEntry(n, p)
    BY <1>4, <2>2, Untouched
  <2>6. QED
    BY <1>3, <1>4, <2>1, <2>2, <2>3, <2>4, <2>5
<1>8. QED
  BY <1>6, <1>7

\* Connect hands out the next id and queues the task that carries it.
LEMMA TableAsked ==
    ASSUME TypeOK, NEW n \in Nodes, NEW a \in Nodes, Connect(n, a)
    PROVE  /\ peers' = peers
           /\ next_peer_id[n] \in Nat
           /\ next_peer_id'[n] = next_peer_id[n] + 1
           /\ origin'[n] = origin[n] \cup
                  {[peer |-> next_peer_id[n], address |-> a, by |-> "connect"]}
           /\ Len(tasks[n]) \in Nat
           /\ Len(tasks'[n]) = Len(tasks[n]) + 1
           /\ tasks'[n][Len(tasks[n]) + 1] = ConnectTask(next_peer_id[n], a)
           /\ \A i \in 1 .. Len(tasks[n]) : tasks'[n][i] = tasks[n][i]
<1>1. ConnectTask(next_peer_id[n], a) \in Task
  BY DEF ConnectTask, Task, TypeOK
<1>2. Len(tasks[n]) \in Nat
  BY DEF TypeOK
<1>3. QED
  BY <1>1, <1>2, EnqueueTasks DEF Connect, NextId, TypeOK, PeerId

\* Every id stays accounted for, once.
LEMMA AccountedStep ==
    ASSUME TypeOK, NEW n \in Nodes, Accounted(n), Pending(n), Step(n)
    PROVE  Accounted(n)'
<1>0. /\ next_peer_id[n] \in Nat
      /\ \A o \in origin[n] : o.peer \in Nat /\ o.peer < next_peer_id[n]
      /\ \A o, u \in origin[n] : o.peer = u.peer => o = u
      /\ \A p \in DOMAIN peers[n] :
             \E o \in origin[n] : o.peer = p /\ o.address = peers[n][p].address
  BY DEF Accounted, TypeOK, PeerId
<1>1. ASSUME NEW a \in Nodes, Connect(n, a) PROVE Accounted(n)'
  BY <1>0, <1>1, TableAsked DEF Accounted
<1>2. CASE RunConnect(n)
  <2> DEFINE t == tasks[n][1]
  <2>1. /\ UNCHANGED <<next_peer_id, origin>>
        /\ [peer |-> t.peer, address |-> t.address, by |-> "connect"] \in origin[n]
        /\ DOMAIN peers'[n] = DOMAIN peers[n] \cup {t.peer}
        /\ peers'[n][t.peer].address = t.address
        /\ \A p \in DOMAIN peers[n] : peers'[n][p].address = peers[n][p].address
    BY <1>2, TableConnect DEF SameEntry
  <2>2. ASSUME NEW p \in DOMAIN peers'[n]
        PROVE  \E o \in origin[n] : o.peer = p /\ o.address = peers'[n][p].address
    BY <1>0, <2>1
  <2>3. QED
    BY <1>0, <2>1, <2>2 DEF Accounted
<1>3. ASSUME NEW d \in network[n], HandleIncoming(n, d) PROVE Accounted(n)'
  <2> DEFINE q == PeerOf(n, d)
  <2>1. /\ \A p \in DOMAIN peers[n] : peers'[n][p].address = peers[n][p].address
        /\ peers'[n][q].address = d.from
        /\ DOMAIN peers'[n] = DOMAIN peers[n] \cup {q}
        /\ \/ /\ q \in DOMAIN peers[n]
              /\ UNCHANGED <<next_peer_id, origin>>
           \/ /\ q = next_peer_id[n]
              /\ q \notin DOMAIN peers[n]
              /\ next_peer_id'[n] = next_peer_id[n] + 1
              /\ origin'[n] = origin[n] \cup
                     {[peer |-> q, address |-> d.from, by |-> "incoming"]}
    BY <1>3, TableIncoming DEF SameEntry
  <2> HIDE DEF q
  <2>2. CASE q \in DOMAIN peers[n] /\ UNCHANGED <<next_peer_id, origin>>
    BY <1>0, <2>1, <2>2 DEF Accounted
  <2>3. CASE /\ q = next_peer_id[n]
             /\ q \notin DOMAIN peers[n]
             /\ next_peer_id'[n] = next_peer_id[n] + 1
             /\ origin'[n] = origin[n] \cup
                    {[peer |-> q, address |-> d.from, by |-> "incoming"]}
    <3>1. \A o \in origin'[n] : o.peer < next_peer_id'[n]
      BY <1>0, <2>3
    <3>2. \A o, u \in origin'[n] : o.peer = u.peer => o = u
      BY <1>0, <2>3
    <3>3. ASSUME NEW p \in DOMAIN peers'[n]
          PROVE  \E o \in origin'[n] : o.peer = p /\ o.address = peers'[n][p].address
      <4>1. CASE p = q
        <5> DEFINE r == [peer |-> q, address |-> d.from, by |-> "incoming"]
        <5>1. r.peer = p /\ r.address = peers'[n][p].address
          BY <2>1, <4>1
        <5>2. r \in origin'[n]
          BY <2>3
        <5> HIDE DEF r
        <5>3. QED
          BY <5>1, <5>2
      <4>2. CASE p \in DOMAIN peers[n]
        BY <1>0, <2>1, <2>3, <4>2
      <4>3. QED
        BY <2>1, <4>1, <4>2
    <3>4. QED
      BY <3>1, <3>2, <3>3 DEF Accounted
  <2>4. QED
    BY <2>1, <2>2, <2>3
<1>4. CASE /\ \A a \in Nodes : ~Connect(n, a)
           /\ ~RunConnect(n)
           /\ \A d \in network[n] : ~HandleIncoming(n, d)
  <2>1. /\ UNCHANGED <<next_peer_id, origin>>
        /\ \A p \in DOMAIN peers'[n] : /\ p \in DOMAIN peers[n]
                                       /\ peers'[n][p].address = peers[n][p].address
    BY <1>4, TableKept DEF SameEntry
  <2>2. QED
    BY <1>0, <2>1 DEF Accounted
<1>5. QED
  BY <1>1, <1>2, <1>3, <1>4

(***************************************************************************)
(* Tasks that stay queued, c places further ahead, are still pending if       *)
(* none of their ids has got into the table.                                *)
(***************************************************************************)
LEMMA PendingKept ==
    ASSUME TypeOK, NEW n \in Nodes, Pending(n), NEW c \in {0, 1},
           origin[n] \subseteq origin'[n],
           Len(tasks'[n]) \in Nat, Len(tasks[n]) \in Nat,
           \A i \in 1 .. Len(tasks'[n]) : tasks'[n][i].op = "connect" =>
               /\ i + c \in 1 .. Len(tasks[n])
               /\ tasks'[n][i] = tasks[n][i + c]
               /\ tasks[n][i + c].peer \notin DOMAIN peers'[n]
    PROVE  Pending(n)'
<1>1. SUFFICES ASSUME NEW i \in 1 .. Len(tasks'[n]), tasks'[n][i].op = "connect"
      PROVE  /\ [peer |-> tasks'[n][i].peer, address |-> tasks'[n][i].address, by |-> "connect"]
                    \in origin'[n]
             /\ tasks'[n][i].peer \notin DOMAIN peers'[n]
             /\ \A j \in 1 .. Len(tasks'[n]) :
                    (i # j /\ tasks'[n][j].op = "connect") => tasks'[n][i].peer # tasks'[n][j].peer
  BY DEF Pending
<1>2. /\ i + c \in 1 .. Len(tasks[n])
      /\ tasks'[n][i] = tasks[n][i + c]
      /\ tasks[n][i + c].peer \notin DOMAIN peers'[n]
      /\ [peer |-> tasks[n][i + c].peer, address |-> tasks[n][i + c].address, by |-> "connect"]
             \in origin[n]
  BY <1>1 DEF Pending
<1>3. ASSUME NEW j \in 1 .. Len(tasks'[n]), i # j, tasks'[n][j].op = "connect"
      PROVE  tasks'[n][i].peer # tasks'[n][j].peer
  <2>1. j + c \in 1 .. Len(tasks[n]) /\ tasks'[n][j] = tasks[n][j + c] /\ i + c # j + c
    BY <1>3
  <2>2. \A x, y \in 1 .. Len(tasks[n]) :
            (x # y /\ tasks[n][x].op = "connect" /\ tasks[n][y].op = "connect") =>
                tasks[n][x].peer # tasks[n][y].peer
    BY DEF Pending
  <2>3. tasks[n][i + c].op = "connect" /\ tasks[n][j + c].op = "connect"
    BY <1>1, <1>2, <1>3, <2>1
  <2>4. tasks[n][i + c].peer # tasks[n][j + c].peer
    BY <1>2, <2>1, <2>2, <2>3
  <2>5. QED
    BY <1>2, <2>1, <2>4
<1>4. QED
  BY <1>2, <1>3

\* An id that waits in a connect task does not get into the table in any other way.
LEMMA PendingStep ==
    ASSUME TypeOK, NEW n \in Nodes, Accounted(n), Pending(n), Step(n)
    PROVE  Pending(n)'
<1>0. tasks[n] \in Seq(Task) /\ Len(tasks[n]) \in Nat /\ next_peer_id[n] \in Nat
  BY DEF TypeOK, PeerId
<1>1. \A i \in 1 .. Len(tasks[n]) : tasks[n][i].op = "connect" =>
          /\ tasks[n][i].peer \notin DOMAIN peers[n]
          /\ tasks[n][i].peer < next_peer_id[n]
  BY DEF Pending, Accounted
<1>2. ASSUME NEW a \in Nodes, Connect(n, a) PROVE Pending(n)'
  <2> DEFINE t == ConnectTask(next_peer_id[n], a)
  <2>1. /\ peers' = peers
        /\ origin'[n] = origin[n] \cup
               {[peer |-> next_peer_id[n], address |-> a, by |-> "connect"]}
        /\ Len(tasks'[n]) = Len(tasks[n]) + 1
        /\ tasks'[n][Len(tasks[n]) + 1] = t
        /\ \A i \in 1 .. Len(tasks[n]) : tasks'[n][i] = tasks[n][i]
    BY <1>2, TableAsked
  <2>2. t.peer = next_peer_id[n] /\ t.address = a /\ next_peer_id[n] \notin DOMAIN peers[n]
    BY <1>0 DEF ConnectTask, TypeOK
  <2>3. ASSUME NEW i \in 1 .. Len(tasks'[n]), tasks'[n][i].op = "connect"
        PROVE  /\ [peer |-> tasks'[n][i].peer, address |-> tasks'[n][i].address,
                     by |-> "connect"] \in origin'[n]
               /\ tasks'[n][i].peer \notin DOMAIN peers'[n]
    <3>1. CASE i = Len(tasks[n]) + 1
      BY <2>1, <2>2, <3>1
    <3>2. CASE i \in 1 .. Len(tasks[n])
      BY <2>1, <2>3, <3>2 DEF Pending
    <3>3. QED
      BY <1>0, <2>1, <3>1, <3>2
  <2>4. ASSUME NEW i \in 1 .. Len(tasks'[n]), tasks'[n][i].op = "connect",
               NEW j \in 1 .. Len(tasks'[n]), tasks'[n][j].op = "connect", i # j
        PROVE  tasks'[n][i].peer # tasks'[n][j].peer
    <3>1. CASE i = Len(tasks[n]) + 1
      <4>1. j \in 1 .. Len(tasks[n]) /\ tasks'[n][j] = tasks[n][j]
        BY <1>0, <2>1, <2>4, <3>1
      <4>2. tasks[n][j].peer < next_peer_id[n]
        BY <1>1, <2>4, <4>1
      <4>3. QED
        BY <1>0, <2>1, <2>2, <3>1, <4>1, <4>2
    <3>2. CASE j = Len(tasks[n]) + 1
      <4>1. i \in 1 .. Len(tasks[n]) /\ tasks'[n][i] = tasks[n][i]
        BY <1>0, <2>1, <2>4, <3>2
      <4>2. tasks[n][i].peer < next_peer_id[n]
        BY <1>1, <2>4, <4>1
      <4>3. QED
        BY <1>0, <2>1, <2>2, <3>2, <4>1, <4>2
    <3>3. CASE i \in 1 .. Len(tasks[n]) /\ j \in 1 .. Len(tasks[n])
      BY <2>1, <2>4, <3>3 DEF Pending
    <3>4. QED
      BY <1>0, <2>1, <3>1, <3>2, <3>3
  <2>5. QED
    BY <2>3, <2>4 DEF Pending
<1>3. CASE RunConnect(n)
  <2>1. /\ DOMAIN peers'[n] = DOMAIN peers[n] \cup {tasks[n][1].peer}
        /\ origin' = origin
    BY <1>3, TableConnect
  <2>2. /\ 1 \in 1 .. Len(tasks[n])
        /\ tasks[n][1].op = "connect"
        /\ \A i \in 1 .. Len(tasks'[n]) : /\ i + 1 \in 1 .. Len(tasks[n])
                                          /\ tasks'[n][i] = tasks[n][i + 1]
        /\ Len(tasks'[n]) \in Nat
    <3>1. tasks' \in [Nodes -> Seq(Task)]
      BY <1>3, DequeueType DEF RunConnect
    <3>2. Len(tasks'[n]) \in Nat
      BY <3>1
    <3>3. QED
      BY <1>3, <3>2, DequeueTasks DEF RunConnect
  <2>3. \A x \in 1 .. Len(tasks[n]) : (x # 1 /\ tasks[n][x].op = "connect") =>
            tasks[n][x].peer \notin DOMAIN peers'[n]
    BY <1>1, <2>1, <2>2 DEF Pending
  <2>4. \A i \in 1 .. Len(tasks'[n]) : tasks'[n][i].op = "connect" =>
            /\ i + 1 \in 1 .. Len(tasks[n])
            /\ tasks'[n][i] = tasks[n][i + 1]
            /\ tasks[n][i + 1].peer \notin DOMAIN peers'[n]
    BY <2>2, <2>3
  <2>5. QED
    BY <1>0, <2>1, <2>2, <2>4, PendingKept
<1>4. CASE RunSend(n) \/ RunBroadcast(n)
  <2>1. PICK op \in {"send", "broadcast"} : Dequeue(n, op)
    BY <1>4 DEF RunSend, RunBroadcast
  <2>2. /\ \A i \in 1 .. Len(tasks'[n]) : /\ i + 1 \in 1 .. Len(tasks[n])
                                          /\ tasks'[n][i] = tasks[n][i + 1]
        /\ Len(tasks'[n]) \in Nat
    <3>1. tasks' \in [Nodes -> Seq(Task)]
      BY <2>1, DequeueType
    <3>2. Len(tasks'[n]) \in Nat
      BY <3>1
    <3>3. QED
      BY <2>1, <3>2, DequeueTasks
  <2>3. DOMAIN peers'[n] = DOMAIN peers[n] /\ origin' = origin
    BY <1>4 DEF RunSend, RunBroadcast, DoSend, historyVars, TypeOK
  <2>4. \A i \in 1 .. Len(tasks'[n]) : tasks'[n][i].op = "connect" =>
            /\ i + 1 \in 1 .. Len(tasks[n])
            /\ tasks'[n][i] = tasks[n][i + 1]
            /\ tasks[n][i + 1].peer \notin DOMAIN peers'[n]
    BY <1>1, <2>2, <2>3
  <2>5. QED
    BY <1>0, <2>2, <2>3, <2>4, PendingKept
<1>5. ASSUME NEW t \in Task, t.op # "connect", Enqueue(n, t), peers' = peers, origin' = origin
      PROVE  Pending(n)'
  <2>1. /\ Len(tasks'[n]) = Len(tasks[n]) + 1
        /\ tasks'[n][Len(tasks[n]) + 1] = t
        /\ \A i \in 1 .. Len(tasks[n]) : tasks'[n][i] = tasks[n][i]
    BY <1>5, EnqueueTasks
  <2>2. \A i \in 1 .. Len(tasks'[n]) : tasks'[n][i].op = "connect" =>
            /\ i + 0 \in 1 .. Len(tasks[n])
            /\ tasks'[n][i] = tasks[n][i + 0]
            /\ tasks[n][i + 0].peer \notin DOMAIN peers'[n]
    BY <1>0, <1>1, <1>5, <2>1
  <2>3. QED
    BY <1>0, <1>5, <2>1, <2>2, PendingKept
<1>6. ASSUME NEW p \in 0 .. (next_peer_id[n] - 1), NEW m \in Msgs, Send(n, p, m)
      PROVE  Pending(n)'
  <2>1. SendTask(p, m) \in Task /\ SendTask(p, m).op # "connect"
    BY DEF SendTask, Task, PeerId
  <2>2. peers' = peers /\ origin' = origin /\ Enqueue(n, SendTask(p, m))
    BY <1>6 DEF Send, Ask
  <2>3. QED
    BY <1>5, <2>1, <2>2
<1>9. ASSUME NEW m \in Msgs, Broadcast(n, m) PROVE Pending(n)'
  <2>1. BroadcastTask(m) \in Task /\ BroadcastTask(m).op # "connect"
    BY DEF BroadcastTask, Task
  <2>2. peers' = peers /\ origin' = origin /\ Enqueue(n, BroadcastTask(m))
    BY <1>9 DEF Broadcast, Ask
  <2>3. QED
    BY <1>5, <2>1, <2>2
<1>7. ASSUME tasks' = tasks, origin[n] \subseteq origin'[n],
             \A i \in 1 .. Len(tasks[n]) : tasks[n][i].op = "connect" =>
                 tasks[n][i].peer \notin DOMAIN peers'[n]
      PROVE  Pending(n)'
  BY <1>0, <1>7, PendingKept
<1>8. ASSUME NEW d \in network[n], HandleIncoming(n, d) PROVE Pending(n)'
  <2> DEFINE q == PeerOf(n, d)
  <2>1. /\ DOMAIN peers'[n] = DOMAIN peers[n] \cup {q}
        /\ \/ q \in DOMAIN peers[n] /\ origin' = origin
           \/ q = next_peer_id[n] /\ origin[n] \subseteq origin'[n]
    BY <1>8, TableIncoming
  <2>2. tasks' = tasks
    BY <1>8 DEF HandleIncoming
  <2> HIDE DEF q
  <2>3. \A i \in 1 .. Len(tasks[n]) : tasks[n][i].op = "connect" =>
            tasks[n][i].peer # next_peer_id[n] /\ tasks[n][i].peer \notin DOMAIN peers[n]
    BY <1>0, <1>1
  <2>4. \A i \in 1 .. Len(tasks[n]) : tasks[n][i].op = "connect" =>
            tasks[n][i].peer \notin DOMAIN peers'[n]
    BY <2>1, <2>3
  <2>5. origin[n] \subseteq origin'[n]
    BY <2>1
  <2>6. QED
    BY <1>7, <2>2, <2>4, <2>5
<1>10. CASE Call(n) \/ SyncPoint(n) \/ IncomingDone(n) \/ TimeoutDone(n) \/ ResendReliable(n)
  <2>1. tasks' = tasks /\ origin' = origin /\ peers' = peers
    BY <1>10 DEF Call, SyncPoint, IncomingDone, TimeoutDone, ResendReliable, historyVars
  <2>2. QED
    BY <1>1, <1>7, <2>1
<1>11. CASE KeepAlive(n)
  <2>1. tasks' = tasks /\ origin' = origin /\ DOMAIN peers'[n] = DOMAIN peers[n]
    BY <1>11 DEF KeepAlive, DoSend, historyVars, TypeOK
  <2>2. QED
    BY <1>1, <1>7, <2>1
<1>12. ASSUME NEW p \in DOMAIN peers[n], Timeout(n, p) PROVE Pending(n)'
  <2>1. tasks' = tasks /\ origin' = origin /\ DOMAIN peers'[n] \subseteq DOMAIN peers[n]
    BY <1>12 DEF Timeout, historyVars, TypeOK
  <2>2. QED
    BY <1>1, <1>7, <2>1
<1>13. QED
  BY <1>2, <1>3, <1>4, <1>6, <1>8, <1>9, <1>10, <1>11, <1>12 DEF Step

\* A step of any node keeps the invariant.
LEMMA TableStep ==
    ASSUME TableOK, [Next]_vars
    PROVE  TableOK'
<1>1. CASE UNCHANGED vars
  BY <1>1 DEF TableOK, TypeOK, Accounted, Pending, vars, stateVars, historyVars
<1>2. ASSUME UNCHANGED id, NEW n \in Nodes, Step(n) PROVE TableOK'
  <2>1. TypeOK /\ \A k \in Nodes : Accounted(k) /\ Pending(k)
    BY DEF TableOK
  <2>2. TypeOK'
    BY <1>2, <2>1, TypeStep
  <2>3. Accounted(n)' /\ Pending(n)'
    BY <1>2, <2>1, AccountedStep, PendingStep
  <2>4. ASSUME NEW k \in Nodes, k # n PROVE Accounted(k)' /\ Pending(k)'
    <3>1. UNCHANGED <<peers[k], origin[k], tasks[k], next_peer_id[k]>>
      BY <1>2, <2>1, <2>4, OthersKept
    <3>2. Accounted(k) /\ Pending(k)
      BY <2>1
    <3>3. QED
      BY <3>1, <3>2 DEF Accounted, Pending
  <2>5. QED
    BY <2>2, <2>3, <2>4 DEF TableOK
<1>3. QED
  BY <1>1, <1>2 DEF Next

\* With empty tables and queues it holds.
LEMMA TableInit ==
    ASSUME Init
    PROVE  TableOK
<1>1. TypeOK
  <2>1. /\ DOMAIN peers = Nodes
        /\ \A n \in Nodes : DOMAIN peers[n] = {}
    BY DEF Init
  <2>2. /\ id \in [Nodes -> Ids]
        /\ phase \in [Nodes -> Phases]
        /\ next_peer_id \in [Nodes -> PeerId]
        /\ sent_messages \in [Nodes -> SUBSET Message]
        /\ network \in [Nodes -> SUBSET Datagram]
        /\ asked \in [Nodes -> SUBSET Msgs]
        /\ acked \in [Nodes -> SUBSET (Nodes \X Datagram)]
        /\ heard \in [Nodes -> SUBSET Datagram]
    BY DEF Init, Phases, PeerId
  <2>3. /\ tasks \in [Nodes -> Seq(Task)]
        /\ events \in [Nodes -> Seq(Event)]
        /\ calls \in [Nodes -> Seq(Callback)]
    BY DEF Init
  <2>4. origin \in [Nodes -> SUBSET [peer : PeerId, address : Nodes, by : {"connect", "incoming"}]]
    BY DEF Init
  <2>5. QED
    BY <2>1, <2>2, <2>3, <2>4 DEF TypeOK
<1>2. \A n \in Nodes : Accounted(n) /\ Pending(n)
  BY DEF Init, Accounted, Pending
<1>3. QED
  BY <1>1, <1>2 DEF TableOK

\* TableOK holds in every reachable state.
THEOREM TableInvariant == Spec => []TableOK
<1>1. Init => TableOK
  BY TableInit
<1>2. TableOK /\ [Next]_vars => TableOK'
  BY TableStep
<1>3. QED
  BY <1>1, <1>2, PTL DEF Spec

(***************************************************************************)
(* Types hold in every reachable state; in particular no entry of a table    *)
(* has an id that was not handed out by connect or handle_incoming.         *)
(***************************************************************************)
THEOREM TypeCorrect == Spec => []TypeOK
<1>1. TableOK => TypeOK
  BY DEF TableOK
<1>2. QED
  BY <1>1, TableInvariant, PTL

-----------------------------------------------------------------------------
\* What a step does to the entries that stay.
LEMMA EntriesStep ==
    ASSUME TableOK, NEW n \in Nodes, Step(n), NEW k \in Nodes,
           NEW p \in DOMAIN peers[k] \cap DOMAIN peers'[k]
    PROVE  SameEntry(k, p)
<1>1. TypeOK /\ Accounted(n) /\ Pending(n)
  BY DEF TableOK
<1>2. CASE k # n
  <2>1. peers'[k] = peers[k]
    BY <1>1, <1>2, OthersKept
  <2>2. QED
    BY <1>1, <2>1, Untouched
<1>3. CASE k = n
  <2>1. ASSUME NEW a \in Nodes, Connect(n, a) PROVE SameEntry(n, p)
    <3>1. peers' = peers
      BY <2>1 DEF Connect
    <3>2. QED
      BY <1>1, <1>3, <3>1, Untouched
  <2>2. CASE RunConnect(n)
    BY <1>1, <1>3, <2>2, TableConnect
  <2>3. ASSUME NEW d \in network[n], HandleIncoming(n, d) PROVE SameEntry(n, p)
    BY <1>1, <1>3, <2>3, TableIncoming
  <2>4. CASE /\ \A a \in Nodes : ~Connect(n, a)
             /\ ~RunConnect(n)
             /\ \A d \in network[n] : ~HandleIncoming(n, d)
    BY <1>1, <1>3, <2>4, TableKept
  <2>5. QED
    BY <1>3, <2>1, <2>2, <2>3, <2>4
<1>4. QED
  BY <1>2, <1>3

\* No sequence number gets as far as to wrap around.
NumbersFit == \A n \in Nodes : MaxSeq[n] < SeqMod - 1

(***************************************************************************)
(* Connect hands out ids on any thread and handle_incoming on the worker:    *)
(* whatever the interleaving, an entry is never replaced by another one.     *)
(***************************************************************************)
THEOREM EntryKeptHolds ==
    ASSUME NumbersFit
    PROVE  Spec => EntryKept
<1> DEFINE Kept == \A n \in Nodes : \A p \in DOMAIN peers[n] \cap DOMAIN peers'[n] :
               /\ peers'[n][p].address = peers[n][p].address
               /\ peers'[n][p].sequence_number >= peers[n][p].sequence_number
               /\ peers'[n][p].remote_sequence_number >= peers[n][p].remote_sequence_number
<1>1. TableOK /\ [Next]_vars => [Kept]_vars
  <2>1. SUFFICES ASSUME TableOK, Next PROVE Kept
    OBVIOUS
  <2>2. PICK n \in Nodes : Step(n)
    BY <2>1 DEF Next
  <2>3. \A k \in Nodes : \A p \in DOMAIN peers[k] \cap DOMAIN peers'[k] : SameEntry(k, p)
    BY <2>1, <2>2, EntriesStep
  <2>4. QED
    BY <2>3, NumbersFit DEF SameEntry, NumbersFit
<1>2. QED
  BY <1>1, TableInvariant, PTL DEF Spec, EntryKept

\* handle_incoming makes an entry only when no entry has the address.
LEMMA DuplicateStep ==
    ASSUME TableOK, DuplicateByConnect, [Next]_vars
    PROVE  DuplicateByConnect'
<1>1. CASE UNCHANGED vars
  BY <1>1 DEF DuplicateByConnect, vars, stateVars, historyVars
<1>2. ASSUME NEW n \in Nodes, Step(n) PROVE DuplicateByConnect'
  <2>1. TypeOK /\ Accounted(n) /\ Pending(n)
    BY DEF TableOK
  <2>2. SUFFICES ASSUME NEW k \in Nodes, NEW p \in DOMAIN peers'[k], NEW q \in DOMAIN peers'[k],
                        p # q, peers'[k][p].address = peers'[k][q].address
                 PROVE  \E o \in origin'[k] : o.peer \in {p, q} /\ o.by = "connect"
    BY DEF DuplicateByConnect
  <2>3. ASSUME p \in DOMAIN peers[k], q \in DOMAIN peers[k]
        PROVE  \E o \in origin[k] : o.peer \in {p, q} /\ o.by = "connect"
    <3>1. SameEntry(k, p) /\ SameEntry(k, q)
      BY <1>2, <2>3, EntriesStep
    <3>2. peers[k][p].address = peers[k][q].address
      BY <2>2, <3>1 DEF SameEntry
    <3>3. QED
      BY <2>2, <2>3, <3>2 DEF DuplicateByConnect
  <2>4. CASE k # n
    <3>1. peers'[k] = peers[k] /\ origin'[k] = origin[k]
      BY <1>2, <2>1, <2>4, OthersKept
    <3>2. QED
      BY <2>3, <3>1
  <2>5. CASE k = n
    <3>1. ASSUME NEW a \in Nodes, Connect(n, a)
          PROVE  \E o \in origin'[k] : o.peer \in {p, q} /\ o.by = "connect"
      BY <2>1, <2>3, <2>5, <3>1, TableAsked
    <3>2. CASE RunConnect(n)
      <4> DEFINE t == tasks[n][1]
      <4>1. /\ origin' = origin
            /\ [peer |-> t.peer, address |-> t.address, by |-> "connect"] \in origin[n]
            /\ DOMAIN peers'[n] = DOMAIN peers[n] \cup {t.peer}
        BY <2>1, <3>2, TableConnect
      <4>2. CASE t.peer \in {p, q}
        BY <2>5, <4>1, <4>2
      <4>3. CASE t.peer \notin {p, q}
        BY <2>3, <2>5, <4>1, <4>3
      <4>4. QED
        BY <4>2, <4>3
    <3>3. ASSUME NEW d \in network[n], HandleIncoming(n, d)
          PROVE  \E o \in origin'[k] : o.peer \in {p, q} /\ o.by = "connect"
      <4> DEFINE r == PeerOf(n, d)
      <4>1. /\ \A x \in DOMAIN peers[n] : peers'[n][x].address = peers[n][x].address
            /\ peers'[n][r].address = d.from
            /\ DOMAIN peers'[n] = DOMAIN peers[n] \cup {r}
            /\ \/ r \in DOMAIN peers[n] /\ origin' = origin
               \/ /\ \A x \in DOMAIN peers[n] : peers[n][x].address # d.from
                  /\ origin[n] \subseteq origin'[n]
        BY <2>1, <3>3, TableIncoming DEF SameEntry
      <4> HIDE DEF r
      <4>2. CASE p \in DOMAIN peers[n] /\ q \in DOMAIN peers[n]
        BY <2>3, <2>5, <4>1, <4>2
      <4>3. CASE ~(p \in DOMAIN peers[n] /\ q \in DOMAIN peers[n])
        <5>1. r \notin DOMAIN peers[n]
          BY <2>5, <4>1, <4>3
        <5>2. \A x \in DOMAIN peers[n] : peers'[n][x].address # peers'[n][r].address
          BY <4>1, <5>1
        <5>3. (p = r /\ q \in DOMAIN peers[n]) \/ (q = r /\ p \in DOMAIN peers[n])
          BY <2>2, <2>5, <4>1, <4>3
        <5>4. QED
          BY <2>2, <2>5, <5>2, <5>3
      <4>4. QED
        BY <4>2, <4>3
    <3>4. CASE /\ \A a \in Nodes : ~Connect(n, a)
               /\ ~RunConnect(n)
               /\ \A d \in network[n] : ~HandleIncoming(n, d)
      <4>1. origin' = origin /\ p \in DOMAIN peers[n] /\ q \in DOMAIN peers[n]
        BY <1>2, <2>1, <2>5, <3>4, TableKept DEF SameEntry
      <4>2. QED
        BY <2>3, <2>5, <4>1
    <3>5. QED
      BY <3>1, <3>2, <3>3, <3>4
  <2>6. QED
    BY <2>4, <2>5
<1>3. QED
  BY <1>1, <1>2 DEF Next

(***************************************************************************)
(* Two entries with one address: the user has asked for one of them, before  *)
(* or while the peer made itself known.                                     *)
(***************************************************************************)
THEOREM DuplicateByConnectHolds == Spec => []DuplicateByConnect
<1>1. Init => DuplicateByConnect
  BY DEF Init, DuplicateByConnect
<1>2. TableOK /\ DuplicateByConnect /\ [Next]_vars => DuplicateByConnect'
  BY DuplicateStep
<1>3. QED
  BY <1>1, <1>2, TableInvariant, PTL DEF Spec

-----------------------------------------------------------------------------
(***************************************************************************)
(* Where a message can be on its way from send to a callback: in every place *)
(* it is a message that its sender's application has asked for.  A callback  *)
(* names an id that has been handed out, so that an id handed out later      *)
(* cannot be one that a callback has named already.                         *)
(***************************************************************************)
AskedFor(n) ==
    /\ \A d \in network[n] : d.msg # KEEP_ALIVE => d.msg \in asked[d.from]
    /\ \A m \in sent_messages[n] : m.payload.from = n /\ m.payload.msg \in asked[n]
    /\ \A i \in 1 .. Len(tasks[n]) : tasks[n][i].op # "connect" => tasks[n][i].msg \in asked[n]

Named(n) == \A c \in Callbacks(n) : c.peer < next_peer_id[n]

GenuineAt(n) ==
    \A c \in Callbacks(n) : c.kind = "message" =>
        \A o \in origin[n] : o.peer = c.peer =>
            c.msg \in asked[o.address] /\ id[o.address] = id[n]

\* The application forgets nothing it has asked for.
LEMMA AskedGrows ==
    ASSUME TypeOK, NEW n \in Nodes, Step(n), NEW k \in Nodes
    PROVE  asked[k] \subseteq asked'[k]
<1>1. CASE k # n
  <2>1. asked'[k] = asked[k]
    BY <1>1, OthersKept
  <2>2. QED
    BY <2>1
<1>2. ASSUME NEW m, Ask(n, m) PROVE asked[k] \subseteq asked'[k]
  BY <1>2 DEF Ask, TypeOK
<1>3. CASE \A m \in Msgs : ~Ask(n, m)
  <2>1. UNCHANGED asked
    BY <1>3 DEF Step, Connect, Send, Broadcast, Call, RunConnect, RunSend, RunBroadcast,
                SyncPoint, HandleIncoming, IncomingDone, KeepAlive, Timeout, TimeoutDone,
                ResendReliable, DoSend, historyVars
  <2>2. QED
    BY <2>1
<1>4. QED
  BY <1>2, <1>3

\* do_send sends and keeps the message it is given.
LEMMA DoSendAsks ==
    ASSUME TypeOK, NEW n \in Nodes, NEW ps \in SUBSET DOMAIN peers[n], NEW m, DoSend(n, ps, m)
    PROVE  /\ \A a \in Nodes : \A d \in network'[a] :
                  d \in network[a] \/ (d.from = n /\ d.msg = m)
           /\ \A r \in sent_messages'[n] :
                  \/ r \in sent_messages[n]
                  \/ m # KEEP_ALIVE /\ r.payload.from = n /\ r.payload.msg = m
<1> DEFINE pairs == {<<peers[n][p].address, Outgoing(n, p, m)>> : p \in ps}
<1>1. SocketSend(pairs)
  BY DEF DoSend
<1>2. \A pair \in pairs : pair[2].from = n /\ pair[2].msg = m
  BY DEF Outgoing
<1>3. ASSUME NEW a \in Nodes, NEW d \in network'[a]
      PROVE  d \in network[a] \/ (d.from = n /\ d.msg = m)
  <2>1. d \in network[a] \/ \E pair \in pairs : pair[1] = a /\ pair[2] = d
    BY <1>1, SocketSendAdds
  <2>2. QED
    BY <1>2, <2>1
<1>4. ASSUME NEW r \in sent_messages'[n]
      PROVE  \/ r \in sent_messages[n]
             \/ m # KEEP_ALIVE /\ r.payload.from = n /\ r.payload.msg = m
  <2>1. CASE m = KEEP_ALIVE
    BY <2>1 DEF DoSend
  <2>2. CASE m # KEEP_ALIVE
    <3>1. sent_messages'[n] = sent_messages[n] \cup
              {[peer |-> p, payload |-> Outgoing(n, p, m)] : p \in ps}
      BY <2>2 DEF DoSend, TypeOK
    <3>2. QED
      BY <2>2, <3>1 DEF Outgoing
  <2>3. QED
    BY <2>1, <2>2
<1>5. QED
  BY <1>3, <1>4

(***************************************************************************)
(* What a step of n adds to the networks and to its own queues has been      *)
(* asked for by its application.                                            *)
(***************************************************************************)
LEMMA StepAsks ==
    ASSUME TypeOK, NEW n \in Nodes, AskedFor(n), Step(n)
    PROVE  /\ \A a \in Nodes : \A d \in network'[a] :
                  d \in network[a] \/ (d.from = n /\ (d.msg # KEEP_ALIVE => d.msg \in asked'[n]))
           /\ \A m \in sent_messages'[n] : m.payload.from = n /\ m.payload.msg \in asked'[n]
           /\ \A i \in 1 .. Len(tasks'[n]) :
                  tasks'[n][i].op # "connect" => tasks'[n][i].msg \in asked'[n]
<1> DEFINE G == /\ \A a \in Nodes : \A d \in network'[a] :
                      \/ d \in network[a]
                      \/ d.from = n /\ (d.msg # KEEP_ALIVE => d.msg \in asked'[n])
                /\ \A m \in sent_messages'[n] : m.payload.from = n /\ m.payload.msg \in asked'[n]
                /\ \A i \in 1 .. Len(tasks'[n]) :
                      tasks'[n][i].op # "connect" => tasks'[n][i].msg \in asked'[n]
<1>1. /\ asked[n] \subseteq asked'[n]
      /\ \A m \in sent_messages[n] : m.payload.from = n /\ m.payload.msg \in asked[n]
      /\ \A i \in 1 .. Len(tasks[n]) : tasks[n][i].op # "connect" => tasks[n][i].msg \in asked[n]
      /\ Len(tasks[n]) \in Nat
  BY AskedGrows DEF AskedFor, TypeOK
<1>2. ASSUME NEW a \in Nodes, Connect(n, a) PROVE G
  <2>1. /\ Len(tasks'[n]) = Len(tasks[n]) + 1
        /\ tasks'[n][Len(tasks[n]) + 1].op = "connect"
        /\ \A i \in 1 .. Len(tasks[n]) : tasks'[n][i] = tasks[n][i]
    <3>1. /\ Len(tasks'[n]) = Len(tasks[n]) + 1
          /\ tasks'[n][Len(tasks[n]) + 1] = ConnectTask(next_peer_id[n], a)
          /\ \A i \in 1 .. Len(tasks[n]) : tasks'[n][i] = tasks[n][i]
      BY <1>2, TableAsked
    <3>2. ConnectTask(next_peer_id[n], a).op = "connect"
      BY DEF ConnectTask
    <3>3. QED
      BY <3>1, <3>2
  <2>2. network' = network /\ sent_messages' = sent_messages
    BY <1>2 DEF Connect
  <2>3. \A i \in 1 .. Len(tasks'[n]) :
            tasks'[n][i].op # "connect" => tasks'[n][i].msg \in asked'[n]
    BY <1>1, <2>1
  <2>4. QED
    BY <1>1, <2>2, <2>3
<1>3. ASSUME NEW t \in Task, NEW m \in Msgs, t.msg = m, Enqueue(n, t), Ask(n, m) PROVE G
  <2>1. /\ Len(tasks'[n]) = Len(tasks[n]) + 1
        /\ tasks'[n][Len(tasks[n]) + 1] = t
        /\ \A i \in 1 .. Len(tasks[n]) : tasks'[n][i] = tasks[n][i]
    BY <1>3, EnqueueTasks
  <2>2. network' = network /\ sent_messages' = sent_messages /\ m \in asked'[n]
    BY <1>3 DEF Ask, TypeOK
  <2>3. \A i \in 1 .. Len(tasks'[n]) :
            tasks'[n][i].op # "connect" => tasks'[n][i].msg \in asked'[n]
    BY <1>1, <1>3, <2>1, <2>2
  <2>4. QED
    BY <1>1, <2>2, <2>3
<1>4. ASSUME NEW p \in 0 .. (next_peer_id[n] - 1), NEW m \in Msgs, Send(n, p, m) PROVE G
  <2>1. SendTask(p, m) \in Task /\ SendTask(p, m).msg = m
    BY DEF SendTask, Task, PeerId, TypeOK
  <2>2. QED
    BY <1>3, <1>4, <2>1 DEF Send
<1>5. ASSUME NEW m \in Msgs, Broadcast(n, m) PROVE G
  <2>1. BroadcastTask(m) \in Task /\ BroadcastTask(m).msg = m
    BY DEF BroadcastTask, Task
  <2>2. QED
    BY <1>3, <1>5, <2>1 DEF Broadcast
<1>6. ASSUME NEW op, Dequeue(n, op)
      PROVE  \A i \in 1 .. Len(tasks'[n]) :
                 tasks'[n][i].op # "connect" => tasks'[n][i].msg \in asked'[n]
  BY <1>1, <1>6, DequeueTasks, SMTT(60)
<1>7. CASE RunConnect(n)
  <2>1. network' = network /\ sent_messages' = sent_messages
    BY <1>7 DEF RunConnect
  <2>2. QED
    BY <1>1, <1>6, <1>7, <2>1 DEF RunConnect
<1>8. ASSUME NEW ps \in SUBSET DOMAIN peers[n], NEW m, DoSend(n, ps, m),
             m = KEEP_ALIVE \/ m \in asked[n]
      PROVE  /\ \A a \in Nodes : \A d \in network'[a] :
                   \/ d \in network[a]
                   \/ d.from = n /\ (d.msg # KEEP_ALIVE => d.msg \in asked'[n])
             /\ \A r \in sent_messages'[n] : r.payload.from = n /\ r.payload.msg \in asked'[n]
  <2>1. /\ \A a \in Nodes : \A d \in network'[a] :
              d \in network[a] \/ (d.from = n /\ d.msg = m)
        /\ \A r \in sent_messages'[n] :
              \/ r \in sent_messages[n]
              \/ m # KEEP_ALIVE /\ r.payload.from = n /\ r.payload.msg = m
    BY <1>8, DoSendAsks
  <2>2. m # KEEP_ALIVE => m \in asked'[n]
    BY <1>1, <1>8
  <2>3. QED
    BY <1>1, <2>1, <2>2
<1>9. CASE RunSend(n)
  <2> DEFINE t == tasks[n][1]
  <2>1. /\ Dequeue(n, "send")
        /\ DoSend(n, {Head(tasks[n]).peer} \cap DOMAIN peers[n], Head(tasks[n]).msg)
    BY <1>9 DEF RunSend
  <2>2. t = Head(tasks[n]) /\ t.op = "send" /\ 1 \in 1 .. Len(tasks[n])
    BY <2>1, DequeueTasks
  <2>3. t.msg \in asked[n]
    BY <1>1, <2>2
  <2>4. QED
    BY <1>6, <1>8, <2>1, <2>2, <2>3
<1>10. CASE RunBroadcast(n)
  <2> DEFINE t == tasks[n][1]
  <2>1. Dequeue(n, "broadcast") /\ DoSend(n, DOMAIN peers[n], Head(tasks[n]).msg)
    BY <1>10 DEF RunBroadcast
  <2>2. t = Head(tasks[n]) /\ t.op = "broadcast" /\ 1 \in 1 .. Len(tasks[n])
    BY <2>1, DequeueTasks
  <2>3. t.msg \in asked[n]
    BY <1>1, <2>2
  <2>4. QED
    BY <1>6, <1>8, <2>1, <2>2, <2>3
<1>11. CASE Call(n) \/ SyncPoint(n) \/ IncomingDone(n) \/ TimeoutDone(n)
  <2>1. network' = network /\ sent_messages' = sent_messages /\ tasks' = tasks
    BY <1>11 DEF Call, SyncPoint, IncomingDone, TimeoutDone
  <2>2. QED
    BY <1>1, <2>1
<1>12. ASSUME NEW d \in network[n], HandleIncoming(n, d) PROVE G
  <2>1. network' = network /\ tasks' = tasks
    BY <1>12 DEF HandleIncoming
  <2>2. sent_messages'[n] \subseteq sent_messages[n]
    BY <1>12, Incoming DEF Unacked, TypeOK
  <2>3. QED
    BY <1>1, <2>1, <2>2
<1>13. CASE KeepAlive(n)
  <2>1. PICK due \in SUBSET DOMAIN peers[n] : DoSend(n, due, KEEP_ALIVE)
    BY <1>13 DEF KeepAlive
  <2>2. tasks' = tasks
    BY <1>13 DEF KeepAlive
  <2>3. QED
    BY <1>1, <1>8, <2>1, <2>2
<1>14. ASSUME NEW p, Timeout(n, p) PROVE G
  <2>1. network' = network /\ sent_messages' = sent_messages /\ tasks' = tasks
    BY <1>14 DEF Timeout
  <2>2. QED
    BY <1>1, <2>1
<1>15. CASE ResendReliable(n)
  <2>1. PICK late \in SUBSET sent_messages[n] :
            LET orphans == {m \in late : m.peer \notin DOMAIN peers[n]}
            IN  /\ SocketSend({<<peers[n][m.peer].address, m.payload>> : m \in late \ orphans})
                /\ sent_messages' = [sent_messages EXCEPT ![n] = @ \ orphans]
    BY <1>15 DEF ResendReliable
  <2> DEFINE pairs == {<<peers[n][m.peer].address, m.payload>> :
                           m \in late \ {m \in late : m.peer \notin DOMAIN peers[n]}}
  <2>2. \A pair \in pairs : pair[2].from = n /\ pair[2].msg \in asked[n]
    BY <1>1
  <2>3. SocketSend(pairs) /\ sent_messages'[n] \subseteq sent_messages[n]
    BY <2>1 DEF TypeOK
  <2>4. \A a \in Nodes : \A d \in network'[a] :
            d \in network[a] \/ (d.from = n /\ d.msg \in asked[n])
    BY <2>2, <2>3, SocketSendAdds
  <2>5. tasks' = tasks
    BY <1>15 DEF ResendReliable
  <2>6. QED
    BY <1>1, <2>3, <2>4, <2>5
<1>16. QED
  BY <1>2, <1>4, <1>5, <1>7, <1>9, <1>10, <1>11, <1>12, <1>13, <1>14, <1>15 DEF Step

\* The callbacks in a concatenation are those in its parts.
LEMMA ConcatElements ==
    ASSUME NEW s \in Seq(Event), NEW t \in Seq(Event), NEW i \in 1 .. Len(s \o t)
    PROVE  \/ \E j \in 1 .. Len(s) : (s \o t)[i] = s[j]
           \/ \E j \in 1 .. Len(t) : (s \o t)[i] = t[j]
<1>1. Len(s) \in Nat /\ Len(t) \in Nat /\ Len(s \o t) = Len(s) + Len(t)
  OBVIOUS
<1>2. CASE i <= Len(s)
  <2>1. i \in 1 .. Len(s) /\ (s \o t)[i] = s[i]
    BY <1>1, <1>2
  <2>2. QED
    BY <2>1
<1>3. CASE i > Len(s)
  <2>1. i - Len(s) \in 1 .. Len(t) /\ (s \o t)[i] = t[i - Len(s)]
    BY <1>1, <1>3
  <2>2. QED
    BY <2>1
<1>4. QED
  BY <1>1, <1>2, <1>3

\* The callbacks that handle_incoming queues are about the entry of the datagram.
LEMMA DispatchElements ==
    ASSUME NEW p \in PeerId, NEW d \in Datagram, NEW known, NEW recived,
           NEW i \in 1 .. Len(Dispatch(p, d, known, recived))
    PROVE  LET c == Dispatch(p, d, known, recived)[i]
           IN  c = Connected(p) \/ (d.msg \in Handled /\ c = Received(p, d.msg))
<1> DEFINE s == IF known THEN << >> ELSE <<Connected(p)>>
           t == IF ~recived /\ d.msg \in Handled THEN <<Received(p, d.msg)>> ELSE << >>
<1>1. s \in Seq(Event) /\ t \in Seq(Event)
  <2>1. /\ <<Connected(p)>> \in Seq(Event)
        /\ d.msg \in Handled => <<Received(p, d.msg)>> \in Seq(Event)
    BY DEF Connected, Received, Event
  <2>2. QED
    BY <2>1
<1>2. \A j \in 1 .. Len(s) : s[j] = Connected(p)
  OBVIOUS
<1>3. \A j \in 1 .. Len(t) : d.msg \in Handled /\ t[j] = Received(p, d.msg)
  OBVIOUS
<1>4. Dispatch(p, d, known, recived) = s \o t
  BY DEF Dispatch
<1> HIDE DEF s, t
<1>5. \/ \E j \in 1 .. Len(s) : (s \o t)[i] = s[j]
      \/ \E j \in 1 .. Len(t) : (s \o t)[i] = t[j]
  <2>1. i \in 1 .. Len(s \o t)
    BY <1>4
  <2>2. QED
    BY <1>1, <2>1, ConcatElements, Zenon
<1>6. QED
  BY <1>2, <1>3, <1>4, <1>5

\* The callbacks that a step of n can add to those called or queued.
LEMMA StepCallbacks ==
    ASSUME TypeOK, NEW n \in Nodes, Step(n), NEW c \in Callbacks(n)'
    PROVE  \/ c \in Callbacks(n)
           \/ \E d \in network[n] : /\ HandleIncoming(n, d)
                                    /\ \/ c = Connected(PeerOf(n, d))
                                       \/ d.msg \in Handled /\ c = Received(PeerOf(n, d), d.msg)
           \/ \E p \in DOMAIN peers[n] : c = Disconnected(p)
<1>1. /\ calls[n] \in Seq(Callback) /\ Len(calls[n]) \in Nat
      /\ events[n] \in Seq(Event) /\ Len(events[n]) \in Nat
  BY DEF TypeOK
<1>2. CASE UNCHANGED <<calls[n], events[n]>>
  BY <1>2 DEF Callbacks
<1>3. CASE Call(n)
  <2>1. PICK i \in 1 .. Len(events[n]) :
            /\ calls'[n] = Append(calls[n], events[n][i])
            /\ events'[n] = Without(events[n], i)
    BY <1>3 DEF Call, TypeOK
  <2>2. ASSUME NEW j \in 1 .. Len(events'[n]), c = events'[n][j] PROVE c \in Callbacks(n)
    <3>1. \A x \in 1 .. Len(Without(events[n], i)) :
              \E k \in 1 .. Len(events[n]) : Without(events[n], i)[x] = events[n][k]
      BY <1>1, WithoutType
    <3>2. \E k \in 1 .. Len(events[n]) : c = events[n][k]
      BY <2>1, <2>2, <3>1
    <3>3. QED
      BY <3>2 DEF Callbacks
  <2>3. ASSUME NEW j \in 1 .. Len(calls'[n]), c = calls'[n][j] PROVE c \in Callbacks(n)
    <3>1. CASE j \in 1 .. Len(calls[n])
      <4>1. c = calls[n][j]
        BY <1>1, <2>1, <2>3, <3>1
      <4>2. QED
        BY <3>1, <4>1 DEF Callbacks
    <3>2. CASE j = Len(calls[n]) + 1
      <4>1. c = events[n][i]
        BY <1>1, <2>1, <2>3, <3>2
      <4>2. QED
        BY <4>1 DEF Callbacks
    <3>3. QED
      BY <1>1, <2>1, <3>1, <3>2
  <2>4. QED
    BY <2>2, <2>3 DEF Callbacks
<1>4. ASSUME NEW d \in network[n], HandleIncoming(n, d)
      PROVE  \/ c \in Callbacks(n)
             \/ c = Connected(PeerOf(n, d))
             \/ d.msg \in Handled /\ c = Received(PeerOf(n, d), d.msg)
  <2> DEFINE known   == Found(n, d.from) # {}
             recived == Recived(Entry(n, d).remote_sequence_number, Entry(n, d).ack_field, d.seq)
             queued  == Dispatch(PeerOf(n, d), d, known, recived)
  <2>1. /\ events' = [events EXCEPT ![n] = @ \o queued]
        /\ queued \in Seq(Event)
        /\ calls' = calls
        /\ d \in Datagram
    BY <1>4, Incoming
  <2>2. PeerOf(n, d) \in PeerId
    BY <2>1, EntryType
  <2>3. \A i \in 1 .. Len(queued) : \/ queued[i] = Connected(PeerOf(n, d))
                                    \/ d.msg \in Handled /\ queued[i] = Received(PeerOf(n, d), d.msg)
    BY <2>1, <2>2, DispatchElements
  <2> HIDE DEF queued
  <2>4. events'[n] = events[n] \o queued
    BY <2>1 DEF TypeOK
  <2>5. CASE \E i \in 1 .. Len(calls'[n]) : c = calls'[n][i]
    BY <2>1, <2>5 DEF Callbacks
  <2>6. CASE \E i \in 1 .. Len(events'[n]) : c = events'[n][i]
    <3>1. PICK i \in 1 .. Len(events[n] \o queued) : c = (events[n] \o queued)[i]
      BY <2>4, <2>6
    <3>2. \/ \E j \in 1 .. Len(events[n]) : c = events[n][j]
          \/ \E j \in 1 .. Len(queued) : c = queued[j]
      <4>1. \/ \E j \in 1 .. Len(events[n]) : (events[n] \o queued)[i] = events[n][j]
            \/ \E j \in 1 .. Len(queued) : (events[n] \o queued)[i] = queued[j]
        BY <1>1, <2>1, ConcatElements, Zenon
      <4>2. QED
        BY <3>1, <4>1, Zenon
    <3>3. QED
      BY <2>3, <3>2 DEF Callbacks
  <2>7. QED
    BY <2>5, <2>6 DEF Callbacks
<1>5. ASSUME NEW p \in DOMAIN peers[n], Timeout(n, p)
      PROVE  c \in Callbacks(n) \/ c = Disconnected(p)
  <2>1. calls'[n] = Append(calls[n], Disconnected(p)) /\ events' = events
    BY <1>5 DEF Timeout, TypeOK
  <2>2. CASE \E i \in 1 .. Len(events'[n]) : c = events'[n][i]
    BY <2>1, <2>2 DEF Callbacks
  <2>3. CASE \E i \in 1 .. Len(calls'[n]) : c = calls'[n][i]
    <3>1. PICK i \in 1 .. Len(calls'[n]) : c = calls'[n][i]
      BY <2>3
    <3>2. c = Disconnected(p) \/ (i \in 1 .. Len(calls[n]) /\ c = calls[n][i])
      BY <1>1, <2>1, <3>1
    <3>3. QED
      BY <3>2 DEF Callbacks
  <2>4. QED
    BY <2>2, <2>3 DEF Callbacks
<1>6. CASE /\ ~Call(n)
           /\ \A d \in network[n] : ~HandleIncoming(n, d)
           /\ \A p \in DOMAIN peers[n] : ~Timeout(n, p)
  <2>1. UNCHANGED <<calls, events>>
    BY <1>6 DEF Step, Connect, Send, Broadcast, Ask, RunConnect, RunSend, RunBroadcast, SyncPoint,
                IncomingDone, KeepAlive, TimeoutDone, ResendReliable, DoSend
  <2>2. QED
    BY <1>2, <2>1
<1>7. QED
  BY <1>3, <1>4, <1>5, <1>6

\* No id gets lower, and what is on record about one stays.
LEMMA IdsGrow ==
    ASSUME TypeOK, NEW n \in Nodes, Accounted(n), Pending(n), Step(n)
    PROVE  /\ next_peer_id[n] \in Nat
           /\ next_peer_id'[n] \in Nat
           /\ next_peer_id[n] <= next_peer_id'[n]
           /\ \A o \in origin'[n] : o \in origin[n] \/ o.peer = next_peer_id[n]
           /\ \A d \in network[n] : HandleIncoming(n, d) => PeerOf(n, d) < next_peer_id'[n]
<1>0. next_peer_id[n] \in Nat /\ \A p \in DOMAIN peers[n] : p \in Nat /\ p < next_peer_id[n]
  BY DEF TypeOK, PeerId
<1>1. ASSUME NEW a \in Nodes, Connect(n, a)
      PROVE  /\ next_peer_id'[n] = next_peer_id[n] + 1
             /\ origin'[n] = origin[n] \cup
                    {[peer |-> next_peer_id[n], address |-> a, by |-> "connect"]}
             /\ \A d \in network[n] : ~HandleIncoming(n, d)
  <2>1. \A d \in network[n] : ~HandleIncoming(n, d)
    <3>1. Len(tasks'[n]) = Len(tasks[n]) + 1 /\ Len(tasks[n]) \in Nat
      BY <1>1, TableAsked
    <3>2. tasks' # tasks
      BY <3>1
    <3>3. QED
      BY <3>2 DEF HandleIncoming
  <2>2. QED
    BY <1>1, <2>1, TableAsked
<1>2. ASSUME NEW d \in network[n], HandleIncoming(n, d)
      PROVE  LET q == PeerOf(n, d)
             IN  \/ q \in DOMAIN peers[n] /\ UNCHANGED <<next_peer_id, origin>>
                 \/ /\ q = next_peer_id[n]
                    /\ next_peer_id'[n] = next_peer_id[n] + 1
                    /\ origin'[n] = origin[n] \cup
                           {[peer |-> q, address |-> d.from, by |-> "incoming"]}
  BY <1>2, TableIncoming
<1>3. CASE RunConnect(n)
  <2>1. \A d \in network[n] : ~HandleIncoming(n, d)
    <3>1. phase[n] = "sync_point"
      BY <1>3 DEF RunConnect, Dequeue
    <3>2. \A d \in network[n] : HandleIncoming(n, d) => phase[n] = "handle_incoming"
      BY DEF HandleIncoming
    <3>3. QED
      BY <3>1, <3>2
  <2>2. UNCHANGED <<next_peer_id, origin>>
    BY <1>3 DEF RunConnect, historyVars
  <2>3. QED
    BY <1>0, <2>1, <2>2
<1>4. CASE \E a \in Nodes : Connect(n, a)
  BY <1>0, <1>1, <1>4
<1>5. CASE \E d \in network[n] : HandleIncoming(n, d)
  <2>1. /\ next_peer_id'[n] \in Nat
        /\ next_peer_id[n] <= next_peer_id'[n]
        /\ \A o \in origin'[n] : o \in origin[n] \/ o.peer = next_peer_id[n]
    BY <1>0, <1>2, <1>5
  <2>2. ASSUME NEW d \in network[n], HandleIncoming(n, d)
        PROVE  PeerOf(n, d) < next_peer_id'[n]
    BY <1>0, <1>2, <2>2
  <2>3. QED
    BY <1>0, <2>1, <2>2
<1>6. CASE /\ \A a \in Nodes : ~Connect(n, a)
           /\ ~RunConnect(n)
           /\ \A d \in network[n] : ~HandleIncoming(n, d)
  <2>1. UNCHANGED <<next_peer_id, origin>>
    BY <1>6, TableKept
  <2>2. QED
    BY <1>0, <1>6, <2>1
<1>7. QED
  BY <1>3, <1>4, <1>5, <1>6

\* A callback that a step adds names an id that has been handed out.
LEMMA NamedStep ==
    ASSUME TypeOK, NEW n \in Nodes, Accounted(n), Pending(n), Named(n), Step(n)
    PROVE  Named(n)'
<1>1. SUFFICES ASSUME NEW c \in Callbacks(n)' PROVE c.peer < next_peer_id'[n]
  BY DEF Named
<1>2. /\ next_peer_id[n] \in Nat /\ next_peer_id'[n] \in Nat
      /\ next_peer_id[n] <= next_peer_id'[n]
      /\ \A d \in network[n] : HandleIncoming(n, d) => PeerOf(n, d) < next_peer_id'[n]
  BY IdsGrow
<1>3. CASE c \in Callbacks(n)
  <2>1. c.peer < next_peer_id[n]
    BY <1>3 DEF Named
  <2>2. c \in Callback
    BY <1>3 DEF Callbacks, TypeOK, Callback
  <2>3. c.peer \in Nat
    BY <2>2 DEF Callback, Event, PeerId
  <2>4. QED
    BY <1>2, <2>1, <2>3
<1>4. ASSUME NEW d \in network[n], HandleIncoming(n, d),
             c = Connected(PeerOf(n, d)) \/ c = Received(PeerOf(n, d), d.msg)
      PROVE  c.peer < next_peer_id'[n]
  BY <1>2, <1>4 DEF Connected, Received
<1>5. ASSUME NEW p \in DOMAIN peers[n], c = Disconnected(p)
      PROVE  c.peer < next_peer_id'[n]
  BY <1>2, <1>5 DEF Disconnected, TypeOK, PeerId
<1>6. QED
  BY <1>3, <1>4, <1>5, StepCallbacks

\* A message callback that a step adds is about a message of its peer.
LEMMA GenuineStep ==
    ASSUME TypeOK, UNCHANGED id, NEW n \in Nodes, Accounted(n), Pending(n), AskedFor(n),
           Named(n), GenuineAt(n), Step(n)
    PROVE  GenuineAt(n)'
<1>1. SUFFICES ASSUME NEW c \in Callbacks(n)', c.kind = "message",
                      NEW o \in origin'[n], o.peer = c.peer
               PROVE  c.msg \in asked'[o.address] /\ id[o.address] = id[n]
  BY DEF GenuineAt
<1>2. \A k \in Nodes : asked[k] \subseteq asked'[k]
  BY AskedGrows
<1>3. CASE c \in Callbacks(n)
  <2>1. o.peer < next_peer_id[n] /\ next_peer_id[n] \in Nat
    BY <1>1, <1>3 DEF Named, TypeOK, PeerId
  <2>2. o \in origin[n]
    BY <2>1, IdsGrow
  <2>3. c.msg \in asked[o.address] /\ id[o.address] = id[n]
    BY <1>1, <1>3, <2>2 DEF GenuineAt
  <2>4. o.address \in Nodes
    BY <2>2 DEF TypeOK
  <2>5. QED
    BY <1>2, <2>3, <2>4
<1>4. ASSUME NEW d \in network[n], HandleIncoming(n, d), d.msg \in Handled,
             c = Received(PeerOf(n, d), d.msg)
      PROVE  c.msg \in asked'[o.address] /\ id[o.address] = id[n]
  <2> DEFINE q == PeerOf(n, d)
  <2>1. d \in Datagram /\ d.from \in Nodes /\ id[d.from] = id[n]
    <3>1. d \in Datagram /\ SameProtocol(n, d)
      BY <1>4, Incoming
    <3>2. QED
      BY <3>1 DEF Datagram, SameProtocol
  <2>2. d.msg \in asked[d.from]
    BY <1>4, NodeAssumption DEF AskedFor
  <2>3. o.peer = q /\ c.msg = d.msg
    BY <1>1, <1>4 DEF Received
  <2>4. o.address = d.from
    <3>1. CASE q \in DOMAIN peers[n] /\ UNCHANGED <<next_peer_id, origin>>
      <4>1. PICK u \in origin[n] : u.peer = q /\ u.address = peers[n][q].address
        BY <3>1 DEF Accounted
      <4>2. o = u
        BY <2>3, <3>1, <4>1 DEF Accounted
      <4>3. peers[n][q].address = d.from
        <5>1. SameEntry(n, q) /\ peers'[n][q].address = d.from
          BY <1>4, <3>1, TableIncoming
        <5>2. QED
          BY <5>1 DEF SameEntry
      <4>4. QED
        BY <4>1, <4>2, <4>3
    <3>2. CASE /\ q = next_peer_id[n]
               /\ origin'[n] = origin[n] \cup
                      {[peer |-> q, address |-> d.from, by |-> "incoming"]}
      <4>1. \A u \in origin[n] : u.peer \in Nat /\ u.peer < next_peer_id[n]
        BY DEF Accounted, TypeOK, PeerId
      <4>2. o \notin origin[n]
        BY <2>3, <3>2, <4>1
      <4>3. QED
        BY <3>2, <4>2
    <3>3. QED
      BY <1>4, <3>1, <3>2, TableIncoming
  <2>5. QED
    BY <1>2, <2>1, <2>2, <2>3, <2>4
<1>5. ASSUME NEW p, c = Connected(p) \/ c = Disconnected(p) PROVE FALSE
  BY <1>1, <1>5 DEF Connected, Disconnected
<1>6. QED
  BY <1>3, <1>4, <1>5, StepCallbacks

\* The invariant behind Genuine.
SpokenOK == \A n \in Nodes : AskedFor(n) /\ Named(n) /\ GenuineAt(n)

\* A step of any node keeps it.
LEMMA SpokenStep ==
    ASSUME TableOK, SpokenOK, [Next]_vars
    PROVE  SpokenOK'
<1>1. CASE UNCHANGED vars
  BY <1>1 DEF SpokenOK, AskedFor, Named, GenuineAt, Callbacks, vars, stateVars, historyVars
<1>2. ASSUME UNCHANGED id, NEW n \in Nodes, Step(n) PROVE SpokenOK'
  <2>1. TypeOK /\ \A k \in Nodes : Accounted(k) /\ Pending(k)
    BY DEF TableOK
  <2>2. \A k \in Nodes : AskedFor(k) /\ Named(k) /\ GenuineAt(k)
    BY DEF SpokenOK
  <2>3. \A k \in Nodes : asked[k] \subseteq asked'[k]
    BY <1>2, <2>1, AskedGrows
  <2>4. ASSUME NEW k \in Nodes, NEW d \in network'[k], d.msg # KEEP_ALIVE
        PROVE  d.msg \in asked'[d.from]
    <3>1. CASE d \in network[k]
      <4>1. d.msg \in asked[d.from] /\ d.from \in Nodes
        BY <2>1, <2>2, <2>4, <3>1 DEF AskedFor, TypeOK, Datagram
      <4>2. QED
        BY <2>3, <4>1
    <3>2. CASE d \notin network[k]
      <4>1. d.from = n /\ d.msg \in asked'[n]
        <5>1. \A a \in Nodes : \A x \in network'[a] :
                  \/ x \in network[a]
                  \/ x.from = n /\ (x.msg # KEEP_ALIVE => x.msg \in asked'[n])
          BY <1>2, <2>1, <2>2, StepAsks
        <5>2. QED
          BY <2>4, <3>2, <5>1
      <4>2. QED
        BY <4>1
    <3>3. QED
      BY <3>1, <3>2
  <2>5. AskedFor(n)' /\ Named(n)' /\ GenuineAt(n)'
    <3>1. /\ \A m \in sent_messages'[n] : m.payload.from = n /\ m.payload.msg \in asked'[n]
          /\ \A i \in 1 .. Len(tasks'[n]) :
                 tasks'[n][i].op # "connect" => tasks'[n][i].msg \in asked'[n]
      BY <1>2, <2>1, <2>2, StepAsks
    <3>2. AskedFor(n)'
      BY <2>4, <3>1 DEF AskedFor
    <3>3. Named(n)' /\ GenuineAt(n)'
      BY <1>2, <2>1, <2>2, NamedStep, GenuineStep
    <3>4. QED
      BY <3>2, <3>3
  <2>6. ASSUME NEW k \in Nodes, k # n PROVE AskedFor(k)' /\ Named(k)' /\ GenuineAt(k)'
    <3>1. UNCHANGED <<origin[k], tasks[k], next_peer_id[k], sent_messages[k], calls[k],
                      events[k], asked[k]>>
      BY <1>2, <2>1, <2>6, OthersKept
    <3>2. AskedFor(k)'
      <4>1. \A m \in sent_messages'[k] : m.payload.from = k /\ m.payload.msg \in asked'[k]
        BY <2>2, <3>1 DEF AskedFor
      <4>2. \A i \in 1 .. Len(tasks'[k]) :
                tasks'[k][i].op # "connect" => tasks'[k][i].msg \in asked'[k]
        BY <2>2, <3>1 DEF AskedFor
      <4>3. QED
        BY <2>4, <4>1, <4>2 DEF AskedFor
    <3>3. Callbacks(k)' = Callbacks(k)
      BY <3>1 DEF Callbacks
    <3>4. Named(k)'
      BY <2>2, <3>1, <3>3 DEF Named
    <3>5. GenuineAt(k)'
      <4>1. SUFFICES ASSUME NEW c \in Callbacks(k), c.kind = "message",
                            NEW o \in origin[k], o.peer = c.peer
                     PROVE  c.msg \in asked'[o.address] /\ id[o.address] = id[k]
        BY <1>2, <3>1, <3>3 DEF GenuineAt
      <4>2. c.msg \in asked[o.address] /\ id[o.address] = id[k]
        BY <2>2, <4>1 DEF GenuineAt
      <4>3. o.address \in Nodes
        BY <2>1 DEF TypeOK
      <4>4. QED
        BY <2>3, <4>2, <4>3
    <3>6. QED
      BY <3>2, <3>4, <3>5
  <2>7. QED
    BY <2>5, <2>6 DEF SpokenOK
<1>3. QED
  BY <1>1, <1>2 DEF Next

(***************************************************************************)
(* Through loss, duplication, reordering, timeouts and ids handed out on two *)
(* threads, a message callback names a peer that has sent the message and    *)
(* that speaks the same protocol.                                           *)
(***************************************************************************)
THEOREM GenuineHolds == Spec => []Genuine
<1>1. Init => SpokenOK
  BY DEF Init, SpokenOK, AskedFor, Named, GenuineAt, Callbacks
<1>2. TableOK /\ SpokenOK /\ [Next]_vars => SpokenOK'
  BY SpokenStep
<1>3. SpokenOK => Genuine
  BY DEF SpokenOK, GenuineAt, Genuine
<1>4. QED
  BY <1>1, <1>2, <1>3, TableInvariant, PTL DEF Spec

-----------------------------------------------------------------------------
(***************************************************************************)
(* The datagrams of n that may arrive at a: those in flight, and those that  *)
(* resend_reliable may send again.                                          *)
(***************************************************************************)
OnTheWay(n, a, d) ==
    \/ d \in network[a] /\ d.from = n
    \/ \E m \in sent_messages[n] :
           m.payload = d /\ \E o \in origin[n] : o.peer = m.peer /\ o.address = a

\* n has or had an entry for a that waits in no task and is past the number of d.
Traced(n, a, d) ==
    \E o \in origin[n] :
        /\ o.address = a
        /\ \A i \in 1 .. Len(tasks[n]) :
               tasks[n][i].op = "connect" => tasks[n][i].peer # o.peer
        /\ o.peer \in DOMAIN peers[n] => d.seq < peers[n][o.peer].sequence_number

\* n has had two entries for a.
Twice(n, a) == \E o, u \in origin[n] : o # u /\ o.address = a /\ u.address = a

(***************************************************************************)
(* The invariant behind NumbersIdentify.                                    *)
(***************************************************************************)
NumberedAt(n) ==
    /\ IsFiniteSet(origin[n])
    /\ \A m \in sent_messages[n] : \E o \in origin[n] : o.peer = m.peer
    /\ \A a \in Nodes : \A d : OnTheWay(n, a, d) => Traced(n, a, d)
    /\ \A a \in Nodes : \A d, e :
           (OnTheWay(n, a, d) /\ OnTheWay(n, a, e) /\ d.seq = e.seq /\ d # e) => Twice(n, a)

\* A connect task that is queued after a step was queued before, or names a new id.
LEMMA TasksStep ==
    ASSUME TypeOK, NEW n \in Nodes, Step(n),
           NEW i \in 1 .. Len(tasks'[n]), tasks'[n][i].op = "connect"
    PROVE  \/ tasks'[n][i].peer = next_peer_id[n]
           \/ \E j \in 1 .. Len(tasks[n]) : tasks[n][j] = tasks'[n][i]
<1>0. Len(tasks[n]) \in Nat
  BY DEF TypeOK
<1>1. ASSUME NEW a \in Nodes, Connect(n, a)
      PROVE  \/ tasks'[n][i].peer = next_peer_id[n]
             \/ \E j \in 1 .. Len(tasks[n]) : tasks[n][j] = tasks'[n][i]
  <2> DEFINE t == ConnectTask(next_peer_id[n], a)
  <2>1. /\ Len(tasks'[n]) = Len(tasks[n]) + 1
        /\ tasks'[n][Len(tasks[n]) + 1] = t
        /\ \A j \in 1 .. Len(tasks[n]) : tasks'[n][j] = tasks[n][j]
    BY <1>1, TableAsked
  <2>2. t.peer = next_peer_id[n]
    BY DEF ConnectTask
  <2> HIDE DEF t
  <2>3. QED
    BY <1>0, <2>1, <2>2
<1>2. ASSUME NEW t \in Task, t.op # "connect", Enqueue(n, t)
      PROVE  \E j \in 1 .. Len(tasks[n]) : tasks[n][j] = tasks'[n][i]
  <2>1. /\ Len(tasks'[n]) = Len(tasks[n]) + 1
        /\ tasks'[n][Len(tasks[n]) + 1] = t
        /\ \A j \in 1 .. Len(tasks[n]) : tasks'[n][j] = tasks[n][j]
    BY <1>2, EnqueueTasks
  <2>2. QED
    BY <1>0, <1>2, <2>1
<1>3. ASSUME NEW p \in 0 .. (next_peer_id[n] - 1), NEW m \in Msgs, Send(n, p, m)
      PROVE  \E j \in 1 .. Len(tasks[n]) : tasks[n][j] = tasks'[n][i]
  <2>1. SendTask(p, m) \in Task /\ SendTask(p, m).op # "connect"
    BY DEF SendTask, Task, PeerId
  <2>2. QED
    BY <1>2, <1>3, <2>1 DEF Send
<1>4. ASSUME NEW m \in Msgs, Broadcast(n, m)
      PROVE  \E j \in 1 .. Len(tasks[n]) : tasks[n][j] = tasks'[n][i]
  <2>1. BroadcastTask(m) \in Task /\ BroadcastTask(m).op # "connect"
    BY DEF BroadcastTask, Task
  <2>2. QED
    BY <1>2, <1>4, <2>1 DEF Broadcast
<1>5. ASSUME NEW op, Dequeue(n, op)
      PROVE  \E j \in 1 .. Len(tasks[n]) : tasks[n][j] = tasks'[n][i]
  BY <1>5, DequeueTasks
<1>6. CASE tasks' = tasks
  BY <1>6
<1>7. QED
  BY <1>1, <1>3, <1>4, <1>5, <1>6
     DEF Step, Call, RunConnect, RunSend, RunBroadcast, SyncPoint, HandleIncoming,
         IncomingDone, KeepAlive, Timeout, TimeoutDone, ResendReliable

\* The entries after a step were there, have a new id or an id that waited in a connect task.
LEMMA EntriesFrom ==
    ASSUME TypeOK, NEW n \in Nodes, Accounted(n), Pending(n), Step(n),
           NEW p \in DOMAIN peers'[n]
    PROVE  \/ SameEntry(n, p)
           \/ p = next_peer_id[n]
           \/ \E i \in 1 .. Len(tasks[n]) : tasks[n][i].op = "connect" /\ tasks[n][i].peer = p
<1>1. ASSUME NEW a \in Nodes, Connect(n, a) PROVE SameEntry(n, p)
  BY <1>1, TableAsked, Untouched
<1>2. CASE RunConnect(n)
  <2>1. 1 \in 1 .. Len(tasks[n]) /\ tasks[n][1].op = "connect"
    BY <1>2, DequeueTasks DEF RunConnect
  <2>2. QED
    BY <1>2, <2>1, TableConnect
<1>3. ASSUME NEW d \in network[n], HandleIncoming(n, d)
      PROVE  SameEntry(n, p) \/ p = next_peer_id[n]
  BY <1>3, TableIncoming
<1>4. CASE /\ \A a \in Nodes : ~Connect(n, a)
           /\ ~RunConnect(n)
           /\ \A d \in network[n] : ~HandleIncoming(n, d)
  BY <1>4, TableKept
<1>5. QED
  BY <1>1, <1>2, <1>3, <1>4

\* Nothing is struck from the record of entries, and at most one is added.
LEMMA OriginGrows ==
    ASSUME TypeOK, NEW n \in Nodes, Accounted(n), Step(n)
    PROVE  \/ origin'[n] = origin[n]
           \/ \E o : origin'[n] = origin[n] \cup {o}
<1>1. ASSUME NEW a \in Nodes, Connect(n, a) PROVE \E o : origin'[n] = origin[n] \cup {o}
  BY <1>1, TableAsked
<1>2. ASSUME NEW d \in network[n], HandleIncoming(n, d)
      PROVE  \/ origin'[n] = origin[n]
             \/ \E o : origin'[n] = origin[n] \cup {o}
  BY <1>2, TableIncoming
<1>3. CASE RunConnect(n)
  BY <1>3 DEF RunConnect, historyVars
<1>4. CASE /\ \A a \in Nodes : ~Connect(n, a)
           /\ ~RunConnect(n)
           /\ \A d \in network[n] : ~HandleIncoming(n, d)
  BY <1>4, TableKept
<1>5. QED
  BY <1>1, <1>2, <1>3, <1>4

\* The entry that traces a datagram keeps doing so.
LEMMA TracedStep ==
    ASSUME NumbersFit, TypeOK, TypeOK', NEW n \in Nodes, Accounted(n), Pending(n), Step(n),
           NEW a, NEW d, d.seq \in Nat, Traced(n, a, d)
    PROVE  Traced(n, a, d)'
<1>1. PICK o \in origin[n] :
          /\ o.address = a
          /\ \A i \in 1 .. Len(tasks[n]) :
                 tasks[n][i].op = "connect" => tasks[n][i].peer # o.peer
          /\ o.peer \in DOMAIN peers[n] => d.seq < peers[n][o.peer].sequence_number
  BY DEF Traced
<1>2. o \in origin'[n]
  BY OriginGrows
<1>3. o.peer # next_peer_id[n]
  BY DEF Accounted, TypeOK, PeerId
<1>4. \A i \in 1 .. Len(tasks'[n]) : tasks'[n][i].op = "connect" => tasks'[n][i].peer # o.peer
  BY <1>1, <1>3, TasksStep
<1>5. ASSUME o.peer \in DOMAIN peers'[n] PROVE d.seq < peers'[n][o.peer].sequence_number
  <2>1. SameEntry(n, o.peer)
    BY <1>1, <1>3, <1>5, EntriesFrom
  <2>2. /\ o.peer \in DOMAIN peers[n]
        /\ peers'[n][o.peer].sequence_number >= peers[n][o.peer].sequence_number
    BY <2>1 DEF SameEntry, NumbersFit
  <2>3. d.seq < peers[n][o.peer].sequence_number
    BY <1>1, <2>2
  <2>4. peers[n][o.peer].sequence_number \in Int
    BY <2>2, AckFieldAssumption DEF TypeOK, Peer, SeqNum
  <2>5. peers'[n][o.peer].sequence_number \in Int
    BY <1>5, AckFieldAssumption DEF TypeOK, Peer, SeqNum
  <2>6. QED
    BY <2>2, <2>3, <2>4, <2>5
<1>6. QED
  BY <1>1, <1>2, <1>4, <1>5 DEF Traced

\* A datagram that do_send makes for an entry of n with the address a.
Sent(n, a, m, d) ==
    \E p \in DOMAIN peers[n] : /\ peers[n][p].address = a
                               /\ d = Outgoing(n, p, m)
                               /\ p \in DOMAIN peers'[n]
                               /\ d.seq < peers'[n][p].sequence_number

\* do_send puts nothing else on the way.
LEMMA DoSendWay ==
    ASSUME NumbersFit, TypeOK, NEW n \in Nodes, Accounted(n),
           NEW ps \in SUBSET DOMAIN peers[n], NEW m, DoSend(n, ps, m),
           NEW a \in Nodes, NEW d, OnTheWay(n, a, d)'
    PROVE  OnTheWay(n, a, d) \/ Sent(n, a, m, d)
<1> DEFINE pairs == {<<peers[n][p].address, Outgoing(n, p, m)>> : p \in ps}
<1>1. /\ SocketSend(pairs)
      /\ origin' = origin
      /\ \A p \in ps : peers[n][p].sequence_number <= MaxSeq[n]
      /\ peers'[n] = [p \in DOMAIN peers[n] |->
             IF p \in ps THEN [peers[n][p] EXCEPT !.sequence_number = Increment(@)]
             ELSE peers[n][p]]
  BY DEF DoSend, historyVars, TypeOK
<1>2. ASSUME NEW p \in ps, peers[n][p].address = a, d = Outgoing(n, p, m) PROVE Sent(n, a, m, d)
  <2>1. peers[n][p] \in Peer
    BY DEF TypeOK
  <2>2. d.seq = peers[n][p].sequence_number /\ d.seq \in Nat
    BY <1>2, <2>1, AckFieldAssumption DEF Outgoing, Peer, SeqNum
  <2>3. d.seq <= MaxSeq[n] /\ MaxSeq[n] \in Nat /\ MaxSeq[n] < SeqMod - 1
    BY <1>1, <2>2, NodeAssumption DEF NumbersFit
  <2>4. p \in DOMAIN peers'[n] /\ peers'[n][p].sequence_number = Increment(d.seq)
    BY <1>1, <2>1, <2>2 DEF Peer
  <2>5. d.seq < Increment(d.seq)
    BY <2>2, <2>3, AckFieldAssumption DEF Increment
  <2>6. QED
    BY <1>2, <2>4, <2>5 DEF Sent
<1>3. CASE d \in network'[a] /\ d.from = n
  <2>1. d \in network[a] \/ \E pair \in pairs : pair[1] = a /\ pair[2] = d
    BY <1>1, <1>3, SocketSendAdds
  <2>2. QED
    BY <1>2, <1>3, <2>1 DEF OnTheWay
<1>4. ASSUME NEW r \in sent_messages'[n], r.payload = d,
             NEW o \in origin[n], o.peer = r.peer, o.address = a
      PROVE  OnTheWay(n, a, d) \/ Sent(n, a, m, d)
  <2>1. CASE r \in sent_messages[n]
    BY <1>4, <2>1 DEF OnTheWay
  <2>2. CASE r \notin sent_messages[n]
    <3>1. PICK p \in ps : r = [peer |-> p, payload |-> Outgoing(n, p, m)]
      BY <1>4, <2>2 DEF DoSend, TypeOK
    <3>2. o.peer = p /\ d = Outgoing(n, p, m)
      BY <1>4, <3>1
    <3>3. PICK u \in origin[n] : u.peer = p /\ u.address = peers[n][p].address
      BY DEF Accounted
    <3>4. peers[n][p].address = a
      BY <1>4, <3>2, <3>3 DEF Accounted
    <3>5. QED
      BY <1>2, <3>2, <3>4
  <2>3. QED
    BY <2>1, <2>2
<1>5. QED
  BY <1>1, <1>3, <1>4 DEF OnTheWay

\* Neither does a step that sends nothing, or repeats what it has sent.
LEMMA QuietWay ==
    ASSUME TypeOK, NEW n \in Nodes, Accounted(n), Pending(n), NumberedAt(n), Step(n),
           sent_messages'[n] \subseteq sent_messages[n],
           NEW a \in Nodes, NEW d,
           d \in network'[a] => d \in network[a] \/ OnTheWay(n, a, d),
           OnTheWay(n, a, d)'
    PROVE  OnTheWay(n, a, d)
<1>1. CASE d \in network'[a] /\ d.from = n
  BY <1>1 DEF OnTheWay
<1>2. ASSUME NEW m \in sent_messages'[n], m.payload = d,
             NEW o \in origin'[n], o.peer = m.peer, o.address = a
      PROVE  OnTheWay(n, a, d)
  <2>1. m \in sent_messages[n]
    BY <1>2
  <2>2. PICK u \in origin[n] : u.peer = m.peer
    BY <2>1 DEF NumberedAt
  <2>3. u.peer # next_peer_id[n]
    BY DEF Accounted, TypeOK, PeerId
  <2>4. o \in origin[n]
    BY <1>2, <2>2, <2>3, IdsGrow
  <2>5. QED
    BY <1>2, <2>1, <2>4 DEF OnTheWay
<1>3. QED
  BY <1>1, <1>2 DEF OnTheWay

(***************************************************************************)
(* What a step of n puts on the way is one message, in one datagram for each *)
(* of the entries it is sent to.                                            *)
(***************************************************************************)
LEMMA WayStep ==
    ASSUME NumbersFit, TypeOK, NEW n \in Nodes, Accounted(n), Pending(n), NumberedAt(n), Step(n),
           AskedFor(n)
    PROVE  \E m : \A a \in Nodes : \A d :
               OnTheWay(n, a, d)' => OnTheWay(n, a, d) \/ Sent(n, a, m, d)
<1>1. ASSUME NEW ps \in SUBSET DOMAIN peers[n], NEW m, DoSend(n, ps, m)
      PROVE  \E x : \A a \in Nodes : \A d :
                 OnTheWay(n, a, d)' => OnTheWay(n, a, d) \/ Sent(n, a, x, d)
  <2>1. ASSUME NEW a \in Nodes, NEW d, OnTheWay(n, a, d)'
        PROVE  OnTheWay(n, a, d) \/ Sent(n, a, m, d)
    BY <1>1, <2>1, DoSendWay
  <2>2. QED
    BY <2>1
<1>2. ASSUME sent_messages'[n] \subseteq sent_messages[n],
             \A a \in Nodes : \A d \in network'[a] : d \in network[a] \/ OnTheWay(n, a, d)
      PROVE  \A a \in Nodes : \A d : OnTheWay(n, a, d)' => OnTheWay(n, a, d)
  <2>1. SUFFICES ASSUME NEW a \in Nodes, NEW d, OnTheWay(n, a, d)' PROVE OnTheWay(n, a, d)
    OBVIOUS
  <2>2. QED
    BY <1>2, <2>1, QuietWay
<1>3. CASE RunSend(n)
  BY <1>1, <1>3 DEF RunSend
<1>4. CASE RunBroadcast(n)
  BY <1>1, <1>4 DEF RunBroadcast
<1>5. CASE KeepAlive(n)
  BY <1>1, <1>5 DEF KeepAlive
<1>6. ASSUME NEW d \in network[n], HandleIncoming(n, d)
      PROVE  sent_messages'[n] \subseteq sent_messages[n] /\ network' = network
  BY <1>6, Incoming DEF Unacked, TypeOK
<1>7. CASE ResendReliable(n)
  <2>1. PICK late \in SUBSET sent_messages[n] :
            LET orphans == {m \in late : m.peer \notin DOMAIN peers[n]}
            IN  /\ SocketSend({<<peers[n][m.peer].address, m.payload>> : m \in late \ orphans})
                /\ sent_messages' = [sent_messages EXCEPT ![n] = @ \ orphans]
    BY <1>7 DEF ResendReliable
  <2> DEFINE orphans == {m \in late : m.peer \notin DOMAIN peers[n]}
             pairs   == {<<peers[n][m.peer].address, m.payload>> : m \in late \ orphans}
  <2>2. SocketSend(pairs) /\ sent_messages'[n] \subseteq sent_messages[n]
    BY <2>1 DEF TypeOK
  <2>3. ASSUME NEW a \in Nodes, NEW d \in network'[a] PROVE d \in network[a] \/ OnTheWay(n, a, d)
    <3>1. d \in network[a] \/ \E pair \in pairs : pair[1] = a /\ pair[2] = d
      BY <2>2, SocketSendAdds
    <3>2. ASSUME NEW m \in late, m.peer \in DOMAIN peers[n],
                 peers[n][m.peer].address = a, m.payload = d
          PROVE  OnTheWay(n, a, d)
      BY <3>2 DEF Accounted, OnTheWay
    <3>3. QED
      BY <3>1, <3>2
  <2>4. QED
    BY <1>2, <2>2, <2>3
<1>8. CASE sent_messages' = sent_messages /\ network' = network
  BY <1>2, <1>8
<1>9. QED
  BY <1>2, <1>3, <1>4, <1>5, <1>6, <1>7, <1>8
     DEF Step, Connect, Send, Broadcast, Ask, Call, RunConnect, SyncPoint, IncomingDone,
         Timeout, TimeoutDone

\* Every message that a step adds is kept for an entry on record.
LEMMA AddressedStep ==
    ASSUME TypeOK, NEW n \in Nodes, Accounted(n), NumberedAt(n), Step(n),
           NEW m \in sent_messages'[n]
    PROVE  \E o \in origin'[n] : o.peer = m.peer
<1>1. ASSUME NEW o \in origin[n] PROVE o \in origin'[n]
  BY OriginGrows
<1>2. ASSUME m \in sent_messages[n] PROVE \E o \in origin'[n] : o.peer = m.peer
  <2>1. \E o \in origin[n] : o.peer = m.peer
    BY <1>2 DEF NumberedAt
  <2>2. QED
    BY <1>1, <2>1
<1>3. ASSUME NEW ps \in SUBSET DOMAIN peers[n], NEW x, DoSend(n, ps, x),
             m \notin sent_messages[n]
      PROVE  \E o \in origin'[n] : o.peer = m.peer
  <2>1. PICK p \in ps : m = [peer |-> p, payload |-> Outgoing(n, p, x)]
    BY <1>3 DEF DoSend, TypeOK
  <2>2. \E o \in origin[n] : o.peer = p
    BY DEF Accounted
  <2>3. QED
    BY <1>1, <2>1, <2>2
<1>4. CASE RunSend(n)
  BY <1>2, <1>3, <1>4 DEF RunSend
<1>5. CASE RunBroadcast(n)
  BY <1>2, <1>3, <1>5 DEF RunBroadcast
<1>6. CASE KeepAlive(n)
  BY <1>2, <1>3, <1>6 DEF KeepAlive
<1>7. ASSUME NEW d \in network[n], HandleIncoming(n, d)
      PROVE  sent_messages'[n] \subseteq sent_messages[n]
  BY <1>7, Incoming DEF Unacked, TypeOK
<1>8. CASE ResendReliable(n)
  <2>1. sent_messages'[n] \subseteq sent_messages[n]
    BY <1>8 DEF ResendReliable, TypeOK
  <2>2. QED
    BY <1>2, <2>1
<1>9. CASE sent_messages' = sent_messages
  BY <1>2, <1>9
<1>10. QED
  BY <1>2, <1>4, <1>5, <1>6, <1>7, <1>8, <1>9
     DEF Step, Connect, Send, Broadcast, Ask, Call, RunConnect, SyncPoint, IncomingDone,
         Timeout, TimeoutDone

\* What is on its way is a datagram.
LEMMA WayType ==
    ASSUME TypeOK, NEW n \in Nodes, NEW a \in Nodes, NEW d, OnTheWay(n, a, d)
    PROVE  d \in Datagram /\ d.seq \in Nat
<1>1. d \in Datagram
  BY DEF OnTheWay, TypeOK, Message
<1>2. QED
  BY <1>1, AckFieldAssumption DEF Datagram, SeqNum

\* A datagram is traced by the entry it is sent from.
LEMMA SentTraced ==
    ASSUME TypeOK, NEW n \in Nodes, Accounted(n), Pending(n), Step(n),
           NEW a, NEW m, NEW d, Sent(n, a, m, d)
    PROVE  Traced(n, a, d)'
<1>1. PICK p \in DOMAIN peers[n] : /\ peers[n][p].address = a
                                   /\ d.seq < peers'[n][p].sequence_number
  BY DEF Sent
<1>2. PICK o \in origin[n] : o.peer = p /\ o.address = a
  BY <1>1 DEF Accounted
<1>3. o \in origin'[n]
  BY OriginGrows
<1>4. p # next_peer_id[n]
  BY DEF TypeOK, PeerId
<1>5. \A i \in 1 .. Len(tasks'[n]) : tasks'[n][i].op = "connect" => tasks'[n][i].peer # p
  <2>1. \A j \in 1 .. Len(tasks[n]) : tasks[n][j].op = "connect" => tasks[n][j].peer # p
    BY DEF Pending
  <2>2. QED
    BY <1>4, <2>1, TasksStep
<1>6. QED
  BY <1>1, <1>2, <1>3, <1>5 DEF Traced

\* One that has the number of an earlier one is sent from another entry.
LEMMA SentApart ==
    ASSUME TypeOK, NEW n \in Nodes, Accounted(n),
           NEW a, NEW m, NEW d, Sent(n, a, m, d), NEW e, Traced(n, a, e), d.seq = e.seq
    PROVE  Twice(n, a)
<1>1. PICK p \in DOMAIN peers[n] : peers[n][p].address = a /\ d = Outgoing(n, p, m)
  BY DEF Sent
<1>2. PICK o \in origin[n] :
          /\ o.address = a
          /\ o.peer \in DOMAIN peers[n] => e.seq < peers[n][o.peer].sequence_number
  BY DEF Traced
<1>3. PICK u \in origin[n] : u.peer = p /\ u.address = a
  BY <1>1 DEF Accounted
<1>4. d.seq = peers[n][p].sequence_number /\ d.seq \in Nat
  BY <1>1, AckFieldAssumption, SMTT(60) DEF Outgoing, TypeOK, Peer, SeqNum
<1>5. o.peer # p
  BY <1>2, <1>4
<1>6. QED
  BY <1>2, <1>3, <1>5 DEF Twice

\* Two datagrams that carry the same message are sent from two entries.
LEMMA SentTwice ==
    ASSUME TypeOK, NEW n \in Nodes, Accounted(n),
           NEW a, NEW m, NEW d, Sent(n, a, m, d), NEW e, Sent(n, a, m, e), d # e
    PROVE  Twice(n, a)
<1>1. PICK p \in DOMAIN peers[n] : peers[n][p].address = a /\ d = Outgoing(n, p, m)
  BY DEF Sent
<1>2. PICK q \in DOMAIN peers[n] : peers[n][q].address = a /\ e = Outgoing(n, q, m)
  BY DEF Sent
<1>3. PICK o \in origin[n] : o.peer = p /\ o.address = a
  BY <1>1 DEF Accounted
<1>4. PICK u \in origin[n] : u.peer = q /\ u.address = a
  BY <1>2 DEF Accounted
<1>5. o # u
  BY <1>1, <1>2, <1>3, <1>4
<1>6. QED
  BY <1>3, <1>4, <1>5 DEF Twice

\* A step of n keeps the invariant at n.
LEMMA NumberedStep ==
    ASSUME NumbersFit, TypeOK, TypeOK', NEW n \in Nodes, Accounted(n), Pending(n), AskedFor(n),
           NumberedAt(n), Step(n)
    PROVE  NumberedAt(n)'
<1>1. IsFiniteSet(origin'[n]) /\ origin[n] \subseteq origin'[n]
  <2>1. IsFiniteSet(origin[n])
    BY DEF NumberedAt
  <2>2. \A o : IsFiniteSet(origin[n] \cup {o})
    BY <2>1, FS_AddElement
  <2>3. QED
    BY <2>1, <2>2, OriginGrows
<1>2. PICK m : \A a \in Nodes : \A d :
          OnTheWay(n, a, d)' => OnTheWay(n, a, d) \/ Sent(n, a, m, d)
  BY WayStep
<1>3. \A a \in Nodes : \A d : OnTheWay(n, a, d) => Traced(n, a, d)
  BY DEF NumberedAt
<1>4. ASSUME NEW a \in Nodes, NEW d, OnTheWay(n, a, d)' PROVE Traced(n, a, d)'
  <2>1. CASE OnTheWay(n, a, d)
    <3>1. d.seq \in Nat /\ Traced(n, a, d)
      BY <1>3, <2>1, WayType
    <3>2. QED
      BY <3>1, TracedStep
  <2>2. CASE Sent(n, a, m, d)
    BY <2>2, SentTraced
  <2>3. QED
    BY <1>2, <1>4, <2>1, <2>2
<1>5. ASSUME NEW a \in Nodes, NEW d, OnTheWay(n, a, d)', NEW e, OnTheWay(n, a, e)',
             d.seq = e.seq, d # e
      PROVE  Twice(n, a)'
  <2>1. Twice(n, a)
    <3>1. CASE OnTheWay(n, a, d) /\ OnTheWay(n, a, e)
      BY <1>5, <3>1 DEF NumberedAt
    <3>2. CASE Sent(n, a, m, d) /\ OnTheWay(n, a, e)
      BY <1>3, <1>5, <3>2, SentApart
    <3>3. CASE OnTheWay(n, a, d) /\ Sent(n, a, m, e)
      BY <1>3, <1>5, <3>3, SentApart
    <3>4. CASE Sent(n, a, m, d) /\ Sent(n, a, m, e)
      BY <1>5, <3>4, SentTwice
    <3>5. QED
      BY <1>2, <1>5, <3>1, <3>2, <3>3, <3>4
  <2>2. QED
    BY <1>1, <2>1 DEF Twice
<1>6. \A x \in sent_messages'[n] : \E o \in origin'[n] : o.peer = x.peer
  BY AddressedStep
<1>7. QED
  BY <1>1, <1>4, <1>5, <1>6 DEF NumberedAt

\* A step of another node puts nothing of k on the way.
LEMMA NumberedOther ==
    ASSUME TypeOK, NEW n \in Nodes, AskedFor(n), Step(n), NEW k \in Nodes, k # n, NumberedAt(k)
    PROVE  NumberedAt(k)'
<1>1. UNCHANGED <<peers[k], origin[k], tasks[k], sent_messages[k]>>
  BY OthersKept
<1>2. ASSUME NEW a \in Nodes, NEW d, OnTheWay(k, a, d)' PROVE OnTheWay(k, a, d)
  <2>1. d \in network'[a] => d \in network[a] \/ d.from = n
    BY StepAsks
  <2>2. QED
    BY <1>1, <1>2, <2>1 DEF OnTheWay
<1>3. ASSUME NEW a, NEW d, Traced(k, a, d) PROVE Traced(k, a, d)'
  BY <1>1, <1>3 DEF Traced
<1>4. ASSUME NEW a, Twice(k, a) PROVE Twice(k, a)'
  BY <1>1, <1>4 DEF Twice
<1>5. /\ IsFiniteSet(origin'[k])
      /\ \A m \in sent_messages'[k] : \E o \in origin'[k] : o.peer = m.peer
  BY <1>1 DEF NumberedAt
<1>6. \A a \in Nodes : \A d : OnTheWay(k, a, d)' => Traced(k, a, d)'
  BY <1>2, <1>3 DEF NumberedAt
<1>7. \A a \in Nodes : \A d, e :
          (OnTheWay(k, a, d)' /\ OnTheWay(k, a, e)' /\ d.seq = e.seq /\ d # e) => Twice(k, a)'
  BY <1>2, <1>4 DEF NumberedAt
<1>8. QED
  BY <1>5, <1>6, <1>7 DEF NumberedAt

(***************************************************************************)
(* Retransmission, timeouts and entries that are made again under another    *)
(* id: as long as no number wraps, two different datagrams from one node to  *)
(* another have the same number only if the sender has had two entries for   *)
(* the address, so that a receiver that hears of one entry can tell          *)
(* datagrams by their numbers.                                              *)
(***************************************************************************)
THEOREM NumbersIdentifyHolds ==
    ASSUME NumbersFit
    PROVE  Spec => []NumbersIdentify
<1> DEFINE NumberedOK == \A n \in Nodes : NumberedAt(n)
<1>1. Init => NumberedOK /\ SpokenOK
  <2>1. Init => SpokenOK
    BY DEF Init, SpokenOK, AskedFor, Named, GenuineAt, Callbacks
  <2>2. ASSUME Init, NEW n \in Nodes PROVE NumberedAt(n)
    <3>1. network = [k \in Nodes |-> {}] /\ sent_messages[n] = {} /\ origin[n] = {}
      BY <2>2 DEF Init
    <3>2. IsFiniteSet(origin[n])
      BY <3>1, FS_EmptySet
    <3>3. \A a \in Nodes : \A d : ~OnTheWay(n, a, d)
      BY <3>1 DEF OnTheWay
    <3>4. QED
      BY <3>1, <3>2, <3>3 DEF NumberedAt
  <2>3. QED
    BY <2>1, <2>2
<1>2. (TableOK /\ SpokenOK) /\ NumberedOK /\ [Next]_vars => NumberedOK'
  <2> SUFFICES ASSUME TableOK, SpokenOK, NumberedOK, [Next]_vars, NEW k \in Nodes
               PROVE  NumberedAt(k)'
    OBVIOUS
  <2>1. CASE UNCHANGED vars
    BY <2>1 DEF NumberedAt, OnTheWay, Traced, Twice, vars, stateVars, historyVars
  <2>2. ASSUME NEW n \in Nodes, Step(n), UNCHANGED id PROVE NumberedAt(k)'
    <3>1. TypeOK /\ Accounted(n) /\ Pending(n) /\ AskedFor(n) /\ NumberedAt(n) /\ NumberedAt(k)
      BY DEF TableOK, SpokenOK
    <3>2. TypeOK'
      BY <2>2, <3>1, TypeStep
    <3>3. CASE k = n
      BY <2>2, <3>1, <3>2, <3>3, NumbersFit, NumberedStep
    <3>4. CASE k # n
      BY <2>2, <3>1, <3>4, NumberedOther
    <3>5. QED
      BY <3>3, <3>4
  <2>3. QED
    BY <2>1, <2>2 DEF Next
<1>3. TableOK /\ NumberedOK => NumbersIdentify
  <2> SUFFICES ASSUME TableOK, NumberedOK, NEW a \in Nodes,
                      NEW d \in network[a], NEW e \in network[a],
                      d.from = e.from, d.seq = e.seq, d # e
               PROVE  Cardinality({o \in origin[d.from] : o.address = a}) > 1
    BY DEF NumbersIdentify
  <2> DEFINE n == d.from
             S == {o \in origin[n] : o.address = a}
  <2>1. n \in Nodes
    BY DEF TableOK, TypeOK, Datagram
  <2>2. NumberedAt(n)
    BY <2>1
  <2>3. OnTheWay(n, a, d) /\ OnTheWay(n, a, e)
    BY DEF OnTheWay
  <2>4. Twice(n, a)
    BY <2>2, <2>3 DEF NumberedAt
  <2>5. PICK o \in origin[n], u \in origin[n] : o # u /\ o.address = a /\ u.address = a
    BY <2>4 DEF Twice
  <2>6. IsFiniteSet(S) /\ {o, u} \subseteq S
    <3>1. IsFiniteSet(origin[n])
      BY <2>2 DEF NumberedAt
    <3>2. S \subseteq origin[n] /\ {o, u} \subseteq S
      BY <2>5
    <3>3. QED
      BY <3>1, <3>2, FS_Subset
  <2> HIDE DEF S
  <2>7. Cardinality({o, u}) = 2
    <3>1. IsFiniteSet({o}) /\ Cardinality({o}) = 1
      BY FS_Singleton
    <3>2. Cardinality({o} \cup {u}) = 2
      <4>1. Cardinality({o} \cup {u}) = Cardinality({o}) + 1
        BY <2>5, <3>1, FS_AddElement
      <4>2. QED
        BY <3>1, <4>1
    <3>3. {o} \cup {u} = {o, u}
      OBVIOUS
    <3>4. QED
      BY <3>2, <3>3
  <2>8. Cardinality({o, u}) <= Cardinality(S) /\ Cardinality(S) \in Nat
    BY <2>6, FS_Subset, FS_CardinalityType
  <2>9. Cardinality(S) > 1
    BY <2>7, <2>8
  <2>10. QED
    BY <2>9 DEF S
<1>4. TableOK /\ SpokenOK /\ [Next]_vars => SpokenOK'
  BY SpokenStep
<1> HIDE DEF NumberedOK
<1>5. QED
  BY <1>1, <1>2, <1>3, <1>4, TableInvariant, PTL DEF Spec
=============================================================================
