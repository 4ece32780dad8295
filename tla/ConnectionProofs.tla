-------------------------- MODULE ConnectionProofs --------------------------
(***************************************************************************)
(* Theorems about Connection, for every number of messages, every window     *)
(* width, every bound and every network gap.                                *)
(***************************************************************************)
EXTENDS Connection, AckFieldProofs

\* Each end has exactly one peer, and is the peer of it.
LEMMA PeerType ==
    ASSUME NEW n \in Ends
    PROVE  Peer(n) \in Ends /\ Peer(n) # n /\ Peer(Peer(n)) = n
BY DEF Peer, Ends

\* What do_send writes is a datagram.
LEMMA OutgoingType ==
    ASSUME TypeOK, NEW n \in Ends, NEW m \in Msgs \cup {KEEP_ALIVE}
    PROVE  Outgoing(n, m) \in Datagram
BY DEF TypeOK, Outgoing, Datagram

\* The socket adds datagrams of the sender to the network and nothing else.
LEMMA SocketSendType ==
    ASSUME TypeOK, NEW n \in Ends, NEW ds \in SUBSET Datagram, SocketSend(n, ds)
    PROVE  network' \in [Ends -> SUBSET Datagram]
BY PeerType DEF TypeOK, SocketSend

(***************************************************************************)
(* Type correctness.                                                        *)
(***************************************************************************)
LEMMA TypeOKStep == TypeOK /\ [Next]_vars => TypeOK'
<1> SUFFICES ASSUME TypeOK, [Next]_vars PROVE TypeOK'
  OBVIOUS
<1>1. ASSUME NEW n \in Ends, Connect(n) PROVE TypeOK'
  BY <1>1 DEF TypeOK, Connect, historyVars
<1>2. ASSUME NEW n \in Ends, NEW m \in Msgs \cup {KEEP_ALIVE}, Transmit(n, m)
      PROVE  /\ network' \in [Ends -> SUBSET Datagram]
             /\ sequence_number' \in [Ends -> SeqNum]
             /\ UNCHANGED <<connected, remote_sequence_number, ack_field, delivered,
                            arrived, overflowed>>
  <2>1. network' \in [Ends -> SUBSET Datagram]
    BY <1>2, OutgoingType, SocketSendType DEF Transmit
  <2>2. Increment(sequence_number[n]) \in SeqNum
    BY IncrementType DEF TypeOK
  <2>3. QED
    BY <1>2, <2>1, <2>2 DEF Transmit, TypeOK
<1>3. ASSUME NEW n \in Ends, NEW m \in Msgs, Send(n, m) PROVE TypeOK'
  <2>1. Outgoing(n, m) \in Datagram
    BY OutgoingType
  <2>2. /\ sent_messages' \in [Ends -> SUBSET Datagram]
        /\ sent' \in [Ends -> Seq(Datagram)]
    BY <1>3, <2>1 DEF Send, TypeOK
  <2>3. QED
    BY <1>2, <1>3, <2>2 DEF Send, TypeOK
<1>4. ASSUME NEW n \in Ends, KeepAlive(n) PROVE TypeOK'
  BY <1>2, <1>4 DEF KeepAlive, TypeOK
<1>5. ASSUME NEW n \in Ends, ResendReliable(n) PROVE TypeOK'
  <2>1. PICK late \in SUBSET sent_messages[n] :
            /\ SocketSend(n, late)
            /\ UNCHANGED <<peerVars, sent_messages, delivered, historyVars>>
    BY <1>5 DEF ResendReliable
  <2>2. network' \in [Ends -> SUBSET Datagram]
    BY <2>1, SocketSendType DEF TypeOK
  <2>3. QED
    BY <2>1, <2>2 DEF TypeOK, peerVars, historyVars
<1>6. ASSUME NEW n \in Ends, NEW d \in network[n], HandleIncoming(n, d) PROVE TypeOK'
  <2> DEFINE calls == Deliver(delivered[n], d,
                              Recived(remote_sequence_number[n], ack_field[n], d.seq))
  <2>1. d \in Datagram
    BY DEF TypeOK
  <2>2. calls \in Seq(Msgs)
    BY <2>1 DEF TypeOK, Deliver, Datagram
  <2>3. RemoteAfter(remote_sequence_number[n], d.seq) \in SeqNum
    BY <2>1, RemoteAfterType DEF TypeOK, Datagram
  <2>4. ack_field' \in [Ends -> Field]
    BY <1>6, <2>1, FieldAfterType DEF HandleIncoming, TypeOK, Datagram
  <2>5. Unacked(sent_messages[n], d.lack, d.acks) \subseteq sent_messages[n]
    BY DEF Unacked
  <2>6. overflowed' \in [Ends -> BOOLEAN]
    BY <1>6, Zenon DEF HandleIncoming, TypeOK, ShiftOverflow
  <2>7. arrived' \in [Ends -> SUBSET SeqNum]
    BY <1>6, <2>1 DEF HandleIncoming, TypeOK, Datagram
  <2>8. QED
    BY <1>6, <2>2, <2>3, <2>4, <2>5, <2>6, <2>7 DEF HandleIncoming, TypeOK
<1>7. CASE UNCHANGED vars
  BY <1>7 DEF TypeOK, vars, peerVars, historyVars
<1>8. QED
  BY <1>1, <1>3, <1>4, <1>5, <1>6, <1>7 DEF Next

(***************************************************************************)
(* Every state that do_send, handle_incoming, handle_acks, keep_alive and    *)
(* resend_reliable can reach is well typed.                                 *)
(***************************************************************************)
THEOREM TypeCorrect == Spec => []TypeOK
<1>1. Init => TypeOK
  BY AckFieldAssumption DEF Init, TypeOK, SeqNum, Field
<1>2. QED
  BY <1>1, TypeOKStep, PTL DEF Spec

-----------------------------------------------------------------------------
(***************************************************************************)
(* A number taken for a duplicate is taken for one ever after.               *)
(***************************************************************************)
LEMMA RejectionStep ==
    ASSUME TypeOK, [Next]_vars, NEW n \in Ends, NEW s \in SeqNum, Rejects(n, s)
    PROVE  Rejects(n, s)'
<1>1. CASE UNCHANGED <<remote_sequence_number, ack_field>>
  BY <1>1 DEF Rejects
<1>2. ASSUME NEW k \in Ends, NEW d \in network[k], HandleIncoming(k, d)
      PROVE  Rejects(n, s)'
  <2>1. d.seq \in SeqNum
    BY DEF TypeOK, Datagram
  <2>2. CASE k = n
    <3>1. PICK f \in FieldAfter(remote_sequence_number[n], ack_field[n], d.seq) :
              ack_field' = [ack_field EXCEPT ![n] = f]
      BY <1>2, <2>2 DEF HandleIncoming
    <3>2. Recived(RemoteAfter(remote_sequence_number[n], d.seq), f, s)
      BY <2>1, <3>1, RejectionKept DEF TypeOK, Rejects
    <3>3. /\ remote_sequence_number'[n] = RemoteAfter(remote_sequence_number[n], d.seq)
          /\ ack_field'[n] = f
      BY <1>2, <2>2, <3>1 DEF HandleIncoming, TypeOK
    <3>4. QED
      BY <3>2, <3>3 DEF Rejects
  <2>3. CASE k # n
    BY <1>2, <2>3 DEF HandleIncoming, TypeOK, Rejects
  <2>4. QED
    BY <2>2, <2>3
<1>3. QED
  BY <1>1, <1>2 DEF Next, Connect, Send, KeepAlive, Transmit, ResendReliable, vars, peerVars

(***************************************************************************)
(* A number the duplicate check of handle_incoming rejects is rejected ever  *)
(* after, whatever a shift that is too far leaves in the field.             *)
(***************************************************************************)
THEOREM RejectedForGoodHolds == Spec => RejectedForGood
<1>1. TypeOK /\ [Next]_vars =>
          [\A n \in Ends : \A s \in SeqNum : Rejects(n, s) => Rejects(n, s)']_vars
  BY RejectionStep
<1>2. QED
  BY <1>1, TypeCorrect, PTL DEF Spec, RejectedForGood

-----------------------------------------------------------------------------
(***************************************************************************)
(* What a step means for one end: it sends nothing or one new datagram, and  *)
(* it processes nothing or one datagram.                                    *)
(***************************************************************************)
SendsNothing(n) ==
    /\ sequence_number'[n] = sequence_number[n]
    /\ sent'[n] = sent[n]
    /\ Sent(n)' \subseteq Sent(n)

Sends(n, m) ==
    /\ Transmit(n, m)
    /\ Sent(n)' \subseteq Sent(n) \cup {Outgoing(n, m)}
    /\ \/ m \in Msgs /\ sent'[n] = Append(sent[n], Outgoing(n, m))
       \/ m = KEEP_ALIVE /\ sent'[n] = sent[n]

ReceivesNothing(n) ==
    /\ remote_sequence_number'[n] = remote_sequence_number[n]
    /\ ack_field'[n] = ack_field[n]
    /\ delivered'[n] = delivered[n]
    /\ arrived'[n] = arrived[n]
    /\ overflowed'[n] = overflowed[n]

\* Which steps of an end can put datagrams on the network.
LEMMA SendStep ==
    ASSUME TypeOK, [Next]_vars, NEW n \in Ends
    PROVE  \/ SendsNothing(n)
           \/ \E m \in Msgs \cup {KEEP_ALIVE} : Sends(n, m)
<1>1. ASSUME NEW k \in Ends, Connect(k) PROVE SendsNothing(n)
  BY <1>1 DEF Connect, historyVars, Sent, SendsNothing
<1>2. ASSUME NEW k \in Ends, NEW m, Transmit(k, m), k # n,
             sent_messages'[n] = sent_messages[n], sent'[n] = sent[n]
      PROVE  SendsNothing(n)
  <2>1. Peer(k) # Peer(n)
    BY <1>2, PeerType DEF Ends
  <2>2. network'[Peer(n)] = network[Peer(n)]
    BY <1>2, <2>1, PeerType DEF Transmit, SocketSend, TypeOK
  <2>3. sequence_number'[n] = sequence_number[n]
    BY <1>2 DEF Transmit, TypeOK
  <2>4. QED
    BY <1>2, <2>2, <2>3 DEF SendsNothing, Sent
<1>3. ASSUME NEW m, Transmit(n, m)
      PROVE  network'[Peer(n)] \subseteq network[Peer(n)] \cup {Outgoing(n, m)}
  BY <1>3, PeerType DEF Transmit, SocketSend, TypeOK
<1>4. ASSUME NEW k \in Ends, NEW m \in Msgs, Send(k, m)
      PROVE  SendsNothing(n) \/ Sends(n, m)
  <2>1. CASE k # n
    BY <1>2, <1>4, <2>1 DEF Send, TypeOK
  <2>2. CASE k = n
    <3>1. /\ sent_messages'[n] = sent_messages[n] \cup {Outgoing(n, m)}
          /\ sent'[n] = Append(sent[n], Outgoing(n, m))
      BY <1>4, <2>2 DEF Send, TypeOK
    <3>2. {sent'[n][i] : i \in 1 .. Len(sent'[n])} \subseteq
              {sent[n][i] : i \in 1 .. Len(sent[n])} \cup {Outgoing(n, m)}
      BY <3>1 DEF TypeOK
    <3>3. Sent(n)' \subseteq Sent(n) \cup {Outgoing(n, m)}
      BY <1>3, <1>4, <2>2, <3>1, <3>2 DEF Send, Sent
    <3>4. QED
      BY <1>4, <2>2, <3>1, <3>3 DEF Send, Sends
  <2>3. QED
    BY <2>1, <2>2
<1>5. ASSUME NEW k \in Ends, KeepAlive(k)
      PROVE  SendsNothing(n) \/ Sends(n, KEEP_ALIVE)
  <2>1. CASE k # n
    BY <1>2, <1>5, <2>1 DEF KeepAlive
  <2>2. CASE k = n
    <3>1. Sent(n)' \subseteq Sent(n) \cup {Outgoing(n, KEEP_ALIVE)}
      BY <1>3, <1>5, <2>2 DEF KeepAlive, Sent
    <3>2. QED
      BY <1>5, <2>2, <3>1 DEF KeepAlive, Sends
  <2>3. QED
    BY <2>1, <2>2
<1>6. ASSUME NEW k \in Ends, ResendReliable(k) PROVE SendsNothing(n)
  <2>1. PICK late \in SUBSET sent_messages[k] :
            /\ SocketSend(k, late)
            /\ UNCHANGED <<peerVars, sent_messages, delivered, historyVars>>
    BY <1>6 DEF ResendReliable
  <2>2. network'[Peer(n)] \subseteq network[Peer(n)] \cup sent_messages[n]
    BY <2>1, PeerType DEF SocketSend, TypeOK, Ends
  <2>3. Sent(n)' \subseteq Sent(n)
    BY <2>1, <2>2 DEF Sent, historyVars
  <2>4. QED
    BY <2>1, <2>3 DEF peerVars, historyVars, SendsNothing
<1>7. ASSUME NEW k \in Ends, NEW d \in network[k], HandleIncoming(k, d)
      PROVE  SendsNothing(n)
  <2>1. sent_messages'[n] \subseteq sent_messages[n]
    BY <1>7 DEF HandleIncoming, TypeOK, Unacked
  <2>2. QED
    BY <1>7, <2>1 DEF HandleIncoming, Sent, SendsNothing
<1>8. CASE UNCHANGED vars
  BY <1>8 DEF vars, peerVars, historyVars, Sent, SendsNothing
<1>9. QED
  BY <1>1, <1>4, <1>5, <1>6, <1>7, <1>8 DEF Next

\* What an end has received changes in its own HandleIncoming only.
LEMMA ReceiveStep ==
    ASSUME TypeOK, [Next]_vars, NEW n \in Ends
    PROVE  ReceivesNothing(n) \/ \E d \in network[n] : HandleIncoming(n, d)
<1>1. ASSUME NEW k \in Ends, NEW d \in network[k], HandleIncoming(k, d), k # n
      PROVE  ReceivesNothing(n)
  BY <1>1 DEF HandleIncoming, TypeOK, ReceivesNothing
<1>2. QED
  BY <1>1 DEF Next, Connect, Send, KeepAlive, Transmit, ResendReliable, ReceivesNothing,
              vars, peerVars, historyVars

-----------------------------------------------------------------------------
(***************************************************************************)
(* What has arrived explains every ack field.                               *)
(***************************************************************************)

\* Nothing that has arrived is forgotten.
LEMMA ArrivedKept ==
    ASSUME TypeOK, [Next]_vars, NEW n \in Ends
    PROVE  /\ arrived[n] \subseteq arrived'[n]
           /\ overflowed[n] => overflowed'[n]
<1>1. ASSUME NEW k \in Ends, NEW d \in network[k], HandleIncoming(k, d)
      PROVE  /\ arrived[n] \subseteq arrived'[n]
             /\ overflowed[n] => overflowed'[n]
  BY <1>1 DEF HandleIncoming, TypeOK
<1>2. QED
  BY <1>1 DEF Next, Connect, Send, KeepAlive, Transmit, ResendReliable, vars, historyVars

\* A number that has reached an end has reached it ever after.
LEMMA ReachedKept ==
    ASSUME TypeOK, [Next]_vars, NEW n \in Ends, NEW s, Reached(n, s)
    PROVE  Reached(n, s)'
BY ArrivedKept DEF Reached

\* Everything an end has sent is a datagram.
LEMMA SentType ==
    ASSUME TypeOK, NEW n \in Ends
    PROVE  Sent(n) \subseteq Datagram
<1>1. network[Peer(n)] \subseteq Datagram /\ sent_messages[n] \subseteq Datagram
  BY PeerType DEF TypeOK
<1>2. \A i \in 1 .. Len(sent[n]) : sent[n][i] \in Datagram
  BY DEF TypeOK
<1>3. QED
  BY <1>1, <1>2 DEF Sent

\* A step that leaves the window of the end n alone and sends nothing new.
LEMMA EndExplainedFrame ==
    ASSUME TypeOK, [Next]_vars, NEW n \in Ends, EndExplained(n),
           SendsNothing(n), ReceivesNothing(n)
    PROVE  EndExplained(n)'
BY ReachedKept DEF EndExplained, Explained, SendsNothing, ReceivesNothing

\* Without a wrap the next number is the successor.
LEMMA NextNumber ==
    ASSUME TypeOK, NoWrap, NEW n \in Ends, NEW m, Transmit(n, m), sequence_number[n] >= 1
    PROVE  /\ sequence_number[n] \in Nat
           /\ sequence_number'[n] = sequence_number[n] + 1
<1>1. sequence_number[n] \in SeqNum /\ MaxSeq[n] \in Nat
  BY MaxSeqAssumption DEF TypeOK
<1>2. sequence_number[n] <= MaxSeq[n] /\ MaxSeq[n] < SeqMod - 1
  BY DEF Transmit, NoWrap
<1>3. sequence_number'[n] = Increment(sequence_number[n])
  BY DEF Transmit, TypeOK
<1>4. QED
  BY <1>1, <1>2, <1>3, AckFieldAssumption DEF Increment, SeqNum

\* A step in which the end n sends a datagram of its own.
LEMMA TransmitExplained ==
    ASSUME TypeOK, NoWrap, [Next]_vars, NEW n \in Ends, EndExplained(n),
           NEW m \in Msgs \cup {KEEP_ALIVE}, Sends(n, m)
    PROVE  EndExplained(n)'
<1> Transmit(n, m) /\ Sent(n)' \subseteq Sent(n) \cup {Outgoing(n, m)}
  BY DEF Sends
<1>1. /\ sequence_number[n] \in Nat
      /\ sequence_number[n] >= 1
      /\ sequence_number'[n] = sequence_number[n] + 1
  BY NextNumber DEF EndExplained
<1>2. /\ remote_sequence_number'[n] = remote_sequence_number[n]
      /\ ack_field'[n] = ack_field[n]
      /\ arrived'[n] = arrived[n]
      /\ overflowed'[n] = overflowed[n]
  BY DEF Transmit
<1>3. ~overflowed[n] =>
          Explained(n, remote_sequence_number[n], ack_field[n])'
  BY <1>2, ReachedKept DEF EndExplained, Explained
<1>4. ASSUME NEW d \in Sent(n)'
      PROVE  /\ 1 <= d.seq
             /\ d.seq < sequence_number'[n]
             /\ ~overflowed'[n] => Explained(n, d.lack, d.acks)'
  <2>1. CASE d \in Sent(n)
    <3>1. /\ 1 <= d.seq
          /\ d.seq < sequence_number[n]
          /\ ~overflowed[n] => Explained(n, d.lack, d.acks)
      BY <2>1 DEF EndExplained
    <3>2. d.seq \in Nat
      BY <2>1, SentType DEF Datagram, SeqNum
    <3>3. QED
      BY <1>1, <1>2, <3>1, <3>2, ReachedKept DEF Explained
  <2>2. CASE d = Outgoing(n, m)
    BY <1>1, <1>2, <1>3, <2>2 DEF Outgoing, Explained, Reached
  <2>3. QED
    BY <2>1, <2>2
<1>5. QED
  BY <1>1, <1>2, <1>3, <1>4 DEF EndExplained

\* The window of an end after it has processed a datagram.
LEMMA IncomingExplained ==
    ASSUME TypeOK, [Next]_vars, NEW n \in Ends, EndExplained(n),
           NEW d \in network[n], HandleIncoming(n, d), d.seq >= 1
    PROVE  EndExplained(n)'
<1> DEFINE r == remote_sequence_number[n]
           f == ack_field[n]
           reached(s) == s \in arrived'[n] \/ (s = 0 /\ arrived'[n] # {})
<1>1. PICK g \in FieldAfter(r, f, d.seq) : ack_field' = [ack_field EXCEPT ![n] = g]
  BY DEF HandleIncoming
<1>2. /\ sequence_number'[n] = sequence_number[n]
      /\ remote_sequence_number'[n] = RemoteAfter(r, d.seq)
      /\ ack_field'[n] = g
      /\ arrived'[n] = arrived[n] \cup {d.seq}
      /\ ~overflowed'[n] => ~overflowed[n] /\ ~ShiftOverflow(r, d.seq)
      /\ Sent(n)' \subseteq Sent(n)
  <2>1. /\ sequence_number'[n] = sequence_number[n]
        /\ remote_sequence_number'[n] = RemoteAfter(r, d.seq)
        /\ ack_field'[n] = g
        /\ arrived'[n] = arrived[n] \cup {d.seq}
    BY <1>1 DEF HandleIncoming, TypeOK
  <2>2. overflowed'[n] = (overflowed[n] \/ ShiftOverflow(r, d.seq))
    BY Zenon DEF HandleIncoming, TypeOK
  <2>3. sent_messages'[n] \subseteq sent_messages[n]
    BY DEF HandleIncoming, TypeOK, Unacked
  <2>4. Sent(n)' \subseteq Sent(n)
    BY <2>3 DEF HandleIncoming, Sent
  <2>5. QED
    BY <2>1, <2>2, <2>4
<1>3. r \in SeqNum /\ f \in Field /\ d.seq \in SeqNum
  BY DEF TypeOK, Datagram
<1>4. /\ r \in Nat
      /\ d.seq \in Nat
      /\ \A b \in f : b \in Nat
  BY <1>3 DEF SeqNum, Field, Bits
<1>5. /\ reached(r)
      /\ reached(d.seq)
      /\ \A s : Reached(n, s) => reached(s)
  BY <1>2 DEF Reached, EndExplained
<1>6. RemoteAfter(r, d.seq) \in arrived'[n]
  BY <1>2, <1>4 DEF RemoteAfter, EndExplained
<1>7. ASSUME ~overflowed'[n], NEW b \in g
      PROVE  /\ b < RemoteAfter(r, d.seq)
             /\ \/ reached(RemoteAfter(r, d.seq) - 1 - b)
                \/ reached(RemoteAfter(r, d.seq) - b)
  <2>1. ASSUME NEW c \in f
        PROVE  /\ c \in Nat
               /\ c < r
               /\ reached(r - 1 - c) \/ reached(r - c)
    BY <1>2, <1>4, <1>5, <1>7 DEF EndExplained, Explained
  <2>2. CASE r < d.seq
    <3>1. g = {i \in Bits : i - (d.seq - r) \in f \/ i = d.seq - r - 1}
      BY <1>2, <1>3, <1>7, <2>2, FieldAfterNewer
    <3>2. b \in Nat /\ RemoteAfter(r, d.seq) = d.seq
      BY <2>2, <3>1 DEF Bits, RemoteAfter
    <3>3. CASE b - (d.seq - r) \in f
      <4>1. /\ d.seq - 1 - b = r - 1 - (b - (d.seq - r))
            /\ d.seq - b = r - (b - (d.seq - r))
        BY <1>4, <3>2
      <4>2. b < d.seq
        BY <1>4, <2>1, <3>2, <3>3
      <4>3. QED
        BY <2>1, <3>2, <3>3, <4>1, <4>2
    <3>4. CASE b = d.seq - r - 1
      <4>1. d.seq - 1 - b = r /\ b < d.seq
        BY <1>4, <3>4
      <4>2. QED
        BY <1>5, <3>2, <4>1
    <3>5. QED
      BY <3>1, <3>3, <3>4
  <2>3. CASE ~(r < d.seq)
    <3>1. g = f \cup {i \in Bits : i = r - d.seq} /\ RemoteAfter(r, d.seq) = r
      BY <1>3, <2>3, FieldAfterOlder DEF RemoteAfter
    <3>2. CASE b \in f
      BY <2>1, <3>1, <3>2
    <3>3. CASE b = r - d.seq
      <4>1. r - b = d.seq /\ b < r
        BY <1>4, <3>3
      <4>2. QED
        BY <1>5, <3>1, <4>1
    <3>4. QED
      BY <3>1, <3>2, <3>3
  <2>4. QED
    BY <2>2, <2>3
<1>8. ~overflowed'[n] => Explained(n, remote_sequence_number[n], ack_field[n])'
  BY <1>2, <1>7 DEF Explained, Reached
<1>9. ASSUME NEW e \in Sent(n)'
      PROVE  /\ 1 <= e.seq
             /\ e.seq < sequence_number'[n]
             /\ ~overflowed'[n] => Explained(n, e.lack, e.acks)'
  BY <1>2, ReachedKept DEF EndExplained, Explained
<1>10. sequence_number'[n] >= 1 /\ 0 \notin arrived'[n]
  BY <1>2 DEF EndExplained
<1>11. QED
  BY <1>2, <1>6, <1>8, <1>9, <1>10 DEF EndExplained

\* The window invariant is inductive while the numbers last.
LEMMA WindowStep ==
    ASSUME TypeOK, NoWrap, WindowExplained, [Next]_vars
    PROVE  WindowExplained'
<1> SUFFICES ASSUME NEW n \in Ends PROVE EndExplained(n)'
  BY DEF WindowExplained
<1>1. EndExplained(n) /\ EndExplained(Peer(n))
  BY PeerType DEF WindowExplained
<1>2. CASE SendsNothing(n)
  <2>1. ASSUME NEW d \in network[n], HandleIncoming(n, d) PROVE EndExplained(n)'
    <3>1. d \in Sent(Peer(n))
      BY PeerType DEF Sent
    <3>2. d.seq \in SeqNum /\ 1 <= d.seq
      BY <1>1, <3>1 DEF EndExplained, TypeOK, Datagram
    <3>3. QED
      BY <1>1, <2>1, <3>2, IncomingExplained DEF SeqNum
  <2>2. CASE ReceivesNothing(n)
    BY <1>1, <1>2, <2>2, EndExplainedFrame
  <2>3. QED
    BY <2>1, <2>2, ReceiveStep
<1>3. ASSUME NEW m \in Msgs \cup {KEEP_ALIVE}, Sends(n, m) PROVE EndExplained(n)'
  BY <1>1, <1>3, TransmitExplained
<1>4. QED
  BY <1>2, <1>3, SendStep

(***************************************************************************)
(* While the numbers last, every ack field, also one that is in flight or    *)
(* waits for its retransmission, is explained by what has arrived.          *)
(***************************************************************************)
THEOREM WindowExplainedHolds ==
    ASSUME NoWrap
    PROVE  Spec => []WindowExplained
<1>1. Init => WindowExplained
  <2>1. SUFFICES ASSUME Init, NEW n \in Ends PROVE EndExplained(n)
    BY DEF WindowExplained
  <2>2. network[Peer(n)] = {} /\ sent_messages[n] = {} /\ sent[n] = << >>
    BY <2>1, PeerType DEF Init
  <2>3. Sent(n) = {}
    <3>1. 1 .. Len(sent[n]) = {}
      BY <2>2
    <3>2. QED
      BY <2>2, <3>1 DEF Sent
  <2>4. QED
    BY <2>1, <2>3 DEF Init, EndExplained, Explained
<1>2. TypeOK /\ WindowExplained /\ [Next]_vars => WindowExplained'
  BY WindowStep
<1>3. QED
  BY <1>1, <1>2, TypeCorrect, PTL DEF Spec

(***************************************************************************)
(* While the numbers last and no shift goes too far, the duplicate check of  *)
(* handle_incoming errs by at most one number.                              *)
(***************************************************************************)
THEOREM RejectedNearArrivalHolds ==
    ASSUME NoWrap
    PROVE  Spec => []RejectedNearArrival
<1>1. TypeOK /\ WindowExplained => RejectedNearArrival
  <2>1. SUFFICES ASSUME TypeOK, WindowExplained, NEW n \in Ends, ~overflowed[n],
                        NEW s \in 1 .. remote_sequence_number[n], Rejects(n, s),
                        ~(remote_sequence_number[n] - s >= ACK_COUNT)
                 PROVE  s \in arrived[n] \/ s + 1 \in arrived[n]
    BY DEF RejectedNearArrival
  <2> DEFINE r == remote_sequence_number[n]
  <2>2. r \in Nat /\ s \in Nat /\ s >= 1 /\ r >= s
    BY <2>1, AckFieldAssumption DEF TypeOK, SeqNum
  <2>3. EndExplained(n)
    BY <2>1 DEF WindowExplained
  <2>4. CASE r = s
    BY <2>2, <2>3, <2>4 DEF EndExplained
  <2>5. CASE r > s
    <3>1. (r - s) - 1 \in ack_field[n]
      BY <2>1, <2>2, <2>5, AckFieldAssumption DEF Rejects, Recived
    <3>2. Reached(n, r - 1 - ((r - s) - 1)) \/ Reached(n, r - ((r - s) - 1))
      BY <2>1, <2>3, <3>1 DEF EndExplained, Explained
    <3>3. r - 1 - ((r - s) - 1) = s /\ r - ((r - s) - 1) = s + 1
      BY <2>2
    <3>4. Reached(n, s) \/ Reached(n, s + 1)
      BY <3>2, <3>3
    <3>5. QED
      BY <2>2, <3>4 DEF Reached
  <2>6. QED
    BY <2>2, <2>4, <2>5
<1>2. QED
  BY <1>1, TypeCorrect, WindowExplainedHolds, PTL

\* The numbers a datagram acknowledges, one of which may not have arrived.
LEMMA AckedNearArrival ==
    ASSUME TypeOK, WindowExplained, NEW n \in Ends, ~overflowed[Peer(n)],
           NEW d \in network[n], NEW s \in Acked(d.lack, d.acks)
    PROVE  Reached(Peer(n), s) \/ Reached(Peer(n), s - 1)
<1> DEFINE p == Peer(n)
<1>1. p \in Ends /\ d \in Sent(p)
  BY PeerType DEF Sent
<1>2. Explained(p, d.lack, d.acks)
  BY <1>1 DEF WindowExplained, EndExplained
<1>3. PICK b \in d.acks : s = Minus(d.lack, b)
  BY DEF Acked
<1>4. d.lack \in Nat /\ b \in Nat
  BY <1>3 DEF TypeOK, Datagram, SeqNum, Field, Bits
<1>5. /\ b < d.lack
      /\ Reached(p, d.lack - 1 - b) \/ Reached(p, d.lack - b)
  BY <1>2, <1>3 DEF Explained
<1>6. s = d.lack - b /\ s - 1 = d.lack - 1 - b
  BY <1>3, <1>4, <1>5 DEF Minus
<1>7. QED
  BY <1>5, <1>6

\* A message is dropped from sent_messages only by an acknowledgement of its number.
LEMMA ForgottenBy ==
    ASSUME TypeOK, [Next]_vars, NEW n \in Ends, NEW i \in Forgotten(n)',
           ~(i \in Forgotten(n) /\ sent'[n][i] = sent[n][i])
    PROVE  \E d \in network[n] : /\ HandleIncoming(n, d)
                                 /\ sent'[n][i].seq \in Acked(d.lack, d.acks)
<1>1. ASSUME NEW k \in Ends, NEW m \in Msgs, Send(k, m) PROVE FALSE
  <2>1. CASE k # n
    BY <1>1, <2>1 DEF Send, TypeOK, Forgotten
  <2>2. CASE k = n
    <3>1. /\ sent'[n] = Append(sent[n], Outgoing(n, m))
          /\ sent_messages'[n] = sent_messages[n] \cup {Outgoing(n, m)}
      BY <1>1, <2>2 DEF Send, TypeOK
    <3>2. i \in 1 .. Len(sent'[n]) /\ sent'[n][i] \notin sent_messages'[n]
      BY DEF Forgotten
    <3>3. i # Len(sent[n]) + 1
      BY <3>1, <3>2 DEF TypeOK
    <3>4. i \in 1 .. Len(sent[n]) /\ sent'[n][i] = sent[n][i]
      BY <3>1, <3>2, <3>3 DEF TypeOK
    <3>5. QED
      BY <3>1, <3>2, <3>4 DEF Forgotten
  <2>3. QED
    BY <2>1, <2>2
<1>2. CASE UNCHANGED <<sent, sent_messages>>
  BY <1>2 DEF Forgotten
<1>3. ASSUME NEW k \in Ends, NEW d \in network[k], HandleIncoming(k, d)
      PROVE  /\ k = n
             /\ sent'[n][i].seq \in Acked(d.lack, d.acks)
  <2>1. /\ sent' = sent
        /\ sent_messages' = [sent_messages EXCEPT ![k] = Unacked(@, d.lack, d.acks)]
    BY <1>3 DEF HandleIncoming
  <2>2. sent[n][i] \in sent_messages[n] /\ sent[n][i] \notin sent_messages'[n]
    BY <2>1 DEF Forgotten
  <2>3. k = n
    BY <2>1, <2>2 DEF TypeOK
  <2>4. QED
    BY <2>1, <2>2, <2>3 DEF TypeOK, Unacked
<1>4. QED
  BY <1>1, <1>2, <1>3
     DEF Next, Connect, KeepAlive, ResendReliable, vars, historyVars

\* A step that erases a message was led to it by an acknowledgement near an arrival.
LEMMA ForgottenStep ==
    ASSUME TypeOK, WindowExplained, ForgottenNearArrival, [Next]_vars
    PROVE  ForgottenNearArrival'
<1> SUFFICES ASSUME NEW n \in Ends, ~overflowed'[Peer(n)], NEW i \in Forgotten(n)'
             PROVE  \/ Reached(Peer(n), sent[n][i].seq)'
                    \/ Reached(Peer(n), sent[n][i].seq - 1)'
  BY DEF ForgottenNearArrival
<1> DEFINE p == Peer(n)
           near(s) == Reached(p, s) \/ Reached(p, s - 1)
<1>1. p \in Ends /\ ~overflowed[p]
  BY PeerType, ArrivedKept
<1>2. \A s : Reached(p, s) => s \in arrived'[p] \/ (s = 0 /\ arrived'[p] # {})
  BY <1>1, ArrivedKept DEF Reached
<1>3. near(sent'[n][i].seq)
  <2>1. CASE i \in Forgotten(n) /\ sent'[n][i] = sent[n][i]
    BY <1>1, <2>1 DEF ForgottenNearArrival
  <2>2. CASE ~(i \in Forgotten(n) /\ sent'[n][i] = sent[n][i])
    BY <1>1, <2>2, ForgottenBy, AckedNearArrival
  <2>3. QED
    BY <2>1, <2>2
<1>4. QED
  BY <1>2, <1>3 DEF Reached

(***************************************************************************)
(* While the numbers last and the peer never shifts too far, a message is    *)
(* retransmitted until it or its predecessor has reached the peer.          *)
(***************************************************************************)
THEOREM ForgottenNearArrivalHolds ==
    ASSUME NoWrap
    PROVE  Spec => []ForgottenNearArrival
<1>1. Init => ForgottenNearArrival
  BY DEF Init, ForgottenNearArrival, Forgotten
<1>2. TypeOK /\ WindowExplained /\ ForgottenNearArrival /\ [Next]_vars
          => ForgottenNearArrival'
  BY ForgottenStep
<1>3. QED
  BY <1>1, <1>2, TypeCorrect, WindowExplainedHolds, PTL DEF Spec
=============================================================================
