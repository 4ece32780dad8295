---------------------------- MODULE ChannelProofs ----------------------------
(***************************************************************************)
(* What a connection implements.                                            *)
(*                                                                          *)
(* Channel, when the first transmissions of an end arrive in order           *)
(* (MaxGap = 1), whatever is lost, delayed, duplicated and retransmitted.    *)
(* Retransmission, in either direction, for every network gap.              *)
(* Both for every number of messages, window width, modulus and bound.      *)
(***************************************************************************)
EXTENDS ConnectionProofs

\* The one effect of a datagram on the window of an end when the window is full.
LEMMA InOrderIncoming ==
    ASSUME TypeOK, NoWrap, MaxGap = 1, NEW n \in Ends, FullWindow(n),
           NEW d \in network[n], HandleIncoming(n, d), 1 <= d.seq
    PROVE  /\ arrived'[n] = 1 .. remote_sequence_number'[n]
           /\ ack_field'[n] = {b \in Bits : b < remote_sequence_number'[n]}
           /\ \/ /\ d.seq = remote_sequence_number[n] + 1
                 /\ remote_sequence_number'[n] = d.seq
                 /\ ~Rejects(n, d.seq)
              \/ /\ d.seq <= remote_sequence_number[n]
                 /\ remote_sequence_number'[n] = remote_sequence_number[n]
                 /\ Rejects(n, d.seq)
<1> DEFINE r == remote_sequence_number[n]
           f == ack_field[n]
<1>1. PICK g \in FieldAfter(r, f, d.seq) : ack_field' = [ack_field EXCEPT ![n] = g]
  BY DEF HandleIncoming
<1>2. /\ r \in SeqNum /\ f \in Field /\ d.seq \in SeqNum
      /\ r \in Nat /\ d.seq \in Nat /\ d.seq <= r + 1
  BY AckFieldAssumption DEF TypeOK, Datagram, SeqNum, HandleIncoming
<1>3. /\ remote_sequence_number'[n] = RemoteAfter(r, d.seq)
      /\ ack_field'[n] = g
      /\ arrived'[n] = 1 .. r \cup {d.seq}
  BY <1>1 DEF HandleIncoming, TypeOK, FullWindow
<1>4. f = {b \in Bits : b < r}
  BY DEF FullWindow
<1>5. CASE r < d.seq
  <2>1. d.seq = r + 1 /\ RemoteAfter(r, d.seq) = d.seq /\ ~ShiftOverflow(r, d.seq)
    BY <1>2, <1>5, AckFieldAssumption DEF RemoteAfter, ShiftOverflow
  <2>2. g = {b \in Bits : b - (d.seq - r) \in f \/ b = d.seq - r - 1}
    BY <1>2, <1>5, <2>1, FieldAfterNewer
  <2>3. d.seq - r = 1 /\ d.seq - r - 1 = 0
    BY <1>2, <2>1
  <2>4. \A b \in Bits : (b - 1 \in f \/ b = 0) <=> b < r + 1
    BY <1>2, <1>4, AckFieldAssumption DEF Bits
  <2>5. g = {b \in Bits : b < d.seq}
    BY <2>1, <2>2, <2>3, <2>4
  <2>6. 1 .. r \cup {d.seq} = 1 .. d.seq
    BY <1>2, <2>1
  <2>7. ~Rejects(n, d.seq)
    BY <1>2, <1>5 DEF Rejects, Recived
  <2>8. QED
    BY <1>3, <2>1, <2>5, <2>6, <2>7
<1>6. CASE ~(r < d.seq)
  <2>1. RemoteAfter(r, d.seq) = r /\ d.seq <= r
    BY <1>2, <1>6 DEF RemoteAfter
  <2>2. g = f \cup {b \in Bits : b = r - d.seq}
    BY <1>2, <1>6, FieldAfterOlder
  <2>3. g = f
    BY <1>2, <1>4, <2>2
  <2>4. 1 .. r \cup {d.seq} = 1 .. r
    BY <1>2, <2>1
  <2>5. Rejects(n, d.seq)
    <3>1. CASE r - d.seq < ACK_COUNT /\ r > d.seq
      <4>1. (r - d.seq) - 1 \in Bits /\ (r - d.seq) - 1 < r
        BY <1>2, <3>1, AckFieldAssumption DEF Bits
      <4>2. QED
        BY <1>4, <3>1, <4>1 DEF Rejects, Recived
    <3>2. CASE ~(r - d.seq < ACK_COUNT) \/ r = d.seq
      BY <1>2, <2>1, <3>2, AckFieldAssumption DEF Rejects, Recived
    <3>3. QED
      BY <1>2, <2>1, <3>1, <3>2
  <2>6. QED
    BY <1>3, <1>4, <2>1, <2>3, <2>4, <2>5
<1>7. QED
  BY <1>5, <1>6

\* The window stays full when datagrams arrive in order.
LEMMA FullWindowStep ==
    ASSUME TypeOK, NoWrap, MaxGap = 1, InOrder, [Next]_vars, NEW n \in Ends
    PROVE  FullWindow(n)'
<1> DEFINE r == remote_sequence_number[n]
<1>1. /\ FullWindow(n)
      /\ \A d \in network[n] : 1 <= d.seq
  BY PeerType DEF InOrder, Numbered, Sent
<1>2. r \in Nat
  BY AckFieldAssumption DEF TypeOK, SeqNum
<1> DEFINE full == /\ arrived'[n] = 1 .. remote_sequence_number'[n]
                   /\ ack_field'[n] = {b \in Bits : b < remote_sequence_number'[n]}
                   /\ remote_sequence_number'[n] \in Nat
                   /\ r <= remote_sequence_number'[n]
<1>3. full
  <2>1. CASE ReceivesNothing(n)
    BY <1>1, <1>2, <2>1 DEF ReceivesNothing, FullWindow
  <2>2. ASSUME NEW d \in network[n], HandleIncoming(n, d)
        PROVE  full
    <3>1. d.seq \in SeqNum
      BY DEF TypeOK, Datagram
    <3>2. QED
      BY <1>1, <1>2, <2>2, <3>1, InOrderIncoming, AckFieldAssumption DEF SeqNum
  <2>3. QED
    BY <2>1, <2>2, ReceiveStep
<1>4. ASSUME NEW d \in Sent(n)
      PROVE  /\ d.lack <= remote_sequence_number'[n]
             /\ d.acks = {b \in Bits : b < d.lack}
  <2>1. d.lack \in SeqNum
    BY SentType DEF Datagram
  <2>2. d.lack <= r /\ d.acks = {b \in Bits : b < d.lack}
    BY <1>1 DEF FullWindow
  <2>3. QED
    BY <1>2, <1>3, <2>1, <2>2, AckFieldAssumption DEF SeqNum
<1>5. CASE SendsNothing(n)
  BY <1>3, <1>4, <1>5 DEF SendsNothing, FullWindow
<1>6. ASSUME NEW m \in Msgs \cup {KEEP_ALIVE}, Sends(n, m) PROVE FullWindow(n)'
  <2>1. /\ Outgoing(n, m).lack = r
        /\ Outgoing(n, m).acks = {b \in Bits : b < r}
    BY <1>1 DEF Outgoing, FullWindow
  <2>2. Sent(n)' \subseteq Sent(n) \cup {Outgoing(n, m)}
    BY <1>6 DEF Sends
  <2>3. QED
    BY <1>3, <1>4, <2>1, <2>2 DEF FullWindow
<1>7. QED
  BY <1>5, <1>6, SendStep

\* The numbers of an end keep identifying its datagrams.
LEMMA NumberedStep ==
    ASSUME TypeOK, NoWrap, InOrder, [Next]_vars, NEW n \in Ends
    PROVE  Numbered(n)'
<1>1. Numbered(n)
  BY DEF InOrder
<1>2. CASE SendsNothing(n)
  BY <1>1, <1>2 DEF SendsNothing, Numbered
<1>3. ASSUME NEW m \in Msgs \cup {KEEP_ALIVE}, Sends(n, m) PROVE Numbered(n)'
  <2> DEFINE o == Outgoing(n, m)
             s == sequence_number[n]
  <2>1. s \in Nat /\ s >= 1 /\ sequence_number'[n] = s + 1
    BY <1>1, <1>3, NextNumber DEF Numbered, Sends
  <2>2. /\ Sent(n)' \subseteq Sent(n) \cup {o}
        /\ \/ m \in Msgs /\ sent'[n] = Append(sent[n], o)
           \/ m = KEEP_ALIVE /\ sent'[n] = sent[n]
        /\ o.seq = s /\ o.msg = m
    BY <1>3 DEF Sends, Outgoing
  <2>3. ASSUME NEW d \in Sent(n)
        PROVE  /\ d.seq \in Nat
               /\ 1 <= d.seq
               /\ d.seq < s
               /\ d.msg = KEEP_ALIVE \/ \E i \in 1 .. Len(sent[n]) : sent[n][i] = d
    BY <1>1, SentType DEF Numbered, Datagram, SeqNum
  <2>4. \A i \in 1 .. Len(sent[n]) : sent[n][i] \in Sent(n)
    BY DEF Sent
  <2>5. /\ Len(sent[n]) \in Nat
        /\ Len(sent[n]) <= Len(sent'[n])
        /\ \A i \in 1 .. Len(sent[n]) : sent'[n][i] = sent[n][i]
        /\ \A i \in 1 .. Len(sent'[n]) :
               i \in 1 .. Len(sent[n]) \/ (i = Len(sent[n]) + 1 /\ sent'[n][i] = o /\ m \in Msgs)
        /\ m # KEEP_ALIVE => \E i \in 1 .. Len(sent'[n]) : sent'[n][i] = o
    <3>1. CASE m = KEEP_ALIVE /\ sent'[n] = sent[n]
      BY <3>1 DEF TypeOK
    <3>2. CASE m \in Msgs /\ sent'[n] = Append(sent[n], o)
      <4>1. sent[n] \in Seq(Datagram)
        BY DEF TypeOK
      <4>2. /\ Len(sent'[n]) = Len(sent[n]) + 1
            /\ Len(sent[n]) \in Nat
            /\ sent'[n][Len(sent[n]) + 1] = o
            /\ \A i \in 1 .. Len(sent[n]) : sent'[n][i] = sent[n][i]
        BY <3>2, <4>1
      <4>3. QED
        BY <3>2, <4>2
    <3>3. QED
      BY <2>2, <3>1, <3>2
  <2>6. ASSUME NEW d \in Sent(n)'
        PROVE  /\ 1 <= d.seq
               /\ d.seq < sequence_number'[n]
               /\ d.msg = KEEP_ALIVE \/ \E i \in 1 .. Len(sent'[n]) : sent'[n][i] = d
    <3>1. CASE d \in Sent(n)
      BY <2>1, <2>3, <2>5, <3>1
    <3>2. CASE d = o
      BY <2>1, <2>2, <2>5, <3>2
    <3>3. QED
      BY <2>2, <3>1, <3>2
  <2>7. \A d, e \in Sent(n)' : d.seq = e.seq => d = e
    BY <1>1, <2>1, <2>2, <2>3 DEF Numbered
  <2>8. \A i, j \in 1 .. Len(sent'[n]) : i < j => sent'[n][i].seq < sent'[n][j].seq
    <3>1. SUFFICES ASSUME NEW i \in 1 .. Len(sent'[n]), NEW j \in 1 .. Len(sent'[n]), i < j
                   PROVE  sent'[n][i].seq < sent'[n][j].seq
      OBVIOUS
    <3>2. i \in 1 .. Len(sent[n]) /\ sent'[n][i] = sent[n][i]
      BY <2>5, <3>1
    <3>3. CASE j \in 1 .. Len(sent[n])
      BY <1>1, <2>5, <3>1, <3>2, <3>3 DEF Numbered
    <3>4. CASE sent'[n][j] = o
      BY <2>2, <2>3, <2>4, <3>2, <3>4
    <3>5. QED
      BY <2>5, <3>3, <3>4
  <2>9. \A i \in 1 .. Len(sent'[n]) : sent'[n][i].msg \in Msgs
    BY <1>1, <2>2, <2>5 DEF Numbered
  <2>10. sequence_number'[n] >= 1
    BY <2>1
  <2>11. QED
    BY <2>6, <2>7, <2>8, <2>9, <2>10 DEF Numbered
<1>4. QED
  BY <1>2, <1>3, SendStep

\* A datagram that is not rejected carries the next undelivered message, or none.
LEMMA DeliverNext ==
    ASSUME TypeOK, NoWrap, MaxGap = 1, InOrder, NEW n \in Ends,
           NEW d \in network[n], HandleIncoming(n, d)
    PROVE  LET k == Len(delivered[n])
               p == Peer(n)
           IN  /\ DeliveredPrefix(n)'
               /\ \/ delivered'[n] = delivered[n]
                  \/ /\ k + 1 <= Len(sent[p])
                     /\ delivered'[n] = Append(delivered[n], sent[p][k + 1].msg)
<1> DEFINE k == Len(delivered[n])
           p == Peer(n)
           r == remote_sequence_number[n]
<1>1. /\ p \in Ends
      /\ DeliveredPrefix(n) /\ Numbered(p) /\ FullWindow(n)
      /\ d \in Sent(p)
  BY PeerType DEF InOrder, Sent
<1>2. /\ d \in Datagram
      /\ d.seq \in Nat /\ 1 <= d.seq /\ d.seq < sequence_number[p]
      /\ r \in Nat /\ sequence_number[p] \in Nat
      /\ sent[p] \in Seq(Datagram)
      /\ delivered[n] \in Seq(Msgs)
      /\ k \in Nat /\ Len(sent[p]) \in Nat
  <2>1. d \in Datagram /\ d.seq \in SeqNum
    BY DEF TypeOK, Datagram
  <2>2. 1 <= d.seq /\ d.seq < sequence_number[p]
    BY <1>1 DEF Numbered
  <2>3. r \in SeqNum /\ sequence_number[p] \in SeqNum
    BY <1>1 DEF TypeOK
  <2>4. sent[p] \in Seq(Datagram) /\ delivered[n] \in Seq(Msgs)
    BY <1>1 DEF TypeOK
  <2>5. QED
    BY <2>1, <2>2, <2>3, <2>4, AckFieldAssumption DEF SeqNum
<1>3. \A i \in 1 .. Len(sent[p]) : sent[p][i] \in Sent(p) /\ sent[p][i].seq \in Nat
  BY <1>1, SentType DEF Sent, Datagram, SeqNum
<1>4. /\ r < sequence_number[p]
      /\ k <= Len(sent[p])
      /\ \A i \in 1 .. k : delivered[n][i] = sent[p][i].msg /\ sent[p][i].seq <= r
      /\ \A i \in (k + 1) .. Len(sent[p]) : sent[p][i].seq > r
  BY <1>1 DEF DeliveredPrefix
<1>5. /\ sent' = sent /\ sequence_number' = sequence_number
      /\ delivered'[n] = Deliver(delivered[n], d, Rejects(n, d.seq))
  BY DEF HandleIncoming, TypeOK, Rejects
<1>6. \/ d.seq = r + 1 /\ remote_sequence_number'[n] = d.seq /\ ~Rejects(n, d.seq)
      \/ remote_sequence_number'[n] = r /\ Rejects(n, d.seq)
  BY <1>1, <1>2, InOrderIncoming
<1>7. CASE Rejects(n, d.seq)
  <2>1. delivered'[n] = delivered[n] /\ remote_sequence_number'[n] = r
    BY <1>5, <1>6, <1>7 DEF Deliver
  <2>2. QED
    BY <1>4, <1>5, <2>1 DEF DeliveredPrefix
<1>8. CASE ~Rejects(n, d.seq) /\ d.msg = KEEP_ALIVE
  <2>1. /\ delivered'[n] = delivered[n]
        /\ d.seq = r + 1
        /\ remote_sequence_number'[n] = r + 1
    BY <1>5, <1>6, <1>8 DEF Deliver
  <2>2. ASSUME NEW i \in 1 .. Len(sent[p]) PROVE sent[p][i].seq # r + 1
    <3>1. sent[p][i].msg # KEEP_ALIVE
      BY <1>1, ConnectionAssumption DEF Numbered
    <3>2. QED
      BY <1>1, <1>3, <1>8, <2>1, <3>1 DEF Numbered
  <2>3. \A i \in 1 .. k : sent[p][i].seq <= r + 1
    BY <1>2, <1>3, <1>4
  <2>4. \A i \in (k + 1) .. Len(sent[p]) : sent[p][i].seq > r + 1
    BY <1>2, <1>3, <1>4, <2>2
  <2>5. QED
    BY <1>2, <1>4, <1>5, <2>1, <2>3, <2>4 DEF DeliveredPrefix
<1>9. CASE ~Rejects(n, d.seq) /\ d.msg # KEEP_ALIVE
  <2>1. /\ delivered'[n] = Append(delivered[n], d.msg)
        /\ d.seq = r + 1
        /\ remote_sequence_number'[n] = r + 1
    BY <1>5, <1>6, <1>9 DEF Deliver
  <2>2. PICK j \in 1 .. Len(sent[p]) : sent[p][j] = d
    BY <1>1, <1>9 DEF Numbered
  <2>3. j = k + 1
    <3>1. j >= k + 1
      BY <1>2, <1>4, <2>1, <2>2
    <3>2. ~(k + 1 < j)
      <4>1. SUFFICES ASSUME k + 1 < j PROVE FALSE
        OBVIOUS
      <4>2. k + 1 \in 1 .. Len(sent[p]) /\ k + 1 \in (k + 1) .. Len(sent[p])
        BY <1>2, <4>1
      <4>3. sent[p][k + 1].seq < r + 1 /\ sent[p][k + 1].seq > r
        BY <1>1, <1>4, <2>1, <2>2, <4>1, <4>2 DEF Numbered
      <4>4. sent[p][k + 1].seq \in Nat
        BY <1>3, <4>2
      <4>5. r \in Nat
        BY <1>2
      <4>6. QED
        BY <4>3, <4>4, <4>5
    <3>3. QED
      BY <1>2, <3>1, <3>2
  <2>4. /\ Len(delivered'[n]) = k + 1
        /\ delivered'[n][k + 1] = d.msg
        /\ \A i \in 1 .. k : delivered'[n][i] = delivered[n][i]
    <3>1. d.msg \in Msgs
      BY <1>2, <1>9 DEF Datagram
    <3>2. QED
      BY <1>2, <2>1, <3>1
  <2>5. k + 1 <= Len(sent[p]) /\ sent[p][k + 1] = d
    BY <2>2, <2>3
  <2>6. ASSUME NEW i \in 1 .. (k + 1)
        PROVE  delivered'[n][i] = sent[p][i].msg /\ sent[p][i].seq <= r + 1
    <3>1. CASE i = k + 1
      <4>1. sent[p][i] = d /\ delivered'[n][i] = d.msg
        BY <2>4, <2>5, <3>1
      <4>2. d.seq <= r + 1
        BY <1>2, <2>1
      <4>3. QED
        BY <4>1, <4>2
    <3>2. CASE i \in 1 .. k
      <4>1. delivered'[n][i] = sent[p][i].msg /\ sent[p][i].seq <= r
        BY <1>4, <2>4, <3>2
      <4>2. sent[p][i].seq \in Nat
        BY <1>2, <1>3, <1>4, <3>2
      <4>3. QED
        BY <1>2, <4>1, <4>2
    <3>3. QED
      BY <1>2, <3>1, <3>2
  <2>7. ASSUME NEW i \in (k + 2) .. Len(sent[p]) PROVE sent[p][i].seq > r + 1
    <3>1. i \in 1 .. Len(sent[p]) /\ k + 1 \in 1 .. Len(sent[p]) /\ k + 1 < i
      BY <1>2, <2>5
    <3>2. sent[p][k + 1].seq < sent[p][i].seq
      BY <1>1, <3>1 DEF Numbered
    <3>3. QED
      BY <2>1, <2>5, <3>2
  <2>8. (k + 1) + 1 = k + 2
    BY <1>2
  <2>9. DeliveredPrefix(n)'
    BY <1>2, <1>5, <2>1, <2>4, <2>5, <2>6, <2>7, <2>8 DEF DeliveredPrefix
  <2>10. QED
    BY <2>1, <2>5, <2>9
<1>10. QED
  BY <1>7, <1>8, <1>9

\* What the handlers have seen stays a prefix of what was sent.
LEMMA DeliveredPrefixStep ==
    ASSUME TypeOK, NoWrap, MaxGap = 1, InOrder, [Next]_vars, NEW n \in Ends
    PROVE  DeliveredPrefix(n)'
<1> DEFINE k == Len(delivered[n])
           p == Peer(n)
           r == remote_sequence_number[n]
<1>1. p \in Ends /\ DeliveredPrefix(n) /\ Numbered(p)
  BY PeerType DEF InOrder
<1>2. CASE ReceivesNothing(n) /\ SendsNothing(p)
  BY <1>1, <1>2 DEF ReceivesNothing, SendsNothing, DeliveredPrefix
<1>3. ASSUME ReceivesNothing(n), NEW m \in Msgs \cup {KEEP_ALIVE}, Sends(p, m)
      PROVE  DeliveredPrefix(n)'
  <2> DEFINE o == Outgoing(p, m)
  <2>1. /\ sequence_number[p] \in Nat
        /\ sequence_number'[p] = sequence_number[p] + 1
        /\ o.seq = sequence_number[p]
    BY <1>1, <1>3, NextNumber DEF Numbered, Sends, Outgoing
  <2>2. /\ r \in Nat
        /\ k \in Nat
        /\ sent[p] \in Seq(Datagram)
        /\ Len(sent[p]) \in Nat
    BY <1>1, AckFieldAssumption DEF TypeOK, SeqNum
  <2>3. /\ remote_sequence_number'[n] = r /\ delivered'[n] = delivered[n]
        /\ r < sequence_number'[p]
    BY <1>1, <1>3, <2>1, <2>2 DEF ReceivesNothing, DeliveredPrefix
  <2>4. CASE sent'[p] = sent[p]
    BY <1>1, <2>3, <2>4 DEF DeliveredPrefix
  <2>5. CASE sent'[p] = Append(sent[p], o)
    <3>1. /\ Len(sent'[p]) = Len(sent[p]) + 1
          /\ sent'[p][Len(sent[p]) + 1] = o
          /\ \A i \in 1 .. Len(sent[p]) : sent'[p][i] = sent[p][i]
      BY <2>2, <2>5
    <3>2. o.seq > r
      BY <1>1, <2>1 DEF DeliveredPrefix
    <3>3. ASSUME NEW i \in (k + 1) .. Len(sent'[p]) PROVE sent'[p][i].seq > r
      <4>1. CASE i = Len(sent[p]) + 1
        BY <3>1, <3>2, <4>1
      <4>2. CASE i # Len(sent[p]) + 1
        <5>1. i \in 1 .. Len(sent[p]) /\ i \in (k + 1) .. Len(sent[p])
          BY <2>2, <3>1, <4>2
        <5>2. sent[p][i].seq > r
          BY <1>1, <5>1 DEF DeliveredPrefix
        <5>3. QED
          BY <3>1, <5>1, <5>2
      <4>3. QED
        BY <4>1, <4>2
    <3>4. ASSUME NEW i \in 1 .. k
          PROVE  delivered[n][i] = sent'[p][i].msg /\ sent'[p][i].seq <= r
      <4>1. k <= Len(sent[p])
        BY <1>1 DEF DeliveredPrefix
      <4>2. i \in 1 .. Len(sent[p])
        BY <2>2, <4>1
      <4>3. delivered[n][i] = sent[p][i].msg /\ sent[p][i].seq <= r
        BY <1>1 DEF DeliveredPrefix
      <4>4. sent'[p][i] = sent[p][i]
        BY <3>1, <4>2
      <4>5. QED
        BY <4>3, <4>4
    <3>5. k <= Len(sent'[p])
      BY <1>1, <2>2, <3>1 DEF DeliveredPrefix
    <3>6. QED
      BY <2>3, <3>3, <3>4, <3>5 DEF DeliveredPrefix
  <2>6. QED
    BY <1>3, <2>4, <2>5 DEF Sends
<1>4. ASSUME NEW d \in network[n], HandleIncoming(n, d) PROVE DeliveredPrefix(n)'
  BY <1>4, DeliverNext
<1>5. QED
  BY <1>1, <1>2, <1>3, <1>4, ReceiveStep, SendStep

(***************************************************************************)
(* In order, the window is full and the handlers have seen a prefix of what  *)
(* the peer has sent.                                                       *)
(***************************************************************************)
THEOREM InOrderHolds ==
    ASSUME NoWrap, MaxGap = 1
    PROVE  Spec => []InOrder
<1>1. Init => InOrder
  <2>1. SUFFICES ASSUME Init, NEW n \in Ends
                 PROVE  FullWindow(n) /\ Numbered(n) /\ DeliveredPrefix(n)
    BY DEF InOrder
  <2>2. /\ network[Peer(n)] = {} /\ sent_messages[n] = {} /\ sent[n] = << >>
        /\ delivered[n] = << >> /\ sent[Peer(n)] = << >>
        /\ sequence_number[n] = 1 /\ sequence_number[Peer(n)] = 1
        /\ remote_sequence_number[n] = 0 /\ ack_field[n] = {} /\ arrived[n] = {}
    BY <2>1, PeerType DEF Init
  <2>3. /\ 1 .. Len(sent[n]) = {}
        /\ 1 .. 0 = {}
        /\ {b \in Bits : b < 0} = {}
    BY <2>2, AckFieldAssumption DEF Bits
  <2>4. Sent(n) = {}
    BY <2>2, <2>3 DEF Sent
  <2>5. FullWindow(n)
    BY <2>2, <2>3, <2>4 DEF FullWindow
  <2>6. Numbered(n)
    BY <2>2, <2>3, <2>4 DEF Numbered
  <2>7. DeliveredPrefix(n)
    BY <2>2 DEF DeliveredPrefix
  <2>8. QED
    BY <2>5, <2>6, <2>7
<1>2. TypeOK /\ InOrder /\ [Next]_vars => InOrder'
  <2>1. SUFFICES ASSUME TypeOK, InOrder, [Next]_vars, NEW n \in Ends
                 PROVE  FullWindow(n)' /\ Numbered(n)' /\ DeliveredPrefix(n)'
    BY DEF InOrder
  <2>2. QED
    BY <2>1, FullWindowStep, NumberedStep, DeliveredPrefixStep
<1>3. QED
  BY <1>1, <1>2, TypeCorrect, PTL DEF Spec

\* A message that a step erases has arrived.
LEMMA ForgottenArrivedStep ==
    ASSUME TypeOK, InOrder, ForgottenHasArrived, [Next]_vars
    PROVE  ForgottenHasArrived'
<1> SUFFICES ASSUME NEW n \in Ends, NEW i \in Forgotten(n)'
             PROVE  sent'[n][i].seq \in arrived'[Peer(n)]
  BY DEF ForgottenHasArrived
<1> DEFINE p == Peer(n)
<1>1. p \in Ends /\ arrived[p] \subseteq arrived'[p]
  BY PeerType, ArrivedKept
<1>2. CASE i \in Forgotten(n) /\ sent'[n][i] = sent[n][i]
  BY <1>1, <1>2 DEF ForgottenHasArrived
<1>3. ASSUME ~(i \in Forgotten(n) /\ sent'[n][i] = sent[n][i])
      PROVE  \E d \in network[n] : /\ HandleIncoming(n, d)
                                   /\ sent'[n][i].seq \in Acked(d.lack, d.acks)
  BY <1>3, ForgottenBy
<1>4. ASSUME NEW d \in network[n], NEW s \in Acked(d.lack, d.acks)
      PROVE  s \in arrived[p]
  <2>1. FullWindow(p) /\ d \in Sent(p)
    BY <1>1, PeerType DEF InOrder, Sent
  <2>2. d.lack \in SeqNum /\ remote_sequence_number[p] \in SeqNum
    BY <1>1 DEF TypeOK, Datagram
  <2>3. PICK b \in d.acks : s = Minus(d.lack, b)
    BY <1>4 DEF Acked
  <2>4. b \in Nat /\ b < d.lack /\ d.lack <= remote_sequence_number[p]
    BY <2>1, <2>3 DEF FullWindow, Bits
  <2>5. s = d.lack - b /\ s \in 1 .. remote_sequence_number[p]
    BY <2>2, <2>3, <2>4, AckFieldAssumption DEF Minus, SeqNum
  <2>6. QED
    BY <2>1, <2>5 DEF FullWindow
<1>5. QED
  BY <1>1, <1>2, <1>3, <1>4

(***************************************************************************)
(* In order, a message is retransmitted until it has reached the peer.       *)
(***************************************************************************)
THEOREM ForgottenHasArrivedHolds ==
    ASSUME NoWrap, MaxGap = 1
    PROVE  Spec => []ForgottenHasArrived
<1>1. Init => ForgottenHasArrived
  BY DEF Init, ForgottenHasArrived, Forgotten
<1>2. TypeOK /\ InOrder /\ ForgottenHasArrived /\ [Next]_vars => ForgottenHasArrived'
  BY ForgottenArrivedStep
<1>3. QED
  BY <1>1, <1>2, TypeCorrect, InOrderHolds, PTL DEF Spec

\* Every step is a step of the channel or leaves it alone.
LEMMA ChannelStep ==
    ASSUME TypeOK, NoWrap, MaxGap = 1, InOrder, [Next]_vars
    PROVE  [FIFO!Next]_FIFO!vars
<1>1. ASSUME NEW n \in Ends, NEW m \in Msgs, Send(n, m) PROVE FIFO!Send(n, m)
  <2>1. /\ sent' = [sent EXCEPT ![n] = Append(@, Outgoing(n, m))]
        /\ delivered' = delivered
    BY <1>1 DEF Send, Transmit
  <2>2. Outgoing(n, m).msg = m
    BY DEF Outgoing
  <2>3. sentMsgs' = [sentMsgs EXCEPT ![n] = Append(@, m)]
    <3>1. ASSUME NEW k \in Ends
          PROVE  sentMsgs'[k] = [sentMsgs EXCEPT ![n] = Append(@, m)][k]
      <4>1. CASE k # n
        BY <2>1, <4>1 DEF sentMsgs, TypeOK
      <4>2. CASE k = n
        <5> DEFINE q == sent[n]
                   o == Outgoing(n, m)
        <5>1. q \in Seq(Datagram) /\ o \in Datagram
          BY OutgoingType DEF TypeOK
        <5>2. sent'[n] = Append(q, o)
          BY <2>1 DEF TypeOK
        <5>3. sentMsgs'[n] = [i \in 1 .. (Len(q) + 1) |-> Append(q, o)[i].msg]
          BY <5>1, <5>2 DEF sentMsgs
        <5>4. sentMsgs[n] = [i \in 1 .. Len(q) |-> q[i].msg]
          BY DEF sentMsgs
        <5>5. sentMsgs[n] \in Seq(Msgs \cup {KEEP_ALIVE}) /\ Len(sentMsgs[n]) = Len(q)
          <6>1. Len(q) \in Nat /\ \A i \in 1 .. Len(q) : q[i] \in Datagram
            BY <5>1
          <6>2. \A i \in 1 .. Len(q) : q[i].msg \in Msgs \cup {KEEP_ALIVE}
            BY <6>1 DEF Datagram
          <6>3. QED
            BY <5>4, <6>1, <6>2
        <5>6. Append(sentMsgs[n], m) =
                  [i \in 1 .. (Len(q) + 1) |-> IF i = Len(q) + 1 THEN m ELSE sentMsgs[n][i]]
          BY <5>5
        <5>7. sentMsgs'[n] = Append(sentMsgs[n], m)
          BY <2>2, <5>1, <5>3, <5>4, <5>6
        <5>8. QED
          BY <4>2, <5>7 DEF sentMsgs
      <4>3. QED
        BY <4>1, <4>2
    <3>2. QED
      BY <3>1 DEF sentMsgs
  <2>4. QED
    BY <2>1, <2>3 DEF FIFO!Send, sentMsgs
<1>2. ASSUME NEW n \in Ends, NEW d \in network[n], HandleIncoming(n, d)
      PROVE  [FIFO!Deliver(n)]_FIFO!vars
  <2> DEFINE k == Len(delivered[n])
             p == Peer(n)
  <2>1. sent' = sent /\ sentMsgs' = sentMsgs
    BY <1>2 DEF HandleIncoming, sentMsgs
  <2>2. /\ DOMAIN delivered' = Ends
        /\ \A j \in Ends : j # n => delivered'[j] = delivered[j]
    BY <1>2 DEF HandleIncoming, TypeOK
  <2>3. CASE delivered'[n] = delivered[n]
    <3>1. delivered' = delivered
      BY <1>2, <2>3 DEF HandleIncoming, TypeOK
    <3>2. QED
      BY <2>1, <3>1 DEF FIFO!vars, sentMsgs
  <2>4. CASE /\ k + 1 <= Len(sent[p])
             /\ delivered'[n] = Append(delivered[n], sent[p][k + 1].msg)
    <3>1. /\ p \in Ends /\ k \in Nat
          /\ Len(sent[p]) \in Nat
      BY PeerType DEF TypeOK
    <3>2. sentMsgs[p] = [i \in 1 .. Len(sent[p]) |-> sent[p][i].msg]
      BY <3>1 DEF sentMsgs
    <3>3. Len(sentMsgs[p]) = Len(sent[p]) /\ sentMsgs[p][k + 1] = sent[p][k + 1].msg
      BY <2>4, <3>1, <3>2
    <3>4. delivered' = [delivered EXCEPT ![n] = Append(@, sentMsgs[p][k + 1])]
      BY <1>2, <2>4, <3>3 DEF HandleIncoming, TypeOK
    <3>5. QED
      BY <2>1, <2>4, <3>3, <3>4 DEF FIFO!Deliver, sentMsgs
  <2>5. QED
    BY <1>2, <2>3, <2>4, DeliverNext
<1>3. CASE UNCHANGED <<sent, delivered>>
  BY <1>3 DEF FIFO!vars, sentMsgs
<1>4. QED
  BY <1>1, <1>2, <1>3
     DEF Next, Connect, KeepAlive, Transmit, ResendReliable, vars, historyVars, FIFO!Next

(***************************************************************************)
(* In order, a connection is a pair of first-in first-out channels: no       *)
(* message is delivered twice, dropped in favour of a later one, or out of   *)
(* turn.                                                                    *)
(***************************************************************************)
THEOREM FIFOHolds ==
    ASSUME NoWrap, MaxGap = 1
    PROVE  Spec => FIFOSpec
<1>1. Init => FIFO!Init
  <2>1. ASSUME Init PROVE sentMsgs = [n \in Ends |-> << >>]
    BY <2>1 DEF Init, sentMsgs
  <2>2. QED
    BY <2>1 DEF Init, FIFO!Init, sentMsgs
<1>2. TypeOK /\ InOrder /\ [Next]_vars => [FIFO!Next]_FIFO!vars
  BY ChannelStep
<1>3. QED
  BY <1>1, <1>2, TypeCorrect, InOrderHolds, PTL DEF Spec, FIFOSpec, FIFO!Spec

-----------------------------------------------------------------------------
(***************************************************************************)
(* Either direction implements Retransmission.                              *)
(***************************************************************************)

\* The invariant: what resend_reliable repeats has been sent before.
SentKept ==
    \A n \in Ends : sent_messages[n] \subseteq {sent[n][i] : i \in 1 .. Len(sent[n])}

\* The elements of a sequence that is appended to.
LEMMA AppendRange ==
    ASSUME NEW S, NEW q \in Seq(S), NEW x, NEW r, r = Append(q, x)
    PROVE  {r[i] : i \in 1 .. Len(r)} = {q[i] : i \in 1 .. Len(q)} \cup {x}
<1>1. /\ Len(r) = Len(q) + 1
      /\ \A i \in 1 .. Len(q) : r[i] = q[i]
      /\ r[Len(q) + 1] = x
      /\ Len(q) \in Nat
  OBVIOUS
<1>2. 1 .. Len(r) = (1 .. Len(q)) \cup {Len(q) + 1}
  BY <1>1
<1>3. QED
  BY <1>1, <1>2

\* Every step keeps SentKept: a message enters sent_messages as it is sent.
LEMMA SentKeptStep ==
    ASSUME TypeOK, SentKept, [Next]_vars
    PROVE  SentKept'
<1> SUFFICES ASSUME NEW n \in Ends
             PROVE  sent_messages'[n] \subseteq {sent'[n][i] : i \in 1 .. Len(sent'[n])}
  BY DEF SentKept
<1>1. CASE /\ sent_messages'[n] \subseteq sent_messages[n]
           /\ sent'[n] = sent[n]
  BY <1>1 DEF SentKept
<1>2. ASSUME NEW k \in Ends, NEW m \in Msgs, Send(k, m)
      PROVE  sent_messages'[n] \subseteq {sent'[n][i] : i \in 1 .. Len(sent'[n])}
  <2>1. CASE k # n
    BY <1>1, <1>2, <2>1 DEF Send, TypeOK
  <2>2. CASE k = n
    <3>1. /\ sent_messages'[n] = sent_messages[n] \cup {Outgoing(n, m)}
          /\ sent'[n] = Append(sent[n], Outgoing(n, m))
      BY <1>2, <2>2 DEF Send, TypeOK
    <3>2. {sent[n][i] : i \in 1 .. Len(sent[n])} \cup {Outgoing(n, m)} =
              {sent'[n][i] : i \in 1 .. Len(sent'[n])}
      <4>1. sent[n] \in Seq(Datagram)
        BY DEF TypeOK
      <4>2. QED
        BY <3>1, <4>1, AppendRange
    <3>3. QED
      BY <3>1, <3>2 DEF SentKept
  <2>3. QED
    BY <2>1, <2>2
<1>3. ASSUME NEW k \in Ends, NEW d \in network[k], HandleIncoming(k, d)
      PROVE  /\ sent_messages'[n] \subseteq sent_messages[n]
             /\ sent'[n] = sent[n]
  BY <1>3 DEF HandleIncoming, TypeOK, Unacked
<1>4. QED
  BY <1>1, <1>2, <1>3 DEF Next, Connect, KeepAlive, ResendReliable, vars, historyVars

-----------------------------------------------------------------------------
(***************************************************************************)
(* The steps of Retransmission as the direction from the end n sees them.    *)
(***************************************************************************)
toPeer(n)   == Numbers(network[Peer(n)])
fromPeer(n) == Reports(Peer(n))
unacked(n)  == Numbers(sent_messages[n])
awaits(n)   == sent_messages[Peer(n)] # {}

SenderKept(n)   == /\ sequence_number'[n] = sequence_number[n]
                   /\ unacked(n)' = unacked(n)
WindowKept(n)   == /\ remote_sequence_number'[Peer(n)] = remote_sequence_number[Peer(n)]
                   /\ ack_field'[Peer(n)] = ack_field[Peer(n)]
ReceiverKept(n) == WindowKept(n) /\ awaits(n)' = awaits(n)

WayStutters(n) == SenderKept(n) /\ ReceiverKept(n) /\ toPeer(n)' = toPeer(n)
                                /\ fromPeer(n)' = fromPeer(n)

WayTransmits(n) ==
    /\ sequence_number[n] <= MaxSeq[n]
    /\ sequence_number'[n] = Increment(sequence_number[n])
    /\ \E kept \in SUBSET {sequence_number[n]} : toPeer(n)' = toPeer(n) \cup kept
    /\ \/ unacked(n)' = unacked(n) \cup {sequence_number[n]}
       \/ unacked(n)' = unacked(n)
    /\ ReceiverKept(n)
    /\ fromPeer(n)' = fromPeer(n)

WayResends(n) ==
    /\ \E late \in SUBSET unacked(n) : \E kept \in SUBSET late :
           toPeer(n)' = toPeer(n) \cup kept
    /\ SenderKept(n) /\ ReceiverKept(n) /\ fromPeer(n)' = fromPeer(n)

WayReports(n) ==
    /\ fromPeer(n)' = fromPeer(n) \cup {[lack |-> remote_sequence_number[Peer(n)],
                                         acks |-> ack_field[Peer(n)]]}
    /\ awaits(n)' \/ awaits(n)' = awaits(n)
    /\ SenderKept(n) /\ WindowKept(n) /\ toPeer(n)' = toPeer(n)

WayReceives(n) ==
    /\ \E seq \in toPeer(n) :
           /\ remote_sequence_number'[Peer(n)] =
                  RemoteAfter(remote_sequence_number[Peer(n)], seq)
           /\ ack_field'[Peer(n)] \in
                  FieldAfter(remote_sequence_number[Peer(n)], ack_field[Peer(n)], seq)
    /\ awaits(n)' => awaits(n)
    /\ SenderKept(n) /\ toPeer(n)' = toPeer(n) /\ fromPeer(n)' = fromPeer(n)

WayAcknowledges(n) ==
    /\ \E r \in fromPeer(n) : unacked(n)' = unacked(n) \ Acked(r.lack, r.acks)
    /\ sequence_number'[n] = sequence_number[n]
    /\ ReceiverKept(n) /\ toPeer(n)' = toPeer(n) /\ fromPeer(n)' = fromPeer(n)

WayStep(n) == \/ WayStutters(n) \/ WayTransmits(n) \/ WayResends(n)
              \/ WayReports(n)  \/ WayReceives(n)  \/ WayAcknowledges(n)

-----------------------------------------------------------------------------
\* A datagram of n, kept or lost, on the way from n: its number may be in flight.
LEMMA TransmitOwn ==
    ASSUME TypeOK, NEW n \in Ends, NEW m, Transmit(n, m)
    PROVE  /\ \E kept \in SUBSET {sequence_number[n]} : toPeer(n)' = toPeer(n) \cup kept
           /\ sequence_number[n] <= MaxSeq[n]
           /\ sequence_number'[n] = Increment(sequence_number[n])
           /\ WindowKept(n)
           /\ network'[n] = network[n]
<1>1. PICK kept \in SUBSET {Outgoing(n, m)} :
          network' = [network EXCEPT ![Peer(n)] = @ \cup kept]
  BY DEF Transmit, SocketSend
<1>2. /\ network'[Peer(n)] = network[Peer(n)] \cup kept
      /\ network'[n] = network[n]
  BY <1>1, PeerType DEF TypeOK
<1>3. Numbers(kept) \in SUBSET {sequence_number[n]}
  BY <1>1 DEF Numbers, Outgoing
<1>4. toPeer(n)' = toPeer(n) \cup Numbers(kept)
  BY <1>2 DEF toPeer, Numbers
<1>5. QED
  BY <1>2, <1>3, <1>4 DEF Transmit, TypeOK, WindowKept

\* The step of a do_send on the way from the end that sends.
LEMMA SendOwn ==
    ASSUME TypeOK, NEW n \in Ends, NEW m \in Msgs, Send(n, m)
    PROVE  WayTransmits(n)
<1>1. Transmit(n, m)
  BY DEF Send
<1>2. unacked(n)' = unacked(n) \cup {sequence_number[n]}
  <2>1. sent_messages'[n] = sent_messages[n] \cup {Outgoing(n, m)}
    BY DEF Send, TypeOK
  <2>2. Outgoing(n, m).seq = sequence_number[n]
    BY DEF Outgoing
  <2>3. QED
    BY <2>1, <2>2 DEF unacked, Numbers
<1>3. fromPeer(n)' = fromPeer(n)
  <2>1. sent'[Peer(n)] = sent[Peer(n)]
    BY PeerType DEF Send, TypeOK
  <2>2. network'[Peer(Peer(n))] = network[Peer(Peer(n))]
    BY <1>1, TransmitOwn, PeerType
  <2>3. QED
    BY <2>1, <2>2 DEF fromPeer, Reports
<1>4. awaits(n)' = awaits(n)
  BY PeerType DEF Send, TypeOK, awaits
<1>5. QED
  BY <1>1, <1>2, <1>3, <1>4, TransmitOwn DEF WayTransmits, ReceiverKept

\* A keep alive is a KeepAlive of the direction from its sender.
LEMMA KeepAliveOwn ==
    ASSUME TypeOK, NEW n \in Ends, KeepAlive(n)
    PROVE  WayTransmits(n)
<1>1. Transmit(n, KEEP_ALIVE)
  BY DEF KeepAlive
<1>2. unacked(n)' = unacked(n)
  BY DEF KeepAlive, unacked
<1>3. fromPeer(n)' = fromPeer(n)
  BY <1>1, TransmitOwn, PeerType DEF KeepAlive, fromPeer, Reports
<1>4. awaits(n)' = awaits(n)
  BY DEF KeepAlive, awaits
<1>5. QED
  BY <1>1, <1>2, <1>3, <1>4, TransmitOwn DEF WayTransmits, ReceiverKept

(***************************************************************************)
(* The same datagrams on the other way: reports of the end that sends.       *)
(***************************************************************************)
LEMMA TransmitOther ==
    ASSUME TypeOK, NEW n \in Ends, NEW m, Transmit(Peer(n), m),
           sent_messages'[n] = sent_messages[n],
           \/ sent'[Peer(n)] = sent[Peer(n)] /\ awaits(n)' = awaits(n)
           \/ sent'[Peer(n)] = Append(sent[Peer(n)], Outgoing(Peer(n), m)) /\ awaits(n)'
    PROVE  WayStutters(n) \/ WayReports(n)
<1> DEFINE p == Peer(n)
           o == Outgoing(p, m)
           report(d) == [lack |-> d.lack, acks |-> d.acks]
<1>0. p \in Ends /\ Peer(p) = n /\ p # n
  BY PeerType
<1>1. PICK kept \in SUBSET {o} : network' = [network EXCEPT ![Peer(p)] = @ \cup kept]
  BY DEF Transmit, SocketSend
<1>2. network'[n] = network[n] \cup kept /\ network'[p] = network[p]
  BY <1>0, <1>1 DEF TypeOK
<1>3. SenderKept(n) /\ WindowKept(n) /\ toPeer(n)' = toPeer(n)
  BY <1>0, <1>2 DEF Transmit, TypeOK, SenderKept, WindowKept, toPeer, unacked
<1>4. report(o) = [lack |-> remote_sequence_number[p], acks |-> ack_field[p]]
  BY DEF Outgoing
<1>5. \E more \in SUBSET {o} :
          /\ network'[n] \cup {sent'[p][i] : i \in 1 .. Len(sent'[p])} =
                 (network[n] \cup {sent[p][i] : i \in 1 .. Len(sent[p])}) \cup more
          /\ (more = {} => awaits(n)' = awaits(n)) /\ (awaits(n)' \/ awaits(n)' = awaits(n))
  <2>1. CASE sent'[p] = sent[p] /\ awaits(n)' = awaits(n)
    BY <1>2, <2>1
  <2>2. CASE sent'[p] = Append(sent[p], o) /\ awaits(n)'
    <3>1. {sent'[p][i] : i \in 1 .. Len(sent'[p])} =
              {sent[p][i] : i \in 1 .. Len(sent[p])} \cup {o}
      <4>1. sent[p] \in Seq(Datagram)
        BY <1>0 DEF TypeOK
      <4>2. QED
        BY <2>2, <4>1, AppendRange
    <3>2. network'[n] \cup {sent'[p][i] : i \in 1 .. Len(sent'[p])} =
              (network[n] \cup {sent[p][i] : i \in 1 .. Len(sent[p])}) \cup {o}
      BY <1>2, <3>1
    <3>3. {o} \in SUBSET {o} /\ {o} # {}
      OBVIOUS
    <3>4. QED
      BY <2>2, <3>2, <3>3
  <2>3. QED
    BY <2>1, <2>2
<1>6. PICK more \in SUBSET {o} :
          /\ network'[n] \cup {sent'[p][i] : i \in 1 .. Len(sent'[p])} =
                 (network[n] \cup {sent[p][i] : i \in 1 .. Len(sent[p])}) \cup more
          /\ (more = {} => awaits(n)' = awaits(n)) /\ (awaits(n)' \/ awaits(n)' = awaits(n))
  BY <1>5
<1>7. fromPeer(n)' = fromPeer(n) \cup {report(d) : d \in more}
  BY <1>0, <1>6 DEF fromPeer, Reports
<1>8. more = {} \/ more = {o}
  OBVIOUS
<1>9. CASE more = {}
  BY <1>3, <1>6, <1>7, <1>9 DEF WayStutters, ReceiverKept
<1>10. CASE more = {o}
  BY <1>3, <1>4, <1>6, <1>7, <1>10 DEF WayReports
<1>11. QED
  BY <1>8, <1>9, <1>10

\* resend_reliable of n on the way from n, and on the way to n.
LEMMA ResendOwn ==
    ASSUME TypeOK, NEW n \in Ends, ResendReliable(n)
    PROVE  WayResends(n)
<1>1. PICK late \in SUBSET sent_messages[n] :
          /\ SocketSend(n, late)
          /\ UNCHANGED <<peerVars, sent_messages, delivered, historyVars>>
  BY DEF ResendReliable
<1>2. PICK kept \in SUBSET late : network' = [network EXCEPT ![Peer(n)] = @ \cup kept]
  BY <1>1 DEF SocketSend
<1>3. /\ network'[Peer(n)] = network[Peer(n)] \cup kept
      /\ network'[n] = network[n]
  BY <1>2, PeerType DEF TypeOK
<1>4. toPeer(n)' = toPeer(n) \cup Numbers(kept)
  BY <1>3 DEF toPeer, Numbers
<1>5. Numbers(late) \in SUBSET unacked(n) /\ Numbers(kept) \in SUBSET Numbers(late)
  BY DEF Numbers, unacked
<1>6. SenderKept(n) /\ ReceiverKept(n)
  BY <1>1 DEF peerVars, SenderKept, ReceiverKept, WindowKept, unacked, awaits
<1>7. fromPeer(n)' = fromPeer(n)
  BY <1>1, <1>3, PeerType DEF historyVars, fromPeer, Reports
<1>8. QED
  BY <1>4, <1>5, <1>6, <1>7 DEF WayResends

\* Retransmissions repeat reports that the other direction already has.
LEMMA ResendOther ==
    ASSUME TypeOK, SentKept, NEW n \in Ends, ResendReliable(Peer(n))
    PROVE  WayStutters(n)
<1> DEFINE p == Peer(n)
<1>0. p \in Ends /\ Peer(p) = n /\ p # n
  BY PeerType
<1>1. PICK late \in SUBSET sent_messages[p] :
          /\ SocketSend(p, late)
          /\ UNCHANGED <<peerVars, sent_messages, delivered, historyVars>>
  BY DEF ResendReliable
<1>2. PICK kept \in SUBSET late : network' = [network EXCEPT ![Peer(p)] = @ \cup kept]
  BY <1>1 DEF SocketSend
<1>3. network'[n] = network[n] \cup kept /\ network'[p] = network[p]
  BY <1>0, <1>2 DEF TypeOK
<1>4. kept \subseteq {sent[p][i] : i \in 1 .. Len(sent[p])}
  BY <1>0 DEF SentKept
<1>5. network'[n] \cup {sent'[p][i] : i \in 1 .. Len(sent'[p])} =
          network[n] \cup {sent[p][i] : i \in 1 .. Len(sent[p])}
  BY <1>1, <1>3, <1>4 DEF historyVars
<1>6. fromPeer(n)' = fromPeer(n)
  BY <1>0, <1>5 DEF fromPeer, Reports
<1>7. SenderKept(n) /\ ReceiverKept(n) /\ toPeer(n)' = toPeer(n)
  BY <1>1, <1>3 DEF peerVars, SenderKept, ReceiverKept, WindowKept, unacked, awaits, toPeer
<1>8. QED
  BY <1>6, <1>7 DEF WayStutters

\* handle_incoming of n: a report on the way from n, an arrival on the way to n.
LEMMA IncomingOwn ==
    ASSUME TypeOK, NEW n \in Ends, NEW d \in network[n], HandleIncoming(n, d)
    PROVE  WayAcknowledges(n)
<1> DEFINE r == [lack |-> d.lack, acks |-> d.acks]
<1>1. r \in fromPeer(n)
  BY PeerType DEF fromPeer, Reports
<1>2. sent_messages'[n] = Unacked(sent_messages[n], d.lack, d.acks)
  BY DEF HandleIncoming, TypeOK
<1>3. unacked(n)' = unacked(n) \ Acked(r.lack, r.acks)
  BY <1>2 DEF unacked, Numbers, Unacked
<1>4. /\ sequence_number'[n] = sequence_number[n]
      /\ toPeer(n)' = toPeer(n)
      /\ fromPeer(n)' = fromPeer(n)
  BY DEF HandleIncoming, toPeer, fromPeer, Reports
<1>5. ReceiverKept(n)
  BY PeerType DEF HandleIncoming, TypeOK, ReceiverKept, WindowKept, awaits
<1>6. QED
  BY <1>1, <1>3, <1>4, <1>5 DEF WayAcknowledges

\* What the peer of an end handles is a Receive of the direction from that end.
LEMMA IncomingOther ==
    ASSUME TypeOK, NEW n \in Ends, NEW d \in network[Peer(n)], HandleIncoming(Peer(n), d)
    PROVE  WayReceives(n)
<1>1. d.seq \in toPeer(n)
  BY DEF toPeer, Numbers
<1>2. /\ remote_sequence_number'[Peer(n)] =
             RemoteAfter(remote_sequence_number[Peer(n)], d.seq)
      /\ ack_field'[Peer(n)] \in
             FieldAfter(remote_sequence_number[Peer(n)], ack_field[Peer(n)], d.seq)
  BY PeerType DEF HandleIncoming, TypeOK
<1>3. SenderKept(n)
  BY PeerType DEF HandleIncoming, TypeOK, SenderKept, unacked
<1>4. toPeer(n)' = toPeer(n) /\ fromPeer(n)' = fromPeer(n)
  BY DEF HandleIncoming, toPeer, fromPeer, Reports
<1>5. awaits(n)' => awaits(n)
  <2>1. sent_messages'[Peer(n)] \subseteq sent_messages[Peer(n)]
    BY PeerType DEF HandleIncoming, TypeOK, Unacked
  <2>2. QED
    BY <2>1 DEF awaits
<1>6. QED
  BY <1>1, <1>2, <1>3, <1>4, <1>5 DEF WayReceives

\* Every step of a connection is a step of either way, or a stutter.
LEMMA EveryStep ==
    ASSUME TypeOK, SentKept, [Next]_vars, NEW n \in Ends
    PROVE  WayStep(n)
<1>0. \A k \in Ends : k = n \/ k = Peer(n)
  BY DEF Ends, Peer
<1>1. ASSUME NEW k \in Ends, Connect(k) PROVE WayStep(n)
  BY <1>1 DEF Connect, historyVars, WayStep, WayStutters, SenderKept, ReceiverKept, WindowKept,
              toPeer, fromPeer, unacked, awaits, Reports
<1>2. ASSUME NEW k \in Ends, NEW m \in Msgs, Send(k, m) PROVE WayStep(n)
  <2>1. CASE k = n
    BY <1>2, <2>1, SendOwn DEF WayStep
  <2>2. CASE k = Peer(n)
    <3>1. /\ Transmit(Peer(n), m)
          /\ sent_messages'[n] = sent_messages[n]
          /\ sent'[Peer(n)] = Append(sent[Peer(n)], Outgoing(Peer(n), m))
          /\ awaits(n)'
      BY <1>2, <2>2, PeerType DEF Send, TypeOK, awaits
    <3>2. QED
      BY <3>1, TransmitOther DEF WayStep
  <2>3. QED
    BY <1>0, <2>1, <2>2
<1>3. ASSUME NEW k \in Ends, KeepAlive(k) PROVE WayStep(n)
  <2>1. CASE k = n
    BY <1>3, <2>1, KeepAliveOwn DEF WayStep
  <2>2. CASE k = Peer(n)
    BY <1>3, <2>2, TransmitOther DEF KeepAlive, WayStep, awaits
  <2>3. QED
    BY <1>0, <2>1, <2>2
<1>4. ASSUME NEW k \in Ends, ResendReliable(k) PROVE WayStep(n)
  BY <1>0, <1>4, ResendOwn, ResendOther DEF WayStep
<1>5. ASSUME NEW k \in Ends, NEW d \in network[k], HandleIncoming(k, d) PROVE WayStep(n)
  BY <1>0, <1>5, IncomingOwn, IncomingOther DEF WayStep
<1>6. CASE UNCHANGED vars
  BY <1>6 DEF vars, peerVars, historyVars, WayStep, WayStutters, SenderKept, ReceiverKept,
              WindowKept, toPeer, fromPeer, unacked, awaits, Reports
<1>7. QED
  BY <1>1, <1>2, <1>3, <1>4, <1>5, <1>6 DEF Next

-----------------------------------------------------------------------------
\* A step of the way from the client is one of ToServer.
LEMMA ServerWay ==
    ASSUME WayStep("client")
    PROVE  [ToServer!Next]_(ToServer!vars)
<1>0. Peer("client") = "server" /\ Peer("server") = "client"
  BY DEF Peer
<1> USE <1>0 DEF toPeer, fromPeer, unacked, awaits, SenderKept, ReceiverKept, WindowKept
<1>a. \A s : ToServer!Increment(s) = Increment(s)
  BY DEF ToServer!Increment, Increment
<1>b. \A lack, acks : ToServer!Acked(lack, acks) = Acked(lack, acks)
  BY DEF ToServer!Acked, ToServer!Minus, Acked, Minus
<1>c. \A remote, field, seq :
          /\ ToServer!RemoteAfter(remote, seq) = RemoteAfter(remote, seq)
          /\ ToServer!FieldAfter(remote, field, seq) = FieldAfter(remote, field, seq)
  BY DEF ToServer!RemoteAfter, RemoteAfter, ToServer!FieldAfter, FieldAfter, ToServer!ShiftLeft, ShiftLeft,
         ToServer!ShiftBits, ShiftBits, ToServer!Bits, Bits
<1>1. CASE WayStutters("client")
  BY <1>1 DEF WayStutters, ToServer!vars, ToServer!senderVars, ToServer!receiverVars
<1>2. CASE WayTransmits("client")
  BY <1>2, <1>a DEF WayTransmits, ToServer!Next, ToServer!Send, ToServer!KeepAlive,
              ToServer!Transmit, ToServer!Put, ToServer!receiverVars
<1>3. CASE WayResends("client")
  BY <1>3 DEF WayResends, ToServer!Next, ToServer!ResendReliable, ToServer!senderVars,
              ToServer!receiverVars
<1>4. CASE WayReports("client")
  BY <1>4 DEF WayReports, ToServer!Next, ToServer!ReportByMessage, ToServer!ReportByKeepAlive,
              ToServer!Report, ToServer!window,
              ToServer!senderVars, ToServer!receiverVars
<1>5. CASE WayReceives("client")
  BY <1>5, <1>c DEF WayReceives, ToServer!Next, ToServer!Receive, ToServer!senderVars
<1>6. CASE WayAcknowledges("client")
  BY <1>6, <1>b DEF WayAcknowledges, ToServer!Next, ToServer!ReceiveReport, ToServer!Unacked,
              ToServer!receiverVars
<1>7. QED
  BY <1>1, <1>2, <1>3, <1>4, <1>5, <1>6 DEF WayStep

\* A step of the way from the server is one of ToClient.
LEMMA ClientWay ==
    ASSUME WayStep("server")
    PROVE  [ToClient!Next]_(ToClient!vars)
<1>0. Peer("client") = "server" /\ Peer("server") = "client"
  BY DEF Peer
<1> USE <1>0 DEF toPeer, fromPeer, unacked, awaits, SenderKept, ReceiverKept, WindowKept
<1>a. \A s : ToClient!Increment(s) = Increment(s)
  BY DEF ToClient!Increment, Increment
<1>b. \A lack, acks : ToClient!Acked(lack, acks) = Acked(lack, acks)
  BY DEF ToClient!Acked, ToClient!Minus, Acked, Minus
<1>c. \A remote, field, seq :
          /\ ToClient!RemoteAfter(remote, seq) = RemoteAfter(remote, seq)
          /\ ToClient!FieldAfter(remote, field, seq) = FieldAfter(remote, field, seq)
  BY DEF ToClient!RemoteAfter, RemoteAfter, ToClient!FieldAfter, FieldAfter, ToClient!ShiftLeft, ShiftLeft,
         ToClient!ShiftBits, ShiftBits, ToClient!Bits, Bits
<1>1. CASE WayStutters("server")
  BY <1>1 DEF WayStutters, ToClient!vars, ToClient!senderVars, ToClient!receiverVars
<1>2. CASE WayTransmits("server")
  BY <1>2, <1>a DEF WayTransmits, ToClient!Next, ToClient!Send, ToClient!KeepAlive,
              ToClient!Transmit, ToClient!Put, ToClient!receiverVars
<1>3. CASE WayResends("server")
  BY <1>3 DEF WayResends, ToClient!Next, ToClient!ResendReliable, ToClient!senderVars,
              ToClient!receiverVars
<1>4. CASE WayReports("server")
  BY <1>4 DEF WayReports, ToClient!Next, ToClient!ReportByMessage, ToClient!ReportByKeepAlive,
              ToClient!Report, ToClient!window,
              ToClient!senderVars, ToClient!receiverVars
<1>5. CASE WayReceives("server")
  BY <1>5, <1>c DEF WayReceives, ToClient!Next, ToClient!Receive, ToClient!senderVars
<1>6. CASE WayAcknowledges("server")
  BY <1>6, <1>b DEF WayAcknowledges, ToClient!Next, ToClient!ReceiveReport, ToClient!Unacked,
              ToClient!receiverVars
<1>7. QED
  BY <1>1, <1>2, <1>3, <1>4, <1>5, <1>6 DEF WayStep

(***************************************************************************)
(* A connection is a Retransmission in either direction: whatever the        *)
(* network does and an undefined shift yields, a message leaves              *)
(* sent_messages of do_send only by a report that a window of the peer gave. *)
(***************************************************************************)
THEOREM OneWayHolds == Spec => OneWaySpec
<1>1. Init => SentKept /\ ToServer!Init /\ ToClient!Init
  <2>1. Peer("client") = "server" /\ Peer("server") = "client"
    BY DEF Peer
  <2>2. QED
    BY <2>1 DEF Init, Ends, SentKept, ToServer!Init, ToClient!Init, Numbers, Reports
<1>2. TypeOK /\ SentKept /\ [Next]_vars =>
          SentKept' /\ [ToServer!Next]_(ToServer!vars) /\ [ToClient!Next]_(ToClient!vars)
  <2>1. "client" \in Ends /\ "server" \in Ends
    BY DEF Ends
  <2>2. QED
    BY <2>1, SentKeptStep, EveryStep, ServerWay, ClientWay
<1>3. QED
  BY <1>1, <1>2, TypeCorrect, PTL DEF Spec, OneWaySpec, ToServer!Spec, ToClient!Spec
=============================================================================
