----------------------------- MODULE Connection -----------------------------
(***************************************************************************)
(* One connection between two Nodes: what do_send, handle_incoming,         *)
(* handle_acks, keep_alive and resend_reliable of Node.cpp do with the one   *)
(* Peer entry that each end has for the other, over a UDP network.          *)
(*                                                                          *)
(* The time thresholds of keep_alive and resend_reliable are abstracted: an  *)
(* end may find at any moment that they have elapsed, for any set of        *)
(* messages.  The entries live for the whole behaviour (timeout is outside   *)
(* this module) and every message has a handler.                            *)
(***************************************************************************)
EXTENDS AckField, Sequences, FiniteSets

CONSTANTS Msgs,          \* application messages, each is sent at most once
          KEEP_ALIVE,    \* the message id of a keep alive
          MaxGap,        \* how far a datagram may run ahead of its predecessors
          MaxSeq,        \* bound: an end sends no datagram numbered above MaxSeq
          MaxDeliveries  \* bound: the handlers of an end run at most so often

ASSUME ConnectionAssumption ==
    /\ KEEP_ALIVE \notin Msgs
    /\ MaxGap \in Nat \ {0}
    /\ MaxDeliveries \in Nat

Ends    == {"client", "server"}
Peer(n) == IF n = "client" THEN "server" ELSE "client"

ASSUME MaxSeqAssumption == MaxSeq \in [Ends -> Nat]

(***************************************************************************)
(* The header and the content of a datagram: the protocol id is the same at  *)
(* both ends and left out, the message id and the packed values are one.    *)
(***************************************************************************)
Datagram == [seq : SeqNum, msg : Msgs \cup {KEEP_ALIVE}, lack : SeqNum, acks : Field]

VARIABLES
    connected,               \* the end has an entry for its peer
    sequence_number,         \* Peer::sequence_number
    remote_sequence_number,  \* Peer::remote_sequence_number
    ack_field,               \* Peer::ack_field
    sent_messages,           \* Node::sent_messages, as a set
    network,                 \* datagrams in flight to the end
    delivered,               \* the messages its handlers were called with, in order
    sent,                    \* history: the datagrams that entered sent_messages
    arrived,                 \* history: the numbers handle_incoming has processed
    overflowed               \* history: the end has shifted by ACK_COUNT or more

peerVars    == <<connected, sequence_number, remote_sequence_number, ack_field>>
historyVars == <<sent, arrived, overflowed>>
vars        == <<peerVars, sent_messages, network, delivered, historyVars>>

TypeOK ==
    /\ connected \in [Ends -> BOOLEAN]
    /\ sequence_number \in [Ends -> SeqNum]
    /\ remote_sequence_number \in [Ends -> SeqNum]
    /\ ack_field \in [Ends -> Field]
    /\ sent_messages \in [Ends -> SUBSET Datagram]
    /\ network \in [Ends -> SUBSET Datagram]
    /\ delivered \in [Ends -> Seq(Msgs)]
    /\ sent \in [Ends -> Seq(Datagram)]
    /\ arrived \in [Ends -> SUBSET SeqNum]
    /\ overflowed \in [Ends -> BOOLEAN]

Init ==
    /\ connected = [n \in Ends |-> FALSE]
    /\ sequence_number = [n \in Ends |-> 1]
    /\ remote_sequence_number = [n \in Ends |-> 0]
    /\ ack_field = [n \in Ends |-> {}]
    /\ sent_messages = [n \in Ends |-> {}]
    /\ network = [n \in Ends |-> {}]
    /\ delivered = [n \in Ends |-> << >>]
    /\ sent = [n \in Ends |-> << >>]
    /\ arrived = [n \in Ends |-> {}]
    /\ overflowed = [n \in Ends |-> FALSE]

-----------------------------------------------------------------------------
\* Node::connect: the entry for an address the user names.
Connect(n) ==
    /\ ~connected[n]
    /\ connected' = [connected EXCEPT ![n] = TRUE]
    /\ UNCHANGED <<sequence_number, remote_sequence_number, ack_field,
                   sent_messages, network, delivered, historyVars>>

\* What do_send writes to the socket.
Outgoing(n, m) == [seq  |-> sequence_number[n],
                   msg  |-> m,
                   lack |-> remote_sequence_number[n],
                   acks |-> ack_field[n]]

(***************************************************************************)
(* UdpSocket::send of the datagrams in ds to the peer of n.  UDP loses any   *)
(* of them; one that is not lost may arrive late, out of order and more     *)
(* than once, so it stays in flight for ever.                               *)
(***************************************************************************)
SocketSend(n, ds) ==
    \E kept \in SUBSET ds :
        network' = [network EXCEPT ![Peer(n)] = @ \cup kept]

\* do_send up to the point where it looks at the message id.
Transmit(n, m) ==
    /\ connected[n]
    /\ sequence_number[n] <= MaxSeq[n]
    /\ SocketSend(n, {Outgoing(n, m)})
    /\ sequence_number' = [sequence_number EXCEPT ![n] = Increment(@)]
    /\ UNCHANGED <<connected, remote_sequence_number, ack_field, delivered,
                   arrived, overflowed>>

Fresh(m) == \A n \in Ends : \A i \in 1 .. Len(sent[n]) : sent[n][i].msg # m

\* do_send of an application message.
Send(n, m) ==
    /\ Fresh(m)
    /\ Transmit(n, m)
    /\ sent_messages' = [sent_messages EXCEPT ![n] = @ \cup {Outgoing(n, m)}]
    /\ sent' = [sent EXCEPT ![n] = Append(@, Outgoing(n, m))]

\* keep_alive, when KEEP_ALIVE_THRESHOLD has elapsed.
KeepAlive(n) ==
    /\ Transmit(n, KEEP_ALIVE)
    /\ UNCHANGED <<sent_messages, sent>>

\* resend_reliable, when RESEND_THRESHOLD has elapsed for the messages in late.
ResendReliable(n) ==
    \E late \in SUBSET sent_messages[n] :
        /\ SocketSend(n, late)
        /\ UNCHANGED <<peerVars, sent_messages, delivered, historyVars>>

\* Variant: lack is read as a cumulative acknowledgement.
Unacked_Cumulative(messages, lack, acks) == {m \in messages : m.seq > lack}

\* The messages left unacknowledged by a datagram carrying lack and acks.
Unacked(messages, lack, acks) == {m \in messages : m.seq \notin Acked(lack, acks)}

\* Variant: keep alives are handed to the handlers too.
Deliver_KeepAlive(calls, d, recived) == IF ~recived THEN Append(calls, d.msg) ELSE calls

\* The handler calls after a datagram d that was or was not taken for a duplicate.
Deliver(calls, d, recived) ==
    IF ~recived /\ d.msg # KEEP_ALIVE THEN Append(calls, d.msg) ELSE calls

\* handle_incoming of one datagram, with the handle_acks it calls.
HandleIncoming(n, d) ==
    LET recived == Recived(remote_sequence_number[n], ack_field[n], d.seq)
        calls   == Deliver(delivered[n], d, recived)
    IN  /\ d \in network[n]
        /\ d.seq <= remote_sequence_number[n] + MaxGap
        /\ Len(calls) <= MaxDeliveries
        /\ connected' = [connected EXCEPT ![n] = TRUE]
        /\ remote_sequence_number' =
               [remote_sequence_number EXCEPT ![n] = RemoteAfter(@, d.seq)]
        /\ \E f \in FieldAfter(remote_sequence_number[n], ack_field[n], d.seq) :
               ack_field' = [ack_field EXCEPT ![n] = f]
        /\ sent_messages' = [sent_messages EXCEPT ![n] = Unacked(@, d.lack, d.acks)]
        /\ delivered' = [delivered EXCEPT ![n] = calls]
        /\ arrived' = [arrived EXCEPT ![n] = @ \cup {d.seq}]
        /\ overflowed' = [overflowed EXCEPT
               ![n] = @ \/ ShiftOverflow(remote_sequence_number[n], d.seq)]
        /\ UNCHANGED <<sequence_number, network, sent>>

Next ==
    \E n \in Ends :
        \/ Connect(n)
        \/ \E m \in Msgs : Send(n, m)
        \/ KeepAlive(n)
        \/ ResendReliable(n)
        \/ \E d \in network[n] : HandleIncoming(n, d)

Spec == Init /\ [][Next]_vars

-----------------------------------------------------------------------------
\* Fewer datagrams are sent than there are sequence numbers.
NoWrap == \A n \in Ends : MaxSeq[n] < SeqMod - 1

\* handle_incoming would take a datagram numbered s for a duplicate.
Rejects(n, s) == Recived(remote_sequence_number[n], ack_field[n], s)

(***************************************************************************)
(* A number that an end takes for a duplicate is taken for one ever after:   *)
(* no shift of the window in handle_acks, not even one that is too far,     *)
(* forgets a number that was recorded.  With "remote = seqnum" this makes a  *)
(* message that arrived as the newest one safe from a second delivery.      *)
(***************************************************************************)
RejectedForGood ==
    [][\A n \in Ends : \A s \in SeqNum : Rejects(n, s) => Rejects(n, s)']_vars

(***************************************************************************)
(* The end has processed number s, where the number 0 before the first one   *)
(* counts as processed with the first datagram: handle_acks sets its bit.   *)
(***************************************************************************)
Reached(n, s) == s \in arrived[n] \/ (s = 0 /\ arrived[n] # {})

(***************************************************************************)
(* How wrong the duplicate check can be.  Unless a shift went too far, a     *)
(* number inside the window that is rejected has arrived, or its successor  *)
(* has: handle_acks sets the bit of a late datagram one position too high.  *)
(***************************************************************************)
RejectedNearArrival ==
    \A n \in Ends : ~overflowed[n] =>
        \A s \in 1 .. remote_sequence_number[n] :
            Rejects(n, s) => \/ s \in arrived[n]
                             \/ s + 1 \in arrived[n]
                             \/ remote_sequence_number[n] - s >= ACK_COUNT

\* The messages (by their position in sent) that an end will not send again.
Forgotten(n) == {i \in 1 .. Len(sent[n]) : sent[n][i] \notin sent_messages[n]}

(***************************************************************************)
(* How wrong an acknowledgement can be.  Unless the peer shifted too far, a  *)
(* message is dropped from sent_messages only when it or its predecessor    *)
(* has reached the peer: handle_acks reads bit i of an ack_field as number   *)
(* lack - i, the field holds number lack - 1 - i there.                     *)
(***************************************************************************)
ForgottenNearArrival ==
    \A n \in Ends : ~overflowed[Peer(n)] =>
        \A i \in Forgotten(n) : \/ Reached(Peer(n), sent[n][i].seq)
                                \/ Reached(Peer(n), sent[n][i].seq - 1)

(***************************************************************************)
(* An ack field reported at number remote by the end n is explained by what  *)
(* has arrived there: each bit stands for a number that was superseded, or  *)
(* for the predecessor of one that came late.                               *)
(***************************************************************************)
Explained(n, remote, field) ==
    \A b \in field : /\ b < remote
                     /\ Reached(n, remote - 1 - b) \/ Reached(n, remote - b)

\* The datagrams of an end that can still be seen somewhere.
Sent(n) == network[Peer(n)] \cup sent_messages[n] \cup {sent[n][i] : i \in 1 .. Len(sent[n])}

\* The part of the invariant below that concerns the end n.
EndExplained(n) ==
    /\ sequence_number[n] >= 1
    /\ 0 \notin arrived[n]
    /\ \/ remote_sequence_number[n] \in arrived[n]
       \/ remote_sequence_number[n] = 0 /\ arrived[n] = {} /\ ack_field[n] = {}
    /\ ~overflowed[n] => Explained(n, remote_sequence_number[n], ack_field[n])
    /\ \A d \in Sent(n) : /\ 1 <= d.seq
                          /\ d.seq < sequence_number[n]
                          /\ ~overflowed[n] => Explained(n, d.lack, d.acks)

(***************************************************************************)
(* The inductive invariant behind the two properties above: the field of an  *)
(* end, and the copies of it that travel and are retransmitted, are         *)
(* explained by the datagrams that arrived, and numbers are handed out in    *)
(* increasing order from 1.                                                 *)
(***************************************************************************)
WindowExplained == \A n \in Ends : EndExplained(n)

-----------------------------------------------------------------------------
(***************************************************************************)
(* What is wanted of the protocol.  The code provides it when the first      *)
(* transmissions of an end arrive in order (MaxGap = 1).                    *)
(***************************************************************************)

\* A message is dropped from sent_messages only when it has reached the peer.
ForgottenHasArrived ==
    \A n \in Ends : \A i \in Forgotten(n) : sent[n][i].seq \in arrived[Peer(n)]

\* The handlers of an end are called at most once with a message.
AtMostOnce ==
    \A n \in Ends : \A i, j \in 1 .. Len(delivered[n]) :
        delivered[n][i] = delivered[n][j] => i = j

(***************************************************************************)
(* A datagram that carries the last number the other end has used, and no    *)
(* earlier datagram carried, is not taken for one that is "way to old".      *)
(***************************************************************************)
NewestNotTooOld ==
    \A n \in Ends : \A d \in network[n] :
        (Increment(d.seq) = sequence_number[Peer(n)] /\ d.seq \notin arrived[n])
            => remote_sequence_number[n] - d.seq < ACK_COUNT

\* The messages that each end has sent, in order.
sentMsgs == [n \in Ends |-> [i \in 1 .. Len(sent[n]) |-> sent[n][i].msg]]

\* A connection is a pair of first-in first-out channels.
FIFO == INSTANCE Channel WITH sent <- sentMsgs
FIFOSpec == FIFO!Spec

\* The reports the end n has sent: the copies in flight and the messages it repeats.
Reports(n) == {[lack |-> d.lack, acks |-> d.acks] :
                   d \in network[Peer(n)] \cup {sent[n][i] : i \in 1 .. Len(sent[n])}}

Numbers(ds) == {d.seq : d \in ds}

(***************************************************************************)
(* Either direction of a connection, with what the other direction carries   *)
(* forgotten but for its reports, is a Retransmission: messages leave        *)
(* sent_messages only through reports that the peer's window gave.          *)
(***************************************************************************)
ToServer == INSTANCE Retransmission WITH
    MaxSeq                 <- MaxSeq["client"],
    sequence_number        <- sequence_number["client"],
    sent_messages          <- Numbers(sent_messages["client"]),
    remote_sequence_number <- remote_sequence_number["server"],
    ack_field              <- ack_field["server"],
    waiting                <- sent_messages["server"] # {},
    toReceiver             <- Numbers(network["server"]),
    toSender               <- Reports("server")
ToClient == INSTANCE Retransmission WITH
    MaxSeq                 <- MaxSeq["server"],
    sequence_number        <- sequence_number["server"],
    sent_messages          <- Numbers(sent_messages["server"]),
    remote_sequence_number <- remote_sequence_number["client"],
    ack_field              <- ack_field["client"],
    waiting                <- sent_messages["client"] # {},
    toReceiver             <- Numbers(network["client"]),
    toSender               <- Reports("client")
OneWaySpec == ToServer!Spec /\ ToClient!Spec

(***************************************************************************)
(* The inductive invariant behind FIFOSpec when first transmissions arrive   *)
(* in order: the window is full, so that the two off-by-one positions of     *)
(* handle_acks name numbers that have arrived as well; the numbers of an    *)
(* end identify its datagrams and grow with the messages; and what the      *)
(* handlers have seen is what the peer sent up to the remote number.        *)
(***************************************************************************)
FullWindow(n) ==
    /\ arrived[n] = 1 .. remote_sequence_number[n]
    /\ ack_field[n] = {b \in Bits : b < remote_sequence_number[n]}
    /\ \A d \in Sent(n) : /\ d.lack <= remote_sequence_number[n]
                          /\ d.acks = {b \in Bits : b < d.lack}

Numbered(n) ==
    /\ sequence_number[n] >= 1
    /\ \A d \in Sent(n) :
           /\ 1 <= d.seq
           /\ d.seq < sequence_number[n]
           /\ d.msg = KEEP_ALIVE \/ \E i \in 1 .. Len(sent[n]) : sent[n][i] = d
    /\ \A d, e \in Sent(n) : d.seq = e.seq => d = e
    /\ \A i, j \in 1 .. Len(sent[n]) : i < j => sent[n][i].seq < sent[n][j].seq
    /\ \A i \in 1 .. Len(sent[n]) : sent[n][i].msg \in Msgs

DeliveredPrefix(n) ==
    LET k == Len(delivered[n])
        p == Peer(n)
    IN  /\ remote_sequence_number[n] < sequence_number[p]
        /\ k <= Len(sent[p])
        /\ \A i \in 1 .. k : /\ delivered[n][i] = sent[p][i].msg
                             /\ sent[p][i].seq <= remote_sequence_number[n]
        /\ \A i \in (k + 1) .. Len(sent[p]) :
               sent[p][i].seq > remote_sequence_number[n]

InOrder == \A n \in Ends : FullWindow(n) /\ Numbered(n) /\ DeliveredPrefix(n)
=============================================================================
