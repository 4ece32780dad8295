--------------------------- MODULE Retransmission ---------------------------
(***************************************************************************)
(* One direction of a connection, for its liveness: the sender numbers its   *)
(* datagrams and retransmits what is in sent_messages, the receiver reports  *)
(* its window on every datagram it makes.  The numbers of the receiver's     *)
(* datagrams do not matter here and are left out, so that it can report for  *)
(* ever in a finite number of states; of its own messages only whether one   *)
(* waits for an acknowledgement is kept, since their repetitions carry no    *)
(* new window and put off the keep alives that would.                       *)
(*                                                                          *)
(* A number stands for its datagram.  A datagram that is received may stay  *)
(* in flight (duplication) or not.                                          *)
(***************************************************************************)
EXTENDS AckField

CONSTANT MaxSeq  \* bound: the sender sends no datagram numbered above MaxSeq

ASSUME RetransmissionAssumption == MaxSeq \in Nat /\ MaxSeq < SeqMod - 1

Window == [lack : SeqNum, acks : Field]

VARIABLES
    sequence_number,         \* of the sender's entry for the receiver
    sent_messages,           \* the numbers of the sender's unacknowledged messages
    remote_sequence_number,  \* of the receiver's entry for the sender
    ack_field,               \* of the same entry
    waiting,                 \* the receiver's sent_messages is not empty
    toReceiver,              \* datagrams in flight
    toSender                 \* reports in flight, or in messages the receiver may repeat

senderVars   == <<sequence_number, sent_messages>>
receiverVars == <<remote_sequence_number, ack_field, waiting>>
vars         == <<senderVars, receiverVars, toReceiver, toSender>>

TypeOK ==
    /\ sequence_number \in SeqNum
    /\ sent_messages \subseteq SeqNum
    /\ remote_sequence_number \in SeqNum
    /\ ack_field \in Field
    /\ waiting \in BOOLEAN
    /\ toReceiver \subseteq SeqNum
    /\ toSender \subseteq Window

Init ==
    /\ sequence_number = 1
    /\ sent_messages = {}
    /\ remote_sequence_number = 0
    /\ ack_field = {}
    /\ waiting = FALSE
    /\ toReceiver = {}
    /\ toSender = {}

\* The socket loses what is not in kept.
Put(seqs) == \E kept \in SUBSET seqs : toReceiver' = toReceiver \cup kept

\* do_send up to the point where it looks at the message id.
Transmit ==
    /\ sequence_number <= MaxSeq
    /\ sequence_number' = Increment(sequence_number)
    /\ Put({sequence_number})
    /\ UNCHANGED <<receiverVars, toSender>>

\* do_send of an application message.
Send ==
    /\ Transmit
    /\ sent_messages' = sent_messages \cup {sequence_number}

\* keep_alive of the sender.
KeepAlive ==
    /\ Transmit
    /\ UNCHANGED sent_messages

\* resend_reliable of the messages in late; those in kept are not lost.
ResendReliable(late, kept) ==
    /\ kept \subseteq late
    /\ toReceiver' = toReceiver \cup kept
    /\ UNCHANGED <<senderVars, receiverVars, toSender>>

\* What the receiver would report now.
window == [lack |-> remote_sequence_number, acks |-> ack_field]

\* do_send of the receiver up to the point where it looks at the message id.
Report ==
    /\ toSender' = toSender \cup {window}
    /\ UNCHANGED <<senderVars, remote_sequence_number, ack_field, toReceiver>>

\* A message of the receiver.
ReportByMessage == Report /\ waiting' = TRUE

\* A keep alive of the receiver.
ReportByKeepAlive == Report /\ UNCHANGED waiting

(***************************************************************************)
(* handle_incoming of the receiver: the first half of its handle_acks; the   *)
(* second may erase the last of its own messages.                           *)
(***************************************************************************)
Receive(seq) ==
    /\ seq \in toReceiver
    /\ toReceiver' \in {toReceiver, toReceiver \ {seq}}
    /\ remote_sequence_number' = RemoteAfter(remote_sequence_number, seq)
    /\ ack_field' \in FieldAfter(remote_sequence_number, ack_field, seq)
    /\ waiting' \in {waiting, FALSE}
    /\ UNCHANGED <<senderVars, toSender>>

\* Variant: lack is read as a cumulative acknowledgement.
Unacked_Cumulative(messages, r) == {s \in messages : s > r.lack}

Unacked(messages, r) == messages \ Acked(r.lack, r.acks)

\* handle_incoming of the sender: the second half of handle_acks.
ReceiveReport(r) ==
    /\ r \in toSender
    /\ toSender' \in {toSender, toSender \ {r}}
    /\ sent_messages' = Unacked(sent_messages, r)
    /\ UNCHANGED <<sequence_number, receiverVars, toReceiver>>

Next ==
    \/ Send
    \/ KeepAlive
    \/ \E late \in SUBSET sent_messages : \E kept \in SUBSET late : ResendReliable(late, kept)
    \/ ReportByMessage
    \/ ReportByKeepAlive
    \/ \E seq \in toReceiver : Receive(seq)
    \/ \E r \in toSender : ReceiveReport(r)

Spec == Init /\ [][Next]_vars

(***************************************************************************)
(* Fairness.  The workers step for ever: resend_reliable repeats a message   *)
(* every RESEND_THRESHOLD, and keep_alive of a receiver that repeats nothing *)
(* reports every KEEP_ALIVE_THRESHOLD.  The network does not lose for ever:  *)
(* of a datagram that is sent again and again one arrives, and of the        *)
(* reports of a window that no longer changes one arrives.  Nobody has to    *)
(* send a new message, nor to hear of the messages it waits for.            *)
(***************************************************************************)
Repeats(seq) ==
    \E late \in SUBSET sent_messages : \E kept \in SUBSET late :
        seq \in kept /\ ResendReliable(late, kept)

Fairness ==
    /\ \A seq \in 1 .. MaxSeq : WF_vars(Repeats(seq)) /\ SF_vars(Receive(seq))
    /\ WF_vars(~waiting /\ ReportByKeepAlive)
    /\ SF_vars(ReceiveReport(window))

FairSpec == Spec /\ Fairness

-----------------------------------------------------------------------------
\* No bit of the receiver's window stands for the number any more.
OutOfWindow(seq) == remote_sequence_number - seq >= ACK_COUNT

(***************************************************************************)
(* Every message is acknowledged in the end, or the receiver is so far ahead *)
(* that none of its 32 bits stands for it, or some message of the receiver   *)
(* waits from then on: resend_reliable of the receiver refreshes             *)
(* last_message_sent with old windows.                                      *)
(***************************************************************************)
Settled ==
    \A seq \in 1 .. MaxSeq :
        seq \in sent_messages ~> (seq \notin sent_messages \/ OutOfWindow(seq) \/ []waiting)

(***************************************************************************)
(* A message that falls out of the window while no report in flight covers   *)
(* it stays in sent_messages: it is repeated for as long as the peer lives,  *)
(* and the receiver takes each repetition for one that is way too old.      *)
(***************************************************************************)
Stuck(seq) ==
    /\ seq \in sent_messages
    /\ OutOfWindow(seq)
    /\ \A r \in toSender : seq \notin Acked(r.lack, r.acks)

StuckForGood == [][\A seq \in 1 .. MaxSeq : Stuck(seq) => Stuck(seq)']_vars
=============================================================================
