----------------------------- MODULE KeepAlives -----------------------------
(***************************************************************************)
(* When an end reports what it has received: the clocks of keep_alive and    *)
(* resend_reliable, which Connection and Retransmission abstract, at both    *)
(* ends of one connection.                                                  *)
(*                                                                          *)
(* The network is as good as it can be: nothing is lost or overtaken.  By    *)
(* FullWindow of Connection a window then is one number, and a report of k   *)
(* acknowledges the first k messages of the peer.  Keep alives have no       *)
(* numbers here, so that they can be sent for ever.  A round of the worker   *)
(* takes no time.                                                           *)
(***************************************************************************)
EXTENDS Naturals, Sequences

CONSTANTS
    KEEP_ALIVE_THRESHOLD,  \* in ticks of the clock, as are all times
    RESEND_THRESHOLD,
    Messages,              \* how many messages each end sends
    Delay                  \* how long a datagram is in flight at most

Ends    == {"client", "server"}
Peer(n) == IF n = "client" THEN "server" ELSE "client"

VARIABLES
    last_message_sent,       \* how long ago, of the entry for the peer
    sequence_number,         \* of the next message
    remote_sequence_number,  \* the messages of the peer that have arrived
    sent_messages,           \* Node::sent_messages, with the time since the last transmission
    network,                 \* datagrams in flight to the end, with the time since they were sent
    reported                 \* history: the latest window that the end has sent

vars == <<last_message_sent, sequence_number, remote_sequence_number, sent_messages, network,
          reported>>

\* Both ends have just connected to each other.
Init ==
    /\ last_message_sent = [n \in Ends |-> 0]
    /\ sequence_number = [n \in Ends |-> 1]
    /\ remote_sequence_number = [n \in Ends |-> 0]
    /\ sent_messages = [n \in Ends |-> << >>]
    /\ network = [n \in Ends |-> << >>]
    /\ reported = [n \in Ends |-> 0]

-----------------------------------------------------------------------------
\* What do_send makes now of a message with this number, or of a keep alive, numbered 0.
Fresh(n, seq) == [seq |-> seq, lack |-> remote_sequence_number[n], age |-> 0]

\* resend_reliable sends a message as it was: with the window of its first transmission.
Repeated(d) == [d EXCEPT !.age = 0]

\* UdpSocket::send of ds to the peer of n.
SocketSend(n, ds) ==
    /\ network' = [network EXCEPT ![Peer(n)] = @ \o ds]
    /\ last_message_sent' = [last_message_sent EXCEPT ![n] = 0]

\* do_send of an application message.
Send(n) ==
    LET d == Fresh(n, sequence_number[n])
    IN  /\ sequence_number[n] <= Messages[n]
        /\ SocketSend(n, <<d>>)
        /\ sequence_number' = [sequence_number EXCEPT ![n] = @ + 1]
        /\ sent_messages' = [sent_messages EXCEPT ![n] = Append(@, d)]
        /\ reported' = [reported EXCEPT ![n] = d.lack]
        /\ UNCHANGED remote_sequence_number

Silent(n) == last_message_sent[n] > KEEP_ALIVE_THRESHOLD
Late(d)   == d.age > RESEND_THRESHOLD

\* One of keep_alive and resend_reliable has something to send.
Overdue(n) == Silent(n) \/ \E i \in 1 .. Len(sent_messages[n]) : Late(sent_messages[n][i])

\* keep_alive, then resend_reliable, of one step of the worker.
Round(n) ==
    LET late  == SelectSeq(sent_messages[n], Late)
        fresh == IF Silent(n) THEN <<Fresh(n, 0)>> ELSE << >>
    IN  /\ Overdue(n)
        /\ SocketSend(n, fresh \o [i \in 1 .. Len(late) |-> Repeated(late[i])])
        /\ sent_messages' = [sent_messages EXCEPT ![n] =
               [i \in 1 .. Len(@) |-> IF Late(@[i]) THEN Repeated(@[i]) ELSE @[i]]]
        /\ reported' = [reported EXCEPT ![n] = IF Silent(n) THEN fresh[1].lack ELSE @]
        /\ UNCHANGED <<sequence_number, remote_sequence_number>>

\* handle_incoming and handle_acks of the oldest datagram in flight.
Receive(n) ==
    LET d == Head(network[n])
    IN  /\ network[n] # << >>
        /\ network' = [network EXCEPT ![n] = Tail(@)]
        /\ remote_sequence_number' =
               [remote_sequence_number EXCEPT ![n] = IF d.seq > @ THEN d.seq ELSE @]
        /\ sent_messages' = [sent_messages EXCEPT ![n] =
               SelectSeq(@, LAMBDA e : e.seq > d.lack)]
        /\ UNCHANGED <<last_message_sent, sequence_number, reported>>

Older(ds) == [i \in 1 .. Len(ds) |-> [ds[i] EXCEPT !.age = @ + 1]]

\* steady_clock.  The workers and the network are in time.
Tick ==
    /\ \A n \in Ends : /\ ~Overdue(n)
                       /\ \A i \in 1 .. Len(network[n]) : network[n][i].age < Delay
    /\ last_message_sent' = [n \in Ends |-> last_message_sent[n] + 1]
    /\ sent_messages' = [n \in Ends |-> Older(sent_messages[n])]
    /\ network' = [n \in Ends |-> Older(network[n])]
    /\ UNCHANGED <<sequence_number, remote_sequence_number, reported>>

Next == Tick \/ \E n \in Ends : Send(n) \/ Round(n) \/ Receive(n)

\* Time passes, the workers step and datagrams arrive; nobody has to send a message.
Fairness == WF_vars(Tick) /\ \A n \in Ends : WF_vars(Round(n)) /\ WF_vars(Receive(n))

Spec == Init /\ [][Next]_vars /\ Fairness

-----------------------------------------------------------------------------
(***************************************************************************)
(* What an end has received it reports in the end: handle_acks updates the   *)
(* window for the next message, and keep_alive sees to it that there is one. *)
(***************************************************************************)
UpdatedAckSent ==
    \A n \in Ends : \A k \in 1 .. Messages[Peer(n)] :
        remote_sequence_number[n] >= k ~> reported[n] >= k
=============================================================================
