------------------------------ MODULE Channel -------------------------------
(***************************************************************************)
(* What a reliable connection between two ends promises: each direction is a *)
(* first-in first-out channel, and the handlers of an end are called once   *)
(* with each message of the other end, in the order of sending.             *)
(***************************************************************************)
EXTENDS Naturals, Sequences

CONSTANTS Msgs,  \* the messages that can be sent
          Ends,  \* the two ends of the connection
          Peer(_)  \* the opposite end

VARIABLES sent,      \* the messages each end has sent
          delivered  \* the messages the handlers of each end were called with

vars == <<sent, delivered>>

Init ==
    /\ sent = [n \in Ends |-> << >>]
    /\ delivered = [n \in Ends |-> << >>]

Send(n, m) ==
    /\ sent' = [sent EXCEPT ![n] = Append(@, m)]
    /\ UNCHANGED delivered

Deliver(n) ==
    LET next == Len(delivered[n]) + 1
    IN  /\ next <= Len(sent[Peer(n)])
        /\ delivered' = [delivered EXCEPT ![n] = Append(@, sent[Peer(n)][next])]
        /\ UNCHANGED sent

Next == \E n \in Ends : Deliver(n) \/ \E m \in Msgs : Send(n, m)

Spec == Init /\ [][Next]_vars
=============================================================================
