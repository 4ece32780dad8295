------------------------ MODULE RetransmissionProofs ------------------------
(***************************************************************************)
(* Safety of Retransmission, for every width, modulus and bound.             *)
(***************************************************************************)
EXTENDS Retransmission, AckFieldProofs

\* What the receiver reports is well typed.
LEMMA WindowType ==
    ASSUME TypeOK
    PROVE  window \in Window
BY DEF TypeOK, window, Window

\* Every step keeps the types.
LEMMA TypeOKStep == TypeOK /\ [Next]_vars => TypeOK'
<1> SUFFICES ASSUME TypeOK, [Next]_vars PROVE TypeOK'
  OBVIOUS
<1>1. ASSUME Transmit PROVE /\ sequence_number' \in SeqNum
                            /\ toReceiver' \subseteq SeqNum
                            /\ UNCHANGED <<receiverVars, toSender>>
  BY <1>1, IncrementType DEF Transmit, Put, TypeOK
<1>2. CASE Send
  BY <1>1, <1>2 DEF Send, TypeOK, receiverVars
<1>3. CASE KeepAlive
  BY <1>1, <1>3 DEF KeepAlive, TypeOK, receiverVars
<1>4. ASSUME NEW late \in SUBSET sent_messages, NEW kept \in SUBSET late,
             ResendReliable(late, kept)
      PROVE  TypeOK'
  BY <1>4 DEF ResendReliable, TypeOK, senderVars, receiverVars
<1>5. CASE ReportByMessage \/ ReportByKeepAlive
  BY <1>5, WindowType DEF Report, ReportByMessage, ReportByKeepAlive, TypeOK, senderVars
<1>6. ASSUME NEW seq \in toReceiver, Receive(seq) PROVE TypeOK'
  <2>1. seq \in SeqNum
    BY DEF TypeOK
  <2>2. remote_sequence_number' \in SeqNum
    BY <1>6, <2>1, RemoteAfterType DEF Receive, TypeOK
  <2>3. ack_field' \in Field
    BY <1>6, <2>1, FieldAfterType DEF Receive, TypeOK
  <2>4. QED
    BY <1>6, <2>2, <2>3 DEF Receive, TypeOK, senderVars
<1>7. ASSUME NEW r \in toSender, ReceiveReport(r) PROVE TypeOK'
  BY <1>7 DEF ReceiveReport, Unacked, TypeOK, receiverVars
<1>8. CASE UNCHANGED vars
  BY <1>8 DEF TypeOK, vars, senderVars, receiverVars
<1>9. QED
  BY <1>2, <1>3, <1>4, <1>5, <1>6, <1>7, <1>8 DEF Next

(***************************************************************************)
(* The states that do_send, handle_acks, keep_alive and resend_reliable      *)
(* reach in one direction are well typed: no bit beyond the 32, no number    *)
(* beyond an unsigned int.                                                  *)
(***************************************************************************)
THEOREM TypeCorrect == Spec => []TypeOK
<1>1. Init => TypeOK
  <2>1. SUFFICES ASSUME Init PROVE TypeOK
    OBVIOUS
  <2>2. waiting \in BOOLEAN
    BY <2>1 DEF Init
  <2>3. QED
    BY <2>1, <2>2, AckFieldAssumption DEF Init, TypeOK, SeqNum, Field
<1>2. QED
  BY <1>1, TypeOKStep, PTL DEF Spec

-----------------------------------------------------------------------------
\* No bit of a field reported at lack stands for a number that far behind it.
LEMMA BeyondReport ==
    ASSUME NEW seq \in Nat, NEW lack \in SeqNum, NEW acks \in Field,
           lack - seq >= ACK_COUNT
    PROVE  seq \notin Acked(lack, acks)
<1>1. \A i \in acks : Minus(lack, i) = lack - i /\ lack - i # seq
  BY AckFieldAssumption DEF Field, Bits, SeqNum, Minus
<1>2. QED
  BY <1>1 DEF Acked

\* A message that no report can cover stays that way.
LEMMA StuckStep ==
    ASSUME TypeOK, [Next]_vars, NEW seq \in 1 .. MaxSeq, Stuck(seq)
    PROVE  Stuck(seq)'
<1>1. OutOfWindow(seq) /\ seq \in sent_messages
  BY DEF Stuck
<1>2. ASSUME UNCHANGED <<receiverVars, toSender>>, sent_messages \subseteq sent_messages'
      PROVE  Stuck(seq)'
  BY <1>1, <1>2 DEF Stuck, OutOfWindow, receiverVars
<1>3. CASE ReportByMessage \/ ReportByKeepAlive
  <2>1. window \in Window
    BY WindowType
  <2>2. seq \notin Acked(window.lack, window.acks)
    BY <1>1, <2>1, BeyondReport DEF OutOfWindow, window, TypeOK
  <2>3. QED
    BY <1>3, <2>2 DEF Report, ReportByMessage, ReportByKeepAlive, Stuck, OutOfWindow,
                      senderVars
<1>4. ASSUME NEW s \in toReceiver, Receive(s) PROVE Stuck(seq)'
  <2>0. s \in SeqNum /\ remote_sequence_number \in SeqNum
    BY DEF TypeOK
  <2>1. remote_sequence_number' >= remote_sequence_number
    BY <1>4, <2>0, RemoteAfterType DEF Receive
  <2>2. remote_sequence_number' \in SeqNum
    BY <1>4, <2>0, RemoteAfterType DEF Receive
  <2>3. remote_sequence_number' - seq >= ACK_COUNT
    <3>1. remote_sequence_number - seq >= ACK_COUNT
      BY <1>1 DEF OutOfWindow
    <3>2. seq \in Int /\ ACK_COUNT \in Int
      BY AckFieldAssumption, RetransmissionAssumption
    <3>3. remote_sequence_number \in Int /\ remote_sequence_number' \in Int
      BY <2>0, <2>2, AckFieldAssumption DEF SeqNum
    <3>4. \A a, b, c, k \in Int : a <= b /\ a - k >= c => b - k >= c
      OBVIOUS
    <3>5. QED
      BY <2>1, <3>1, <3>2, <3>3, <3>4
  <2>4. QED
    BY <1>4, <2>3 DEF Receive, Stuck, OutOfWindow, senderVars
<1>5. ASSUME NEW r \in toSender, ReceiveReport(r) PROVE Stuck(seq)'
  <2>1. seq \in sent_messages'
    BY <1>5 DEF ReceiveReport, Unacked, Stuck
  <2>2. OutOfWindow(seq)'
    BY <1>1, <1>5 DEF ReceiveReport, receiverVars, OutOfWindow
  <2>3. toSender' \subseteq toSender
    BY <1>5 DEF ReceiveReport
  <2>4. QED
    BY <2>1, <2>2, <2>3 DEF Stuck
<1>6. QED
  BY <1>2, <1>3, <1>4, <1>5 DEF Next, Send, KeepAlive, Transmit, ResendReliable, vars,
                                senderVars

(***************************************************************************)
(* A message that handle_acks can no longer acknowledge is never             *)
(* acknowledged: resend_reliable repeats it for as long as the peer lives.   *)
(***************************************************************************)
THEOREM StuckForGoodHolds == Spec => StuckForGood
<1>1. TypeOK /\ [Next]_vars =>
          [\A seq \in 1 .. MaxSeq : Stuck(seq) => Stuck(seq)']_vars
  BY StuckStep
<1>2. QED
  BY <1>1, TypeCorrect, PTL DEF Spec, StuckForGood
=============================================================================
