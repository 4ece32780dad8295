--------------------------- MODULE AckFieldProofs ---------------------------
(***************************************************************************)
(* Facts about the window arithmetic, for every width and every modulus.     *)
(***************************************************************************)
EXTENDS AckField, TLAPS

\* Every outcome of a shift, defined or not, is a bit mask.
LEMMA ShiftLeftType ==
    ASSUME NEW f, NEW k \in Nat
    PROVE  ShiftLeft(f, k) \subseteq Field
BY DEF ShiftLeft, ShiftBits, Field

\* A shift that is defined has one outcome.
LEMMA ShiftLeftDefined ==
    ASSUME NEW f, NEW k \in Nat, k < ACK_COUNT
    PROVE  ShiftLeft(f, k) = {ShiftBits(f, k)}
BY DEF ShiftLeft

\* Counting a sequence number up stays in range.
LEMMA IncrementType ==
    ASSUME NEW s \in SeqNum
    PROVE  Increment(s) \in SeqNum
BY AckFieldAssumption DEF Increment, SeqNum

\* handle_acks leaves the remote number in range and never lowers it.
LEMMA RemoteAfterType ==
    ASSUME NEW remote \in SeqNum, NEW seqnum \in SeqNum
    PROVE  /\ RemoteAfter(remote, seqnum) \in SeqNum
           /\ RemoteAfter(remote, seqnum) >= remote
           /\ RemoteAfter(remote, seqnum) >= seqnum
BY AckFieldAssumption DEF RemoteAfter, SeqNum

\* Every ack_field that handle_acks can compute is a bit mask.
LEMMA FieldAfterType ==
    ASSUME NEW remote \in SeqNum, NEW seqnum \in SeqNum, NEW field \in Field,
           NEW g \in FieldAfter(remote, field, seqnum)
    PROVE  g \in Field
<1>1. CASE remote < seqnum
  <2>1. seqnum - remote \in Nat /\ seqnum - remote - 1 \in Nat
    BY <1>1, AckFieldAssumption DEF SeqNum
  <2>2. PICK f \in ShiftLeft(field, seqnum - remote),
             b \in ShiftLeft({0}, seqnum - remote - 1) : g = f \cup b
    BY <1>1 DEF FieldAfter
  <2>3. f \in Field /\ b \in Field
    BY <2>1, ShiftLeftType
  <2>4. QED
    BY <2>2, <2>3 DEF Field
<1>2. CASE ~(remote < seqnum)
  <2>1. g = field \cup {b \in Bits : b = remote - seqnum}
    BY <1>2 DEF FieldAfter
  <2>2. QED
    BY <2>1 DEF Field
<1>3. QED
  BY <1>1, <1>2

\* A newer datagram without overflow: the field moves by the distance and the
\* bit of the superseded number is set.
LEMMA FieldAfterNewer ==
    ASSUME NEW remote \in SeqNum, NEW seqnum \in SeqNum, NEW field \in Field,
           NEW g \in FieldAfter(remote, field, seqnum),
           remote < seqnum, ~ShiftOverflow(remote, seqnum)
    PROVE  g = {b \in Bits : b - (seqnum - remote) \in field \/ b = seqnum - remote - 1}
<1> DEFINE diff == seqnum - remote
<1>1. diff \in Nat /\ diff >= 1 /\ diff < ACK_COUNT /\ diff - 1 \in Nat /\ diff - 1 < ACK_COUNT
  BY AckFieldAssumption DEF SeqNum, ShiftOverflow
<1>2. PICK f \in ShiftLeft(field, diff), b \in ShiftLeft({0}, diff - 1) : g = f \cup b
  BY DEF FieldAfter
<1>3. f = ShiftBits(field, diff) /\ b = ShiftBits({0}, diff - 1)
  BY <1>1, <1>2, ShiftLeftDefined
<1>4. \A i \in Bits : i - (diff - 1) \in {0} <=> i = diff - 1
  BY <1>1 DEF Bits
<1>5. QED
  BY <1>2, <1>3, <1>4 DEF ShiftBits

\* A datagram that is not newer: at most one bit is added.
LEMMA FieldAfterOlder ==
    ASSUME NEW remote \in SeqNum, NEW seqnum \in SeqNum, NEW field \in Field,
           NEW g \in FieldAfter(remote, field, seqnum),
           ~(remote < seqnum)
    PROVE  g = field \cup {b \in Bits : b = remote - seqnum}
BY DEF FieldAfter

(***************************************************************************)
(* A number that the duplicate check rejects is rejected after any further   *)
(* datagram, whatever the outcome of the shifts: see RejectedForGood.        *)
(***************************************************************************)
THEOREM RejectionKept ==
    ASSUME NEW remote \in SeqNum, NEW seqnum \in SeqNum, NEW field \in Field,
           NEW g \in FieldAfter(remote, field, seqnum), NEW s \in SeqNum,
           Recived(remote, field, s)
    PROVE  Recived(RemoteAfter(remote, seqnum), g, s)
<1> USE AckFieldAssumption DEF SeqNum
<1>1. CASE ~(remote < seqnum)
  <2>1. field \subseteq g /\ RemoteAfter(remote, seqnum) = remote
    BY <1>1, FieldAfterOlder DEF RemoteAfter
  <2>2. QED
    BY <2>1 DEF Recived
<1>2. CASE remote < seqnum /\ ShiftOverflow(remote, seqnum)
  <2>1. RemoteAfter(remote, seqnum) = seqnum /\ s <= remote
    BY <1>2 DEF RemoteAfter, Recived
  <2>2. seqnum > s /\ seqnum - s >= ACK_COUNT
    BY <1>2, <2>1 DEF ShiftOverflow
  <2>3. QED
    BY <2>1, <2>2 DEF Recived
<1>3. CASE remote < seqnum /\ ~ShiftOverflow(remote, seqnum)
  <2>1. g = {b \in Bits : b - (seqnum - remote) \in field \/ b = seqnum - remote - 1}
    BY <1>3, FieldAfterNewer
  <2>2. RemoteAfter(remote, seqnum) = seqnum /\ s <= remote /\ seqnum > s
    BY <1>3 DEF RemoteAfter, Recived
  <2>3. SUFFICES ASSUME seqnum - s < ACK_COUNT
                 PROVE  (seqnum - s) - 1 \in g
    BY <2>2 DEF Recived
  <2>4. (seqnum - s) - 1 \in Bits
    BY <2>2, <2>3 DEF Bits
  <2>5. CASE s = remote
    BY <2>1, <2>4, <2>5
  <2>6. CASE s < remote
    <3>1. (remote - s) - 1 \in field
      BY <1>3, <2>3, <2>6 DEF Recived
    <3>2. ((seqnum - s) - 1) - (seqnum - remote) = (remote - s) - 1
      OBVIOUS
    <3>3. QED
      BY <2>1, <2>4, <3>1, <3>2
  <2>7. QED
    BY <2>2, <2>5, <2>6
<1>4. QED
  BY <1>1, <1>2, <1>3
=============================================================================
