------------------------------ MODULE AckField ------------------------------
(***************************************************************************)
(* The arithmetic of the acknowledgement window that a Node keeps for every *)
(* peer (struct Peer in Node.h, handle_incoming and handle_acks in          *)
(* Node.cpp).                                                               *)
(*                                                                          *)
(* An ack_field is an unsigned int read as a bit mask; it is represented by *)
(* the set of the positions of its one bits.  A sequence number is an       *)
(* unsigned int: it lives in 0 .. SeqMod-1 and wraps around.                *)
(***************************************************************************)
EXTENDS Integers

CONSTANTS ACK_COUNT,  \* number of bits of an unsigned int (32 in the code)
          SeqMod      \* number of values of an unsigned int (2^32 in the code)

ASSUME AckFieldAssumption ==
    /\ ACK_COUNT \in Nat \ {0, 1}
    /\ SeqMod \in Nat
    /\ SeqMod > ACK_COUNT

SeqNum == 0 .. (SeqMod - 1)
Bits   == 0 .. (ACK_COUNT - 1)
Field  == SUBSET Bits

\* Variant: the counter is read and not counted up.
Increment_Never(s) == s

\* seqnum++ and lack - i on unsigned int.
Increment(s) == IF s = SeqMod - 1 THEN 0 ELSE s + 1
Minus(a, b)  == IF a >= b THEN a - b ELSE SeqMod + a - b

\* Variant: the field is wider than an unsigned int.
ShiftBits_Wide(f, k) == {b + k : b \in f}

(***************************************************************************)
(* f << k.  Shifting by ACK_COUNT or more is undefined behaviour: a variable *)
(* shift instruction takes the distance modulo the width, and a compiler    *)
(* that folds or vectorises the shift gives zero.  ShiftLeft is the set of  *)
(* the results a build can produce, a singleton when the shift is defined.  *)
(***************************************************************************)
ShiftBits(f, k) == {b \in Bits : b - k \in f}
ShiftLeft(f, k) == IF k < ACK_COUNT
                   THEN {ShiftBits(f, k)}
                   ELSE {ShiftBits(f, k % ACK_COUNT), {}}

\* Variant: the bit of an older number is looked up one position too high.
Recived_BitAbove(remote, field, seqnum) ==
    \/ remote = seqnum
    \/ /\ remote > seqnum
       /\ remote - seqnum >= ACK_COUNT \/ remote - seqnum \in field

\* Variant: the test for the newest number itself is missing.
Recived_NotNewest(remote, field, seqnum) ==
    /\ remote > seqnum
    /\ remote - seqnum >= ACK_COUNT \/ (remote - seqnum) - 1 \in field

(***************************************************************************)
(* "recived" of handle_incoming: TRUE when the datagram numbered seqnum is   *)
(* taken for one that was processed before.                                 *)
(***************************************************************************)
Recived(remote, field, seqnum) ==
    \/ remote = seqnum
    \/ /\ remote > seqnum
       /\ remote - seqnum >= ACK_COUNT \/ (remote - seqnum) - 1 \in field

(***************************************************************************)
(* The first half of handle_acks: the number and the field after a datagram  *)
(* numbered seqnum.  A newer number shifts the field and records the number *)
(* it supersedes; an older one sets a bit, if it is still in the window.    *)
(***************************************************************************)
RemoteAfter(remote, seqnum) == IF remote < seqnum THEN seqnum ELSE remote

\* Variant: the field is not shifted when a newer number arrives.
FieldAfter_NoShift(remote, field, seqnum) ==
    IF remote < seqnum
    THEN { field \cup b : b \in ShiftLeft({0}, seqnum - remote - 1) }
    ELSE { field \cup { b \in Bits : b = remote - seqnum } }

\* Variant: the superseded number is recorded one position too high.
FieldAfter_BitAbove(remote, field, seqnum) ==
    IF remote < seqnum
    THEN { f \cup b : f \in ShiftLeft(field, seqnum - remote),
                      b \in ShiftLeft({0}, seqnum - remote) }
    ELSE { field \cup { b \in Bits : b = remote - seqnum } }

\* Variant: a repetition of the newest number leaves no bit.
FieldAfter_NewestUnmarked(remote, field, seqnum) ==
    IF remote < seqnum
    THEN { f \cup b : f \in ShiftLeft(field, seqnum - remote),
                      b \in ShiftLeft({0}, seqnum - remote - 1) }
    ELSE { field \cup { b \in Bits : b = remote - seqnum /\ b > 0 } }

FieldAfter(remote, field, seqnum) ==
    IF remote < seqnum
    THEN { f \cup b : f \in ShiftLeft(field, seqnum - remote),
                      b \in ShiftLeft({0}, seqnum - remote - 1) }
    ELSE { field \cup { b \in Bits : b = remote - seqnum } }

\* The datagram numbered seqnum makes handle_acks shift too far.
ShiftOverflow(remote, seqnum) == seqnum - remote >= ACK_COUNT

\* Variant: bit 0 stands for the number after lack.
Acked_Ahead(lack, acks) == { Minus(Increment(lack), i) : i \in acks }

(***************************************************************************)
(* The second half of handle_acks: the numbers that a datagram carrying     *)
(* lack and acks acknowledges to the node that receives it.                 *)
(***************************************************************************)
Acked(lack, acks) == { Minus(lack, i) : i \in acks }
=============================================================================
