SPECIFICATION Spec
CONSTANTS
  ACK_COUNT = 3
  SeqMod = 8
  Msgs = {m1, m2}
  KEEP_ALIVE = KEEP_ALIVE
  MaxGap = 2
  MaxSeqClient = 3
  MaxSeqServer = 1
  MaxSeq <- MCMaxSeq
  MaxDeliveries = 3
INVARIANT AtMostOnce
SYMMETRY Sym
CHECK_DEADLOCK FALSE
