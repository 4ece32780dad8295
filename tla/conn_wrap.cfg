SPECIFICATION Spec
CONSTANTS
  ACK_COUNT = 2
  SeqMod = 4
  Msgs = {m1}
  KEEP_ALIVE = KEEP_ALIVE
  MaxGap = 1
  MaxSeqClient = 3
  MaxSeqServer = 3
  MaxSeq <- MCMaxSeq
  MaxDeliveries = 1
INVARIANT NewestNotTooOld
SYMMETRY Sym
CHECK_DEADLOCK FALSE
