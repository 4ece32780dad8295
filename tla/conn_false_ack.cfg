SPECIFICATION Spec
CONSTANTS
  ACK_COUNT = 3
  SeqMod = 8
  Msgs = {m1}
  KEEP_ALIVE = KEEP_ALIVE
  MaxGap = 2
  MaxSeqClient = 3
  MaxSeqServer = 2
  MaxSeq <- MCMaxSeq
  MaxDeliveries = 1
INVARIANT ForgottenHasArrived
SYMMETRY Sym
CHECK_DEADLOCK FALSE
