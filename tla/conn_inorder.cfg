SPECIFICATION Spec
CONSTANTS
  ACK_COUNT = 3
  SeqMod = 8
  Msgs = {m1, m2, m3}
  KEEP_ALIVE = KEEP_ALIVE
  MaxGap = 1
  MaxSeqClient = 4
  MaxSeqServer = 2
  MaxSeq <- MCMaxSeq
  MaxDeliveries = 3
INVARIANT InOrder ForgottenHasArrived
PROPERTY FIFOSpec
SYMMETRY Sym
CHECK_DEADLOCK FALSE
