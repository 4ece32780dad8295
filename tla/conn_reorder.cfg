SPECIFICATION Spec
CONSTANTS
  ACK_COUNT = 4
  SeqMod = 8
  Msgs = {m1, m2}
  KEEP_ALIVE = KEEP_ALIVE
  MaxGap = 4
  MaxSeqClient = 4
  MaxSeqServer = 1
  MaxSeq <- MCMaxSeq
  MaxDeliveries = 2
INVARIANT TypeOK WindowExplained RejectedNearArrival ForgottenNearArrival
PROPERTY RejectedForGood OneWaySpec
SYMMETRY Sym
CHECK_DEADLOCK FALSE
