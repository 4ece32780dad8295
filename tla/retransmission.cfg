SPECIFICATION FairSpec
CONSTANTS
  ACK_COUNT = 2
  SeqMod = 8
  MaxSeq = 3
INVARIANT TypeOK
PROPERTY Settled StuckForGood
CHECK_DEADLOCK FALSE
