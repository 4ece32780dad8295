SPECIFICATION Spec
CONSTANTS
  ACK_COUNT = 2
  SeqMod = 8
  server = server
  client = client
  other = other
  Nodes = {server, client}
  Ids = {i1, i2}
  Links <- TwoWays
  Speakers = {server, client}
  Msgs = {m1}
  Handled = {m1}
  KEEP_ALIVE = KEEP_ALIVE
  MaxSeqServer = 1
  MaxSeqClient = 1
  MaxSeq <- MCMaxSeq
  MaxPeersServer = 1
  MaxPeersClient = 2
  MaxPeers <- MCMaxPeers
  MaxCalls = 3
INVARIANT TypeOK DuplicateByConnect NumbersIdentify Genuine
PROPERTY EntryKept
SYMMETRY Sym
CHECK_DEADLOCK FALSE
