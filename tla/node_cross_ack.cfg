SPECIFICATION Spec
CONSTANTS
  ACK_COUNT = 2
  SeqMod = 8
  server = server
  client = client
  other = other
  Nodes = {server, client, other}
  Ids = {i1}
  Links <- Fan
  Speakers = {server, client}
  Msgs = {m1}
  Handled = {m1}
  KEEP_ALIVE = KEEP_ALIVE
  MaxSeqServer = 1
  MaxSeqClient = 1
  MaxSeq <- MCMaxSeq
  MaxPeersServer = 2
  MaxPeersClient = 1
  MaxPeers <- MCMaxPeers
  MaxCalls = 2
INVARIANT AckedWasHeard
CHECK_DEADLOCK FALSE
