SPECIFICATION Spec
CONSTANTS
  ACK_COUNT = 2
  SeqMod = 8
  server = server
  client = client
  other = other
  Nodes = {server, client}
  Ids = {i1}
  Links <- OneLink
  Speakers = {server, client}
  Msgs = {m1}
  Handled = {m1}
  KEEP_ALIVE = KEEP_ALIVE
  MaxSeqServer = 1
  MaxSeqClient = 1
  MaxSeq <- MCMaxSeq
  MaxPeersServer = 1
  MaxPeersClient = 1
  MaxPeers <- MCMaxPeers
  MaxCalls = 2
INVARIANT NoSendToNobody
CHECK_DEADLOCK FALSE
