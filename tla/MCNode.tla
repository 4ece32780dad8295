------------------------------- MODULE MCNode -------------------------------
EXTENDS Node, TLC
CONSTANTS server, client, other, MaxPeersServer, MaxPeersClient, MaxSeqServer, MaxSeqClient

OneLink  == {<<client, server>>}
TwoWays  == {<<client, server>>, <<server, client>>}
Fan      == {<<server, client>>, <<server, other>>}
Sym == Permutations(Ids)
MCMaxSeq   == [n \in Nodes |-> IF n = server THEN MaxSeqServer ELSE MaxSeqClient]
MCMaxPeers == [n \in Nodes |-> IF n = server THEN MaxPeersServer ELSE MaxPeersClient]
=============================================================================
