---------------------------- MODULE MCConnection ----------------------------
EXTENDS Connection, TLC
CONSTANTS MaxSeqClient, MaxSeqServer
MCMaxSeq == [client |-> MaxSeqClient, server |-> MaxSeqServer]
Sym == Permutations(Msgs)
=============================================================================
