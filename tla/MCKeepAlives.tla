---------------------------- MODULE MCKeepAlives ----------------------------
EXTENDS KeepAlives

TwoEach == [n \in Ends |-> 2]
=============================================================================
