---------------------------- MODULE MCOrderedSend ----------------------------
EXTENDS OrderedSend
=============================================================================
