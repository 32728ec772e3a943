------------------------- MODULE MCReliableReceiver -------------------------
EXTENDS ReliableReceiver
=============================================================================
