------------------------- MODULE MCMulticastStreams -------------------------
EXTENDS MulticastStreams
=============================================================================
