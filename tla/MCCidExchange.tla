--------------------------- MODULE MCCidExchange ---------------------------
EXTENDS CidExchange
=============================================================================
