------------------------- MODULE MCHttpConnections -------------------------
EXTENDS HttpConnections
=============================================================================
