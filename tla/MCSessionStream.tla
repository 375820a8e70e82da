--------------------------- MODULE MCSessionStream ---------------------------
EXTENDS SessionStream
=============================================================================
