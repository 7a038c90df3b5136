--------------------------- MODULE MCNanobarPage ---------------------------
EXTENDS NanobarPage
============================================================================
