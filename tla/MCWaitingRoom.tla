--------------------------- MODULE MCWaitingRoom ---------------------------
\* No symmetry: this instance is checked for liveness, too.
EXTENDS WaitingRoom
=============================================================================
