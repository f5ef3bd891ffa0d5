--------------------------- MODULE MCActionsChannel ---------------------------
\* Instance of ActionsChannel for TLC: a request of the socket and one of the
\* browse server.
EXTENDS ActionsChannel

CONSTANTS s1, b1
==============================================================================
