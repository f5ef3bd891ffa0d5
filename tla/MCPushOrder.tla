----------------------------- MODULE MCPushOrder -----------------------------
\* Instance of Notify for TLC: two pushes and one plugin, which is not a sync one.
EXTENDS Notify

CONSTANTS p1, p2, async

OneConfig == {<<async>>}
==============================================================================
