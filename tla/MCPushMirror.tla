----------------------------- MODULE MCPushMirror -----------------------------
EXTENDS PushMirror, TLC

CONSTANTS p1, p2, main, topic, c1, c2

\* The second commit is a child of the first.
MCAncestor == {<<c, c>> : c \in Commits} \cup {<<c1, c2>>}

\* The pushes run the same code.
Symmetry == Permutations(Pushers)
==============================================================================
