----------------------------- MODULE MCSpoolFiles -----------------------------
EXTENDS SpoolFiles, TLC

CONSTANTS n, u1, u2

\* The two updates run the same code.
Symmetry == Permutations(Updaters)
==============================================================================
