----------------------------- MODULE MCRestoreJobs -----------------------------
EXTENDS RestoreJobs, TLC

CONSTANTS x1, j1, j2, c1, c2

\* Job ids are random and requests are anonymous.
Symmetry == Permutations(Jobs) \cup Permutations(Clients)
==============================================================================
