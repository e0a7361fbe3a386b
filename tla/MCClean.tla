------------------------------ MODULE MCClean ------------------------------
\* Clean on small sets, for TLC.
EXTENDS Clean, TLC

ProcessSymmetry == Permutations(Process)
=============================================================================
