---------------------------- MODULE MCSourceLock ----------------------------
EXTENDS SourceLock, TLC
Symmetry == Permutations(Procs)
=============================================================================
