---------------------- MODULE MCAtomicApplyRefinement ----------------------
EXTENDS AtomicApplyRefinement, TLC

Symmetry == Permutations(Run)
=============================================================================
