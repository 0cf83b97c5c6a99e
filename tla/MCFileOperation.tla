-------------------------- MODULE MCFileOperation --------------------------
EXTENDS FileOperation, TLC

Symmetry == Permutations(Process) \cup Permutations(Run) \cup
            Permutations(Save)

=============================================================================
