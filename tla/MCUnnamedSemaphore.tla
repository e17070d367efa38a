------------------------- MODULE MCUnnamedSemaphore -------------------------
\* Small instances of UnnamedSemaphore for TLC.
EXTENDS UnnamedSemaphore, TLC

CONSTANTS g1, g2, g3, p1, none

Symmetry == Permutations(Getter)
=============================================================================
