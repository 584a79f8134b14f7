------------------------------ MODULE MCDevMem ------------------------------
\* A region of a few words for TLC.
EXTENDS DevMem, TLC

Symmetry == Permutations(Threads) \cup Permutations(Handles)
=============================================================================
