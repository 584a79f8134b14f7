------------------------------ MODULE MCHostMem ------------------------------
\* The symmetric sets of HostMem for TLC.
EXTENDS HostMem, TLC

Symmetry == Permutations(Allocs) \cup Permutations(Objs)
=============================================================================
