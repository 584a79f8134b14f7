------------------------------ MODULE MCIsmlDrv ------------------------------
\* The symmetric sets of IsmlDrv for TLC.
EXTENDS IsmlDrv, TLC

Symmetry == Permutations(Procs) \cup Permutations(Bufs)
              \cup Permutations(Vmas) \cup Permutations(Files)
=============================================================================
