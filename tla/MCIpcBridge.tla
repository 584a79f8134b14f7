----------------------------- MODULE MCIpcBridge -----------------------------
\* A read and a write of different addresses for TLC.
EXTENDS IpcBridge, TLC

CONSTANTS d1, d2

MCRequests == {[op |-> "Read", addr |-> 1, data |-> d1],
               [op |-> "Write", addr |-> 2, data |-> d2]}
Symmetry == Permutations(Threads)
=============================================================================
