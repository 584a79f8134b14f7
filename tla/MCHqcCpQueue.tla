---------------------------- MODULE MCHqcCpQueue ----------------------------
\* Two queues for TLC; page 1 is outside the window of queue 2.
EXTENDS HqcCpQueue, TLC

MCDefault == [q \in Queues |-> q]
MCWindow == [q \in Queues |-> q .. 2]
Symmetry == Permutations(Threads) \cup Permutations(Srams)
=============================================================================
