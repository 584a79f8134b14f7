------------------------------ MODULE MCHqcDma ------------------------------
\* The ranges of one memory are interchangeable.
EXTENDS HqcDma, TLC

Symmetry == Permutations(Srams) \cup Permutations(Dmems)
=============================================================================
