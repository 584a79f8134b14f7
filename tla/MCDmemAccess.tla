---------------------------- MODULE MCDmemAccess ----------------------------
\* Three windows: one of BAR2, the default one and another of BAR4; and BARs
\* that are all usable, or of which one is missing, read-only or short.
EXTENDS DmemAccess

MCBarOf == <<2, 4, 4>>

Bar(m, s) == [mode |-> m, size |-> s]

Usable == [b \in {0, 2, 4} |-> Bar("rw", Size)]

MCMappings ==
  {Usable, [Usable EXCEPT ![0] = Bar("ro", Size)], [Usable EXCEPT ![2] = Bar("none", 0)],
   [Usable EXCEPT ![4] = Bar("ro", Size)], [Usable EXCEPT ![4] = Bar("rw", 3)]}
=============================================================================
