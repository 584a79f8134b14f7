SPECIFICATION Spec
CONSTANTS
  Threads = {t1, t2}
  Handles = {h1, h2, h3}
  Capacity = 5
  Alignments = {1, 2}
  MaxAddress = 5
  None = None
INVARIANTS Disjoint TableExact
PROPERTIES ImplementsAllocator
SYMMETRY Symmetry
