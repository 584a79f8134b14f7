SPECIFICATION Spec
CONSTANTS
  Procs = {p1, p2}
  Files = {f1, f2}
  Bufs = {b1, b2}
  Vmas = {v1, v2}
  MaxHandle = 3
  None = None
INVARIANTS RefExact  UnboundClean
SYMMETRY Symmetry
