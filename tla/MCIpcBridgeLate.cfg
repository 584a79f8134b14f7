SPECIFICATION Spec
CONSTANTS
  Threads = {t1, t2}
  Requests <- MCRequests
  SeqMod = 3
  None = None
  d1 = d1
  d2 = d2
INVARIANTS OkIsAnswered
SYMMETRY Symmetry
