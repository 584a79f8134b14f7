SPECIFICATION Spec
CONSTANTS
  Threads = {t1, t2}
  Srams = {s1, s2}
  Hosts = {h1}
  Dmems = {d1}
  Queues = {1, 2}
  Pages = {1, 2}
  Default <- MCDefault
  Window <- MCWindow
  Unset = 0
  Depth = 1
  Word = 3
  MaxSize = 2
  Baselines = {2}
  None = None
INVARIANTS OwnPage NoLateAccess OkMeansMoved KickedIdle
PROPERTIES PoisonedSilent
SYMMETRY Symmetry
CHECK_DEADLOCK FALSE
