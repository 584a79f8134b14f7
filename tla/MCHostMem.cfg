SPECIFICATION HostSpec
CONSTANTS
  Allocs = {a1, a2}
  Objs = {o1, o2, o3}
  Frames = {0, 1, 2, 3}
  MaxPages = 3
  NoAlloc = NoAlloc
INVARIANTS OwnedOnce PhysicalIsMapped
SYMMETRY Symmetry
CHECK_DEADLOCK FALSE
