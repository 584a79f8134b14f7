SPECIFICATION Spec
CONSTANTS
  Srams = {s1, s2}
  Dmems = {d1, d2}
  Hosts = {h1}
  Directions = {"h2d", "h2i", "i2h", "d2i2d", "example"}
  Failures = TRUE
  None = None
INVARIANTS CompletionIsOwn DeviceKept
CHECK_DEADLOCK FALSE
SYMMETRY Symmetry
