SPECIFICATION Spec
CONSTANTS
  Size = 9
  Word = 16
  BarOf <- MCBarOf
  Default = 2
  Mappings <- MCMappings
  Kinds = {"aperture", "h2sram", "sram2h", "d2sram", "sram2d", "h2d", "d2h", "h2i", "i2h", "d2i2d", "user", "example"}
  CopyBlocks = {2, 3}
  Arguments = {0, 1, 2, 15}
  MaxRuns = 2
  MaxScans = 1
  MaxFaults = 1
INVARIANTS MemoryRestored PassMeansDistinct PassMeansData
PROPERTY OwnMemoryOnly
CHECK_DEADLOCK FALSE
