SPECIFICATION MCSpec
CONSTANTS
  MaxEncoded = 3
  FrameLen = 3
  Frames = 3
  Stale = {2}
  Noise = 4
  Full = 3
  MaxByte = 3
  MaxRaw = 5
  MaxNoise = 7
  Versions = {0, 1, 2}
  Types = {0, 1, 2, 3, 4}
  PayloadLens = {0, 7, 8, 9, 16, 255, 256, 257}
  SessionIds = {0, 1, 2}
  RequestIds = {0, 1, 2}
  RawLens = {0, 4, 19, 20, 27, 28, 29, 36, 37, 275, 276, 277}
INVARIANTS TextKeepsFrames FramesDelivered RoundTrip RulesAgree
CHECK_DEADLOCK FALSE
