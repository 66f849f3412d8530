SPECIFICATION FramesSpec
CONSTANTS
  Bytes = {1, 165, 167}
  MaxPayload = 2
  MaxNoise = 2
  SplitMagic = TRUE
CHECK_DEADLOCK FALSE
INVARIANT FramesSurviveCuts
