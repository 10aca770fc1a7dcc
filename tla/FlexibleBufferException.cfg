SPECIFICATION Spec
CONSTANTS
  Period = 3
  Channels = 2
  CaptureLayouts = {"planar", "interleaved"}
  PlaybackLayouts = {"planar"}
  FrameCounts <- MCFrameCounts
  MaxFrames = 14
  MaxFailures = 1
INVARIANT
  AssertionsHold
CHECK_DEADLOCK FALSE
