SPECIFICATION Spec
CONSTANTS
  Period = 3
  Channels = 2
  CaptureLayouts = {"planar", "interleaved"}
  PlaybackLayouts = {"interleaved"}
  FrameCounts <- MCFrameCounts
  MaxFrames = 14
  MaxFailures = 0
PROPERTY
  OnePeriodLatency
CHECK_DEADLOCK FALSE
