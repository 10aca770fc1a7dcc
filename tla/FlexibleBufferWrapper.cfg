SPECIFICATION Spec
CONSTANTS
  Period = 3
  Channels = 2
  CaptureLayouts = {"planar", "interleaved"}
  PlaybackLayouts = {"planar"}
  FrameCounts <- MCFrameCounts
  MaxFrames = 16
  MaxFailures = 1
INVARIANTS
  TypeOK
  FedInOrder
PROPERTIES
  OnePeriodLatency
  EveryCallReturns
CHECK_DEADLOCK FALSE
