SPECIFICATION Spec
CONSTANTS
  a = a
  b = b
  c = c
  TopLevel = TopLevel
  Source = Source
  Sink = Sink
  Atom = {a, b, c}
  AudioPairs <- MCAudioPairs
  ParameterPairs <- MCParameterPairs
INVARIANTS
  TypeOK
  ValidSchedule
  OnlyLoopsRejected
PROPERTIES
  Decided
  OrderIfPossible
CHECK_DEADLOCK FALSE
