CONSTANTS
  Atomic <- MCAtomic
  Composite <- MCComposite
  AudioPort <- MCAudioPort
  ParameterPort <- MCParameterPort
  Input <- MCInput
  Width <- MCWidth
  Flows <- MCUnequalFlows
  SampleTypes <- MCSampleTypes
  SampleSize <- MCSampleSize
  ChannelSamples <- MCChannelSamples
  MaxPeriods = 2

SPECIFICATION Spec

INVARIANT SampleTypesAgree

CHECK_DEADLOCK FALSE
