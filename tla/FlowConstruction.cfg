CONSTANTS
  Atomic <- MCAtomic
  Composite <- MCComposite
  AudioPort <- MCAudioPort
  ParameterPort <- MCParameterPort
  Input <- MCInput
  Width <- MCWidth
  Flows <- MCFlows
  SampleTypes <- MCSampleTypes
  SampleSize <- MCSampleSize
  ChannelSamples <- MCChannelSamples
  MaxPeriods = 2

SPECIFICATION Spec

INVARIANTS
  TypeOK
  SignalsComplete
  ParameterSource
  BuffersValid
  FreshInputs
  RejectedForCause

PROPERTY
  Constructed

CHECK_DEADLOCK FALSE
