SPECIFICATION Spec
CONSTANTS
  a = a
  b = b
  c = c
  d = d
  Control = Control
  Component <- MCComponent
  Connection <- MCConnection
  Sender <- MCSender
  Receivers <- MCReceivers
  Schedule <- MCSchedule
  Element = {1, 2}
  MaxVersion = 3
  MaxFailures = 3
INVARIANTS
  TypeOK
  NoLostUpdate
  GlitchFree
PROPERTIES
  AlwaysLatest
  EventuallyRendered
