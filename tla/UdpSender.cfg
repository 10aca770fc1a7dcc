SPECIFICATION Spec
CONSTANTS
  a = a
  b = b
  long = long
  Message = {a, b, long}
  TooLong = {long}
  Modes <- MCModes
  MaxMessages = 4
  MaxErrors = 2
INVARIANTS
  TypeOK
  OnePending
  NoHandlerAfterDestruction
PROPERTIES
  InOrderOnce
  EventuallySent
CHECK_DEADLOCK FALSE
