SPECIFICATION Spec
CONSTANTS
  silence = silence
  hall = hall
  Unset = Unset
  ObjectId = {1, 2, 3, 4}
  InvalidObjectId = 7
  MaxChannels = 3
  LateReverb = {silence, hall}
  DefaultReverb = silence
  Signals = {0, 1}
  Sources <- MCSources
  MaxUpdates = 2
  MaxChanges = 5
INVARIANTS
  TypeOK
  ChannelsAccounted
  NoUpdateLost
  RoutedAsAllocated
  ReverbOfItsObject
PROPERTIES
  AllocationIsStable
  EventuallyAllRendered
