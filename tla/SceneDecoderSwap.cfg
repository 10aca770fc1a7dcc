SPECIFICATION Spec
CONSTANTS
  o1 = o1
  o2 = o2
  s1 = s1
  s2 = s2
  Absent = Absent
  ObjectId = {o1, o2}
  State = {s1, s2}
  Message <- MCWellFormedMessage
  Unreadable <- MCUnreadable
  Modes = {"Synchronous", "Asynchronous"}
  MaxDatagrams = 3
INVARIANT
  DecodedSceneVisible
