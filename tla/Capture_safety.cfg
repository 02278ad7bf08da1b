SPECIFICATION Spec
CONSTANTS
  d1 = d1
  d2 = d2
  Device = {d1, d2}
  ChannelCapacity = 2
  MaxEdges = 1
  MaxPosts = 2
  MaxEpoch = 4
CHECK_DEADLOCK FALSE
SYMMETRY Symmetry
INVARIANTS
  TypeOK
  PausedIsReleased
  PausedIsQuiet
  SessionHasDevices
  NothingOldInHand
  EveryOrderIsHeard
PROPERTIES
  ImplementsCustody
