SPECIFICATION Spec
CONSTANTS
  d1 = d1
  d2 = d2
  Device = {d1}
  ChannelCapacity = 3
  MaxEdges = 1
  MaxPosts = 2
  MaxEpoch = 3
CHECK_DEADLOCK FALSE
INVARIANTS
  PausedNeverApplies
