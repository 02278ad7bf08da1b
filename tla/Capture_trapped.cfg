SPECIFICATION FairSpec
CONSTANTS
  d1 = d1
  d2 = d2
  Device = {d1}
  ChannelCapacity = 1
  MaxEdges = 1
  MaxPosts = 1
  MaxEpoch = 1
CHECK_DEADLOCK FALSE
PROPERTIES
  RevocationEnds
