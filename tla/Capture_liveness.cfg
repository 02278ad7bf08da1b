SPECIFICATION FairSpec
CONSTANTS
  d1 = d1
  d2 = d2
  Device = {d1}
  ChannelCapacity = 5
  MaxEdges = 1
  MaxPosts = 3
  MaxEpoch = 4
CHECK_DEADLOCK FALSE
PROPERTIES
  BrokerReturns
