SPECIFICATION FairSpec
CONSTANTS
  p1 = p1
  p2 = p2
  Pid = {p1, p2}
  NoPid = NoPid
  ChannelCapacity = 2
  MaxSwitches = 2
  MaxAsks = 1
CHECK_DEADLOCK FALSE
PROPERTIES
  LossRevokes
