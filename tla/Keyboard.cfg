SPECIFICATION FairSpec
CONSTANTS
  a = a
  b = b
  sim = sim
  s1 = s1
  s2 = s2
  k1 = k1
  Mapping = {a, b, sim}
  Switch = {s1, s2}
  SwitchOf <- Switches
  Key = {k1}
  NoKey = NoKey
  KeyOf <- Keys
  ChannelCapacity = 2
  MaxEdges = 6
  MaxHandshakes = 2
CHECK_DEADLOCK FALSE
INVARIANTS
  TypeOK
  BrokerAgrees
  OsAgrees
PROPERTIES
  StuckEnds
  ImplementsRouting
