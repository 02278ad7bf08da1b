SPECIFICATION Spec
CONSTANTS
  a = a
  b = b
  c = c
  s1 = s1
  s2 = s2
  Mapping = {a, b, c}
  Switch = {s1, s2}
  SwitchOf <- TwoSwitches
  MaxClients = 2
  QueueCapacity = 3
  p1 = p1
  NoPid = NoPid
  Pid = {p1}
  Claims <- OneClaims
  HeartbeatLimit = 1
  EscapeHold = 2
  MaxSessions = 2
  MaxSequence = 4
  Frozen = {}
SYMMETRY Symmetry
INVARIANTS
  TypeOK
  EscapeArmed
  CaptureFollowsRouting
  SessionHasConnection
  NoSplitBrain
  LegacyInSync
PROPERTIES
  HolderTracksState
  ExclusiveRouting
  HeldClocksRun
  ImplementsRouting
