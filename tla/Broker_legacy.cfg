SPECIFICATION Spec
CONSTANTS
  a = a
  b = b
  c = c
  s1 = s1
  s2 = s2
  Mapping = {a, b}
  Switch = {s1}
  SwitchOf <- OneSwitch
  MaxClients = 2
  QueueCapacity = 2
  p1 = p1
  NoPid = NoPid
  Pid = {}
  Claims <- NobodyClaims
  HeartbeatLimit = 1
  EscapeHold = 2
  MaxSessions = 2
  MaxSequence = 4
  Frozen = {}
INVARIANT LegacyUntilAccepted
