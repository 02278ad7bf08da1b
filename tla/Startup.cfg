SPECIFICATION Spec
CONSTANTS
  Candidate <- Candidates
  File <- Files
  Line <- Lines
CHECK_DEADLOCK FALSE
INVARIANTS
  LoadsWellFormed
  EveryMappingHeard
  HeardByKey
  InputDrivesItsSwitch
  CommandDrivesItsSwitch
