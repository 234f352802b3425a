SPECIFICATION Spec
CONSTANTS
  Buttons <- Shuttles
  HostDoes = {}
  HeartbeatEvery = 1
  MaxPending = 2
INVARIANTS
  RollStatusCorrect
