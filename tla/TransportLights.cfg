SPECIFICATION Spec
CONSTANTS
  Buttons <- MCLightButtons
  HostDoes = {"roll", "rec", "loop"}
  HeartbeatEvery = 2
  MaxPending = 2
INVARIANTS
  TypeOK
  LightsTrue
