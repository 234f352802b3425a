SPECIFICATION Spec
CONSTANTS
  Buttons <- MCShuttleButtons
  HostDoes = {"roll", "rec"}
  HeartbeatEvery = 1
  MaxPending = 2
INVARIANTS
  ShuttleEnds
  RollRestored
  RecordingUndisturbed
