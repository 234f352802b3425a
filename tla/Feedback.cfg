SPECIFICATION Spec
CONSTANTS
  Hosts <- MCHosts
  SurfaceHost <- MCSurfaceHost
  PrintHost <- MCPrintHost
  SignalHooks <- MCSignalHooks
INVARIANTS
  TypeOK
  FeedbackAgrees
PROPERTIES
  OnlyRaisingHooksCrash
CHECK_DEADLOCK FALSE
