SPECIFICATION Spec
CONSTANTS
  MaxInbox = 2
  MaxRequests = 2
  MaxSignals = 3
  QuitRequests = TRUE
  IOErrors = TRUE
INVARIANTS
  TypeOK
  LoopOnLiveServer
  CallbacksAfterStart
  LostOnlyInRaces
  ActiveMeansServing
  NoLateSessionSignal
PROPERTIES
  HostReturns
  QueuesDrain
CHECK_DEADLOCK FALSE
