SPECIFICATION Spec
CONSTANTS
  Tokens <- MCTokens
  Paths <- MCPaths
  Types <- MCTypes
  MapTypes <- MCMapTypes
  Tags <- MCTags
  Supported <- MCSupported
  ReadTags <- MCSupported
  Methods = {foo, bar}
  NoMapping = NoMapping
  NoCall = NoCall
  MaxMappings = 2
  MaxFailures = 2
SYMMETRY MCSymmetry
INVARIANTS
  TypeOK
  ExactArguments
  LatestRequestWins
  StackLeakBounded
PROPERTIES
  ImplementsOscMap
  CallErrorsContained
CHECK_DEADLOCK FALSE
