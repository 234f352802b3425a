SPECIFICATION Spec
CONSTANTS
  Tokens <- MCTokens
  Paths <- MCPaths
  Types <- MCTypes
  MapTypes <- MCMapTypes
  Tags <- MCTags
  Supported <- MCSupported
  ReadTags <- MCSupported
  Methods = {foo}
  NoMapping = NoMapping
  NoCall = NoCall
  MaxMappings = 2
  MaxFailures = 1
INVARIANTS
  BuiltinPathsReserved
CHECK_DEADLOCK FALSE
