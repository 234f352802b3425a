SPECIFICATION Spec
CONSTANTS
  script = script
  lib1 = lib1
  lib2 = lib2
  other = other
  user = user
  system = system
  Dirs <- MCDirs
  Searches <- MCSearches
  Default = Default
  None = None
  Scalar = Scalar
  Files <- MCFiles
  Values <- MCValues
  Entries <- MCEntries
  Tables <- MCTables
  Scripts <- MCScripts
INVARIANTS
  TypeOK
  SelfReachesServer
  ScriptsTogether
  SettingsLastGiven
  LibsAllLoaded
  ScriptSurvives
CHECK_DEADLOCK FALSE
