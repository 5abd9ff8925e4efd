SPECIFICATION FairSpec
CONSTANTS
  Spellings <- MCSpellings
  Paths <- MCPaths
  Names <- MCNames
  Dirs <- MCDirs
  Join <- MCJoin
  Norm <- MCNorm
  DirOf <- MCDirOf
  IncludeDirs <- MCIncludeDirs
  Cwd = "."
  Main = "main"
  Broken = Broken
  Sources <- MCSources
  MaxCalls = 2
CHECK_DEADLOCK FALSE
INVARIANTS
  NoIdlInsideItself
  ParsedWhole
  CirclesAreFound
  IncludesComeFirst
  EveryIdlIsSentOnce
  PluginSeesEverything
  AstIsRestored
PROPERTIES
  IncludesEnd
