SPECIFICATION Spec
CONSTANTS
  base = base
  common = common
  other = other
  sql = sql
  deep = deep
  Std <- MCStd
  StdPath <- MCStdPath
  Idls <- MCIdls
  Pkg <- MCPkg
  RefName <- MCRefName
  Path <- MCPath
  Replacements <- OneReplaced
  Documents <- PlainDocuments
CHECK_DEADLOCK FALSE
INVARIANTS
  OneNameOnePackage
  EveryUseIsImported
