SPECIFICATION Spec
CONSTANTS
  Documents <- MCDocuments
  Features <- MCFeatures
  Upper <- MCUpper
  Lower <- MCLower
  Keywords <- MCKeywords
CHECK_DEADLOCK FALSE
INVARIANTS
  DeclaredOnce
  LookupFindsTheDefinition
