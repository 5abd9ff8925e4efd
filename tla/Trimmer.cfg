SPECIFICATION Spec
CONSTANTS
  Root = "r"
  Inputs <- MCInputs
  PartOf <- MCPartOf
  GoName <- MCGoName
  MaxTrims = 1
CHECK_DEADLOCK FALSE
INVARIANTS
  NothingIsMissed
  NothingUnneeded
  RequestedMethodsStay
