CONSTANTS
  Root <- MCRoot
  Documents <- MCDocuments
SPECIFICATION Spec
CHECK_DEADLOCK FALSE
INVARIANTS
  AcceptedIsLegal
  RefusedIsIllegal
  DerefAgrees
PROPERTY
  Ends
