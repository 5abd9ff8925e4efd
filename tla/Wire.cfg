SPECIFICATION Spec
CONSTANTS
  Values <- MCValues
  Skewed <- MCSkewed
  Long <- MCLong
INVARIANTS
  ArrivesAsSent
  OneFormat
  CutsAreRefused
  OtherVersionsAgree
CHECK_DEADLOCK FALSE
