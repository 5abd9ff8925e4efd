SPECIFICATION Spec
CONSTANTS
  Letters <- MCLetters
  Headers <- MCHeaders
  Definitions <- MCDefinitions
  Neighbours <- MCNeighbours
  MaxEntries = 2
INVARIANTS
  DefinitionsAsWritten
  HeadersAsWritten
CHECK_DEADLOCK FALSE
