SPECIFICATION Spec
CONSTANTS
  Star = Star
  Refs = {here, there}
  Makers = {here}
  FieldsOf <- MCFieldsOf
  RootType <- MCRootType
  PathLists <- MCPathLists
  Leaves <- MCLeaves
INVARIANTS
  WhiteListIsUnion
  BlackListIsComplement
  RoundTripKeeps
  AskAgreesWithUse
CHECK_DEADLOCK FALSE
