SPECIFICATION Spec
CONSTANTS
  Backends = {"GoBackend", "FastGoBackend", "TypeScriptBackend"}
  None = "nil"
  Name <- MCName
  Lang <- MCLang
  GoFamily = {"GoBackend", "FastGoBackend"}
  Layered = {"FastGoBackend"}
  Commands <- MCCommands
  MaxCalls = 3
CHECK_DEADLOCK FALSE
INVARIANTS
  OutputsAsAsked
  SawWhatIsLeft
