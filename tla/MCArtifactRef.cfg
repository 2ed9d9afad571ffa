SPECIFICATION RefSpec
CONSTANTS
  Nil = Nil
  Anonymous = Anonymous
  Typed = Typed
  None = None
  MaxLen = 7
  Stored <- MCStored
CHECK_DEADLOCK FALSE
INVARIANTS
  Parsed
  OwnCredentials
