SPECIFICATION FairSpec
CONSTANTS
  Callers = {c1, c2}
  MaxReloadAttempts = 3
  MaxPid = 3
INVARIANTS
  StaleExplained
PROPERTIES
  KeepsPromise
  ReportsTheRestart
  Returns
