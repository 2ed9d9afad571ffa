SPECIFICATION FairSpec
CONSTANTS
  Table = Table
  Absent = Absent
  Names = {"a", "b"}
  Workers = {w1}
  Inodes = {i1, i2, i3}
  NoInode = NoInode
  Nobody = Nobody
  Corrupt = Corrupt
  NoTree = NoTree
  InitFiles <- TwoFiles
  ConfigMaps <- TwoOfThem
  UserEdits <- DebugEdit
  MaxReloadAttempts = 2
  WaitSignals = {"INT", "TERM"}
  RestartSignals = {"TERM"}
  MaxSignals = 2
  MaxFaults = 1
  MaxEdits = 0
CHECK_DEADLOCK FALSE
INVARIANTS
  TypeOK
  CleanedUp
  NothingLeftBehind
PROPERTIES
  GracefulOnceArmed
  IgnoredOnlyWhileRestarting
  StopsWhenAsked
  AppliedOrGaveUp
