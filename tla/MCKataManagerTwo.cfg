SPECIFICATION Spec
CONSTANTS
  Table = Table
  Absent = Absent
  Names = {"a"}
  Workers = {w1, w2}
  Inodes = {i1, i2, i3, i4}
  NoInode = NoInode
  Nobody = Nobody
  Corrupt = Corrupt
  NoTree = NoTree
  InitFiles <- OneFile
  ConfigMaps <- OneClass
  UserEdits <- DebugEdit
  MaxReloadAttempts = 1
  WaitSignals = {"TERM"}
  RestartSignals = {"TERM"}
  MaxSignals = 1
  MaxFaults = 0
  MaxEdits = 0
SYMMETRY Symmetry
CHECK_DEADLOCK FALSE
INVARIANTS
  KeepsUserConfig
PROPERTIES
  SignalledMidWriteByStrays
  PidFileProtocol
