SPECIFICATION Spec
CONSTANTS
  Table = Table
  Absent = Absent
  Names = {"a"}
  Workers = {w1}
  Inodes = {i1, i2, i3}
  NoInode = NoInode
  Nobody = Nobody
  Corrupt = Corrupt
  NoTree = NoTree
  InitFiles <- OneFile
  ConfigMaps <- OneClass
  UserEdits <- DebugEdit
  MaxReloadAttempts = 2
  WaitSignals = {"INT", "TERM"}
  RestartSignals = {"TERM"}
  MaxSignals = 1
  MaxFaults = 0
  MaxEdits = 0
SYMMETRY Symmetry
CHECK_DEADLOCK FALSE
INVARIANTS
  RestartedWhenReported
