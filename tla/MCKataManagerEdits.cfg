SPECIFICATION Spec
CONSTANTS
  Table = Table
  Absent = Absent
  Names = {"a", "b"}
  Workers = {w1}
  Inodes = {i1, i2, i3}
  NoInode = NoInode
  Nobody = Nobody
  Corrupt = Corrupt
  NoTree = NoTree
  InitFiles <- Files
  ConfigMaps <- SomeMaps
  UserEdits <- SomeEdits
  MaxReloadAttempts = 2
  WaitSignals = {"INT", "TERM"}
  RestartSignals = {"TERM"}
  MaxSignals = 1
  MaxFaults = 1
  MaxEdits = 1
SYMMETRY Symmetry
CHECK_DEADLOCK FALSE
INVARIANTS
  KeepsUserConfig
  Configured
