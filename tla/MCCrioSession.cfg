SPECIFICATION Spec
CONSTANTS
  Table = Table
  Absent = Absent
  Names = {"a", "b"}
  KataConfigs = {"p"}
  NoTree = NoTree
  Down = Down
  MaxCalls = 4
  MaxEdits = 1
  BuiltIn <- Runc
  UserFiles <- Files
INVARIANTS
  KeepsUserConfig
  DefaultDefined
  RemovalNeverFails
  Rerun
PROPERTIES
  ImplementsInterface
