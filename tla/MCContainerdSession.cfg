SPECIFICATION Spec
CONSTANTS
  Table = Table
  Absent = Absent
  Names = {"a", "b"}
  KataConfigs = {"p", "q"}
  NoTree = NoTree
  InitFiles <- Files
INVARIANTS
  StaysStartable
  UserKept
  Reverted
  RemovalIsTheLoop
PROPERTIES
  ImplementsInterface
