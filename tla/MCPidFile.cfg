SPECIFICATION Spec
CONSTANTS
  Workers = {w1, w2, w3}
  Inodes = {i1, i2, i3, i4, i5}
  NoInode = NoInode
  Nobody = Nobody
SYMMETRY Symmetry
INVARIANTS
  LockHeldByLiving
  HolderNotRenamed
PROPERTIES
  OverlapExplained
  RefusedByTheLiving
