SPECIFICATION GenSpec
CONSTANTS
  Gpus <- MCGpus
  MaxGpus = 3
  MaxRebinds = 1
INVARIANTS
  EntriesExplained
  OnDiskComplete
  RefusalExplained
