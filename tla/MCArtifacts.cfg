SPECIFICATION FairSpec
CONSTANTS
  Table = Table
  Absent = Absent
  Torn = Torn
  NoFile = NoFile
  Published <- MCPublished
  Tomls <- MCTomls
  ClassDir <- MCClassDir
  MaxPublishes = 2
  MaxFaults = 2
INVARIANTS
  ConfigExplained
  AssetsWhole
  EntryUsable
PROPERTIES
  Recovers
