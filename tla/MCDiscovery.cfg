SPECIFICATION Spec
CONSTANTS
  None = None
  NameOrder <- Order
  Odd = {"z"}
  Depth = 3
  Sources <- AllSources
  Trees <- AllTrees
  FirstInode = 64
  Touchable <- Places
  MaxEvents = 2
  MaxFiles = 2
  MaxEntries = 5
  MaxDirectories = 3
CHECK_DEADLOCK FALSE
INVARIANTS
  NothingMissed
  OneSnapshotPerFile
  SnapshotsReopen
  QuietTreeExact
