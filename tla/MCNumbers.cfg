SPECIFICATION MCSpec
CONSTANTS
  Durations <- MCDurations
  Zeroed = Zeroed
  Lba28Max = 7
  Uint32 = 16
  MaxInt = 31
  LogLength = 24
  Disks <- MCDisks
  AtaDrives <- MCAtaDrives
  Offsets <- MCOffsets
INVARIANTS ExactOrRefused DiskIsExact AtaCapacityIsExact
INVARIANTS FeaturesAreTrue StatisticsAreMarked NothingInvented PanicsOnlyByOverflow
