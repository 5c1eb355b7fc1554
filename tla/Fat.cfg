SPECIFICATION FatSpec
CONSTANTS
  ONE_CLUSTER_BYTES = 2
  Cluster = {2, 3, 4}
  PerSector = 2
  RootSlots = 4
  MAX_ENTRIES = 3
  MaxSize = 5
  PartStart = {1, 63}
CHECK_DEADLOCK FALSE
INVARIANTS
  RootListed
  RootLookup
  ReadsExactly
