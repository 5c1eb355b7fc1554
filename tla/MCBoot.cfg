CONSTANTS
  Machines <- MCMachines
  Lead = 6
  Children <- MCChildren
  MaxUpdates = 2
  MaxImages = 3
SPECIFICATION Spec
CHECK_DEADLOCK FALSE
INVARIANTS BootTimeExact ImagesApart EverySlotHasMemory
