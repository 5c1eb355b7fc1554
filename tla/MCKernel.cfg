SPECIFICATION KernelSpec
CONSTANTS
  Proc = {0, 1, 2}
  priority <- MCPriority
  Busy = {0}
  MaxSleep = 2
  MaxDebt = 1
  IRQ = {"CLOCK", "HD"}
  Window = FALSE
INVARIANTS
  FramesWhole
  RunsChosen
  NestingExact
  NeverHung
  WakeLatency
PROPERTIES
  ReadyRuns
