SPECIFICATION KernelSpec
CONSTANTS
  Proc = {0, 1, 2}
  priority <- MCPriority
  Busy = {0}
  MaxSleep = 1
  MaxDebt = 1
  IRQ = {"CLOCK", "HD"}
  Window = TRUE
INVARIANT
  SavedInTable
