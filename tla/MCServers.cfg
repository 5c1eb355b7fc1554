SPECIFICATION Spec
CONSTANTS
  Proc = {1, 2, 3, 6, 7}
  TASK_SYS = 1
  TASK_HD = 2
  TASK_FS = 3
  Client = {6, 7}
  Calls <- MCCalls
  MsgType <- BodySet
  HARD_INT <- HardInt
  UNSET <- Unset
  ANY = 47
  INTERRUPT = 99
  NO_TASK = 57
  COUNT_MOD = 3
  MaxSectors = 3
  MaxRequests = 1
  HZ = 2
  MaxTicks = 2
CHECK_DEADLOCK FALSE
INVARIANTS
  InStep
  WakeupComing
  OnlyTimeoutPanics
  AnswersFresh
PROPERTIES
  CallsReturn
