SPECIFICATION Spec
CONSTANTS
  Proc = {4, 5, 9, 10, 11}
  Slots = {9, 10, 11}
  Calls <- MCCalls
  TASK_MM = 4
  INIT_PROC = 5
  MsgType <- BodySet
  HARD_INT = HARD_INT
  UNSET = UNSET
  ANY = 47
  INTERRUPT = 99
  NO_TASK = 57
CHECK_DEADLOCK FALSE
INVARIANTS
  CallsAnswered
  KernelQuiet
  ParentsLive
  NoMissedExit
  ExitIsFinal
PROPERTIES
  ForkReturns
