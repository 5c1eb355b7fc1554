SPECIFICATION Spec
CONSTANTS
  a = a
  b = b
  c = c
  hd = hd
  Proc <- MCProc
  TASK_HD = hd
  MsgType = {m1}
  HARD_INT = HARD_INT
  UNSET = UNSET
  ANY = ANY
  INTERRUPT = INTERRUPT
  NO_TASK = NO_TASK
SYMMETRY MCSymmetry
CHECK_DEADLOCK FALSE
INVARIANTS
  NoAssertFails
  QueueExact
  NoMissedRendezvous
  NoSleepThroughInterrupt
  NoSendCycle
PROPERTIES
  QueueOrderKept
  ImplementsRendezvous
