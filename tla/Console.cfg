SPECIFICATION Spec
CONSTANTS
  NR_CONSOLES = 2
  SCREEN_WIDTH = 2
  SCREEN_SIZE = 4
  v_mem_limit = 7
  UINT = 19
  ProgChar = {"c", "nl", "bs"}
INVARIANTS
  ConsolesApart
  ShowsCurrent
  WindowOnLines
  CursorNear
PROPERTIES
  EchoEnds
