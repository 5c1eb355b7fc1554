SPECIFICATION Spec
CONSTANTS
  NR_CONSOLES = 2
  NR_FKEYS = 3
  TTY_IN_BYTES = 2
  Char = {}
  Enter = Enter
  Backspace = Backspace
  MaxLine = 2
INVARIANTS
  RingExact
  InBounds
PROPERTIES
  LinesAreRead
