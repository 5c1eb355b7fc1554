SPECIFICATION Spec
CONSTANTS
  NR_CONSOLES = 1
  NR_FKEYS = 3
  TTY_IN_BYTES = 2
  Char = {x}
  Enter = Enter
  Backspace = Backspace
  MaxLine = 3
INVARIANTS
  CountGuaranteesData
