SPECIFICATION KeyboardSpec
CONSTANTS
  KB_IN_BYTES = 3
  Keys = {"a", "LShift", "RAlt", "Up", "F2", "PrintScreen", "Pause"}
CHECK_DEADLOCK FALSE
INVARIANTS
  OnlyWhatWasMeant
  CaughtUp
