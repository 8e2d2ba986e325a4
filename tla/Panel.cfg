SPECIFICATION Spec
CONSTANTS
  Positions = {2035, 2055, 2061, 4095}
  Start = 2035
  Turned = {1, 4}
  calibrationVal = 3
  ShellReads = TRUE
  MaxTurns = 2
  MaxPresses = 2
INVARIANTS Tracks InScale ShownIsStored
PROPERTY OnlyWhenMoved
