SPECIFICATION BusSpec
CONSTANTS
  Bytes = {0, 1}
  ShellWrites = TRUE
  ShellResets = TRUE
INVARIANT ShadowIsChip
PROPERTY InterruptWritesLand
