SPECIFICATION Spec
CONSTANTS
  a = a
  b = b
  c = c
  Own = {a}
  Shared = {b, c}
  Ticks = 10
  Times = {0, 2}
  MaxLate = 1
SYMMETRY Symmetry
VIEW View
INVARIANTS InOrder ListedCanBeStopped
PROPERTY OnTime
