SPECIFICATION Spec
CONSTANTS
  main = main
  a = a
  b = b
  tidle = tidle
  Thread = {main, a, b, tidle}
  Idle = tidle
  Manager = main
  Dynamic = {b}
  MaxPrio = 2
  InitPrio <- Prios
  InitTick <- Slices
  Times = {1}
  MaxLock = 1
  CallsOn = FALSE
INVARIANTS StateAgrees FirstRuns
PROPERTIES DeletedIsGone EveryContenderRuns
CHECK_DEADLOCK FALSE
