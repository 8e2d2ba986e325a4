SPECIFICATION ObjectSpec
CONSTANTS
  ta = ta  tb = tb  tc = tc  idle = idle
  bit1 = bit1  bit2 = bit2  val1 = val1  val2 = val2
  Thread <- Threads
  Idle = idle
  MaxPrio = 2
  InitPrio <- Priorities
  InitTick <- Slices
  TimeOuts <- WaitTimes
  Forever <- NoTime
  DetachTimed = FALSE
  Sleeper <- Sleepers
  Sender = {tb, tc}
  Value = {val1, val2}
  NoValue = NoValue
  SemStart = {0, 1}
  MaxValue = 2
  MaxHold = 2
  Flag = {bit1, bit2}
  Ask <- Asks
  MailSize = 2
  MaxMsgs = 2
  Kinds = {"sem", "mutex", "event", "mailbox", "queue"}
  Flags <- Orders
SYMMETRY Symmetry
VIEW View
INVARIANTS
  ListsAgree NoneWaitsInVain NothingLost OneOwner Inheritance
PROPERTIES
  ClearedGoOnce MailboxIsChannel QueueIsChannel
CHECK_DEADLOCK FALSE
