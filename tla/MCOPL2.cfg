SPECIFICATION DriverSpec
CONSTANTS
  ChannelsSet = {0, 7}
  Arguments = {2, 255}
  FNumbers = {0, 853}
  Instruments <- Library
  MaxCalls = 2
INVARIANTS ChipAsAsked NoteStartsInTune
PROPERTY OthersKept
CHECK_DEADLOCK FALSE
