SPECIFICATION SynthSpec
CONSTANTS
  NumChannels = 2
  Notes = {60, 64, 67}
  Distance = 3
  DataBytes = {0, 60, 64, 67, 100}
  StatusBytes = {128, 144}
  MaxHeld = 3
  MaxLine = 6
  PlaysOn = FALSE
  PollBytes = 1
  BusyBytes = 3
  ISRBytes = 1
  LateBytes = 2
INVARIANTS NoByteLost InTune
PROPERTY FollowsKeys
CHECK_DEADLOCK FALSE
