SPECIFICATION WireSpec
CONSTANTS
  DataBytes = {0, 1, 4, 100}
  StatusBytes = {128, 144, 176, 208, 248}
  OtherMessages <- PressureAndControl
  Realtime = {248}
  Noise = {0, 4, 128, 144, 208}
  LosesStatus = FALSE
  LosesData = TRUE
INVARIANTS StaysInside Recovers
CHECK_DEADLOCK FALSE
PROPERTY RecoversMissingOne
