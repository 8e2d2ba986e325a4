SPECIFICATION WireSpec
CONSTANTS
  DataBytes = {0, 1, 4, 100}
  StatusBytes = {128, 144, 176, 208, 248}
  OtherMessages <- PressureAndControl
  Realtime = {248}
  Noise = {0, 4, 128, 144, 208}
  LosesStatus = TRUE
  LosesData = FALSE
PROPERTY RecoversMissingOne
CHECK_DEADLOCK FALSE
