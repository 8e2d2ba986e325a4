SPECIFICATION Spec
CONSTANTS
  Text = {"x", "y"}
  FINSH_CMD_SIZE = 3
  FINSH_HISTORY_LINES = 2
  Commands <- Names
  DeviceBytes = 1
  bufsz = 3
  MaxSem = 2
  KeysOn = FALSE
  Pasted = {"x", "tab", "enter"}
VIEW View
INVARIANTS NeverSleepsOnInput StaysInLine
PROPERTIES RingKeepsNewest EditsAsExpected InputIsRead
CHECK_DEADLOCK FALSE
