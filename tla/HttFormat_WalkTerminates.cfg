CONSTANTS
  BufSize = 8
  TextLen = {1, 2}
  Bins = 2
  MaxStr = 6
  Sizeof <- MCSizeof
  Msgs <- LongMsgs
SPECIFICATION Spec
PROPERTY
  WalkTerminates
CHECK_DEADLOCK FALSE
