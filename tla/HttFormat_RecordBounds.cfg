CONSTANTS
  BufSize = 8
  TextLen = {1, 2}
  Bins = 2
  MaxStr = 6
  Sizeof <- MCSizeof
  Msgs <- PassMsgs
SPECIFICATION Spec
INVARIANT
  RecordBounds
CHECK_DEADLOCK FALSE
