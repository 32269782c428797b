CONSTANTS
  BufSize = 8
  TextLen = {1, 2}
  Bins = 2
  MaxStr = 6
  Sizeof <- MCSizeof
  Msgs <- PassMsgs
SPECIFICATION Spec
INVARIANTS
  TypeOK
  OffsetBound
  NulInBuffer
PROPERTIES
  WalkTerminates
  BufLenMonotone
  ReadsWithinRecord
CHECK_DEADLOCK FALSE
