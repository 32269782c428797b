CONSTANTS
  c1 = c1
  c2 = c2
  o1 = o1
  o2 = o2
  o3 = o3
  NULL = NULL
  Callers <- MCCallers
  Objs <- MCObjs
  NumFrags = 2
SPECIFICATION Spec
INVARIANT
  ReplyCompleteWhenOpened
