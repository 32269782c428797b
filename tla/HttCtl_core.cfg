CONSTANTS
  Callers = {c1, c2, c3}
  NULL = NULL
  ResetType = 0
  NumExtStats = 96
  ResetStart = 0
  WriteInputs <- MCWriteInputs
  ResetInputs <- MCResetInputs
SYMMETRY Perms
SPECIFICATION Spec
INVARIANTS
  TypeOK
  RequestTypeValid
  ResetNamesOneType
