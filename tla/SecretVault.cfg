SPECIFICATION Spec
CONSTANTS
  Names = {n1, n2}
  Values = {v1, v2}
  Ids = {i1, i2, i3}
  Ttls = {1, 2}
  None = None
  Period = 2
  MaxTime = 5
CHECK_DEADLOCK FALSE
INVARIANTS IndexIsInverse ReapedInTime
PROPERTY DirectorySpec
