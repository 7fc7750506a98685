SPECIFICATION Spec
CONSTANTS
  Disturbances = {"rename", "truncate", "split"}
  MaxLines = 4
  MaxFiles = 2
  MaxTruncations = 1
  MaxErrors = 1
CHECK_DEADLOCK FALSE
INVARIANTS InOrderOnce
 
