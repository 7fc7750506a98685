\* A rotation by renaming or truncating.
SPECIFICATION Spec
CONSTANTS
  Disturbances = {"rename", "truncate"}
  MaxLines = 3
  MaxFiles = 2
  MaxTruncations = 1
INVARIANTS
  NothingSkippedInAFile
PROPERTIES
  ReadsOn
