SPECIFICATION RingSpec
CONSTANTS
  Events = {a, b, c}
  Empty = Empty
  Size = 4
INVARIANTS SnapshotIsThePage
PROPERTY LogSpec
