SPECIFICATION Spec
CONSTANTS
  Files = {file}
  Stdins = {stdin}
  Capacity = 2
  Size = 3
  Empty = Empty
  Events <- MCEvents
  MaxEvents = 3
CHECK_DEADLOCK FALSE
INVARIANTS OnceInOrder
PROPERTY GetsThrough
