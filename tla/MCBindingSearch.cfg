SPECIFICATION Spec
CONSTANTS
  MaxBindings = 4
  MaxReplaced = 1
INVARIANTS
  OnePass
  InArray
CHECK_DEADLOCK FALSE
