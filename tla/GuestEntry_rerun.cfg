SPECIFICATION Spec
CONSTANTS
  LastLoop = 1
  Sessions = {s1}
  Users = {ann}
INVARIANTS
  CompletedIsFull
CHECK_DEADLOCK FALSE
