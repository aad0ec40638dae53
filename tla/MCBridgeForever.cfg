\* Three requests, and helpers that start, hang and die.
SPECIFICATION Spec
CONSTANTS
  r1 = r1  r2 = r2  r3 = r3
  Requests = {r1, r2, r3}
  MaxHelpers = 2
INVARIANT RestartsOnDemand
CHECK_DEADLOCK FALSE
