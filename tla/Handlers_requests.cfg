SPECIFICATION MCSpec
CONSTANTS
  h1 = h1
  h2 = h2
  Handler = {h1, h2}
  Groups <- MCGroups
INVARIANTS
  AsIfSerial
  RefusedUntouched
  StopLeavesConsistent
\* Requests end.
CHECK_DEADLOCK FALSE
