CONSTANT MaxSize = 6
SPECIFICATION Spec
INVARIANTS
  NextIsBehind
  LandsShifted
CHECK_DEADLOCK FALSE
