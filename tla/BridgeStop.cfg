\* A stop while a start is under way.
CONSTANTS
  left = left  right = right
  Windows = {left, right}
  Calls = {1, 2, 3}
  WindowOf <- MCWindowOf
  NoWindow = NoWindow
  MaxEvents = 2
SPECIFICATION Spec
INVARIANTS StopHolds
CHECK_DEADLOCK FALSE
