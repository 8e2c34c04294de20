\* A turn, a restart of the gateway, another turn.
CONSTANTS
  left = left  right = right
  Windows = {left, right}
  Calls = {1, 2, 3}
  WindowOf <- MCWindowOf
  NoWindow = NoWindow
  MaxEvents = 4
SPECIFICATION Spec
INVARIANTS OneTurnAcrossCores
CHECK_DEADLOCK FALSE
