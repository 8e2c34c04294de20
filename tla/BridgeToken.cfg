\* disconnectAll beside a window that stands by; one call at a time in a window.
CONSTANTS
  left = left  right = right
  Windows = {left, right}
  Calls = {1, 3}
  WindowOf <- MCWindowOf
  NoWindow = NoWindow
  MaxEvents = 1
SPECIFICATION Spec
PROPERTIES RotationReachesServer
CHECK_DEADLOCK FALSE
