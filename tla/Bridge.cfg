\* Two windows, two calls at a time in one and one in the other.
CONSTANTS
  left = left  right = right
  Windows = {left, right}
  Calls = {1, 2, 3}
  WindowOf <- MCWindowOf
  NoWindow = NoWindow
  MaxEvents = 2
SPECIFICATION FairSpec
INVARIANTS TypeOK ServingOwnsPort PortHasOwner
 
CHECK_DEADLOCK FALSE
