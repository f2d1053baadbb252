SPECIFICATION Spec
CONSTANTS
  SourceIds = {1}
  Modes = {"Exclusive", "PreferExclusive"}
  MaxStarts = 2
  MaxChanges = 3
  Capacity = 1
CHECK_DEADLOCK FALSE
INVARIANTS
  ListFollowsSession
  GrabsOfCaptures
PROPERTY GrabsHandedOver
