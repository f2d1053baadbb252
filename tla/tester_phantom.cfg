SPECIFICATION Spec
CONSTANTS
  SourceIds = {1}
  Modes = {"Exclusive", "PreferExclusive"}
  MaxStarts = 2
  MaxChanges = 1
  Capacity = 1
CHECK_DEADLOCK FALSE
PROPERTY GoneSourcesLeave
