SPECIFICATION LoopSpec
CONSTANTS
  s1 = s1
  s2 = s2
  SourceIds <- OneSource
  AccessModes = {"Shared"}
  MaxPlugs = 2
  MaxFaults = 0
  MaxSnapshot = 1
PROPERTY StaleHandleReplaced
