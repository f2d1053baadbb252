SPECIFICATION LoopSpec
CONSTANTS
  s1 = s1
  s2 = s2
  SourceIds <- MCSources
  AccessModes = {"Exclusive"}
  MaxPlugs = 2
  MaxFaults = 1
  MaxSnapshot = 2
PROPERTIES
  IsolatedDelivery
  EventuallyCaptured
  EventuallyReleased
