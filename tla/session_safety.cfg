SPECIFICATION Spec
CONSTANTS
  s1 = s1
  s2 = s2
  SourceIds <- MCSources
  AccessModes = {"Shared", "Exclusive", "PreferExclusive"}
  MaxPlugs = 2
  MaxFaults = 1
  MaxSnapshot = 2
SYMMETRY Symmetry
INVARIANTS
  TypeOK
  GrabMatchesAccess
  ExclusiveFailsClosed
  ReconcileAccounts
PROPERTY ImplementsLifecycle
