SPECIFICATION FixtureSpec
CONSTANTS
  Base = 4
  ByteBits = 2
  MaxDepth = 2
  Script <- MCScript
  Tails <- MCTails
  Reports <- MCReports
  Fixtures <- MCFixtures
CHECK_DEADLOCK FALSE
INVARIANTS
  ItemsRecovered
  FieldsAsDeclared
  VerdictExact
  FramingExact
  PairingByEvidence
