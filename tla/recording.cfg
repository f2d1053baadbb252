SPECIFICATION Spec
CONSTANTS
  Scripts <- MCScripts
  MaxCalls = 5
  PollCounts = {0, 1, 3}
  Nodes <- MCNodes
CHECK_DEADLOCK FALSE
INVARIANTS
  ReplayedExactly
  FramesOfTheirSource
  IdentityFollowsEvidence
