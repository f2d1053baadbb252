SPECIFICATION Spec
CONSTANTS
  FrameLen = 2
  RingSize = 5
  SeqModulus = 3
  MaxFrames = 6
INVARIANTS
  TypeOK
  NoMixedFrames
  WholeFrames
  GapsReported
PROPERTY FramesSettled
CHECK_DEADLOCK FALSE
