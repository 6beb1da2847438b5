SPECIFICATION Spec
CONSTANTS
  Fifo = 8
  MaxLen = 12
INVARIANT OwnAnswer
PROPERTIES FrameWhole AccessEnds
