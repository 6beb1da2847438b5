\* A counter of three bits and a FIFO of two; up to three edges in a pass.
CONSTANTS
  W = 8
  Depth = 2
  MaxEdges = 3
  MaxNested = 1
SPECIFICATION Spec
INVARIANTS CountFollows FreshCount
PROPERTY GetReturns
