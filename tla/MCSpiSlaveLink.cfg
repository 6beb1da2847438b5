CONSTANTS
  N = 7
  H = 2
  FifoDepth = 4
  MaxTxn = 10
  MaxShort = 2
SPECIFICATION Spec
INVARIANTS TypeOK ResponseAligned SplicedOncePerShort ShiftedStreamIsDead
