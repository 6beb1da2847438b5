\* A reversed axis with the deadband of remora-eth.
CONSTANTS
  ServoFreq = 2
  PRU_base_freq = 2
  Sign <- MCReversed
  AbsDeadband = TRUE
  pgain = 1
  MaxAccel = {0, 1}
  Command <- MCCommand
  M = 4
  Glitch = 9
  MaxMissed = 1
  MaxCorrupt = 2
SPECIFICATION Spec
INVARIANTS TypeOK SpikesHidden RateLag
PROPERTY Settles
