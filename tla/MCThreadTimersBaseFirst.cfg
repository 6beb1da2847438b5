SPECIFICATION TimersSpec
CONSTANTS
  Second = 48
  baseFreq = 6
  servoFreq = 2
  serialFreq = 9
  MaxWork = 2
  MaxPark = 3
  MaxParks = 1
  MaxPools = 0
  baseLate = 12
  servoLate = 12
  serialLate = 6
INVARIANT BaseFirst
