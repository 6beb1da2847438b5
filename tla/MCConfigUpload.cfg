\* Two files, areas of two blocks, a host that waits for the firmware.
CONSTANTS
  File = {f1, f2}
  Blank = Blank
  Torn = Torn
  Default = Default
  Blocks = 2
  MaxUploads = 3
  MaxCuts = 1
  FlagCleared = TRUE
SPECIFICATION Spec
INVARIANTS FlashAlone ParkedForOne LoadedWhole
PROPERTIES LockoutEnds UploadTakesEffect
