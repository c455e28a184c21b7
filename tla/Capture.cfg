SPECIFICATION FairSpec
CONSTANTS
  LineEnds = {1, 4}
  Chunk = 2
  MaxLine = 2
  RawCap = 2
  HardCap = 4
  MaxBytes = 5
  MaxCrashes = 1
INVARIANT CaptureTypes
 
INVARIANT OnceInOrder
INVARIANT LinesWhole
INVARIANT DrainedSeesAll
 
CHECK_DEADLOCK FALSE
