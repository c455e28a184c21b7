SPECIFICATION FairSpec
CONSTANTS
  RequestBytes = 2
  ResponseBytes = 1
CHECK_DEADLOCK FALSE
PROPERTY PipeSpec
PROPERTY ConnectionEnds
