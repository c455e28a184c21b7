SPECIFICATION Spec
CONSTANTS
  Followers = {f1}
  Filter <- Filters
  Tail_ = 2
  RingLines = 2
  QueueLen = 2
  SegLines = 2
  Retain = 1
  BufLines = 1
  MaxLines = 7
INVARIANT GapsExact
INVARIANT ExitCarriesOutput
PROPERTY ReplayExact
PROPERTY StreamSpec
CHECK_DEADLOCK FALSE
