SPECIFICATION FairSpec
CONSTANTS
  Calls = {c1, c2}
  NoCall = NoCall
  Names = {"web"}
  MaxRuns = 2
  MaxConcurrent = 1
  MaxRestarts = 1
  Policies <- Never
  Probed <- NoProbe
  Ops <- AllOps
  Shutdown = TRUE
PROPERTY CallsReturn
PROPERTY CloseReturns
PROPERTY LiveIsBacked
