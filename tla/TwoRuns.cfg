SPECIFICATION Spec
CONSTANTS
  Calls = {c1, c2}
  NoCall = NoCall
  Names = {"web"}
  MaxRuns = 3
  MaxConcurrent = 2
  MaxRestarts = 1
  Policies <- Always
  Probed <- NoProbe
  Ops <- StartRestart
  Shutdown = FALSE
SYMMETRY Symmetry
INVARIANT OneRun
