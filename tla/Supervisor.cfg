SPECIFICATION Spec
CONSTANTS
  Calls = {c1, c2}
  NoCall = NoCall
  Names = {"web"}
  MaxRuns = 2
  MaxConcurrent = 1
  MaxRestarts = 1
  Policies <- OnFailure
  Probed <- AnyProbe
  Ops <- Everything
  Shutdown = FALSE
SYMMETRY Symmetry
INVARIANT SlotsBalance
INVARIANT LiveIsKept
INVARIANT BudgetKept
INVARIANT OnePolicyRun
INVARIANT DiskNamesRun
INVARIANT RemovedStaysGone
INVARIANT LiveCountFollows
