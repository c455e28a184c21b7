SPECIFICATION FairSpec
CONSTANTS
  Records = {r1, r2}
  Pids = {1, 2}
  Foreign = Foreign
  Always = {r1}
  Probed = {r2}
  FirstCap = 2
  Caps = {1}
  MaxRestarts = 1
  Faults = {"capture", "record"}
  Managed = {r1}
  MaxForks = 3
  MaxDeaths = 1
 
 
 
 
INVARIANT StrangersSafe
PROPERTY GoneIsNoticed
PROPERTY StartingIsDecided
CHECK_DEADLOCK FALSE
