SPECIFICATION Spec
CONSTANTS
  Hosts = {h1, h2, h3}
  Operators = {op}
  MaxRoots = 4
INVARIANT MutualTrust
INVARIANT Recoverable
PROPERTY OnlyRetireNarrows
CHECK_DEADLOCK FALSE
