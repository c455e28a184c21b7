SPECIFICATION Spec
CONSTANTS
  Names = {n1, n2}
  Clients = {c1, c2}
  Unidentified = {c2}
  Removers = {r1}
  InServer = {r1}
  NoName = NoName
INVARIANT NoneDangling
CHECK_DEADLOCK FALSE
