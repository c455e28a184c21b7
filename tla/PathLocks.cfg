SPECIFICATION FairSpec
CONSTANTS
  Clients = {c1, c2, c3}
  Paths = {1, 2, 3}
  Entries = {e1, e2, e3, e4}
  NoEntry = NoEntry
INVARIANT EntriesCounted
PROPERTY MutexSpec
PROPERTY RequestsEnd
