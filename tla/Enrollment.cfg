SPECIFICATION Spec
CONSTANTS
  Calls = {e1, e2}
  Tokens = {t1, t2}
  Names = {"build", "build-2", "build-3"}
  Candidates <- Fallbacks
  NoName = NoName
  Operator = Operator
SYMMETRY Symmetric
INVARIANT SingleUse
INVARIANT MembersPaid
INVARIANT NamesHeld
CHECK_DEADLOCK FALSE
