SPECIFICATION Spec
CONSTANTS
  Clients = {c1, c2, c3}
  Paths = {1, 2}
  Kinds = {"write", "append", "edit", "create", "move", "overwrite", "remove"}
  Present = {1}
  Absent = Absent
  MaxRequests = 3
SYMMETRY ClientSymmetry
 
PROPERTY StoreSpec
CHECK_DEADLOCK FALSE
