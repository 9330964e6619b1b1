SPECIFICATION Spec
CONSTANTS
  Binary = {"ADD_OP"}
  Update = {"INC_OP"}
  Var = {1, 2}
  Constant = {3}
  Literal = {4}
  Temp = {5, 6}
  Block <- UpToThree
  MAXDAGNODES = 8
  MAXBBINST = 3
INVARIANT SameResults
CHECK_DEADLOCK FALSE
