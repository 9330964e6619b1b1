SPECIFICATION Spec
CONSTANTS
  Binary = {"ADD_OP"}
  Update = {"INC_OP"}
  Var = {1, 2}
  Constant = {3}
  Literal = {4}
  Temp = {5, 6}
  Block <- UpToThree
  MAXDAGNODES = 5
  MAXBBINST = 3
INVARIANTS TypeOK ValuesRight NoExpressionTwice OutgrownIfLarge GeneratedOnce UnsharedUnchanged
CHECK_DEADLOCK FALSE
