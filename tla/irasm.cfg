SPECIFICATION AsmSpec
CONSTANTS
  Declared <- Symbols
  Main = 1
  Relations = {"BRANCH_EQU"}
  Ops = {"SUB", "MUL"}
  Budget = 3
INVARIANTS TypeOK StackBalanced ArgumentsOnTop TempsComputedFirst FlowGraphInput OperandsDeclared TempsNamed
CHECK_DEADLOCK FALSE
