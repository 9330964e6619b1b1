SPECIFICATION AsmSpec
CONSTANTS
  Declared <- Symbols
  Main = 1
  Relations = {"BRANCH_EQU"}
  Ops = {"SUB", "MUL"}
  Budget = 3
INVARIANT NumbersWritten
CHECK_DEADLOCK FALSE
