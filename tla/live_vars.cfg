SPECIFICATION FairSpec
CONSTANTS
  BITSIZE = 2
  NBITARR = 2
  Var <- FlowVar
  Param <- FlowParam
  Outer <- FlowOuter
  NoVar = NoVar
  N = 3
  Code <- FlowCode
  MAXBBINST = 2
INVARIANTS SolvedAtEnd WithinEverySolution LiveIffReached UnreadStoresGo
PROPERTY Terminates
CHECK_DEADLOCK FALSE
