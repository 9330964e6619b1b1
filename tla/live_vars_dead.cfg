SPECIFICATION Spec
CONSTANTS
  BITSIZE = 2
  NBITARR = 2
  Var <- FlowVar
  Param <- FlowParam
  Outer <- FlowOuter
  NoVar = NoVar
  N = 1
  Code <- TwoStores
  MAXBBINST = 2
INVARIANT OnlyDeadGo
CHECK_DEADLOCK FALSE
