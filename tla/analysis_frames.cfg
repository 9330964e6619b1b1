SPECIFICATION Spec
CONSTANTS
  Name = {a, b}
  MainFunc = _start
  ScalarType = {"INT"}
  ArrLen = {0, 2}
  Bucket = {0, 1}
  Hash <- ByArity
  MAXSYMENT = 7
  MaxParam = 2
  DeclForm = {"const", "var", "proc", "fun"}
  UseForm = {}
  ArgForm = {}
  MaxTab = 3
  MaxGen = 2
SYMMETRY NamesAlike
INVARIANTS SlotsDisjoint SidInBounds RoutineScopes ParamLayout
PROPERTY ClosedFramesFixed
CHECK_DEADLOCK FALSE
