SPECIFICATION Spec
CONSTANTS
  Name = {a, b}
  MainFunc = _start
  ScalarType = {"INT", "UINT"}
  ArrLen = {}
  Bucket = {0, 1}
  Hash <- ByArity
  MAXSYMENT = 7
  MaxParam = 2
  DeclForm = {"var", "proc"}
  UseForm = {"PROC"}
  ArgForm = {"lit", "neg", "var"}
  MaxTab = 3
  MaxGen = 0
SYMMETRY NamesAlike
INVARIANTS CallMatches NoLengthError
CHECK_DEADLOCK FALSE
