SPECIFICATION Spec
CONSTANTS
  Name = {a, b}
  MainFunc = _start
  ScalarType = {"INT"}
  ArrLen = {}
  Bucket = {0}
  Hash <- OneBucket
  MAXSYMENT = 7
  MaxParam = 1
  DeclForm = {"const", "var", "proc", "fun"}
  UseForm = {"assign", "target", "factor", "PROC", "FUNCTION"}
  ArgForm = {"neg"}
  MaxTab = 3
  MaxGen = 0
SYMMETRY NamesAlike
INVARIANT TypeOK
PROPERTY LexicallyScoped
CHECK_DEADLOCK FALSE
