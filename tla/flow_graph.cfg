SPECIFICATION FairSpec
CONSTANTS
  f = f
  g = g
  Routine = {f, g}
  Label = {1, 2, 3}
  Program <- TwoRoutines
  MAXBBINST = 5
  MAXBBLINK = 2
INVARIANTS BlocksCover OneWayInOut EdgesComplete LinksMutual
PROPERTY Completes
CHECK_DEADLOCK FALSE
