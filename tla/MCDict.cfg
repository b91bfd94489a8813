CONSTANTS
  Keys = {1, 2, 3, 5, 9}
  Blks = {b1, b2}
  NULL = NULL
  START_COUNT = 2
  MaxSize = 8
SPECIFICATION Spec
INVARIANT TypeOK
INVARIANT WellHashed
INVARIANT CountExact
PROPERTY ImplementsDictAbs
CHECK_DEADLOCK FALSE
