CONSTANTS
  Node = {n1, n2, n3, n4, n5}
  Start = start
  Base = 8
  DSIZE = 8
  SIZE_CLASSES = 4
  LINEAR = 2
  SEARCH_OPT = "SEG_FIT"
  WSIZE = 4
  CHUNKSIZE = 16
  Sizes = {4, 17}
  StackTops = {24, 40}
  GuardGap = 8
  GuardSize = 8
  MaxInFlight = 2
SPECIFICATION Spec
PROPERTY CallReturns
PROPERTY FinishEnds
CHECK_DEADLOCK FALSE
