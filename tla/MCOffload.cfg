CONSTANTS
  Node = {n1, n2, n3, n4, n5, n6, n7}
  Start = start
  Base = 8
  DSIZE = 8
  SIZE_CLASSES = 4
  LINEAR = 2
  SEARCH_OPT = "SEG_FIT"
  WSIZE = 4
  CHUNKSIZE = 16
  Sizes = {4, 13, 17}
  StackTops = {40, 56}
  GuardGap = 8
  GuardSize = 8
  MaxInFlight = 3
VIEW BlockView
SPECIFICATION Spec
INVARIANT TypeOK
INVARIANT BreaksAgree
INVARIANT HeldBacked
INVARIANT NoLeak
INVARIANT OneReply
PROPERTY ShrinksInPlace
PROPERTY ImplementsMalloc
CHECK_DEADLOCK FALSE
