CONSTANTS
  Node = {n1, n2, n3, n4, n5, n6, n7, n8, n9, n10}
  Start = start
  Base = 8
  DSIZE = 8
  SIZE_CLASSES = 4
  LINEAR = 2
  SEARCH_OPT = "SEG_FIT"
  MallocSizes = {0, 8, 9, 17}
  ReallocSizes = {1, 16, 33}
  SbrkSizes = {16, 40}
  StrayPtrs = {0}
  MaxHeap = 72
VIEW BlockView
SPECIFICATION Spec
INVARIANT TypeOK
INVARIANT IInv
INVARIANT WellTiled
INVARIANT ClassExact
INVARIANT NoCrash
INVARIANT FirstFitLowest
INVARIANT BestFitSmallest
INVARIANT SegFitComplete
PROPERTY ImplementsHeapAbs
CHECK_DEADLOCK FALSE
