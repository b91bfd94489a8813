CONSTANTS
  Base = 8
  CHUNKSIZE = 24
  StackTops = {16, 48, 96}
  Sizes = {4, 12, 24}
  Marks = {1, 16}
  Garbage = {0, 25}
VIEW LiveView
SPECIFICATION Spec
INVARIANT TypeOK
INVARIANT WellTagged
INVARIANT Coalesced
INVARIANT HeldExact
INVARIANT DataKept
PROPERTY ImplementsMalloc
CHECK_DEADLOCK FALSE
