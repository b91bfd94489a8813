CONSTANTS
  Base = 3
  Top = 40
  Frames = {1, 3, 8}
  TestFrame = 8
  Incrs = {2, 9}
  Depths = {7, 20}
  InitDepths = {12}
  Callees = {4, 8}
  Agains = {3, 7}
  TickDepth = 5
  GuardGap = 4
  GuardSize = 2
SPECIFICATION Spec
INVARIANT StackSafe
PROPERTY OverrunReported
PROPERTY TestsEnd
CHECK_DEADLOCK FALSE
