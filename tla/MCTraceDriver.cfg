CONSTANTS
  Ids = {id1, id2, id3}
  Sizes = {2, 7}
  MaxOps = 5
  Addrs = {4, 8, 12, 14}
  HeapLo = 8
  HeapHi = 18
  ALIGNMENT = 4
VIEW Ahead
SYMMETRY IdPermutations
SPECIFICATION Spec
INVARIANT NoFalseAlarm
INVARIANT MissesOnlyContainment
INVARIANT BooksExact
CHECK_DEADLOCK FALSE
