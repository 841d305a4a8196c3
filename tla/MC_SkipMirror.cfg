SPECIFICATION Spec
CONSTANTS
  SizeMax = 1000000
  NumberMax = 6
  Capacities = {3, 4, 13}
  Starts = {4, 30}
  Sizes = {1, 2, 8}
  Chars = {0, 2}
  Counts = {0, 2}
  MaxDepth = 2
INVARIANTS
  Mirrors
  StoresNoMore
  ReaderFollows
