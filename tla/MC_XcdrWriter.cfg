SPECIFICATION Spec
CONSTANTS
  SizeMax = 1000000
  Capacities = {0, 3, 9, 14}
  Starts = {0, 5, 30}
  Sizes = {1, 2, 8}
  Chars = {0, 2}
  Counts = {0, 2}
  SkipCounts = {0, 2, 999983}
  MaxDepth = 2
  MaxGrowth = 20
INVARIANTS
  TypeOK
  StaysInSpan
  NoGapBehindCursor
  ContextsMatchClient
PROPERTY
  ErrorFreezesOutput
