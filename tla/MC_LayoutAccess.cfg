SPECIFICATION Spec
CONSTANTS
  Sizes = {8}
  Chars = {2}
  Counts = {0, 2}
  MaxCalls = 5
  MaxAssigns = 2
INVARIANTS
  NeverRefused
  KeepsApart
CHECK_DEADLOCK FALSE
