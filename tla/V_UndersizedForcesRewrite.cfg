CONSTANTS
  SizeMax = 100000
  NumberMax = 8
  Members <- FewMembers
  MaxMembers = 2
  Noise = {0}

SPECIFICATION Spec

INVARIANT UndersizedForcesRewrite

CHECK_DEADLOCK FALSE
