CONSTANTS
  SizeMax = 100000
  NumberMax = 60
  Members <- MCMembers
  MaxMembers = 3
  Noise = {0, 1, 60}

SPECIFICATION Spec

INVARIANTS
  TypeOK
  Delivers
  RewriteSparesTheRest
  CompactsAsSerialized

CHECK_DEADLOCK FALSE
