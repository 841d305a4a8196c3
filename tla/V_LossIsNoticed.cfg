SPECIFICATION Spec
CONSTANTS
  SizeMax = 1000000
  NumberMax = 4
  Members <- FewMembers
  MaxMembers = 2
  Slack = {0, 16}
  Noise = {0}
INVARIANT
  LossIsNoticed
CHECK_DEADLOCK FALSE
