SPECIFICATION Spec
CONSTANTS
  SizeMax = 1000000
  NumberMax = 4
  Members <- MCMembers
  MaxMembers = 3
  Slack = {0, 16}
  Noise = {0, 3}
INVARIANTS
  RoundTrip
  ReaderStaysInBuffer
  FlatLossIsNoticed
  FlatSizeSuffices
CHECK_DEADLOCK FALSE
