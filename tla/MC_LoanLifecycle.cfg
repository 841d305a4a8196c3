SPECIFICATION Spec
CONSTANTS
  Handles = {h1}
  Messages = {m1, m2}
  Blocks = {b1, b2}
  Base = Base
  None = None
  Constraints <- MCConstraints
  Chars = {1, 2, 3}
  Capacity = 12
  NumberMax = 12
SYMMETRY Symmetry
INVARIANTS
  TypeOK
  BooksAgree
  SentAsAssigned
  AgreedIsAccepted
  ValidatedGoesThrough
