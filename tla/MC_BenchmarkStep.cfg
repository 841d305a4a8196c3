CONSTANTS
  Samples = 2
  PipeCapacity = 1

SPECIFICATION Spec

INVARIANTS
  TypeOK
  NoSampleUnreleased
  NobodyLeftBehind
  RowsFaithful
  SuccessIsGenuine

PROPERTIES
  ImplementsBarrier
  StepEnds
  ChildrenEnd
  EndsUnaided
