CONSTANTS
  CaseCount = 2
  Steps = 2
  Takes = {t1, t2}
  Absent = Absent
  MaxMishaps = 3

SPECIFICATION Spec

INVARIANTS
  VisibleResultsComplete

PROPERTIES
  ImplementsLedger
  AnnouncedTruly
  EveryCaseDone
