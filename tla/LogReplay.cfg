SPECIFICATION Spec
CONSTANTS
  Captures <- MCCaptures
  MaxRecords = 2
INVARIANTS
  TypeOK
  AlignedOnRecords
PROPERTIES
  ImplementsMessageStream
  ReplayEnds
CHECK_DEADLOCK FALSE
