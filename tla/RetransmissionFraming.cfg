SPECIFICATION Spec
CONSTANTS
  Items <- MCItems
  MaxItems = 2
INVARIANTS
  TypeOK
  RoundTrip
  NothingWholeWaits
  ThrownAfterHandling
PROPERTY ImplementsMessageStream
CHECK_DEADLOCK FALSE
