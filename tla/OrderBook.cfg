SPECIFICATION Spec
CONSTANTS
  Quotes <- MCQuotes
  Sizes = {0, 1}
  MaxSeq = 2
  MaxEntries = 2
INVARIANTS TypeOK NoEmptyLevel SnapshotLeavesNoResidue NoDerivedInAuction SeqIsHighWater
