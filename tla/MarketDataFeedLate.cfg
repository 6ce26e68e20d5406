SPECIFICATION FeedSpec
CONSTANTS
  Quotes <- MCQuotes
  Sizes = {0, 1, 2}
  MaxSeq = 4
  MaxEntries = 3
  Depth = 2
  MaxNet = 1
  MaxLate = 1
PROPERTY LateUpdateIgnored
CHECK_DEADLOCK FALSE
