SPECIFICATION FairSpec
CONSTANTS
  requester = requester
  Requesters = {}
  Backup = FALSE
  MaxConns = 2
  MaxSent = 1
  MaxAsked = 1
INVARIANT StopDisconnects
CHECK_DEADLOCK FALSE
