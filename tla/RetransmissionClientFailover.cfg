SPECIFICATION FairSpec
CONSTANTS
  requester = requester
  Requesters = {}
  Backup = TRUE
  MaxConns = 2
  MaxSent = 1
  MaxAsked = 1
INVARIANT FailoverSurvives
CHECK_DEADLOCK FALSE
