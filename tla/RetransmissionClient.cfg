SPECIFICATION FairSpec
CONSTANTS
  requester = requester
  Requesters <- MCRequesters
  Backup = FALSE
  MaxConns = 2
  MaxSent = 1
  MaxAsked = 1
INVARIANTS TypeOK WelcomeIsNoticed NumberedFromLogin
PROPERTIES StopReturns LoginAgain
CHECK_DEADLOCK FALSE
