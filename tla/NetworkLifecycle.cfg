SPECIFICATION FairSpec
CONSTANTS
  A = A
  B = B
  Receivers = {"primary", "secondary"}
  Groups <- MCGroups
  MaxSubs = 1
  Configurations <- MCConfigurations
INVARIANTS
  TypeOK
  NothingLeftBehind
  ThreadsHaveSockets
  StartedHears
  NoSessionNothingRuns
  SessionHears
  FeedsHeard
  ConfiguredFeedsOnly
PROPERTIES StopEnds JoinedBeforeGone
