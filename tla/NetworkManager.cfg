SPECIFICATION FairSpec
CONSTANTS
  primary = primary
  secondary = secondary
  retrans = retrans
  Feeds <- MCFeeds
  Recovery <- MCRecovery
  Packets <- MCPackets
  Wire <- MCWire
  KeyBase = 4
  Window = 1
  Configs <- MCConfigs
INVARIANTS TypeOK LogIsBounded DiscardedIsCarried NoHiddenGap
PROPERTY AcceptedReachesSdk
CHECK_DEADLOCK FALSE
