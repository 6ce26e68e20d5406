SPECIFICATION FairSpec
CONSTANTS
  primary = primary
  secondary = secondary
  retrans = retrans
  Feeds <- MCFeeds
  Recovery <- MCRecovery
  Packets <- MCPackets
  Wire <- MCSameWire
  KeyBase = 4
  Window = 1
  Configs <- MCDualConfigs
INVARIANT ForwardedOnce
CHECK_DEADLOCK FALSE
