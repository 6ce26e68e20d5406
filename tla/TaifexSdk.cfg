SPECIFICATION Spec
CONSTANTS
  Channels = {1, 2}
  MaxSeq = 4
PROPERTY ResetRestartsChannel
