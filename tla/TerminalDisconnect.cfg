SPECIFICATION FairSpec
CONSTANTS
  Room = 1
  MaxInput = 2
PROPERTY DisconnectEnds
CHECK_DEADLOCK FALSE
