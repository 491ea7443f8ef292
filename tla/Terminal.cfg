SPECIFICATION FairSpec
CONSTANTS
  Room = 2
  MaxInput = 4
INVARIANTS HupBeforeReap ReturnedMeansReleased
PROPERTIES DisconnectEndsIfRead ExitEnds
CHECK_DEADLOCK FALSE
