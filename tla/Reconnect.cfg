SPECIFICATION FairConnSpec
CONSTANTS
  Sockets = {s1, s2, s3}
  Timers = {t1, t2, t3}
  None = None
  MinBackoff = 1
  MaxBackoff = 3
  MaxSetups = 3
INVARIANTS ConnTypeOK OneChainUnlessRevived
PROPERTIES ComesBack
CHECK_DEADLOCK FALSE
