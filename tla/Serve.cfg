SPECIFICATION FairSpec
CONSTANTS
  Procs = {p1, p2}
  Conns = {c1, c2}
  Ports = {main, alt}
  DefaultPort = main
  NoPort = NoPort
  NoProc = NoProc
INVARIANTS StoreReadyWhenUsed CleanExitCutsNothing
PROPERTIES StopsWhenTold
CHECK_DEADLOCK FALSE
