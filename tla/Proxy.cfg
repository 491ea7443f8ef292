SPECIFICATION FairSpec
CONSTANTS
  Proxies = {p1}
  Hooks = {h1}
  NoAgent = NoAgent
  NoRow = NoRow
  MaxOutput = 2
INVARIANTS TypeOK OwnEventsInOrder DoneUnlessStraggler NothingLeftBehind ReturnReportsEnd
PROPERTIES ProxyFinishes OutputShownWhileAnswered
CHECK_DEADLOCK FALSE
