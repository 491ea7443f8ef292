SPECIFICATION FairSpec
CONSTANTS
  Proxies = {p1}
  Hooks = {}
  NoAgent = NoAgent
  NoRow = NoRow
  MaxOutput = 1
PROPERTY OutputShown
CHECK_DEADLOCK FALSE
