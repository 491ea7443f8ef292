SPECIFICATION Spec
CONSTANTS
  Proxies = {p1, p2}
  Hooks = {h1}
  NoAgent = NoAgent
  NoRow = NoRow
  MaxOutput = 0
INVARIANT HooksCorrelate
CHECK_DEADLOCK FALSE
