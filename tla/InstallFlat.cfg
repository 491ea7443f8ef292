SPECIFICATION ClaudeSpec
CONSTANTS
  Installs = {i1}
  Paths = {p1}
  HookNames = {"Stop", "Notification"}
  Malformed = Malformed
  NoPath = NoPath
  MaxEdits = 0
  MaxLines = 0
INVARIANTS OneCommandOfAwayteam
CHECK_DEADLOCK FALSE
