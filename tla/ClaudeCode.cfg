SPECIFICATION ClaudeSpec
CONSTANTS
  Installs = {i1, i2}
  Paths = {p1, p2}
  HookNames = {"Stop", "Notification"}
  Malformed = Malformed
  NoPath = NoPath
  MaxEdits = 1
  MaxLines = 2
INVARIANTS OneCommandEach InstallAddsOnly AnswerPostedOnce
SYMMETRY Interchangeable
CHECK_DEADLOCK FALSE
