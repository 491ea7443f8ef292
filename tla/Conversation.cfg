SPECIFICATION Spec
CONSTANTS
  Agents = {a1}
  Events = {e1, e2, e3}
  Kinds = {"session.start", "output.stream", "question.asked"}
  Moments = {0, 1, 2, 4}
  Base = 2
  Digits = 2
  Limit = 2
  MaxListed = 2
  Feeds = 1
  MaxVisits = 2
  NoInfo = NoInfo
SYMMETRY Interchangeable
INVARIANTS NoDuplicates MissingOnlyByCause AnswersNewestInOrder
CHECK_DEADLOCK FALSE
