SPECIFICATION Spec
CONSTANTS
  Requests = {r1, r2}
  Questions = {r1, r2}
  Agents = {a1}
  Statuses = {"active", "done"}
  NoRow = NoRow
  Cap = 1
  MaxConns = 2
SYMMETRY Interchangeable
INVARIANTS TypeOK BoardRightUnlessRaced CardsFromStoredEvents
CHECK_DEADLOCK FALSE
