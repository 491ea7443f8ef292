SPECIFICATION FairSpec
CONSTANTS
  Ids = {i1, i2}
  Agents = {a1, a2}
  Bodies = {active, done}
  Requests = {r1, r2, r3}
  NoRow = NoRow
  Nobody = Nobody
INVARIANTS TypeOK TxInv RowIsLatest SavedOnce
PROPERTIES ImplementsEventLog SaveReturns
CHECK_DEADLOCK FALSE
