SPECIFICATION Spec
CONSTANTS
  Chans = {c1, c2, c3}
  Agents = {a1, a2}
  Calls = {m1, m2, m3}
  Cap = 1
  NoChan = NoChan
SYMMETRY Interchangeable
INVARIANTS TypeOK NoPanic Accounted OrderKept
CHECK_DEADLOCK FALSE
