SPECIFICATION Spec
CONSTANTS
  p1 = p1
  p2 = p2
  c1 = c1
  q1 = q1
  r1 = r1
  daily = daily
  intraday = intraday
  Proc = {p1, p2}
  Command = {c1}
  Request = {q1}
  Release = {r1}
  Runner = {daily, intraday}
  Batch = 2
  MaxFailures = 1
  MaxRuns = 2
SYMMETRY Symmetry
INVARIANTS TypeOK HaltHolds LedgerTruthful LateEntriesBounded
