SPECIFICATION Spec
CONSTANTS
  Trade = {t1}
  Caller = {r1, r2, r3}
  MaxShares = 3
SYMMETRY Symmetry
INVARIANTS TypeOK FillsTellStatus
PROPERTIES PlanFollowsOrder BookSpec
CHECK_DEADLOCK FALSE
