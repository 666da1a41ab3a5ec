\* Overlapping runners, one of which may be cut off, orders of one or two shares,
\* for a signal with a thesis and one without.
SPECIFICATION Spec
CONSTANTS
  s1 = s1
  s2 = s2
  Signal = {s1, s2}
  StockOf <- OneStock
  HasThesis = {s1}
  Carry = 1
  MaxDay = 3
  MaxTrades = 1
  MaxShares = 2
  MaxFailures = 1
  Overlap = TRUE
INVARIANTS TypeOK ExecutedOnce
CHECK_DEADLOCK FALSE
