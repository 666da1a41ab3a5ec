\* Runners one after the other, cut off up to twice, two signals of one stock.
SPECIFICATION FairSpec
CONSTANTS
  s1 = s1
  s2 = s2
  Signal = {s1, s2}
  StockOf <- OneStock
  HasThesis = {s1}
  Carry = 1
  MaxDay = 4
  MaxTrades = 2
  MaxShares = 1
  MaxFailures = 2
  Overlap = FALSE
INVARIANTS LedgersAgree OneEntryPerStock OrphansExplained
PROPERTIES EveryReservationSettles
CHECK_DEADLOCK FALSE
