SPECIFICATION Spec
CONSTANTS
  e1 = e1
  e2 = e2
  Entry = {e1, e2}
  NoEntry = NoEntry
  Capital = 4
  Price = {1, 2}
  Fee = {1}
  MaxShares = 3
  MaxTrouble = 1
  MaxResets = 1
SYMMETRY Symmetry
INVARIANTS SharesConserved SalesBacked CashSound
PROPERTIES ResultIsFinal
