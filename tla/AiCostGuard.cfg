SPECIFICATION FairSpec
CONSTANTS
  a1 = a1
  a2 = a2
  r1 = r1
  None = None
  Analyst = {a1, a2}
  Reasoner = {r1}
  Window = {"day", "month"}
  Limit <- MCLimit
  OwnLimit = 1
  Reservation = 2
  Failing = {"read", "parse", "save", "log"}
  MayCrash = TRUE
INVARIANTS TypeOK ReservationsMatch OvershootBounded OwnCapBounded
PROPERTIES CallsEnd
