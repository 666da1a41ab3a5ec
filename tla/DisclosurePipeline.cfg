SPECIFICATION FairSpec
CONSTANTS
  d1 = d1
  r1 = r1
  r2 = r2
  o1 = o1
  s1 = s1
  Doc = {d1}
  Backfill = {d1}
  Retrier = {r1, r2}
  Request = {o1}
  Sweeper = {s1}
  NoDoc = NoDoc
  MaxRetry = 2
  MaxManual = 1
  MaxFaults = 2
INVARIANTS OneParser ParsersBounded GivenUpForCause
PROPERTIES NeverBackToTitle 
CHECK_DEADLOCK FALSE
