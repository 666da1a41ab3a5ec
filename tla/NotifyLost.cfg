SPECIFICATION FairSpec
CONSTANTS
  u1 = u1
  u2 = u2
  s1 = s1
  s2 = s2
  a1 = a1
  d1 = d1
  d2 = d2
  delta = delta
  full = full
  User = {u1, u2}
  Signal = {}
  Alert = {}
  Disclosure = {d1}
  Poller = {full}
  Worker = worker
  Audience <- AudienceDef
  Reach <- ReachDef
  Cap = 1
  Attempts = 2
  NoPair = NoPair
  MaxFaults = 1
PROPERTIES SavedIsNotified
CHECK_DEADLOCK FALSE
