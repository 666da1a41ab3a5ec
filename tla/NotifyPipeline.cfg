SPECIFICATION Spec
CONSTANTS
  u1 = u1
  u2 = u2
  s1 = s1
  s2 = s2
  a1 = a1
  d1 = d1
  d2 = d2
  delta = delta
  full = full
  User = {u1, u2}
  Signal = {s1, s2}
  Alert = {a1}
  Disclosure = {d1, d2}
  Poller = {delta, full}
  Worker = worker
  Audience <- AudienceDef
  Reach <- ReachDef
  Cap = 1
  Attempts = 2
  NoPair = NoPair
  MaxFaults = 1
SYMMETRY Symmetry
INVARIANTS CompletedReachesAll OnePushPerRow CapBounded LedgerCoversPushes
CHECK_DEADLOCK FALSE
