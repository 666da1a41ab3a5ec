SPECIFICATION Spec
CONSTANTS
  MaxVersion = 2
  MaxTime = 1
  AfterClose = {1}
  Process = {p1, p2}
  Writers = {author}
  Approvers = {a1, a2}
  Config = {c1, c2}
  Rule <- MCRule
  CategoryOf <- MCCategoryOf
  RuleSets <- FullSet
  Correlation = {k1, k2}
  None = None
SYMMETRY Symmetry
INVARIANTS TypeOK EvidenceMatchesConfig LedgerAgrees AuditNamesBooking DecisionIsFinal
PROPERTIES NoActivationGap LifecycleSpec
CHECK_DEADLOCK FALSE
