SPECIFICATION Spec
CONSTANTS
  MaxVersion = 1
  MaxTime = 1
  AfterClose = {1}
  Process = {p1, p2}
  Writers = {author}
  Approvers = {approver}
  Config = {c1, c2}
  Rule <- MCRule
  CategoryOf <- MCCategoryOf
  RuleSets <- FullAndPartial
  Correlation = {k1}
  None = None
PROPERTY RulesChangeOnlyInDraft
CHECK_DEADLOCK FALSE
