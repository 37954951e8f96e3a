\* Files of one to four jobs, with extends: one level deeper than the limit.
CONSTANTS
  MaxExtendsDepth = 3
  MaxRefForms = 3
  Families <- MCFamilies
SPECIFICATION Spec
INVARIANTS
  InheritedAlike
  GuardsAsEvaluated
  RisksReported
CHECK_DEADLOCK FALSE
