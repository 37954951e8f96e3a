\* One run at a time: every order of scans, baselines and diffs, errors, edits and dates.
CONSTANTS
  a = a
  b = b
  c = c
  d = d
  gl = gl
  whole = whole
  None = None
  Proc = {p1}
  File <- MCFile
  Rule <- MCRule
  RootRule = {whole}
  Failing = {gl}
  Unwritable = {c}
  Pipeline <- MCPipeline
  Uses <- TemplateUses
  Problem <- FlowProblems
  Comment <- FlowComments
  Starting <- FlowStart
  Baselines <- FlowBaselines
  TargetLists <- FlowTargets
  RuleSets <- OneRuleSet
  Modes = {"scan", "generate", "newonly"}
  MaxDay = 1
  MaxDated = 0
  MaxEdits = 1
  MaxRuns = 3
SPECIFICATION Spec
INVARIANTS AcceptedStaysQuiet DiffReportsNew
CHECK_DEADLOCK FALSE
