\* Two runs at once, over targets some of which fail or were included before.
CONSTANTS
  a = a
  b = b
  c = c
  d = d
  gl = gl
  whole = whole
  None = None
  Proc = {p1, p2}
  File <- MCFile
  Rule <- MCRule
  RootRule = {whole}
  Failing = {gl, whole}
  Unwritable = {}
  Pipeline <- MCPipeline
  Uses <- TemplateUses
  Problem <- RaceProblems
  Comment <- RaceComments
  Starting <- RaceProblems
  Baselines <- RaceBaselines
  TargetLists <- RaceTargets
  RuleSets <- RaceRules
  Modes = {"scan", "audit", "generate"}
  MaxDay = 1
  MaxDated = 1
  MaxEdits = 0
  MaxRuns = 2
SPECIFICATION Spec
SYMMETRY Interchangeable
INVARIANTS CleanMeansChecked CommentSilences WholePipelineOnce
PROPERTY BaselineKept
CHECK_DEADLOCK FALSE
