SPECIFICATION Spec
CONSTANTS
  root = root
  a = a
  b = b
  c = c
  Root = root
  Doc = {root, a, b, c}
  Path <- Paths
  Value = {root, a, b, c}
  Include = "include"
  Hidden = {".t"}
  Reserved = {"default", "include"}
  Keyword = {"default"}
  Script = "script"
  Room = 16
  Pipelines <- AllPipelines
CHECK_DEADLOCK FALSE
INVARIANTS
  LastInclusionCounts
  AsGitLabMerges
  OneFileReports
  OriginKnown
