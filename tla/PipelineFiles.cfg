SPECIFICATION Spec
CONSTANTS
  top = top
  a = a
  b = b
  gone = gone
  far = far
  old = old
  Root = top
  File = {top, a, b, gone, far, old}
  Outside = {far}
  Excluded = {old}
  MaxIncludes = 2
  Trees <- AllTrees
CHECK_DEADLOCK FALSE
INVARIANTS
  OncePerPipeline
  Justified
  Complete
  IncludesAsWritten
  NoFalseError
  UnreadReportedOnce
PROPERTIES
  Termination
