CONSTANTS
  Docs <- AllDocs
  MaxComments = 1
  Codes = {0, 1, 2}
  Killed <- NoCode
SPECIFICATION Spec
CHECK_DEADLOCK FALSE
INVARIANTS
  CommentsAreFindings
  NothingLeftBehind
PROPERTY Returns
