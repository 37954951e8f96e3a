CONSTANTS
  MaxExpandedNodes = 24
  MaxScriptNesting = 3
  Files <- AllFiles
SPECIFICATION Spec
CHECK_DEADLOCK FALSE
INVARIANTS
  LoadedAsWritten
  ReferencesInlined
  AccountedFor
  CommandsAsRun
