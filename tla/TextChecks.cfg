CONSTANTS
  Families <- MCFamilies
  Subjects <- MCSubjects
  MaxExact = 4
  MaxClass = 2
SPECIFICATION Spec
INVARIANTS
  CommandsAsMarked
  ReadingsAgree
  ProgramsFound
  FilteredAsMatched
  LinesTraced
  
CHECK_DEADLOCK FALSE
