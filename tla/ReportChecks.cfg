SPECIFICATION Spec
CONSTANTS
  Rules <- MCRules
  Families <- MCFamilies
  RepoFiles <- MCRepoFiles
INVARIANTS
  SettingsHold
  ReportedAsFound
  ReportCloses
  NothingLeaks
CHECK_DEADLOCK FALSE
