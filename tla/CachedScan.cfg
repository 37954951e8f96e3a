SPECIFICATION Spec
CONSTANTS
  ci = ci
  tpl = tpl
  Proc = {p1, p2}
  Roots = {ci, tpl}
  Source = {ci, tpl}
  FilesOf <- TwoCycles
  Version = {v1, v2}
  Options = {o1, o2}
  None = None
  EditAnytime = FALSE
  MaxScans = 2
  MaxDay = 1
SYMMETRY Symmetry
CHECK_DEADLOCK FALSE
INVARIANTS
  HitIsTheScan
