SPECIFICATION Spec
CONSTANTS
  p1 = p1
  p2 = p2
  d1 = d1
  d2 = d2
  d3 = d3
  d4 = d4
  ds = ds
  v1 = v1
  v2 = v2
  Procs = {p1, p2}
  Disks = {d1, d2, d3, d4, ds}
  SystemDisks = {ds}
  a1 = a1
  a2 = a2
  Arrays = {a1, a2}
  Vols = {v1, v2}
  NoArray = NoArray
  First = a1
  Built = {d1, d2}
  MaxTries = 4
  MaxCalls = 2
  MaxFaults = 1
SYMMETRY Symmetry
INVARIANTS
  TypeOK
  SystemDisksUntouched
  DownIsExplained
PROPERTIES
  VisibleVolumesSurvive
  DeletedIsGone
  FailureLeavesNoTrace
  OwnDisksTakenBack
  ModifyOkMeansDone
CHECK_DEADLOCK FALSE
