\* One thread: handles of a closed session name other devices later.
SPECIFICATION Spec
CONSTANTS
  Threads = {t1}
  NumDevices = 2
  Slots = {s1, s2}
  MaxHandle = 6
  MaxOrphans = 0
SYMMETRY Symmetry
INVARIANTS OperationHitsItsTarget
