\* One thread: an operation with a handle of a session that is still open.
SPECIFICATION Spec
CONSTANTS
  Threads = {t1}
  NumDevices = 2
  Slots = {s1, s2}
  MaxHandle = 6
  MaxOrphans = 0
SYMMETRY Symmetry
INVARIANTS HandlesValidAcrossSessions
