\* Two threads, two devices, two Session objects; handles up to 3.
SPECIFICATION Spec
CONSTANTS
  Threads = {t1, t2}
  NumDevices = 2
  Slots = {s1, s2}
  MaxHandle = 3
  MaxOrphans = 1
SYMMETRY Symmetry
INVARIANTS TypeOK HandlesUnique NoStaleObject ReproducibleHandleFound HandlesAssigned
PROPERTIES SnapshotStable
