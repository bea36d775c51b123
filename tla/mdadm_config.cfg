\* Two processes, and three faults or interferences.
CONSTANTS
  Clients = {c1, c2}
  MaxFaults = 3
SPECIFICATION FairSpec
INVARIANTS TypeOK UserConfigKept
PROPERTIES MonitorRestored
