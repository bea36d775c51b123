\* Three processes, three daemons and one fault.
CONSTANTS
  Clients = {c1, c2, c3}
  MaxDaemons = 3
  MaxFaults = 1
SPECIFICATION Spec
INVARIANTS TypeOK HolderWatched NoDaemonLeft
