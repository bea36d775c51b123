\* Two clients with two threads each share the semaphore.
CONSTANTS
  Clients = {c1, c2}
  Threads = {t1, t2}
  Objs = {e1, e2, e3, e4}
  Posters = {p1, p2}
  MaxSem = 3
SYMMETRY Symmetry
SPECIFICATION Spec
INVARIANTS SemvalBounded WaiterKeepsEvent SemaphoreHasHolder
CHECK_DEADLOCK FALSE
