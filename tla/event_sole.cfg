\* One client with one thread, as SsiGetEventHandle's contract supposes;
\* four ssimsg at once.
CONSTANTS
  Clients = {c1}
  Threads = {t1}
  Objs = {e1, e2}
  Posters = {p1, p2, p3, p4}
  MaxSem = 2
SPECIFICATION FairSpec
INVARIANTS TypeOK NoLostEvent
PROPERTIES EventDelivered ServiceProvided
CHECK_DEADLOCK FALSE
