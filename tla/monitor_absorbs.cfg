\* No system call fails.
CONSTANTS
  Devnums = {md0}
  Disks = {d1}
  MAX_CONTAINERS = 1
  MaxQueue = 1
  MaxFaults = 0
SPECIFICATION FairSpec
PROPERTIES EveryChangeTold
