\* Two containers, one of which does not fit the buffer; one fault.
CONSTANTS
  Devnums = {md0, md1}
  Disks = {d1}
  MAX_CONTAINERS = 1
  MaxQueue = 2
  MaxFaults = 1
SPECIFICATION FairSpec
INVARIANTS TypeOK ChangeNoticeable LinkNoticeable
PROPERTIES ChangeTold
