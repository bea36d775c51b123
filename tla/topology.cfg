\* One device of thirteen absent at first, two plugged or unplugged meanwhile.
CONSTANTS
  ahci = ahci  isci = isci  vmd = vmd
  d1 = d1  d2 = d2  d3 = d3  d4 = d4  d5 = d5  d6 = d6  d7 = d7
  s1 = s1  s2 = s2  s3 = s3  e1 = e1  e2 = e2  m1 = m1
  None = None
  Ahci = {ahci}  Isci = {isci}  Vmd = {vmd}
  Disks = {d1, d2, d3, d4, d5, d6, d7}
  Ses = {s1, s2, s3}
  Expanders = {e1, e2}
  Multipliers = {m1}
  At <- MCAt
  Order <- MCOrder
  Lanes = 2
  MaxAbsent = 1
  MaxChanges = 2
SPECIFICATION Spec
INVARIANTS TypeOK StableReported OnceEach ScopesAgree ControllerAgrees EnclosuresAgree LinksRegistered FailsOnlyOnUnplug
CHECK_DEADLOCK FALSE
