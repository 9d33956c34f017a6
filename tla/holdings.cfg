SPECIFICATION Spec
CONSTANTS
  d1 = d1
  d2 = d2
  d3 = d3
  d4 = d4
  r1 = r1
  r2 = r2
  None = None
  Disks = {d1, d2, d3, d4}
  LocalDisks = {d1, d2, d4}
  Named = {d1, d2}
  Versions = {1}
  Asked = {1}
  Held <- HeldCopies
  Reqs = {r1, r2}
  Commands = {"REMFILE", "REMDISK", "DISCARD", "CLONE", "CHECKFILE", "RETRIEVE"}
  MaxRequests = 2
  MinCopies = 3
  CloneAttempts = 2
  Events = {"rot", "vanish", "db", "fetch", "perm", "crash"}
  MaxEvents = 1
SYMMETRY Symmetry
CHECK_DEADLOCK FALSE
INVARIANTS
    HoldingsTrue
PROPERTIES
    CopiesKept
