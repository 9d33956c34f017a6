SPECIFICATION Spec
CONSTANTS
  None = None
  a = a
  b = b
  Files = {f1, f2}
  First = {f1}
  Targets = {a, b}
  Cleaners = {a, b}
  Fetches = 1
  FileLimit = 2
  MaxIter = 2
  Events = {"fail", "cut", "space", "timeout", "offline", "crash", "master", "again"}
  MaxEvents = 2
SYMMETRY Symmetry
CHECK_DEADLOCK FALSE
INVARIANTS
    MirroringSafe
