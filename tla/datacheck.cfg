SPECIFICATION FairSpec
CONSTANTS
  d1 = d1
  d2 = d2
  f1 = f1
  f2 = f2
  f3 = f3
  None = None
  Disks = {d1, d2}
  Files = {f1, f2, f3}
  DiskOf <- Places
  Registered = {f1, f2}
  Orphans = {f3}
  Threads = {t1, t2}
  Scan = FALSE
  Events = {"rot", "vanish", "archive", "discard", "db", "stop", "crash"}
  MaxEvents = 2
INVARIANTS
    ChecksTrue
PROPERTIES
    DamageDetected
