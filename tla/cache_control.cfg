SPECIFICATION FairSpec
CONSTANTS
  None = None
  Copies = {c1, c2}
  PlugIns = {p1}
  MaxCacheSize = 3
  FileSize = 2
  MaxFiles = 1
  Expiry = TRUE
  CheckCanBeDeleted = TRUE
  MaxArchived = 2
  Events = {"crash", "db", "stop", "readd", "cachedel", "release", "expire"}
  MaxQueue = 3
  MaxEvents = 2
CHECK_DEADLOCK FALSE
INVARIANTS
    CacheConsistent
PROPERTIES
    OnlyScheduledRemoved
    CacheServed
