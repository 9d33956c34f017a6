SPECIFICATION FairSpec
CONSTANTS
  Requests = {r1, r2}
  Files = {f1}
  Sets = {s1}
  Replication = TRUE
  Overwrites = FALSE
  MaxVersion = 3
  Faults <- AllFaults
  MaxFaults = 2
  Janitor = Janitor
  None = None
CHECK_DEADLOCK FALSE
INVARIANTS
    ArchiveSafe
    CountBounded
PROPERTIES
    BufferEmptied
    KeepsContract
