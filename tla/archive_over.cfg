SPECIFICATION Spec
CONSTANTS
  Requests = {r1, r2, r3}
  Files = {f1}
  Sets = {s1, s2}
  Replication = TRUE
  Overwrites = TRUE
  MaxVersion = 2
  Faults <- HiddenRows
  MaxFaults = 1
  Janitor = Janitor
  None = None
CHECK_DEADLOCK FALSE
SYMMETRY Symmetry
INVARIANTS
    OverwriteSafe
