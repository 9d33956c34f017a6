SPECIFICATION Spec
CONSTANTS
  Subscribers = {s1}
  Initial = {s1}
  MaxFiles = 2
  Threads = {t1,t2}
  Events <- Restarts
  MaxFaults = 2
  None = None
CHECK_DEADLOCK FALSE
SYMMETRY ThreadSymmetry
INVARIANTS
    RecordsTrue
