SPECIFICATION FairSpec
CONSTANTS
  Subscribers = {s1, s2}
  Initial = {s1, s2}
  MaxFiles = 1
  Threads = {t1}
  Events <- Departures
  MaxFaults = 2
  None = None
CHECK_DEADLOCK FALSE
PROPERTIES
    GuaranteedDelivery
    ThreadsStop
