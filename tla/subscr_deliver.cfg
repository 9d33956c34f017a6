SPECIFICATION Spec
CONSTANTS
  Subscribers = {s1,s2,s3}
  Initial = {s1,s2}
  MaxFiles = 1
  Threads = {t1}
  Events <- Deliveries
  MaxFaults = 2
  None = None
CHECK_DEADLOCK FALSE
INVARIANTS
    DeliveriesScheduled
PROPERTIES
    DeliveredFinal
