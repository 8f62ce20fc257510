SPECIFICATION Spec
CONSTANTS
  d1 = d1
  s1 = s1
  s2 = s2
  c1 = c1
  NoDelivery = NoDelivery
  Deliveries = {d1}
  Sweeps = {s1, s2}
  Clients = {}
  MaxRetries = 1
  MaxCalls = 0
  MaxAborts = 0
PROPERTIES
  NoRedelivery
CHECK_DEADLOCK FALSE
