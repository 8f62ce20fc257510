SPECIFICATION FairSpec
CONSTANTS
  d1 = d1
  s1 = s1
  s2 = s2
  c1 = c1
  NoDelivery = NoDelivery
  Deliveries = {d1}
  Sweeps = {s1, s2}
  Clients = {c1}
  MaxRetries = 1
  MaxCalls = 1
  MaxAborts = 1
INVARIANTS
  IInv
  OneSendAtATime
  GivenUpLate
PROPERTIES
  EventuallySettled
CHECK_DEADLOCK FALSE
