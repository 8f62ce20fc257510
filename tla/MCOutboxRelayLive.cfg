SPECIFICATION FairSpec
CONSTANTS
  a1 = a1
  a2 = a2
  c1 = c1
  c2 = c2
  r1 = r1
  r2 = r2
  NoEvent = NoEvent
  RelayConsumer = RelayConsumer
  Events = {1}
  Aggregates = {a1}
  Consumers = {c1, c2}
  Relays = {r1, r2}
  AggregateOf <- OneStream
  Handles <- MCHandles
  BatchSize = 1
  MaxPublishAttempts = 3
  MaxCrashes = 2
  MaxReplays = 0
  ReplayModes <- NoModes
PROPERTIES
  DeliverySafe
  EventuallyPublished
  DeliverySettled
CHECK_DEADLOCK FALSE
