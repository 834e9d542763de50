SPECIFICATION FairSpec
CONSTANTS
  api1 = api1
  api2 = api2
  Endpoints = {e1}
  Deliveries = {d1}
  Instances <- TheInstances
  Operators = {o1}
  MaxAttempts = 5
  NoEndpoint = NoEndpoint
  NoDelivery = NoDelivery
INVARIANTS
  LogMatchesConsumer
PROPERTIES
  EveryDeliverySettles
CHECK_DEADLOCK FALSE
