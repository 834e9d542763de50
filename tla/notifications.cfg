SPECIFICATION MCSpec

CONSTANTS
  device = device
  phone = phone
  push = push
  sms = sms
  callback = callback
  r1 = r1
  r2 = r2
  Conns <- TheConns
  NoConn = NoConn
  Requests <- Calls
  Keys = {k1}
  Channels <- TheChannels
  QueueOf <- TheQueues
  Workers <- TheWorkers
  Serves <- OneEach
  Callbacks = {callback}
  MaxAttempts = 2
  MaxFaults = 1
  NoKey = NoKey
  NoRequest = NoRequest
  NoDelivery = NoDelivery

INVARIANTS
  AnswersAgree
  ClosedIsEarned
  NoSpareCopies
  DeadLettersUndelivered
  NothingForgotten

PROPERTIES
  EveryDeliveryEnds

CHECK_DEADLOCK FALSE
