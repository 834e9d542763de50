SPECIFICATION FairSpec
CONSTANTS
  c1 = c1
  c2 = c2
  Conns <- TheConns
  Invoices = {i1}
  Intents = {k1}
  Total = 1
  NoConn = NoConn
  NoInvoice = NoInvoice
  NoIntent = NoIntent
INVARIANTS
  TypeOK
  HandledOnce
  CreditedWasCollected
  ProcessedIsApplied
PROPERTIES
  NoChargeForgotten
CHECK_DEADLOCK FALSE
