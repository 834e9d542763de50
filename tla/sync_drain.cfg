SPECIFICATION DrainSpec
CONSTANTS
  i1 = i1
  p1 = p1
  Invoices = {i1, i2}
  Payments = {}
  Rows = {r1, r2}
  Workers = {w1, w2}
  MAX_RETRY_COUNT = 2
  BatchLimit = 2
  MaxVersion = 1
  MaxDocs = 2
  InvoiceOf <- NoPayments
  NoEntity = NoEntity
  NoRow = NoRow
  i2 = i2
  r1 = r1
  r2 = r2
  w1 = w1
  w2 = w2
PROPERTIES
  EveryRowSettles
CHECK_DEADLOCK FALSE
