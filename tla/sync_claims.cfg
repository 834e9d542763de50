SPECIFICATION SteadySpec
CONSTANTS
  i1 = i1
  p1 = p1
  Invoices = {i1}
  Payments = {p1}
  Rows = {r1, r2}
  Workers = {w1, w2}
  MAX_RETRY_COUNT = 2
  BatchLimit = 2
  MaxVersion = 2
  MaxDocs = 1
  InvoiceOf <- OnePayment
  NoEntity = NoEntity
  NoRow = NoRow
  r1 = r1
  r2 = r2
  w1 = w1
  w2 = w2
SYMMETRY Interchangeable
INVARIANTS
  ExclusiveClaim
  OneActiveRow
CHECK_DEADLOCK FALSE
