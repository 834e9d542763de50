SPECIFICATION Spec
CONSTANTS
  Conns = {c1, c2}
  Invoices = {i1, i2}
  Lines = {l1}
  Payments = {p1}
  Jobs = {}
  Amounts = {1}
  RecordedAs = {"cleared"}
  MaxNumber = 2
  NoConn = NoConn
  NoInvoice = NoInvoice
  NoItem = NoItem
  NoJob = NoJob
  c1 = c1
  c2 = c2
  i1 = i1
  i2 = i2
  l1 = l1
  p1 = p1
SYMMETRY Interchangeable
INVARIANTS
  NumbersUnique
  DeadlocksAreReviews
CHECK_DEADLOCK FALSE
