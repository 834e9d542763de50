SPECIFICATION Spec
CONSTANTS
  Conns = {c1}
  Invoices = {i1, i2}
  Lines = {l1, l2}
  Payments = {p1, p2}
  Jobs = {j1}
  Amounts = {1}
  RecordedAs = {"pending", "cleared"}
  MaxNumber = 3
  NoConn = NoConn
  NoInvoice = NoInvoice
  NoItem = NoItem
  NoJob = NoJob
  c1 = c1
  i1 = i1
  i2 = i2
  j1 = j1
  l1 = l1
  l2 = l2
  p1 = p1
  p2 = p2
SYMMETRY Interchangeable
INVARIANTS
  TypeOK
  TotalsMatch
  PaidIffSettled
  NumbersGapless
PROPERTIES
  IssuedIsFrozen
CHECK_DEADLOCK FALSE
