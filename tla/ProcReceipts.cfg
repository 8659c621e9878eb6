\* Two requests at a time on one order of two units and on the stock it is received into.
CONSTANTS
  Orders = {p1}
  Quotations = {}
  Requests = {}
  Notes = {n1, n2}
  Sessions = {s1, s2}
  Locations = {w1, q1}
  Internal = {w1}
  Warehouse = {w1}
  QuarantineAt = q1
  Ordered <- OrderedTwo
  RequestOf <- OneRequest
  NoOrder = NoOrder
  Inspected = TRUE
  InitialLevel <- Nothing
  Quantities = {1, 2}
  MaxStock = 2
SPECIFICATION Spec
SYMMETRY Alike
INVARIANTS
  ReceivedWithinOrdered
  ReceivedMatchesNotes
  LedgerMatchesBuckets
PROPERTIES
  NoReceiptForClosedOrder
\* Nothing need be requested once every note is used.
CHECK_DEADLOCK FALSE
