\* Two requests at a time, from a material request to the receipt of an awarded order.
CONSTANTS
  Orders = {p1}
  Quotations = {r1, r2}
  Requests = {r1, r2}
  Notes = {n1}
  Sessions = {s1, s2}
  Locations = {w1, q1}
  Internal = {w1}
  Warehouse = {w1}
  QuarantineAt = q1
  Ordered <- OrderedOne
  RequestOf <- RequestEach
  NoOrder = NoOrder
  Inspected = FALSE
  InitialLevel <- Nothing
  Quantities = {1}
  MaxStock = 0
SPECIFICATION Spec
SYMMETRY Alike
INVARIANTS
  FulfilmentBacked
  TypeOK
\* Nothing need be requested once every note is used.
CHECK_DEADLOCK FALSE
