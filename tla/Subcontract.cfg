\* Two requests at a time on two orders that share the subcontractor's stock.
CONSTANTS
  Orders = {o1, o2}
  Sessions = {s1, s2}
  Locations = {w1, sub}
  Internal = {w1}
  Supplier = sub
  Quantity <- OneAndTwo
  PerUnit <- PerUnitOne
  InitialLevel <- OneInternal
  Quantities = {1}
  MaxOutput = 1
  MaxReturned = 1
  NoSession = NoSession
SPECIFICATION FairSpec
INVARIANTS
  TypeOK
  SupplierStockAccounted
PROPERTIES
  RequestsEnd
\* The system stops when every order is closed and the bounds are reached.
CHECK_DEADLOCK FALSE
