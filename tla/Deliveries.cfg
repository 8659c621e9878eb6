\* One order of two units, to be produced, and one of a unit in stock; requests on different orders interleave.
CONSTANTS
  Orders = {o1, o2}
  Lines = {o1, o2}
  Products = {p1}
  Sessions = {s1, s2}
  OrderOf <- OwnOrder
  ProductOf <- OneProduct
  Ordered <- TwoMade
  InStock <- RestInStock
  MaxOrdered = 2
  MaxDeliveries = 2
SPECIFICATION OrderlySpec
SYMMETRY Alike
CONSTRAINT RestWaits
INVARIANTS
  TypeOK
  DispatchedMatchesDeliveries
  ReservedMatchesLines
  StockMatchesShipments
  AllocatedWithinOrdered
\* The system stops when every order is closed.
CHECK_DEADLOCK FALSE
