\* One order of two units, one of them in stock; two requests interleave.
CONSTANTS
  Orders = {o1}
  Products = {p1}
  Sessions = {c1, c2}
  Lines <- EveryLine
  OrderOf <- OrderOfLine
  ProductOf <- ProductOfLine
  Ordered <- OrderTwo
  Amount <- AmountOne
  CreditLimit = 1
  InitialStock <- StockOne
  IsMaterial <- ById
  MaxWorkOrders = 1
SPECIFICATION Spec
SYMMETRY Alike
INVARIANTS
  TypeOK
  ReservedWithinStock
  CreditWithinLimit
PROPERTIES
  GoodsReceivedOnce
\* The system stops when every order is closed.
CHECK_DEADLOCK FALSE
