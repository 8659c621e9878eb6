\* One request at a time: two orders of two units compete for a material, a third
\* orders a variant that is made to order.
CONSTANTS
  Orders = {o1, o2, o3}
  Products = {p1, p2}
  Sessions = {c1}
  Lines <- OneLineEach
  OrderOf <- OrderOfLine
  ProductOf <- ProductOfLine
  Ordered <- OneOfVariant
  Amount <- AmountOne
  CreditLimit = 0
  InitialStock <- NoneOfVariant
  IsMaterial <- ButVariant
  MaxWorkOrders = 1
SPECIFICATION Spec
INVARIANTS
  
  StockConserved
  AllocatedWithinOrdered
  ReadyMeansAllocated
\* The system stops when every order is closed.
CHECK_DEADLOCK FALSE
