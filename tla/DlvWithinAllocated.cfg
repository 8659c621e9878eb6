\* Two requests at a time on orders of two units in stock.
CONSTANTS
  Orders = {o1, o2}
  Lines = {o1, o2}
  Products = {p1}
  Sessions = {s1, s2}
  OrderOf <- OwnOrder
  ProductOf <- OneProduct
  Ordered <- EachTwo
  InStock <- EachTwo
  MaxOrdered = 2
  MaxDeliveries = 2
SPECIFICATION Spec
SYMMETRY Alike
INVARIANT DeliveriesWithinAllocated
CHECK_DEADLOCK FALSE
