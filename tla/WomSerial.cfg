CONSTANTS
  WorkOrders = {w1, w2}
  Materials = {m1}
  PerUnit <- OnePerUnit
  Planned <- PlanOne
  Bucketed = FALSE
  MaxStock = 2
  MaxRows = 2
  MaxScrap = 0
SPECIFICATION SerialSpec
SYMMETRY Alike
INVARIANTS
  ReservedWithinStock
  ReservedBacked
\* The system stops when the stock is used up and every plan is produced.
CHECK_DEADLOCK FALSE
