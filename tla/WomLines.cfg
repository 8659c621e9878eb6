\* One work order with two lines of up to two rows each.
CONSTANTS
  WorkOrders = {w1}
  Materials = {m1, m2}
  PerUnit <- OnePerUnit
  Planned <- PlanTwo
  Bucketed = TRUE
  MaxStock = 2
  MaxRows = 2
  MaxScrap = 1
SPECIFICATION Spec
SYMMETRY Alike
INVARIANTS
  RowAccounting
  PostedMatchesRows
  NoFreeGoods
\* The system stops when the stock is used up and every plan is produced.
CHECK_DEADLOCK FALSE
