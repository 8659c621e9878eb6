\* Two work orders that compete for one material, requests interleaved.
CONSTANTS
  WorkOrders = {w1, w2}
  Materials = {m1}
  PerUnit <- OnePerUnit
  Planned <- PlanOne
  Bucketed = TRUE
  MaxStock = 2
  MaxRows = 2
  MaxScrap = 0
SPECIFICATION Spec
SYMMETRY Alike
INVARIANTS
  TypeOK
  LineMatchesRows
  ProducedWithinPlan
  StockConserved
PROPERTY
  MaterialFlows
\* The system stops when the stock is used up and every plan is produced.
CHECK_DEADLOCK FALSE
