------------------------ MODULE MCWorkOrderMaterials ------------------------
(***************************************************************************)
(* Small instances of WorkOrderMaterials for TLC.                          *)
(***************************************************************************)
EXTENDS WorkOrderMaterials, TLC

\* One unit of every material per unit of product.
OnePerUnit == [w \in WorkOrders |-> [m \in Materials |-> 1]]

\* A plan of two units for every work order.
PlanTwo == [w \in WorkOrders |-> 2]
PlanOne == [w \in WorkOrders |-> 1]

\* Work orders are alike, and so are materials.
Alike == Permutations(WorkOrders) \cup Permutations(Materials)
=============================================================================
