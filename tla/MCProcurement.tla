---------------------------- MODULE MCProcurement ----------------------------
(***************************************************************************)
(* Small instances of Procurement for TLC.                                 *)
(***************************************************************************)
EXTENDS Procurement, TLC

OrderedTwo == [p \in Orders |-> 2]
OrderedOne == [p \in Orders |-> 1]
OneRequest == [r \in Quotations |-> CHOOSE m \in Requests : TRUE]
RequestEach == [r \in Quotations |-> r]
Nothing == [k \in Buckets |-> 0]
OneAvailable == [k \in Buckets |-> IF k \in {Available(l) : l \in Warehouse} THEN 1 ELSE 0]

Alike ==
  Permutations(Orders) \cup Permutations(Quotations) \cup Permutations(Notes)
    \cup Permutations(Sessions)
=============================================================================
