----------------------------- MODULE MCDeliveries -----------------------------
(***************************************************************************)
(* Small instances of Deliveries for TLC: two orders of one line each      *)
(* compete for one product.                                                *)
(***************************************************************************)
EXTENDS Deliveries, TLC

OwnOrder == [l \in Lines |-> l]
OneProduct == [l \in Lines |-> CHOOSE p \in Products : TRUE]
\* One line of two units is to be produced, the others are allocated from stock.
Made == CHOOSE l \in Lines : TRUE
TwoMade == [l \in Lines |-> IF l = Made THEN 2 ELSE 1]
RestInStock == [l \in Lines |-> IF l = Made THEN 0 ELSE 1]

\* Nothing more is made of an order from stock than deliveries that are not shipped.
RestWaits ==
  \A l \in Lines \ {Made} : line[l].shipped = 0 /\ status[OrderOf[l]] = "READY_FOR_DISPATCH"

EachTwo == [l \in Lines |-> 2]

Alike == Permutations(Sessions)
=============================================================================
