------------------------- MODULE MCSalesFulfilment -------------------------
(***************************************************************************)
(* Small instances of SalesFulfilment for TLC.                             *)
(***************************************************************************)
EXTENDS SalesFulfilment, TLC

\* A line is a pair of its order and its product.
OrderOfLine   == [l \in Lines |-> l[1]]
ProductOfLine == [l \in Lines |-> l[2]]

\* Every order orders every product, so that orders compete for each of them.
EveryLine == Orders \X Products

\* One finished good is a variant, out of stock, with an order of its own for one
\* unit; the other orders compete for the other goods, two units each.
Variant       == CHOOSE p \in Products : TRUE
VariantOrder  == CHOOSE o \in Orders : TRUE
OneLineEach   == {l \in EveryLine : l[1] = VariantOrder <=> l[2] = Variant}
ButVariant    == [p \in Products |-> p # Variant]
OneOfVariant  == [l \in Lines |-> IF l[2] = Variant THEN 1 ELSE 2]
NoneOfVariant == [p \in Products |-> IF p = Variant THEN 0 ELSE 3]

OrderTwo == [l \in Lines |-> 2]
AmountOne == [o \in Orders |-> 1]
StockOne == [p \in Products |-> 1]
ById      == [p \in Products |-> TRUE]

Alike == Permutations(Orders) \cup Permutations(Products) \cup Permutations(Sessions)
=============================================================================
