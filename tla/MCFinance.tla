------------------------------ MODULE MCFinance ------------------------------
(***************************************************************************)
(* Small instances of Finance for TLC.                                     *)
(***************************************************************************)
EXTENDS Finance, TLC

CONSTANT MaxDocuments    \* bound: invoices and payments at the same time

WorthTwo == [o \in Orders |-> 2]

FewDocuments ==
  Cardinality({i \in Invoices : Issued(i)}) + Cardinality({k \in Payments : Recorded(k)})
    =< MaxDocuments

Alike == Permutations(Sessions) \cup Permutations(Orders) \cup Permutations(References)
=============================================================================
