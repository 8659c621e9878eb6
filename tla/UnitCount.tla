----------------------------- MODULE UnitCount -----------------------------
(***************************************************************************)
(* Sums of quantities, the SQL func.sum(...) of the services.              *)
(*                                                                         *)
(* The sum of a function with natural values is the number of units its    *)
(* arguments hold together: every argument x contributes the units         *)
(* <<x, 1>>, ..., <<x, f[x]>>.  Counting a set needs no recursion, so the  *)
(* module UnitCountProofs can prove what a sum does when one of its terms  *)
(* changes, for any number of terms.                                       *)
(***************************************************************************)
EXTENDS Integers, FiniteSets

Units(f) == UNION {{x} \X (1..f[x]) : x \in DOMAIN f}

Total(f) == Cardinality(Units(f))
=============================================================================
