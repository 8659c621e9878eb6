-------------------------- MODULE MCSubcontracting --------------------------
(***************************************************************************)
(* A small instance of Subcontracting for TLC.                             *)
(***************************************************************************)
EXTENDS Subcontracting

OneAndTwo == LET one == CHOOSE o \in Orders : TRUE IN [o \in Orders |-> IF o = one THEN 1 ELSE 2]
PerUnitOne == [o \in Orders |-> 1]
OneInternal == [k \in Buckets |-> IF k \in InternalAvailable THEN 1 ELSE 0]
=============================================================================
