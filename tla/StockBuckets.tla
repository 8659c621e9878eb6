----------------------------- MODULE StockBuckets -----------------------------
(***************************************************************************)
(* The stock of one material, kept per location and stock status: what the *)
(* bucket helpers of InventoryService do to stock_levels.  A request holds *)
(* the material's row while it changes buckets, so each operator maps the  *)
(* buckets before a change to the buckets after it.                        *)
(***************************************************************************)
EXTENDS Integers, UnitCount

CONSTANTS
  Locations,   \* locations that can hold the material
  Internal     \* those of an internal type, which an unplaced deduction draws on

ASSUME FiniteLocations == IsFiniteSet(Locations)
ASSUME InternalLocations == Internal \subseteq Locations

StockStatus == {"available", "pending_inspection", "quarantine"}

Buckets == Locations \X StockStatus

Levels == [Buckets -> Nat]

Smaller(a, b) == IF a =< b THEN a ELSE b

Available(l) == <<l, "available">>
Pending(l) == <<l, "pending_inspection">>

Added(level, k, n) == [level EXCEPT ![k] = @ + n]

\* What can be had of n units in bucket k is taken.
Drawn(level, k, n) == [level EXCEPT ![k] = @ - Smaller(@, n)]

\* n units move from one bucket to another, where there are n.
MovedTwice(level, from, to, n) == Added(level, to, n)   \* mutant: the source is not lowered
Moved(level, from, to, n) == Added([level EXCEPT ![from] = @ - n], to, n)

InternalAvailable == {Available(l) : l \in Internal}

Held(level, ks) == Total([k \in ks |-> level[k]])

\* n units are taken from the internal locations, row after row in the order the
\* database returns them: rows are emptied, and one gives what is still wanted.
Deductions(level, n) ==
  LET Ends(e, last) == /\ last \notin e
                       /\ Held(level, e) =< n
                       /\ n - Held(level, e) =< level[last]
      Emptied(e, last) ==
        [k \in Buckets |-> IF k \in e THEN 0
                           ELSE IF k = last THEN level[k] - (n - Held(level, e)) ELSE level[k]]
  IN  UNION {{Emptied(e, last) : last \in {k \in InternalAvailable : Ends(e, k)}} :
               e \in SUBSET InternalAvailable}

\* All stock at one location goes to another, each status for itself.
Relocated(level, from, to) ==
  [k \in Buckets |-> IF k[1] = from THEN 0
                     ELSE IF k[1] = to THEN level[k] + level[<<from, k[2]>>] ELSE level[k]]

\* current_stock after the new total is assigned to an object that held it as
\* `held`: a column is written only when the object's value changes.
Synced(level, held, current) == IF Total(level) # held THEN Total(level) ELSE current
=============================================================================
