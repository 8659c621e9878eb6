------------------------- MODULE SubcontractingProofs -------------------------
(***************************************************************************)
(* What Subcontracting promises for every set of orders, sessions and      *)
(* locations: the stock at the subcontractor is accounted for, whatever    *)
(* requests run at once.  A receipt takes no more than is there while it   *)
(* has the bucket locked, which is one step here; what it read before it   *)
(* had any lock is only what the order received.                           *)
(***************************************************************************)
EXTENDS Subcontracting, UnitCountProofs

\* The issue records are not credited with more than they issued.
CreditedWithinRows == \A o \in Orders : order[o].credited =< order[o].rows

IInv == TypeOK /\ CreditedWithinRows /\ SupplierStockAccounted

-----------------------------------------------------------------------------
(* Buckets and sums *)

LEMMA SupplierBucket ==
  /\ Available(Supplier) \in Buckets
  /\ \A l \in Internal : Available(l) \in Buckets /\ Available(l) # Available(Supplier)
BY PlaceAssumption, InternalLocations DEF Available, Buckets, StockStatus

LEMMA IssueMoves ==
  ASSUME level \in Levels, NEW l \in Internal, NEW q \in Nat, q =< level[Available(l)]
  PROVE  /\ Moved(level, Available(l), Available(Supplier), q) \in Levels
         /\ Moved(level, Available(l), Available(Supplier), q)[Available(Supplier)]
              = AtSupplier + q
<1>1. level[Available(l)] - q \in Nat /\ AtSupplier \in Nat
  BY SupplierBucket DEF Levels, AtSupplier
<1> QED  BY <1>1, SupplierBucket DEF Moved, Added, AtSupplier, Levels

LEMMA ReturnMoves ==
  ASSUME level \in Levels, NEW l \in Internal, NEW q \in Nat,
         level' = Drawn(Added(level, Available(l), q), Available(Supplier), q)
  PROVE  /\ level' \in Levels
         /\ AtSupplier' =< AtSupplier
         /\ AtSupplier =< AtSupplier' + q
<1> DEFINE b == Added(level, Available(l), q)
<1>1. b \in Levels /\ b[Available(Supplier)] = AtSupplier
  BY SupplierBucket DEF Added, AtSupplier, Levels
<1>2. level' = [b EXCEPT ![Available(Supplier)] = @ - Smaller(@, q)]
  BY DEF Drawn
<1>3. AtSupplier \in Nat
  BY SupplierBucket DEF AtSupplier, Levels
<1> HIDE DEF b
<1>4. /\ AtSupplier - Smaller(AtSupplier, q) \in Nat
      /\ level' = [b EXCEPT ![Available(Supplier)] = AtSupplier - Smaller(AtSupplier, q)]
  BY <1>1, <1>2, <1>3 DEF Smaller
<1>5. level' \in Levels /\ level'[Available(Supplier)] = AtSupplier - Smaller(AtSupplier, q)
  BY <1>1, <1>4, SupplierBucket DEF Levels
<1>6. AtSupplier' = AtSupplier - Smaller(AtSupplier, q)
  BY <1>5 DEF AtSupplier
<1> QED  BY <1>3, <1>5, <1>6 DEF Smaller

\* A sum over the orders changes by what one order's term does.
LEMMA OneOrder ==
  ASSUME NEW o \in Orders, NEW f \in [Orders -> Nat], NEW g \in [Orders -> Nat],
         \A k \in Orders \ {o} : g[k] = f[k]
  PROVE  Total(g) = Total(f) + g[o] - f[o]
<1>1. Total(g) + f[o] = Total(f) + g[o]
  BY FiniteOrders, TotalUpdate
<1>2. Total(f) \in Nat /\ Total(g) \in Nat
  BY FiniteOrders, UnitsFinite
<1> QED  BY <1>1, <1>2

IssuedOf == [o \in Orders |-> order[o].issued]
ConsumedOn == [o \in Orders |-> order[o].consumed]
ReturnedOf == [o \in Orders |-> order[o].returned]

LEMMA SumsTyped ==
  ASSUME order \in [Orders -> Order]
  PROVE  /\ IssuedOf \in [Orders -> Nat] /\ ConsumedOn \in [Orders -> Nat]
         /\ ReturnedOf \in [Orders -> Nat]
         /\ Issued \in Nat /\ Consumed \in Nat /\ Returned \in Nat
<1>1. /\ IssuedOf \in [Orders -> Nat] /\ ConsumedOn \in [Orders -> Nat]
      /\ ReturnedOf \in [Orders -> Nat]
  BY DEF Order, IssuedOf, ConsumedOn, ReturnedOf
<1>2. Total(IssuedOf) \in Nat /\ Total(ConsumedOn) \in Nat /\ Total(ReturnedOf) \in Nat
  <2> HIDE DEF IssuedOf, ConsumedOn, ReturnedOf
  <2> QED  BY <1>1, FiniteOrders, UnitsFinite
<1> QED  BY <1>1, <1>2 DEF Issued, Consumed, Returned, IssuedOf, ConsumedOn, ReturnedOf

LEMMA SumsChange ==
  ASSUME order \in [Orders -> Order], order' \in [Orders -> Order], NEW o \in Orders,
         \A k \in Orders \ {o} : order'[k] = order[k]
  PROVE  /\ Issued' = Issued + order'[o].issued - order[o].issued
         /\ Consumed' = Consumed + order'[o].consumed - order[o].consumed
         /\ Returned' = Returned + order'[o].returned - order[o].returned
<1>1. /\ IssuedOf \in [Orders -> Nat] /\ ConsumedOn \in [Orders -> Nat]
      /\ ReturnedOf \in [Orders -> Nat]
      /\ IssuedOf' \in [Orders -> Nat] /\ ConsumedOn' \in [Orders -> Nat]
      /\ ReturnedOf' \in [Orders -> Nat]
  BY DEF Order, IssuedOf, ConsumedOn, ReturnedOf
<1>2. /\ IssuedOf[o] = order[o].issued /\ IssuedOf'[o] = order'[o].issued
      /\ ConsumedOn[o] = order[o].consumed /\ ConsumedOn'[o] = order'[o].consumed
      /\ ReturnedOf[o] = order[o].returned /\ ReturnedOf'[o] = order'[o].returned
  BY DEF IssuedOf, ConsumedOn, ReturnedOf
<1>3. \A k \in Orders \ {o} : /\ IssuedOf'[k] = IssuedOf[k] /\ ConsumedOn'[k] = ConsumedOn[k]
                              /\ ReturnedOf'[k] = ReturnedOf[k]
  BY DEF IssuedOf, ConsumedOn, ReturnedOf
<1>4. /\ Total(IssuedOf') = Total(IssuedOf) + IssuedOf'[o] - IssuedOf[o]
      /\ Total(ConsumedOn') = Total(ConsumedOn) + ConsumedOn'[o] - ConsumedOn[o]
      /\ Total(ReturnedOf') = Total(ReturnedOf) + ReturnedOf'[o] - ReturnedOf[o]
  <2> HIDE DEF IssuedOf, ConsumedOn, ReturnedOf
  <2> QED  BY <1>1, <1>3, OneOrder
<1> QED  BY <1>2, <1>4 DEF Issued, Consumed, Returned, IssuedOf, ConsumedOn, ReturnedOf

-----------------------------------------------------------------------------
(* Requests and locks *)

LocksTyped ==
  /\ owner \in [Locks -> Sessions \cup {NoSession}]
  /\ session \in [Sessions -> InProgress]

LEMMA ReadTyped ==
  ASSUME TypeOK, NEW s \in Sessions, session[s] # Idle
  PROVE  /\ session[s].kind \in Kinds /\ session[s].of \in Orders
         /\ session[s].status \in Status /\ session[s].received \in Nat
         /\ session[s].locked \in 0..3
BY DEF TypeOK, InProgress

LEMMA EndTyped ==
  ASSUME TypeOK, NEW s \in Sessions, End(s)
  PROVE  LocksTyped'
BY DEF TypeOK, End, Unlocked, InProgress, LocksTyped

LEMMA BeginTyped ==
  ASSUME TypeOK, NEW s \in Sessions, NEW o \in Orders, NEW kind \in Kinds, Begin(s, kind, o)
  PROVE  LocksTyped'
<1> DEFINE r == [kind |-> kind, of |-> o, status |-> order[o].status,
                 lines |-> IF kind = "approve" THEN order[o].lines ELSE 0,
                 received |-> IF kind = "receive" THEN order[o].received ELSE 0, locked |-> 0]
<1>1. order[o] \in Order
  BY DEF TypeOK
<1>2. order[o].status \in Status /\ order[o].lines \in Nat /\ order[o].received \in Nat
  BY <1>1 DEF Order
<1>3. r \in InProgress
  BY <1>2 DEF InProgress
<1>4. session' = [session EXCEPT ![s] = r] /\ UNCHANGED owner
  BY DEF Begin
<1> HIDE DEF r
<1> QED  BY <1>3, <1>4 DEF TypeOK, LocksTyped

LEMMA LockTyped ==
  ASSUME TypeOK, NEW s \in Sessions, Lock(s)
  PROVE  LocksTyped'
<1>1. session[s] # Idle /\ session[s].locked < Len(Plan[session[s].kind])
  BY DEF Lock, Waiting
<1>2. session[s].kind \in Kinds /\ session[s].locked \in 0..3
  BY <1>1, ReadTyped
<1>3. \A kind \in Kinds : Len(Plan[kind]) =< 3 /\ Len(Plan[kind]) \in Nat
  <2>1. Kinds = {"approve", "cancel", "issue", "return", "receive"}
    BY DEF Kinds, Plan
  <2>2. /\ Plan["approve"] = <<>> /\ Plan["cancel"] = <<>>
        /\ Plan["issue"] = <<"raw", "bucket">> /\ Plan["return"] = <<"raw", "bucket">>
        /\ Plan["receive"] = <<"output", "bucket", "raw">>
    BY DEF Plan
  <2>3. /\ Len(Plan["approve"]) = 0 /\ Len(Plan["cancel"]) = 0
        /\ Len(Plan["issue"]) = 2 /\ Len(Plan["return"]) = 2 /\ Len(Plan["receive"]) = 3
    BY <2>2
  <2>4. ASSUME NEW kind \in Kinds
        PROVE  Len(Plan[kind]) = 0 \/ Len(Plan[kind]) = 2 \/ Len(Plan[kind]) = 3
    BY <2>1, <2>3, Zenon
  <2>5. \A n : n = 0 \/ n = 2 \/ n = 3 => n =< 3 /\ n \in Nat
    OBVIOUS
  <2> QED  BY <2>4, <2>5, Zenon
<1>4. session[s].locked + 1 \in 0..3
  BY <1>1, <1>2, <1>3
<1>5. session' = [session EXCEPT ![s].locked = session[s].locked + 1]
  BY DEF Lock
<1>6. session' \in [Sessions -> InProgress]
  <2>1. session[s] \in [kind : Kinds, of : Orders, status : Status, lines : Nat,
                        received : Nat, locked : 0..3]
    BY <1>1 DEF TypeOK, InProgress
  <2>2. [session[s] EXCEPT !.locked = session[s].locked + 1] \in InProgress
    BY <1>4, <2>1 DEF InProgress
  <2> QED  BY <1>5, <2>2 DEF TypeOK
<1>7. owner' \in [Locks -> Sessions \cup {NoSession}]
  BY DEF Lock, TypeOK
<1> QED  BY <1>6, <1>7 DEF LocksTyped

-----------------------------------------------------------------------------
(* Steps *)

LEMMA Kept ==
  ASSUME IInv, UNCHANGED <<order, level, output>>, LocksTyped'
  PROVE  IInv'
BY DEF IInv, TypeOK, LocksTyped, CreditedWithinRows, SupplierStockAccounted,
       Issued, Consumed, Returned, AtSupplier

\* What the handlers make of an order is an order.
LEMMA OrderWritten ==
  ASSUME NEW x \in Order, NEW st \in Status, NEW a \in Nat, NEW b \in Nat
  PROVE  /\ [x EXCEPT !.status = st, !.issued = a, !.rows = b] \in Order
         /\ [x EXCEPT !.received = a, !.consumed = b, !.status = st] \in Order
<1>1. [x EXCEPT !.status = st, !.issued = a, !.rows = b] \in Order
  BY Zenon DEF Order
<1>2. [x EXCEPT !.received = a, !.consumed = b, !.status = st] \in Order
  BY Zenon DEF Order
<1> QED  BY <1>1, <1>2

LEMMA ReturnWritten ==
  ASSUME NEW x \in Order, NEW a \in Nat, NEW b \in Nat
  PROVE  [x EXCEPT !.returned = a, !.credited = b] \in Order
BY Zenon DEF Order

\* One order and the stock change.
LEMMA OrderChanged ==
  ASSUME IInv, LocksTyped', NEW o \in Orders,
         order' \in [Orders -> Order], level' \in Levels, output' \in Nat,
         \A k \in Orders \ {o} : order'[k] = order[k],
         order'[o].credited =< order'[o].rows,
         NEW used \in Nat, NEW back \in Nat, NEW new \in Nat, NEW gone \in Nat,
         order'[o].issued = order[o].issued + new,
         order'[o].consumed = order[o].consumed + used,
         order'[o].returned = order[o].returned + back,
         AtSupplier' + gone = AtSupplier + new - used,
         gone =< back
  PROVE  IInv'
<1>1. /\ Issued' = Issued + order'[o].issued - order[o].issued
      /\ Consumed' = Consumed + order'[o].consumed - order[o].consumed
      /\ Returned' = Returned + order'[o].returned - order[o].returned
  BY SumsChange DEF IInv, TypeOK
<1>2. /\ order[o].issued \in Nat /\ order[o].consumed \in Nat /\ order[o].returned \in Nat
      /\ Issued \in Nat /\ Consumed \in Nat /\ Returned \in Nat
      /\ AtSupplier \in Nat /\ AtSupplier' \in Nat
  BY SumsTyped, SupplierBucket DEF IInv, TypeOK, Order, AtSupplier, Levels
<1>3. Issued' = Issued + new /\ Consumed' = Consumed + used /\ Returned' = Returned + back
  BY <1>1, <1>2
<1>4. SupplierStockAccounted'
  <2>1. Consumed + AtSupplier =< Issued /\ Issued =< Consumed + AtSupplier + Returned
    BY DEF IInv, SupplierStockAccounted
  <2>2. /\ Consumed' + AtSupplier' =< Issued'
        /\ Issued' =< Consumed' + AtSupplier' + Returned'
    BY <1>2, <1>3, <2>1
  <2> QED  BY <2>2 DEF SupplierStockAccounted
<1>5. CreditedWithinRows'
  BY DEF IInv, CreditedWithinRows
<1> QED  BY <1>4, <1>5 DEF IInv, TypeOK, LocksTyped

LEMMA ClosedOK ==
  ASSUME IInv, NEW s \in Sessions, Approve(s) \/ Cancel(s)
  PROVE  IInv'
<1> DEFINE o == session[s].of
<1>1. o \in Orders /\ order \in [Orders -> Order] /\ LocksTyped' /\ session[s].status \in Status
  BY ReadTyped, EndTyped DEF Approve, Cancel, Ready, Idle, IInv, TypeOK
<1>2. /\ order' \in [Orders -> Order]
      /\ \A k \in Orders \ {o} : order'[k] = order[k]
      /\ order'[o].credited = order[o].credited /\ order'[o].rows = order[o].rows
      /\ order'[o].issued = order[o].issued /\ order'[o].consumed = order[o].consumed
      /\ order'[o].returned = order[o].returned
  <2>1. CASE Approve(s)
    <3>1. PICK st \in Status, n \in Nat :
            order' = [order EXCEPT ![o].status = st, ![o].lines = n]
      <4> DEFINE st == Written(order[o].status, session[s].status, "approved")
                 n == IF session[s].lines = 0 THEN order[o].lines + 1 ELSE order[o].lines
      <4>1. st \in Status /\ n \in Nat
        BY <1>1 DEF Written, Order, Status
      <4>2. order' = [order EXCEPT ![o].status = st, ![o].lines = n]
        BY <1>1, <2>1 DEF Approve
      <4> HIDE DEF st, n
      <4> QED  BY <4>1, <4>2
    <3> HIDE DEF o
    <3> QED  BY <1>1, <3>1 DEF Order
  <2>2. CASE Cancel(s)
    <3>1. PICK st \in Status : order' = [order EXCEPT ![o].status = st]
      <4> DEFINE st == Written(order[o].status, session[s].status, "cancelled")
      <4>1. st \in Status
        BY <1>1 DEF Written, Order, Status
      <4>2. order' = [order EXCEPT ![o].status = st]
        BY <1>1, <2>2 DEF Cancel
      <4> HIDE DEF st
      <4> QED  BY <4>1, <4>2
    <3> HIDE DEF o
    <3> QED  BY <1>1, <3>1 DEF Order
  <2> QED  BY <2>1, <2>2
<1>3. UNCHANGED <<level, output>>
  BY DEF Approve, Cancel
<1>4. /\ order[o].issued \in Nat /\ order[o].consumed \in Nat /\ order[o].returned \in Nat
      /\ AtSupplier \in Nat /\ AtSupplier' = AtSupplier /\ order[o].credited =< order[o].rows
  BY <1>1, <1>3, SupplierBucket DEF IInv, TypeOK, Order, AtSupplier, Levels, CreditedWithinRows
<1> HIDE DEF o
<1>5. /\ order'[o].issued = order[o].issued + 0 /\ order'[o].consumed = order[o].consumed + 0
      /\ order'[o].returned = order[o].returned + 0
      /\ AtSupplier' + 0 = AtSupplier + 0 - 0
      /\ order'[o].credited =< order'[o].rows
      /\ level' \in Levels /\ output' \in Nat
  BY <1>2, <1>3, <1>4 DEF IInv, TypeOK
<1> QED  BY <1>1, <1>2, <1>5, OrderChanged

LEMMA IssueOK ==
  ASSUME IInv, NEW s \in Sessions, Issue(s)
  PROVE  IInv'
<1> DEFINE o == session[s].of
<1>1. PICK q \in Quantities, l \in Internal :
        /\ q =< level[Available(l)]
        /\ level' = Moved(level, Available(l), Available(Supplier), q)
        /\ order' = [order EXCEPT
             ![o].status = Written(@, session[s].status, "materials_issued"),
             ![o].issued = @ + q, ![o].rows = @ + q]
  BY DEF Issue
<1>2. /\ o \in Orders /\ order \in [Orders -> Order] /\ LocksTyped' /\ q \in Nat
      /\ session[s].status \in Status /\ UNCHANGED output
  BY ReadTyped, EndTyped, BoundAssumption DEF Issue, Ready, Idle, IInv, TypeOK
<1>3. level' \in Levels /\ AtSupplier' = AtSupplier + q /\ AtSupplier \in Nat
  BY <1>1, <1>2, IssueMoves, SupplierBucket DEF IInv, TypeOK, AtSupplier, Levels
<1>4. PICK st \in Status :
        order' = [order EXCEPT ![o].status = st, ![o].issued = order[o].issued + q,
                               ![o].rows = order[o].rows + q]
  <2> DEFINE st == Written(order[o].status, session[s].status, "materials_issued")
  <2>1. st \in Status
    BY <1>2 DEF Written, Order, Status
  <2>2. order' = [order EXCEPT ![o].status = st, ![o].issued = order[o].issued + q,
                               ![o].rows = order[o].rows + q]
    BY <1>1, <1>2 DEF Order
  <2> HIDE DEF st
  <2> QED  BY <2>1, <2>2
<1>5. /\ order[o].issued \in Nat /\ order[o].rows \in Nat /\ order[o].consumed \in Nat
      /\ order[o].returned \in Nat /\ order[o].credited \in Nat
      /\ order[o].credited =< order[o].rows
  BY <1>2 DEF IInv, CreditedWithinRows, Order
<1> HIDE DEF o
<1>6. /\ order' \in [Orders -> Order]
      /\ \A k \in Orders \ {o} : order'[k] = order[k]
      /\ order'[o].credited = order[o].credited /\ order'[o].rows = order[o].rows + q
      /\ order'[o].issued = order[o].issued + q /\ order'[o].consumed = order[o].consumed
      /\ order'[o].returned = order[o].returned
  <2> DEFINE r == [order[o] EXCEPT !.status = st, !.issued = order[o].issued + q,
                                   !.rows = order[o].rows + q]
  <2>1. order[o] \in Order /\ order[o].issued + q \in Nat /\ order[o].rows + q \in Nat
    BY <1>2, <1>5
  <2>2. r \in Order
    BY <2>1, OrderWritten
  <2>3. /\ r.credited = order[o].credited /\ r.rows = order[o].rows + q
        /\ r.issued = order[o].issued + q /\ r.consumed = order[o].consumed
        /\ r.returned = order[o].returned
    BY <2>1 DEF Order
  <2>4. order' = [order EXCEPT ![o] = r]
    BY <1>2, <1>4
  <2> HIDE DEF r
  <2> QED  BY <1>2, <2>2, <2>3, <2>4
<1>7. /\ order'[o].consumed = order[o].consumed + 0
      /\ order'[o].returned = order[o].returned + 0
      /\ AtSupplier' + 0 = AtSupplier + q - 0
      /\ order'[o].credited =< order'[o].rows
      /\ output' \in Nat
  BY <1>2, <1>3, <1>5, <1>6 DEF IInv, TypeOK
<1> QED  BY <1>2, <1>3, <1>6, <1>7, OrderChanged

LEMMA ReceiveOK ==
  ASSUME IInv, NEW s \in Sessions, Receive(s)
  PROVE  IInv'
<1> DEFINE o == session[s].of
<1>1. PICK q \in Quantities :
        /\ output' = output + q
        /\ level' = [level EXCEPT ![Available(Supplier)] = @ - Used(o, q)]
        /\ order' = [order EXCEPT
             ![o].received = session[s].received + q,
             ![o].consumed = @ + ConsumedOf(o, q),
             ![o].status = Written(@, session[s].status,
                                   ReceivedStatus(o, session[s].received + q))]
  BY DEF Receive
<1>2. /\ o \in Orders /\ order \in [Orders -> Order] /\ LocksTyped' /\ q \in Nat
      /\ session[s].status \in Status /\ session[s].received \in Nat
  BY ReadTyped, EndTyped, BoundAssumption DEF Receive, Ready, Idle, IInv, TypeOK
<1>3. AtSupplier \in Nat
  BY SupplierBucket DEF IInv, TypeOK, AtSupplier, Levels
<1>4. Needed(o, q) \in Nat
  <2>1. \A a, b \in Nat : a * b \in Nat
    OBVIOUS
  <2>2. order[o].lines \in Nat /\ PerUnit[o] \in Nat
    BY <1>2, OrderAssumption DEF Order
  <2>3. order[o].lines * PerUnit[o] \in Nat
    BY <2>1, <2>2
  <2> QED  BY <1>2, <2>1, <2>3 DEF Needed
<1> DEFINE used == Used(o, q)
<1>5. used \in Nat /\ used =< AtSupplier
  <2> HIDE DEF o
  <2> QED  BY <1>3, <1>4 DEF Used, Smaller
<1>6. level' \in Levels /\ AtSupplier' = AtSupplier - used
  <2>1. level' = [level EXCEPT ![Available(Supplier)] = AtSupplier - used]
    BY <1>1 DEF AtSupplier
  <2>2. AtSupplier - used \in Nat
    BY <1>3, <1>5
  <2> HIDE DEF used
  <2>3. level' \in Levels /\ level'[Available(Supplier)] = AtSupplier - used
    BY <2>1, <2>2, SupplierBucket DEF IInv, TypeOK, Levels
  <2> QED  BY <2>3 DEF AtSupplier
<1>7. PICK st \in Status, n \in Nat :
        order' = [order EXCEPT ![o].received = n, ![o].consumed = order[o].consumed + used,
                               ![o].status = st]
  <2> DEFINE n == session[s].received + q
             st == Written(order[o].status, session[s].status, ReceivedStatus(o, n))
  <2>1. st \in Status /\ n \in Nat
    BY <1>2 DEF Written, ReceivedStatus, Order, Status
  <2>2. order' = [order EXCEPT ![o].received = n, ![o].consumed = order[o].consumed + used,
                               ![o].status = st]
    BY <1>1, <1>2 DEF Order, ConsumedOf
  <2> HIDE DEF st, n, used
  <2> QED  BY <2>1, <2>2
<1>8. /\ order[o].issued \in Nat /\ order[o].consumed \in Nat /\ order[o].returned \in Nat
      /\ order[o].credited =< order[o].rows
  BY <1>2 DEF IInv, CreditedWithinRows, Order
<1> HIDE DEF o, used
<1>9. /\ order' \in [Orders -> Order]
      /\ \A k \in Orders \ {o} : order'[k] = order[k]
      /\ order'[o].credited = order[o].credited /\ order'[o].rows = order[o].rows
      /\ order'[o].issued = order[o].issued
      /\ order'[o].consumed = order[o].consumed + used
      /\ order'[o].returned = order[o].returned
  <2> DEFINE r == [order[o] EXCEPT !.received = n, !.consumed = order[o].consumed + used,
                                   !.status = st]
  <2>1. order[o] \in Order /\ order[o].consumed + used \in Nat
    BY <1>2, <1>5, <1>8
  <2>2. r \in Order
    BY <2>1, OrderWritten
  <2>3. /\ r.credited = order[o].credited /\ r.rows = order[o].rows
        /\ r.issued = order[o].issued /\ r.consumed = order[o].consumed + used
        /\ r.returned = order[o].returned
    BY <2>1 DEF Order
  <2>4. order' = [order EXCEPT ![o] = r]
    BY <1>2, <1>7
  <2> HIDE DEF r
  <2> QED  BY <1>2, <2>2, <2>3, <2>4
<1>10. /\ order'[o].issued = order[o].issued + 0
       /\ order'[o].returned = order[o].returned + 0
       /\ AtSupplier' + 0 = AtSupplier + 0 - used
       /\ order'[o].credited =< order'[o].rows
       /\ output' \in Nat
  BY <1>1, <1>2, <1>3, <1>5, <1>6, <1>8, <1>9 DEF IInv, TypeOK
<1> QED  BY <1>2, <1>5, <1>6, <1>9, <1>10, OrderChanged

LEMMA ReturnOK ==
  ASSUME IInv, NEW s \in Sessions, Return(s)
  PROVE  IInv'
<1> DEFINE o == session[s].of
<1>1. PICK q \in Quantities, l \in Internal :
        /\ level' = Drawn(Added(level, Available(l), q), Available(Supplier), q)
        /\ order' = [order EXCEPT ![o].returned = @ + q, ![o].credited = @ + Credit(o, q)]
  BY DEF Return
<1>2. /\ o \in Orders /\ order \in [Orders -> Order] /\ LocksTyped' /\ q \in Nat
      /\ UNCHANGED output
  BY ReadTyped, EndTyped, BoundAssumption DEF Return, Ready, Idle, IInv, TypeOK
<1>3. AtSupplier \in Nat /\ level \in Levels
  BY SupplierBucket DEF IInv, TypeOK, AtSupplier, Levels
<1>4. level' \in Levels /\ AtSupplier' =< AtSupplier /\ AtSupplier =< AtSupplier' + q
  BY <1>1, <1>2, <1>3, ReturnMoves
<1>5. AtSupplier' \in Nat
  BY <1>4, SupplierBucket DEF AtSupplier, Levels
<1>6. /\ order[o].issued \in Nat /\ order[o].consumed \in Nat /\ order[o].returned \in Nat
      /\ order[o].rows \in Nat /\ order[o].credited \in Nat
      /\ order[o].credited =< order[o].rows
  BY <1>2 DEF IInv, CreditedWithinRows, Order
<1> DEFINE credit == Credit(o, q)
<1>7. credit \in Nat /\ order[o].credited + credit =< order[o].rows
  <2> HIDE DEF o
  <2> QED  BY <1>2, <1>6 DEF Credit, Smaller
<1>8. order' = [order EXCEPT ![o].returned = order[o].returned + q,
                             ![o].credited = order[o].credited + credit]
  BY <1>1, <1>2 DEF Order
<1> DEFINE gone == AtSupplier - AtSupplier'
<1>9. gone \in Nat /\ gone =< q /\ AtSupplier' + gone = AtSupplier + 0 - 0
  <2>1. \A a, b \in Nat : a =< b /\ b =< a + q =>
          b - a \in Nat /\ b - a =< q /\ a + (b - a) = b + 0 - 0
    BY <1>2
  <2> QED  BY <1>3, <1>4, <1>5, <2>1
<1> HIDE DEF o, credit, gone
<1>10. /\ order' \in [Orders -> Order]
       /\ \A k \in Orders \ {o} : order'[k] = order[k]
       /\ order'[o].credited = order[o].credited + credit /\ order'[o].rows = order[o].rows
       /\ order'[o].issued = order[o].issued
       /\ order'[o].consumed = order[o].consumed
       /\ order'[o].returned = order[o].returned + q
  <2> DEFINE r == [order[o] EXCEPT !.returned = order[o].returned + q,
                                   !.credited = order[o].credited + credit]
  <2>1. /\ order[o] \in Order /\ order[o].returned + q \in Nat
        /\ order[o].credited + credit \in Nat
    BY <1>2, <1>6, <1>7
  <2>2. r \in Order
    BY <2>1, ReturnWritten
  <2>3. /\ r.credited = order[o].credited + credit /\ r.rows = order[o].rows
        /\ r.issued = order[o].issued /\ r.consumed = order[o].consumed
        /\ r.returned = order[o].returned + q
    BY <2>1 DEF Order
  <2>4. order' = [order EXCEPT ![o] = r]
    BY <1>2, <1>8
  <2> HIDE DEF r
  <2> QED  BY <1>2, <2>2, <2>3, <2>4
<1>11. /\ order'[o].issued = order[o].issued + 0
       /\ order'[o].consumed = order[o].consumed + 0
       /\ order'[o].credited =< order'[o].rows
       /\ output' \in Nat
  BY <1>2, <1>6, <1>7, <1>10 DEF IInv, TypeOK
<1> QED  BY <1>2, <1>4, <1>9, <1>10, <1>11, OrderChanged

LEMMA InitOK ==
  ASSUME Init
  PROVE  IInv
<1>1. TypeOK
  <2>1. NewOrder \in Order
    BY DEF NewOrder, Order, Status
  <2> QED  BY <2>1, StockAssumption DEF Init, TypeOK, InProgress
<1>2. CreditedWithinRows
  BY DEF Init, NewOrder, CreditedWithinRows
<1>3. SupplierStockAccounted
  <2>1. /\ DOMAIN IssuedOf = Orders /\ DOMAIN ConsumedOn = Orders /\ DOMAIN ReturnedOf = Orders
        /\ \A o \in Orders : IssuedOf[o] = 0 /\ ConsumedOn[o] = 0 /\ ReturnedOf[o] = 0
    BY DEF Init, NewOrder, IssuedOf, ConsumedOn, ReturnedOf
  <2>2. Total(IssuedOf) = 0 /\ Total(ConsumedOn) = 0 /\ Total(ReturnedOf) = 0
    <3> HIDE DEF IssuedOf, ConsumedOn, ReturnedOf
    <3> QED  BY <2>1, TotalZero
  <2>3. AtSupplier = 0
    BY StockAssumption DEF Init, AtSupplier
  <2> QED  BY <2>2, <2>3 DEF SupplierStockAccounted, Issued, Consumed, Returned,
                             IssuedOf, ConsumedOn, ReturnedOf
<1> QED  BY <1>1, <1>2, <1>3 DEF IInv

LEMMA NextOK ==
  ASSUME IInv, [Next]_vars
  PROVE  IInv'
<1>1. ASSUME NEW s \in Sessions, NEW o \in Orders, NEW kind \in Kinds, Begin(s, kind, o)
      PROVE  IInv'
  BY <1>1, BeginTyped, Kept DEF IInv, Begin
<1>2. ASSUME NEW s \in Sessions, Lock(s)
      PROVE  IInv'
  BY <1>2, LockTyped, Kept DEF IInv, Lock
<1>3. ASSUME NEW s \in Sessions, AbortDeadlock(s) \/ Abandon(s)
      PROVE  IInv'
  BY <1>3, EndTyped, Kept DEF IInv, AbortDeadlock, Abandon
<1>4. ASSUME NEW s \in Sessions, Commit(s)
      PROVE  IInv'
  BY <1>4, ClosedOK, IssueOK, ReceiveOK, ReturnOK DEF Commit
<1>5. CASE UNCHANGED vars
  BY <1>5, Kept DEF vars, IInv, TypeOK, LocksTyped
<1> QED  BY <1>1, <1>2, <1>3, <1>4, <1>5 DEF Next, Advance

-----------------------------------------------------------------------------
(* Theorems *)

\* The inductive invariant of subcontracting: the issue records are not credited with
\* more than they issued, and the stock at the subcontractor is accounted for.
THEOREM SubcontractingInvariant == Spec => []IInv
<1>1. Init => IInv
  BY InitOK
<1>2. IInv /\ [Next]_vars => IInv'
  BY NextOK
<1> QED  BY <1>1, <1>2, PTL DEF Spec

\* All orders together never consume what was not issued to the subcontractor, and no
\* issued unit vanishes.
THEOREM SupplierAccounted == Spec => []SupplierStockAccounted
<1>1. IInv => SupplierStockAccounted
  BY DEF IInv
<1> QED  BY <1>1, SubcontractingInvariant, PTL

\* Every column, lock and request in progress holds a value of its kind.
THEOREM SubcontractingTyped == Spec => []TypeOK
<1>1. IInv => TypeOK
  BY DEF IInv
<1> QED  BY <1>1, SubcontractingInvariant, PTL
=============================================================================
