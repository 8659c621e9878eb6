----------------------- MODULE SalesFulfilmentProofs -----------------------
(***************************************************************************)
(* For every set of orders, lines, products and sessions: no more finished *)
(* goods are reserved than are on hand, the recorded credit stays within   *)
(* the limit, and the output of a work order enters the stock once.  Then, *)
(* when requests follow each other: no line is allocated too much, what    *)
(* leaves the stock is shipped of a line, and what is reserved follows     *)
(* what the lines claim, whatever was cancelled, completed or received     *)
(* late.                                                                   *)
(***************************************************************************)
EXTENDS SalesFulfilment, UnitCountProofs

Quantity == [LineColumns -> Nat]

-----------------------------------------------------------------------------
(* Sums over the lines of a product *)

LEMMA SumNat ==
  ASSUME NEW ls \in SUBSET Lines, NEW product, NEW q \in [ls -> Nat], NEW p
  PROVE  SumFor(p, ls, product, q) \in Nat
<1> DEFINE here == {k \in ls : product[k] = p}
           f == [l \in here |-> q[l]]
<1>1. IsFiniteSet(here) /\ f \in [here -> Nat]
  BY FiniteOrders, FS_Subset
<1> HIDE DEF here, f
<1>2. Total(f) \in Nat
  BY <1>1, UnitsFinite
<1> QED  BY <1>2 DEF SumFor, here, f

\* An order names a product once, so what it takes of a product is what one of
\* its lines takes.
LEMMA SumOfOrder ==
  ASSUME NEW o \in Orders, NEW p \in Products, NEW n \in Nat, NEW q \in [LinesOf(o) -> Nat],
         \A l \in LinesOf(o) : ProductOf[l] = p => q[l] =< n
  PROVE  SumFor(p, LinesOf(o), ProductOf, q) =< n
<1> DEFINE here == {k \in LinesOf(o) : ProductOf[k] = p}
           f == [l \in here |-> q[l]]
<1>0. SumFor(p, LinesOf(o), ProductOf, q) = Total(f)
  BY DEF SumFor
<1>1. f \in [here -> Nat] /\ DOMAIN f = here /\ here \subseteq Lines
  BY DEF LinesOf
<1>2. CASE here = {}
  <2>1. \A l \in here : f[l] = 0
    BY <1>2
  <2>2. Total(f) = 0
    <3> HIDE DEF f
    <3> QED  BY <1>1, <2>1, TotalZero
  <2> QED  BY <1>0, <2>2
<1>3. CASE here # {}
  <2>1. PICK x : x \in here
    BY <1>3
  <2> DEFINE rest == here \ {x}
             e == [l \in rest |-> q[l]]
  <2>2. rest = {} /\ here = rest \cup {x} /\ x \notin rest
    BY <2>1, OneLinePerProduct DEF LinesOf
  <2>3. e \in [rest -> Nat] /\ DOMAIN e = rest /\ IsFiniteSet(rest)
    BY <2>2, FS_EmptySet
  <2>4. \A y \in rest : f[y] = e[y] /\ e[y] = 0
    BY <2>2
  <2>5. f \in [rest \cup {x} -> Nat] /\ f[x] = q[x] /\ q[x] =< n
    BY <1>1, <2>1, <2>2
  <2> HIDE DEF f, e, here, rest
  <2>6. Total(e) = 0
    BY <2>3, <2>4, TotalZero
  <2>7. Total(f) = Total(e) + f[x]
    <3>1. x \notin rest
      BY <2>2
    <3> QED  BY <2>3, <2>4, <2>5, <3>1, TotalSplit
  <2>8. f[x] \in Nat
    BY <2>5
  <2>9. Total(f) = f[x]
    BY <2>6, <2>7, <2>8
  <2> QED  BY <1>0, <2>5, <2>9
<1> QED  BY <1>2, <1>3

-----------------------------------------------------------------------------
(* Requests *)

LEMMA Kinds ==
  ASSUME TypeOK, NEW c \in Sessions
  PROVE  /\ session[c].kind \in OrderKinds =>
              \E o \in Orders : session[c] \in OrderRequest(o)
         /\ session[c].kind \in {"INSPECT", "WORKFLOW"} => session[c] \in ReceiptRequest
<1>1. session[c] \in Requests
  BY DEF TypeOK
<1> QED  BY <1>1 DEF Requests, Idle, ReceiptRequest, OrderRequest, OrderKinds

\* A request that ends, or none, and work orders that only grow in number.
LEMMA SessionsKept ==
  ASSUME TypeOK, ReceiptsOfWorkOrders, CreditReadWithinLimit, NEW c,
         End(c) \/ UNCHANGED session,
         \A l \in Lines : DOMAIN wo[l] \subseteq DOMAIN wo'[l]
  PROVE  session' \in [Sessions -> Requests] /\ ReceiptsOfWorkOrders' /\ CreditReadWithinLimit'
<1>1. Idle \in Requests /\ Idle \notin ReceiptRequest
  BY DEF Requests, Idle, ReceiptRequest
<1>2. session \in [Sessions -> Requests]
  BY DEF TypeOK
<1>3. session' \in [Sessions -> Requests]
  BY <1>1, <1>2 DEF End
<1>4. \A d \in Sessions : session'[d] \in ReceiptRequest => session'[d] = session[d]
  BY <1>1, <1>2 DEF End
<1>5. \A d \in Sessions : session[d] \in ReceiptRequest => session[d].of \in Lines
  BY DEF ReceiptRequest
<1>6. ReceiptsOfWorkOrders'
  BY <1>4, <1>5 DEF ReceiptsOfWorkOrders
<1>7. \A d \in Sessions : session'[d].kind \in OrderKinds => session'[d] = session[d]
  BY <1>2 DEF End, Idle, OrderKinds
<1>8. CreditReadWithinLimit'
  BY <1>7 DEF CreditReadWithinLimit
<1> QED  BY <1>3, <1>6, <1>8

LEMMA ColumnsWritten ==
  ASSUME NEW q \in Quantity, NEW a \in Nat, NEW s \in Nat, NEW b \in Nat
  PROVE  /\ [q EXCEPT !.allocated = a, !.shortfall = s, !.backorder = b] \in Quantity
         /\ [q EXCEPT !.allocated = a, !.shortfall = s] \in Quantity
         /\ [q EXCEPT !.allocated = a] \in Quantity
         /\ [q EXCEPT !.shipped = a] \in Quantity
  BY DEF Quantity

LEMMA SaveTyped ==
  ASSUME TypeOK, NEW o \in Orders, NEW rs, NEW ns \in Status,
         NEW rl, NEW nl \in [LinesOf(o) -> Quantity], SaveOrder(o, rs, ns, rl, nl)
  PROVE  status' \in [Orders -> Status] /\ line' \in [Lines -> Quantity]
<1>1. PICK refreshed \in BOOLEAN :
        /\ status' = [status EXCEPT ![o] = Saved(refreshed, @, rs, ns)]
        /\ line' = [l \in Lines |->
             IF l \in LinesOf(o)
             THEN [f \in LineColumns |-> Saved(refreshed, line[l][f], rl[l][f], nl[l][f])]
             ELSE line[l]]
  BY DEF SaveOrder
<1>2. status \in [Orders -> Status] /\ line \in [Lines -> Quantity]
  BY DEF TypeOK, Quantity
<1>3. Saved(refreshed, status[o], rs, ns) \in Status
  BY <1>2 DEF Saved
<1>4. \A l \in LinesOf(o) :
        [f \in LineColumns |-> Saved(refreshed, line[l][f], rl[l][f], nl[l][f])] \in Quantity
  <2> SUFFICES ASSUME NEW l \in LinesOf(o), NEW f \in LineColumns
               PROVE  Saved(refreshed, line[l][f], rl[l][f], nl[l][f]) \in Nat
    BY DEF Quantity
  <2>1. line[l][f] \in Nat /\ nl[l][f] \in Nat
    BY <1>2 DEF LinesOf, Quantity
  <2> QED  BY <2>1 DEF Saved
<1>5. status' \in [Orders -> Status]
  BY <1>1, <1>2, <1>3
<1>6. line' \in [Lines -> Quantity]
  BY <1>1, <1>2, <1>4
<1> QED  BY <1>5, <1>6

\* The states a handler names are states.
LEMMA Names ==
  {"DRAFT", "PENDING_APPROVAL", "REJECTED", "CONFIRMED", "PRODUCTION", "READY_FOR_DISPATCH",
   "SHIPPED", "DELIVERED", "INVOICED", "COMPLETED", "CANCELLED"} \subseteq Status
  BY DEF Status, Targets

LEMMA InitInv == Init => Inv
<1> SUFFICES ASSUME Init PROVE Inv
  OBVIOUS
<1> USE DEF Init
<1>1. Idle \in Requests /\ Idle \notin ReceiptRequest
  BY DEF Requests, Idle, ReceiptRequest
<1>2. "DRAFT" \in Status
  BY Names
<1>3. TypeOK
  BY <1>1, <1>2, StockAssumption DEF TypeOK
<1>4. ReceiptsOfWorkOrders
  BY <1>1 DEF ReceiptsOfWorkOrders
<1>5. CreditReadWithinLimit
  BY DEF CreditReadWithinLimit, Idle, OrderKinds
<1>6. ReservedWithinStock /\ CreditWithinLimit
  BY StockAssumption, MoneyAssumption DEF ReservedWithinStock, CreditWithinLimit
<1> QED  BY <1>3, <1>4, <1>5, <1>6 DEF Inv

LEMMA BeginOrderRequestInv ==
  ASSUME Inv, NEW c \in Sessions, NEW kind \in OrderKinds, NEW o \in Orders,
         BeginOrderRequest(c, kind, o)
  PROVE  Inv'
<1> DEFINE r == [kind |-> kind, order |-> o, status |-> status[o],
                 line |-> [l \in LinesOf(o) |-> line[l]],
                 credit |-> IF kind \in {"APPROVE", "CONFIRM", "CANCEL"} THEN creditUsed ELSE 0,
                 free |-> [p \in Products |->
                             IF kind \in {"APPROVE", "CONFIRM"} THEN Free(p) ELSE 0]]
<1>1. session' = [session EXCEPT ![c] = r]
  BY DEF BeginOrderRequest
<1>2. UNCHANGED <<onHand, reserved, rows, status, line, wo, creditUsed>>
  BY DEF BeginOrderRequest, stockVars
<1>3. r.line \in [LinesOf(o) -> [LineColumns -> Nat]]
  BY DEF Inv, TypeOK, LinesOf
<1>4. r.free \in [Products -> Nat]
  BY DEF Inv, TypeOK, Free, Positive
<1>5. r \in OrderRequest(o)
  BY <1>3, <1>4 DEF Inv, TypeOK, OrderRequest
<1>6. r \in Requests /\ r \notin ReceiptRequest
  BY <1>5 DEF Requests, ReceiptRequest, OrderKinds
<1>7. r.credit = creditUsed \/ r.credit = 0
  OBVIOUS
<1> HIDE DEF r
<1>8. TypeOK'
  BY <1>1, <1>2, <1>6 DEF Inv, TypeOK
<1>9. ReceiptsOfWorkOrders'
  BY <1>1, <1>2, <1>6 DEF Inv, TypeOK, ReceiptsOfWorkOrders
<1>10. CreditReadWithinLimit'
  BY <1>1, <1>7, MoneyAssumption DEF Inv, TypeOK, CreditReadWithinLimit, CreditWithinLimit
<1>11. ReservedWithinStock' /\ CreditWithinLimit'
  BY <1>2 DEF Inv, ReservedWithinStock, CreditWithinLimit
<1> QED  BY <1>8, <1>9, <1>10, <1>11 DEF Inv

LEMMA BeginReceiptInv ==
  ASSUME Inv, NEW c \in Sessions, NEW kind \in {"INSPECT", "WORKFLOW"}, NEW l \in Lines,
         NEW i \in DOMAIN wo[l], BeginReceipt(c, kind, l, i)
  PROVE  Inv'
<1> DEFINE r == [kind |-> kind, of |-> l, wo |-> i, receipt |-> wo[l][i].receipt]
<1>1. session' = [session EXCEPT ![c] = r]
  BY DEF BeginReceipt
<1>2. UNCHANGED <<onHand, reserved, rows, status, line, wo, creditUsed>>
  BY DEF BeginReceipt, stockVars
<1>3. i \in Nat \ {0} /\ wo[l][i] \in WorkOrder
  BY DEF Inv, TypeOK
<1>4. r \in ReceiptRequest
  BY <1>3 DEF ReceiptRequest, WorkOrder
<1>5. r \in Requests /\ r.kind \notin OrderKinds /\ r.of = l /\ r.wo = i
  BY <1>4 DEF Requests, OrderKinds
<1> HIDE DEF r
<1>6. TypeOK'
  BY <1>1, <1>2, <1>5 DEF Inv, TypeOK
<1>7. ReceiptsOfWorkOrders'
  BY <1>1, <1>2, <1>5 DEF Inv, TypeOK, ReceiptsOfWorkOrders
<1>8. CreditReadWithinLimit'
  BY <1>1, <1>5 DEF Inv, TypeOK, CreditReadWithinLimit
<1>9. ReservedWithinStock' /\ CreditWithinLimit'
  BY <1>2 DEF Inv, ReservedWithinStock, CreditWithinLimit
<1> QED  BY <1>6, <1>7, <1>8, <1>9 DEF Inv

-----------------------------------------------------------------------------
(* Requests that save an order *)

\* What is left to show of a step that ends the request of c, or of none.
LEMMA StepInv ==
  ASSUME Inv, NEW c, End(c) \/ UNCHANGED session,
         \A l \in Lines : DOMAIN wo[l] \subseteq DOMAIN wo'[l],
         wo' \in [Lines -> Seq(WorkOrder)],
         status' \in [Orders -> Status], line' \in [Lines -> Quantity],
         onHand' \in [Products -> Nat], reserved' \in [Products -> Nat],
         \A p \in Products : reserved'[p] =< onHand'[p],
         rows' \subseteq (Orders \cup Lines) \X Products,
         creditUsed' \in Nat, CreditLimit = 0 \/ creditUsed' =< CreditLimit
  PROVE  Inv'
<1>1. /\ session' \in [Sessions -> Requests]
      /\ ReceiptsOfWorkOrders' /\ CreditReadWithinLimit'
  BY SessionsKept DEF Inv
<1>2. TypeOK'
  BY <1>1 DEF TypeOK, Quantity
<1>3. ReservedWithinStock' /\ CreditWithinLimit'
  BY DEF ReservedWithinStock, CreditWithinLimit
<1> QED  BY <1>1, <1>2, <1>3 DEF Inv

LEMMA MoveInv ==
  ASSUME Inv, NEW c \in Sessions, NEW kind \in OrderKinds, NEW target \in Status,
         Move(c, kind, target)
  PROVE  Inv'
<1> DEFINE r == session[c]
<1>1. r.kind = kind /\ End(c) /\ UNCHANGED <<onHand, reserved, rows, wo, creditUsed>>
  BY DEF Move, stockVars
<1>2. PICK o \in Orders : r \in OrderRequest(o)
  BY <1>1, Kinds DEF Inv
<1>3. r.order = o /\ r.line \in [LinesOf(o) -> Quantity]
  BY <1>2 DEF OrderRequest, Quantity
<1>4. SaveOrder(o, r.status, target, r.line, r.line)
  BY <1>3 DEF Move
<1>5. status' \in [Orders -> Status] /\ line' \in [Lines -> Quantity]
  BY <1>3, <1>4, SaveTyped DEF Inv
<1> QED
  BY <1>1, <1>5, StepInv DEF Inv, TypeOK, ReservedWithinStock, CreditWithinLimit

\* What a confirmation reserves of a product is available under the lock, because
\* an order has one line of it.
LEMMA ConfirmLinesInv ==
  ASSUME Inv, NEW c \in Sessions, NEW o \in Orders, session[c] \in OrderRequest(o),
         NEW read \in [LinesOf(o) -> Quantity],
         NEW take \in [LinesOf(o) -> Nat], NEW short \in [LinesOf(o) -> Nat],
         ConfirmLines(c, read, take, short)
  PROVE  Inv'
<1> DEFINE r == session[c]
           new == [l \in LinesOf(o) |->
                     [read[l] EXCEPT !.allocated = @ + take[l],
                                     !.shortfall = IF short[l] > 0 THEN short[l] ELSE @,
                                     !.backorder = IF short[l] > 0 THEN short[l] ELSE @]]
           next == IF \E l \in LinesOf(o) : new[l].backorder > 0 THEN "PRODUCTION"
                   ELSE IF \A l \in LinesOf(o) : new[l].allocated >= Ordered[l]
                        THEN "READY_FOR_DISPATCH" ELSE "CONFIRMED"
<1>1. r.order = o /\ r.credit \in Nat
  BY DEF OrderRequest
<1>2. /\ \A l \in LinesOf(o) : take[l] =< Reservable(ProductOf[l])
      /\ reserved' = [p \in Products |-> reserved[p] + SumFor(p, LinesOf(o), ProductOf, take)]
      /\ rows' = rows \cup {<<o, ProductOf[l]>> : l \in {k \in LinesOf(o) : take[k] > 0}}
      /\ End(c)
      /\ UNCHANGED onHand
  <2> HIDE DEF new, next
  <2> DEFINE ls == LinesOf(session[c].order)
  <2>1. /\ \A l \in ls : take[l] =< Reservable(ProductOf[l])
        /\ reserved' = [p \in Products |-> reserved[p] + SumFor(p, ls, ProductOf, take)]
        /\ rows' = rows \cup {<<session[c].order, ProductOf[l]>> : l \in {k \in ls : take[k] > 0}}
        /\ End(c)
        /\ UNCHANGED onHand
    BY Zenon DEF ConfirmLines
  <2> QED  BY <1>1, <2>1
<1>3. new \in [LinesOf(o) -> Quantity]
  <2> SUFFICES ASSUME NEW l \in LinesOf(o)
               PROVE  new[l] \in Quantity
    OBVIOUS
  <2> DEFINE a == read[l].allocated + take[l]
             s == IF short[l] > 0 THEN short[l] ELSE read[l].shortfall
             b == IF short[l] > 0 THEN short[l] ELSE read[l].backorder
  <2>1. read[l] \in Quantity /\ take[l] \in Nat /\ short[l] \in Nat
    OBVIOUS
  <2>2. a \in Nat /\ s \in Nat /\ b \in Nat
    BY <2>1 DEF Quantity, LineColumns
  <2>3. new[l] = [read[l] EXCEPT !.allocated = a, !.shortfall = s, !.backorder = b]
    OBVIOUS
  <2> HIDE DEF new, a, s, b
  <2>4. [read[l] EXCEPT !.allocated = a, !.shortfall = s, !.backorder = b] \in Quantity
    BY <2>1, <2>2, ColumnsWritten
  <2> QED  BY <2>3, <2>4, Zenon
<1>4. next \in Status
  BY Names
<1>5. SaveOrder(o, r.status, next, read, new)
  BY <1>1 DEF ConfirmLines
<1> HIDE DEF new, next
<1>6. status' \in [Orders -> Status] /\ line' \in [Lines -> Quantity]
  BY <1>3, <1>4, <1>5, SaveTyped DEF Inv
<1>7. ASSUME NEW p \in Products
      PROVE  reserved'[p] \in Nat /\ reserved'[p] =< onHand'[p]
  <2> DEFINE s == SumFor(p, LinesOf(o), ProductOf, take)
  <2>1. onHand[p] \in Nat /\ reserved[p] \in Nat /\ reserved[p] =< onHand[p]
    BY DEF Inv, TypeOK, ReservedWithinStock
  <2>2. Free(p) \in Nat /\ Free(p) = onHand[p] - reserved[p]
    BY <2>1 DEF Free, Positive
  <2>3. \A l \in LinesOf(o) : ProductOf[l] = p => take[l] =< Free(p)
    BY <1>2 DEF Reservable
  <2>4. s =< Free(p)
    BY <2>2, <2>3, SumOfOrder
  <2>5. s \in Nat
    BY SumNat DEF LinesOf
  <2>6. reserved'[p] = reserved[p] + s /\ onHand' = onHand
    BY <1>2
  <2> QED  BY <2>1, <2>2, <2>4, <2>5, <2>6
<1>8. reserved' \in [Products -> Nat]
  BY <1>2, <1>7
<1>9. rows' \subseteq (Orders \cup Lines) \X Products
  BY <1>2, LineAssumption DEF Inv, TypeOK, LinesOf
<1>10. wo' \in [Lines -> Seq(WorkOrder)] /\ \A l \in Lines : DOMAIN wo[l] \subseteq DOMAIN wo'[l]
  <2>1. PICK made \in SUBSET LinesOf(o) :
          wo' = [l \in Lines |-> IF l \in made THEN Append(wo[l], NewWorkOrder(short[l]))
                                               ELSE wo[l]]
    BY <1>1 DEF ConfirmLines
  <2>2. wo \in [Lines -> Seq(WorkOrder)]
    BY DEF Inv, TypeOK
  <2>3. \A l \in made : NewWorkOrder(short[l]) \in WorkOrder
    BY DEF NewWorkOrder, WorkOrder
  <2>4. ASSUME NEW l \in Lines
        PROVE  wo'[l] \in Seq(WorkOrder) /\ DOMAIN wo[l] \subseteq DOMAIN wo'[l]
    <3>1. wo[l] \in Seq(WorkOrder)
      BY <2>2
    <3>2. CASE l \in made
      <4>1. NewWorkOrder(short[l]) \in WorkOrder
        BY <2>3, <3>2
      <4>2. wo'[l] = Append(wo[l], NewWorkOrder(short[l]))
        BY <2>1, <3>2
      <4> QED  BY <3>1, <4>1, <4>2
    <3>3. CASE l \notin made
      BY <2>1, <3>1, <3>3
    <3> QED  BY <3>2, <3>3
  <2> QED  BY <2>1, <2>4
<1>11. creditUsed' \in Nat /\ (CreditLimit = 0 \/ creditUsed' =< CreditLimit)
  <2>1. PICK used \in {r.credit, creditUsed} :
          WithinLimit(used, Amount[o]) /\ creditUsed' = used + Amount[o]
    BY <1>1 DEF ConfirmLines, AllocateCredit
  <2>2. used \in Nat /\ Amount[o] \in Nat
    BY <1>1, <2>1, MoneyAssumption DEF Inv, TypeOK
  <2> QED  BY <2>1, <2>2 DEF WithinLimit
<1>12. onHand' \in [Products -> Nat]
  BY <1>2 DEF Inv, TypeOK
<1>13. \A p \in Products : reserved'[p] =< onHand'[p]
  BY <1>7
<1>14. End(c)
  BY <1>2
<1> QED
  BY <1>6, <1>8, <1>9, <1>10, <1>11, <1>12, <1>13, <1>14, StepInv

LEMMA BelievedNat ==
  ASSUME TypeOK, NEW c \in Sessions, NEW o \in Orders, session[c] \in OrderRequest(o),
         NEW stale \in SUBSET Products, NEW l \in Lines
  PROVE  Believed(c, stale, l) \in Nat /\ Ordered[l] \in Nat
<1>1. ProductOf[l] \in Products /\ Ordered[l] \in Nat
  BY LineAssumption
<1>2. session[c].free[ProductOf[l]] \in Nat
  BY <1>1 DEF OrderRequest
<1>3. Free(ProductOf[l]) \in Nat
  BY <1>1 DEF TypeOK, Free, Positive
<1> QED  BY <1>1, <1>2, <1>3 DEF Believed

LEMMA ConfirmInv ==
  ASSUME Inv, NEW c \in Sessions, Confirm(c)
  PROVE  Inv'
<1>1. PICK o \in Orders : session[c] \in OrderRequest(o)
  BY Kinds DEF Inv, Confirm, OrderKinds
<1>2. session[c].order = o /\ session[c].line \in [LinesOf(o) -> Quantity]
  BY <1>1 DEF OrderRequest, Quantity
<1>3. PICK stale \in SUBSET Products :
        ConfirmLines(c, session[c].line,
          [l \in LinesOf(o) |-> IF Believed(c, stale, l) >= Ordered[l] THEN Ordered[l] ELSE 0],
          [l \in LinesOf(o) |-> Positive(Ordered[l] - Believed(c, stale, l))])
  BY <1>2 DEF Confirm
<1> DEFINE take == [l \in LinesOf(o) |->
                      IF Believed(c, stale, l) >= Ordered[l] THEN Ordered[l] ELSE 0]
           short == [l \in LinesOf(o) |-> Positive(Ordered[l] - Believed(c, stale, l))]
<1>4. \A l \in LinesOf(o) : Believed(c, stale, l) \in Nat /\ Ordered[l] \in Nat
  BY <1>1, BelievedNat DEF Inv, LinesOf
<1>5. take \in [LinesOf(o) -> Nat] /\ short \in [LinesOf(o) -> Nat]
  BY <1>4 DEF Positive
<1>6. ConfirmLines(c, session[c].line, take, short)
  BY <1>3
<1> HIDE DEF take, short
<1> QED  BY <1>1, <1>2, <1>5, <1>6, ConfirmLinesInv

LEMMA ApproveInv ==
  ASSUME Inv, NEW c \in Sessions, Approve(c)
  PROVE  Inv'
<1>1. PICK o \in Orders : session[c] \in OrderRequest(o)
  BY Kinds DEF Inv, Approve, OrderKinds
<1>2. session[c].order = o /\ session[c].line \in [LinesOf(o) -> Quantity]
  BY <1>1 DEF OrderRequest, Quantity
<1>3. PICK stale \in SUBSET Products,
           read \in {session[c].line, [l \in LinesOf(o) |-> line[l]]} :
        ConfirmLines(c, read,
          [l \in LinesOf(o) |-> Least(Believed(c, stale, l), Ordered[l])],
          [l \in LinesOf(o) |-> Positive(Ordered[l] - Believed(c, stale, l))])
  BY <1>2 DEF Approve
<1> DEFINE take == [l \in LinesOf(o) |-> Least(Believed(c, stale, l), Ordered[l])]
           short == [l \in LinesOf(o) |-> Positive(Ordered[l] - Believed(c, stale, l))]
<1>4. \A l \in LinesOf(o) : Believed(c, stale, l) \in Nat /\ Ordered[l] \in Nat
  BY <1>1, BelievedNat DEF Inv, LinesOf
<1>5. take \in [LinesOf(o) -> Nat] /\ short \in [LinesOf(o) -> Nat]
  BY <1>4 DEF Positive, Least
<1>6. ConfirmLines(c, read, take, short)
  BY <1>3
<1>7. read \in [LinesOf(o) -> Quantity]
  BY <1>2 DEF Inv, TypeOK, LinesOf, Quantity
<1> HIDE DEF take, short
<1> QED  BY <1>1, <1>5, <1>6, <1>7, ConfirmLinesInv

-----------------------------------------------------------------------------
(* Cancellation, shipment and the end of an order *)

LEMMA CancelInv ==
  ASSUME Inv, NEW c \in Sessions, Cancel(c)
  PROVE  Inv'
<1> DEFINE r == session[c]
<1>1. PICK o \in Orders : r \in OrderRequest(o)
  BY Kinds DEF Inv, Cancel, OrderKinds
<1>2. r.order = o /\ r.line \in [LinesOf(o) -> Quantity] /\ r.credit \in Nat /\ r.kind \in OrderKinds
  BY <1>1 DEF OrderRequest, Quantity
<1>3. SaveOrder(o, r.status, "CANCELLED", r.line, r.line) /\ End(c) /\ UNCHANGED <<onHand, rows, wo>>
  BY <1>2 DEF Cancel
<1>4. status' \in [Orders -> Status] /\ line' \in [Lines -> Quantity]
  BY <1>2, <1>3, Names, SaveTyped DEF Inv
<1> DEFINE held == {l \in LinesOf(o) : r.line[l].allocated > 0 /\ RowsFor(l) # {}}
           allocated == [l \in held |-> r.line[l].allocated]
<1>5. PICK found \in Found(held) :
        reserved' = [p \in Products |-> Released(reserved[p], SumFor(p, held, found, allocated))]
  BY <1>2 DEF Cancel
<1>6. held \in SUBSET Lines /\ allocated \in [held -> Nat]
  BY <1>2 DEF LinesOf, Quantity, LineColumns
<1> HIDE DEF held, allocated
<1>7. ASSUME NEW p \in Products
      PROVE  reserved'[p] \in Nat /\ reserved'[p] =< onHand'[p]
  <2>1. SumFor(p, held, found, allocated) \in Nat
    BY <1>6, SumNat
  <2>2. reserved[p] \in Nat /\ onHand[p] \in Nat /\ reserved[p] =< onHand[p]
    BY DEF Inv, TypeOK, ReservedWithinStock
  <2>3. reserved'[p] = Released(reserved[p], SumFor(p, held, found, allocated))
    BY <1>5
  <2> QED  BY <1>3, <2>1, <2>2, <2>3 DEF Released, Positive
<1>8. reserved' \in [Products -> Nat]
  BY <1>5, <1>7
<1>9. creditUsed' \in Nat /\ (CreditLimit = 0 \/ creditUsed' =< CreditLimit)
  <2>1. \A used \in {r.credit, creditUsed} :
          used \in Nat /\ (CreditLimit = 0 \/ used =< CreditLimit)
    BY <1>2 DEF Inv, TypeOK, CreditReadWithinLimit, CreditWithinLimit
  <2>2. Amount[o] \in Nat /\ CreditLimit \in Nat
    BY MoneyAssumption
  <2>3. \/ UNCHANGED creditUsed
        \/ \E used \in {r.credit, creditUsed} :
             used >= Amount[o] /\ creditUsed' = used - Amount[o]
    BY <1>2 DEF Cancel
  <2>4. CASE UNCHANGED creditUsed
    BY <2>1, <2>4
  <2>5. CASE \E used \in {r.credit, creditUsed} :
               used >= Amount[o] /\ creditUsed' = used - Amount[o]
    BY <2>1, <2>2, <2>5
  <2> QED  BY <2>3, <2>4, <2>5
<1> QED
  BY <1>3, <1>4, <1>7, <1>8, <1>9, StepInv DEF Inv, TypeOK

LEMMA ShipInv ==
  ASSUME Inv, NEW c \in Sessions, Ship(c)
  PROVE  Inv'
<1> DEFINE r == session[c]
           o == r.order
<1>1. o \in Orders /\ r \in OrderRequest(o)
  BY Kinds DEF Inv, Ship, OrderKinds, OrderRequest
<1>2. r.status \in Status /\ r.line \in [LinesOf(o) -> Quantity]
  BY <1>1 DEF OrderRequest, Quantity
<1> DEFINE sent(q) == {l \in LinesOf(o) : q[l] > 0}
           new(q) == [l \in LinesOf(o) |-> [r.line[l] EXCEPT !.shipped = @ + q[l]]]
           all(q) == \A l \in LinesOf(o) :
                       new(q)[l].allocated > 0 /\ new(q)[l].shipped >= new(q)[l].allocated
<1>3. PICK q \in Shipments(o) :
        /\ \E found \in Found(sent(q)) :
             /\ \A p \in Products : SumFor(p, sent(q), found, q) =< onHand[p]
             /\ onHand' = [p \in Products |-> StockLess(p, SumFor(p, sent(q), found, q))]
             /\ reserved' = [p \in Products |->
                               Released(reserved[p], SumFor(p, sent(q), found, q))]
        /\ SaveOrder(o, r.status, IF all(q) THEN "SHIPPED" ELSE r.status, r.line, new(q))
  BY Zenon DEF Ship
<1> HIDE DEF o
<1> DEFINE ls == sent(q)
           f == [l \in ls |-> q[l]]
<1>13. PICK found \in Found(ls) :
         /\ \A p \in Products : SumFor(p, ls, found, q) =< onHand[p]
         /\ onHand' = [p \in Products |-> StockLess(p, SumFor(p, ls, found, q))]
         /\ reserved' = [p \in Products |-> Released(reserved[p], SumFor(p, ls, found, q))]
  BY <1>3
<1>4. End(c) /\ UNCHANGED <<rows, wo, creditUsed>>
  BY DEF Ship
<1>5. \A l \in LinesOf(o) : q[l] \in Nat
  <2>1. \A l \in Lines : Ordered[l] \in Nat
    BY LineAssumption
  <2>2. UNION {0..Ordered[l] : l \in LinesOf(o)} \subseteq Nat
    BY <2>1 DEF LinesOf
  <2> QED  BY <2>2 DEF Shipments
<1>6. new(q) \in [LinesOf(o) -> Quantity]
  <2> SUFFICES ASSUME NEW l \in LinesOf(o)
               PROVE  [r.line[l] EXCEPT !.shipped = @ + q[l]] \in Quantity
    OBVIOUS
  <2>1. r.line[l] \in Quantity /\ q[l] \in Nat
    BY <1>2, <1>5
  <2>2. r.line[l].shipped + q[l] \in Nat
    BY <2>1 DEF Quantity, LineColumns
  <2> QED  BY <2>1, <2>2 DEF Quantity
<1>7. (IF all(q) THEN "SHIPPED" ELSE r.status) \in Status
  BY <1>2, Names
<1>8. status' \in [Orders -> Status] /\ line' \in [Lines -> Quantity]
  <2>1. SaveOrder(o, r.status, IF all(q) THEN "SHIPPED" ELSE r.status, r.line, new(q))
    BY <1>3
  <2> DEFINE n == new(q)
             s == IF all(q) THEN "SHIPPED" ELSE r.status
  <2>2. n \in [LinesOf(o) -> Quantity] /\ s \in Status
    BY <1>6, <1>7
  <2>3. SaveOrder(o, r.status, s, r.line, n) /\ TypeOK
    BY <2>1 DEF Inv
  <2> HIDE DEF n, s
  <2> QED  BY <1>1, <2>2, <2>3, SaveTyped
<1>9. ls \in SUBSET Lines
  BY DEF LinesOf
<1>10. \A p \in Products : SumFor(p, ls, found, q) \in Nat
  <2> SUFFICES ASSUME NEW p \in Products
               PROVE  SumFor(p, ls, found, q) \in Nat
    OBVIOUS
  <2>1. f \in [ls -> Nat] /\ \A l \in ls : f[l] = q[l]
    BY <1>5
  <2>2. SumFor(p, ls, found, f) = SumFor(p, ls, found, q)
    BY <2>1 DEF SumFor
  <2> HIDE DEF f, ls
  <2>3. SumFor(p, ls, found, f) \in Nat
    BY <1>9, <2>1, SumNat
  <2> QED  BY <2>2, <2>3
<1>11. ASSUME NEW p \in Products
       PROVE  reserved'[p] \in Nat /\ onHand'[p] \in Nat /\ reserved'[p] =< onHand'[p]
  <2> HIDE DEF ls, sent
  <2>1. SumFor(p, ls, found, q) \in Nat /\ SumFor(p, ls, found, q) =< onHand[p]
    BY <1>13, <1>10
  <2>2. reserved[p] \in Nat /\ onHand[p] \in Nat /\ reserved[p] =< onHand[p]
    BY DEF Inv, TypeOK, ReservedWithinStock
  <2>3. /\ reserved'[p] = Released(reserved[p], SumFor(p, ls, found, q))
        /\ onHand'[p] = StockLess(p, SumFor(p, ls, found, q))
    BY <1>13
  <2> QED  BY <2>1, <2>2, <2>3 DEF Released, Positive, StockLess
<1>12. onHand' \in [Products -> Nat] /\ reserved' \in [Products -> Nat]
  BY <1>13, <1>11
<1> QED
  BY <1>4, <1>8, <1>11, <1>12, StepInv DEF Inv, TypeOK, CreditWithinLimit

LEMMA InvoiceInv ==
  ASSUME Inv, NEW c \in Sessions, Invoice(c)
  PROVE  Inv'
<1>1. /\ status' = [status EXCEPT ![session[c].order] = "INVOICED"] /\ End(c)
      /\ UNCHANGED <<onHand, reserved, rows, line, wo, creditUsed>>
  BY DEF Invoice, stockVars
<1>2. status' \in [Orders -> Status]
  BY <1>1, Names DEF Inv, TypeOK
<1> QED
  BY <1>1, <1>2, StepInv DEF Inv, TypeOK, ReservedWithinStock, CreditWithinLimit, Quantity

LEMMA CompleteInv ==
  ASSUME Inv, NEW c \in Sessions, Complete(c)
  PROVE  Inv'
<1> DEFINE ls == {l \in LinesOf(session[c].order) : IsMaterial[ProductOf[l]]}
           allocated == [l \in ls |-> line[l].allocated]
<1>1. /\ status' = [status EXCEPT ![session[c].order] = "COMPLETED"] /\ End(c)
      /\ UNCHANGED <<onHand, rows, line, wo, creditUsed>>
      /\ reserved' = [p \in Products |->
                        Released(reserved[p], SumFor(p, ls, ProductOf, allocated))]
  BY DEF Complete
<1>2. status' \in [Orders -> Status]
  BY <1>1, Names DEF Inv, TypeOK
<1>3. ls \in SUBSET Lines /\ allocated \in [ls -> Nat]
  BY DEF LinesOf, Inv, TypeOK, LineColumns
<1> HIDE DEF ls, allocated
<1>4. ASSUME NEW p \in Products
      PROVE  reserved'[p] \in Nat /\ reserved'[p] =< onHand'[p]
  <2>1. SumFor(p, ls, ProductOf, allocated) \in Nat
    BY <1>3, SumNat
  <2>2. reserved[p] \in Nat /\ onHand[p] \in Nat /\ reserved[p] =< onHand[p]
    BY DEF Inv, TypeOK, ReservedWithinStock
  <2>3. reserved'[p] = Released(reserved[p], SumFor(p, ls, ProductOf, allocated))
    BY <1>1
  <2> QED  BY <1>1, <2>1, <2>2, <2>3 DEF Released, Positive
<1>5. reserved' \in [Products -> Nat]
  BY <1>1, <1>4
<1> QED
  BY <1>1, <1>2, <1>4, <1>5, StepInv DEF Inv, TypeOK, CreditWithinLimit, Quantity

-----------------------------------------------------------------------------
(* Work orders *)

\* One work order of a line is replaced; there are as many as before.
LEMMA WorkOrderReplaced ==
  ASSUME TypeOK, NEW l \in Lines, NEW i \in DOMAIN wo[l], NEW w \in WorkOrder,
         wo' = [wo EXCEPT ![l][i] = w]
  PROVE  /\ wo' \in [Lines -> Seq(WorkOrder)]
         /\ \A k \in Lines : DOMAIN wo'[k] = DOMAIN wo[k]
         /\ wo'[l][i] = w
         /\ \A k \in Lines : \A j \in DOMAIN wo[k] :
              k # l \/ j # i => wo'[k][j] = wo[k][j]
<1>1. wo \in [Lines -> Seq(WorkOrder)]
  BY DEF TypeOK
<1>2. wo' = [wo EXCEPT ![l] = [wo[l] EXCEPT ![i] = w]]
  OBVIOUS
<1>3. wo[l] \in Seq(WorkOrder)
  BY <1>1
<1> DEFINE s == [wo[l] EXCEPT ![i] = w]
<1>4. s \in Seq(WorkOrder) /\ DOMAIN s = DOMAIN wo[l] /\ s[i] = w
  BY <1>3
<1>5. \A j \in DOMAIN wo[l] : j # i => s[j] = wo[l][j]
  BY <1>3
<1> HIDE DEF s
<1>6. wo' = [wo EXCEPT ![l] = s]
  BY <1>2 DEF s
<1>7. wo'[l] = s /\ \A k \in Lines : k # l => wo'[k] = wo[k]
  BY <1>1, <1>6
<1>8. wo' \in [Lines -> Seq(WorkOrder)]
  BY <1>1, <1>4, <1>6
<1> QED  BY <1>4, <1>5, <1>7, <1>8

LEMMA SubmitForQCInv ==
  ASSUME Inv, NEW l \in Lines, NEW i \in DOMAIN wo[l], SubmitForQC(l, i)
  PROVE  Inv' /\ RisesWithReceipts
<1>1. wo[l][i] \in WorkOrder
  BY DEF Inv, TypeOK
<1>2. PICK made \in Nat, bad \in Nat :
        wo' = [wo EXCEPT ![l][i] = [@ EXCEPT !.status = "QC_PENDING",
                                             !.produced = made, !.scrap = bad]]
  <2>1. PICK made \in 1..wo[l][i].planned : \E bad \in 0..made :
          wo' = [wo EXCEPT ![l][i] = [@ EXCEPT !.status = "QC_PENDING",
                                               !.produced = made, !.scrap = bad]]
    BY Zenon DEF SubmitForQC
  <2>2. PICK bad \in 0..made :
          wo' = [wo EXCEPT ![l][i] = [@ EXCEPT !.status = "QC_PENDING",
                                               !.produced = made, !.scrap = bad]]
    BY <2>1
  <2>3. made \in Nat /\ bad \in Nat
    BY <1>1 DEF WorkOrder
  <2> QED  BY <2>2, <2>3
<1> DEFINE w == [wo[l][i] EXCEPT !.status = "QC_PENDING", !.produced = made, !.scrap = bad]
<1>3. w \in WorkOrder /\ w.receipt = wo[l][i].receipt
  BY <1>1 DEF WorkOrder
<1>4. wo' = [wo EXCEPT ![l][i] = w]
  BY <1>2, Zenon
<1>5. UNCHANGED <<onHand, reserved, rows, status, line, creditUsed, session>>
  BY DEF SubmitForQC, stockVars
<1> HIDE DEF w
<1>6. /\ wo' \in [Lines -> Seq(WorkOrder)]
      /\ \A k \in Lines : DOMAIN wo'[k] = DOMAIN wo[k]
      /\ wo'[l][i] = w
      /\ \A k \in Lines : \A j \in DOMAIN wo[k] : k # l \/ j # i => wo'[k][j] = wo[k][j]
  BY <1>3, <1>4, WorkOrderReplaced DEF Inv
<1>7. Inv'
  BY <1>5, <1>6, StepInv DEF Inv, TypeOK, ReservedWithinStock, CreditWithinLimit, Quantity
<1>8. \A p \in Products : ~(onHand'[p] > onHand[p])
  BY <1>5 DEF Inv, TypeOK
<1>9. \A k \in Lines : \A j \in DOMAIN wo[k] : wo'[k][j].receipt = wo[k][j].receipt
  BY <1>3, <1>6
<1> QED  BY <1>7, <1>8, <1>9 DEF RisesWithReceipts

\* The goods of a work order are received for the first time, or not at all.
LEMMA Receipt ==
  ASSUME TypeOK, NEW l \in Lines, NEW i \in DOMAIN wo[l], NEW n \in Nat,
         ReceiveFG(l, i, NewReceipt(l, i, n))
  PROVE  /\ onHand' \in [Products -> Nat]
         /\ \A p \in Products : p # ProductOf[l] => onHand'[p] = onHand[p]
         /\ onHand'[ProductOf[l]] = onHand[ProductOf[l]] + NewReceipt(l, i, n)
         /\ wo' \in [Lines -> Seq(WorkOrder)]
         /\ \A k \in Lines : DOMAIN wo'[k] = DOMAIN wo[k]
         /\ RisesWithReceipts
<1> DEFINE got == NewReceipt(l, i, n)
           total == wo[l][i].receipt + got
           w == [wo[l][i] EXCEPT !.status = "FG_RECEIVED", !.receipt = total]
<1>1. wo[l][i] \in WorkOrder
  BY DEF TypeOK
<1>2. wo[l][i].receipt \in Nat
  BY <1>1 DEF WorkOrder
<1>3. got \in Nat /\ (wo[l][i].receipt > 0 => got = 0)
  BY <1>2 DEF NewReceipt
<1> HIDE DEF got
<1>4. wo' = [wo EXCEPT ![l][i] = w]
  BY Zenon DEF ReceiveFG, got
<1>5. onHand' = [onHand EXCEPT ![ProductOf[l]] = @ + got]
  BY Zenon DEF ReceiveFG, got
<1>6. w \in WorkOrder /\ w.receipt = total
  <2>1. total \in Nat
    BY <1>2, <1>3
  <2> HIDE DEF total
  <2> QED  BY <1>1, <2>1 DEF WorkOrder
<1> HIDE DEF w
<1>7. /\ wo' \in [Lines -> Seq(WorkOrder)]
      /\ \A k \in Lines : DOMAIN wo'[k] = DOMAIN wo[k]
      /\ wo'[l][i] = w
      /\ \A k \in Lines : \A j \in DOMAIN wo[k] : k # l \/ j # i => wo'[k][j] = wo[k][j]
  BY <1>4, <1>6, WorkOrderReplaced
<1>8. ProductOf[l] \in Products /\ onHand \in [Products -> Nat]
  BY LineAssumption DEF TypeOK
<1>9. /\ onHand' \in [Products -> Nat]
      /\ \A p \in Products : p # ProductOf[l] => onHand'[p] = onHand[p]
      /\ onHand'[ProductOf[l]] = onHand[ProductOf[l]] + got
  BY <1>3, <1>5, <1>8
<1>10. \A p \in Products : onHand'[p] > onHand[p] =>
         /\ ProductOf[l] = p /\ wo[l][i].receipt = 0
         /\ wo'[l][i].receipt = onHand'[p] - onHand[p]
  <2> SUFFICES ASSUME NEW p \in Products, onHand'[p] > onHand[p]
               PROVE  /\ ProductOf[l] = p /\ wo[l][i].receipt = 0
                      /\ wo'[l][i].receipt = onHand'[p] - onHand[p]
    OBVIOUS
  <2>1. onHand[p] \in Nat
    BY <1>8
  <2>2. p = ProductOf[l] /\ onHand'[p] = onHand[p] + got
    BY <1>9, <2>1
  <2>3. got > 0 /\ wo[l][i].receipt = 0
    BY <1>2, <1>3, <2>1, <2>2
  <2>4. wo'[l][i].receipt = got
    BY <1>3, <1>6, <1>7, <2>3
  <2> QED  BY <1>3, <2>1, <2>2, <2>3, <2>4
<1>11. \A k \in Lines : \A j \in DOMAIN wo[k] :
         wo[k][j].receipt > 0 => wo'[k][j].receipt = wo[k][j].receipt
  BY <1>2, <1>3, <1>6, <1>7
<1>12. RisesWithReceipts
  BY <1>10, <1>11 DEF RisesWithReceipts
<1> QED  BY <1>7, <1>9, <1>12 DEF got

\* What an inspection or the workflow service finds when it commits.
LEMMA ReceiptRead ==
  ASSUME Inv, NEW c \in Sessions, session[c].kind \in {"INSPECT", "WORKFLOW"}
  PROVE  /\ session[c].of \in Lines
         /\ session[c].wo \in DOMAIN wo[session[c].of]
         /\ ProductOf[session[c].of] \in Products
         /\ OrderOf[session[c].of] \in Orders
         /\ wo[session[c].of][session[c].wo] \in WorkOrder
<1>1. session[c] \in ReceiptRequest
  BY Kinds DEF Inv
<1>2. session[c].of \in Lines
  BY <1>1 DEF ReceiptRequest
<1>3. session[c].wo \in DOMAIN wo[session[c].of]
  BY <1>1 DEF Inv, ReceiptsOfWorkOrders
<1>4. ProductOf[session[c].of] \in Products /\ OrderOf[session[c].of] \in Orders
  BY <1>2, LineAssumption
<1>5. wo[session[c].of] \in Seq(WorkOrder)
  BY <1>2 DEF Inv, TypeOK
<1> QED  BY <1>2, <1>3, <1>4, <1>5

-----------------------------------------------------------------------------
(* The two paths that receive finished goods *)

\* Both reserve, of what is then available, for the line of the work order.
LEMMA ReceiptInv ==
  ASSUME Inv, NEW c \in Sessions, NEW l \in Lines, NEW i \in DOMAIN wo[l], NEW n \in Nat,
         ReceiveFG(l, i, NewReceipt(l, i, n)), End(c), UNCHANGED creditUsed,
         NEW take \in Nat,
         take = 0 \/ take =< onHand[ProductOf[l]] + NewReceipt(l, i, n) - reserved[ProductOf[l]],
         reserved' = [reserved EXCEPT ![ProductOf[l]] = @ + take],
         status' \in [Orders -> Status], line' \in [Lines -> Quantity],
         rows' \subseteq rows \cup ((Orders \cup Lines) \X Products)
  PROVE  Inv' /\ RisesWithReceipts
<1> DEFINE got == NewReceipt(l, i, n)
<1>1. /\ onHand' \in [Products -> Nat]
      /\ \A p \in Products : p # ProductOf[l] => onHand'[p] = onHand[p]
      /\ onHand'[ProductOf[l]] = onHand[ProductOf[l]] + got
      /\ wo' \in [Lines -> Seq(WorkOrder)]
      /\ \A k \in Lines : DOMAIN wo'[k] = DOMAIN wo[k]
      /\ RisesWithReceipts
  BY Receipt DEF Inv
<1>2. ProductOf[l] \in Products
  BY LineAssumption
<1>3. wo[l][i] \in WorkOrder
  BY DEF Inv, TypeOK
<1>4. got \in Nat
  BY DEF NewReceipt
<1> HIDE DEF got
<1>5. \A p \in Products : onHand[p] \in Nat /\ reserved[p] \in Nat /\ reserved[p] =< onHand[p]
  BY DEF Inv, TypeOK, ReservedWithinStock
<1>6. take = 0 \/ take =< onHand[ProductOf[l]] + got - reserved[ProductOf[l]]
  BY DEF got
<1>7. reserved' \in [Products -> Nat]
  BY <1>2, <1>5 DEF Inv, TypeOK
<1>8. reserved \in [Products -> Nat]
  BY DEF Inv, TypeOK
<1>9. ASSUME NEW p \in Products
      PROVE  reserved'[p] =< onHand'[p]
  <2>1. CASE p = ProductOf[l]
    <3>1. reserved'[p] = reserved[p] + take
      BY <1>8, <2>1
    <3> QED  BY <1>1, <1>4, <1>5, <1>6, <2>1, <3>1
  <2>2. CASE p # ProductOf[l]
    BY <1>1, <1>5, <1>8, <2>2
  <2> QED  BY <2>1, <2>2
<1>10. rows' \subseteq (Orders \cup Lines) \X Products
  BY DEF Inv, TypeOK
<1>11. creditUsed' \in Nat /\ (CreditLimit = 0 \/ creditUsed' =< CreditLimit)
  BY DEF Inv, TypeOK, CreditWithinLimit
<1>12. Inv'
  BY <1>1, <1>7, <1>9, <1>10, <1>11, StepInv
<1> QED  BY <1>1, <1>12

LEMMA LineAllocated ==
  ASSUME TypeOK, NEW l \in Lines, NEW a \in Nat, NEW s \in Nat
  PROVE  /\ [line EXCEPT ![l].allocated = a] \in [Lines -> Quantity]
         /\ [line EXCEPT ![l].allocated = a, ![l].shortfall = s] \in [Lines -> Quantity]
<1>1. line \in [Lines -> Quantity]
  BY DEF TypeOK, Quantity
<1>2. [line[l] EXCEPT !.allocated = a] \in Quantity
  BY <1>1, ColumnsWritten
<1>3. [line EXCEPT ![l].allocated = a] \in [Lines -> Quantity]
  BY <1>1, <1>2
<1>4. [[line EXCEPT ![l].allocated = a] EXCEPT ![l].shortfall = s] \in [Lines -> Quantity]
  BY <1>3 DEF Quantity
<1> QED  BY <1>3, <1>4

LEMMA ApproveInspectionInv ==
  ASSUME Inv, NEW c \in Sessions, ApproveInspection(c)
  PROVE  Inv' /\ RisesWithReceipts
<1> DEFINE r == session[c]
           l == r.of
           p == ProductOf[l]
           w == wo[l][r.wo]
           net == Positive(w.produced - w.scrap)
           got == NewReceipt(l, r.wo, net)
           first == Least(net, Need(l, 0))
           rest == Least(net, Need(l, first))
           second == IF rest =< onHand[p] + got - reserved[p] - first THEN rest ELSE 0
           allocated == [k \in Lines |-> line[k].allocated + IF k = l THEN first + second ELSE 0]
<1>1. r.kind = "INSPECT"
  BY DEF ApproveInspection
<1>2. /\ l \in Lines /\ r.wo \in DOMAIN wo[l] /\ p \in Products /\ OrderOf[l] \in Orders
      /\ w \in WorkOrder
  BY <1>1, ReceiptRead
<1>3. /\ first > 0 => first =< onHand[p] + got - reserved[p]
      /\ ReceiveFG(l, r.wo, got) /\ End(c) /\ UNCHANGED creditUsed
      /\ reserved' = [reserved EXCEPT ![p] = @ + first + second]
      /\ line' = [line EXCEPT ![l].allocated = allocated[l]]
      /\ rows' = IF first + second > 0 THEN rows \cup {<<l, p>>} ELSE rows
      /\ status' = [status EXCEPT ![OrderOf[l]] =
                      IF FullyAllocated(OrderOf[l], allocated) /\ CanBecome(@, "READY_FOR_DISPATCH")
                      THEN "READY_FOR_DISPATCH" ELSE @]
  BY Zenon DEF ApproveInspection
<1>4. /\ net \in Nat /\ got \in Nat
  BY <1>2 DEF WorkOrder, Positive, NewReceipt
<1>5. line[l].allocated \in Nat /\ Ordered[l] \in Nat
  BY <1>2, LineAssumption DEF Inv, TypeOK, LineColumns
<1>6. onHand[p] \in Nat /\ reserved[p] \in Nat
  BY <1>2 DEF Inv, TypeOK
<1> HIDE DEF net, got, l, p, w
<1>7. first \in Nat
  BY <1>4, <1>5 DEF Least, Need, Positive
<1> HIDE DEF first
<1>8. rest \in Nat
  BY <1>4, <1>5, <1>7 DEF Least, Need, Positive
<1> HIDE DEF rest
<1>9. second \in Nat /\ (second = 0 \/ second =< onHand[p] + got - reserved[p] - first)
  BY <1>8
<1> HIDE DEF second
<1> DEFINE take == first + second
<1>10. take \in Nat /\ (take = 0 \/ take =< onHand[p] + got - reserved[p])
  BY <1>3, <1>4, <1>6, <1>7, <1>9
<1>11. reserved' = [reserved EXCEPT ![p] = @ + take]
  <2>1. reserved[p] + first + second = reserved[p] + take
    BY <1>6, <1>7, <1>9
  <2>2. reserved' = [reserved EXCEPT ![p] = reserved[p] + first + second]
    BY <1>3
  <2> HIDE DEF take
  <2> QED  BY <2>1, <2>2, Zenon
<1>12. allocated[l] \in Nat
  BY <1>2, <1>5, <1>7, <1>9
<1> HIDE DEF allocated
<1>13. line' \in [Lines -> Quantity]
  BY <1>2, <1>3, <1>12, LineAllocated DEF Inv
<1>14. status' \in [Orders -> Status]
  BY <1>2, <1>3, Names DEF Inv, TypeOK
<1>15. rows' \subseteq rows \cup ((Orders \cup Lines) \X Products)
  BY <1>2, <1>3
<1> HIDE DEF take, r
<1>16. ReceiveFG(l, r.wo, NewReceipt(l, r.wo, net))
  BY <1>3 DEF got
<1>17. take = 0 \/ take =< onHand[p] + NewReceipt(l, r.wo, net) - reserved[p]
  BY <1>10 DEF got
<1> QED
  BY <1>2, <1>3, <1>4, <1>10, <1>11, <1>13, <1>14, <1>15, <1>16, <1>17, ReceiptInv DEF p

LEMMA OnQcApprovedInv ==
  ASSUME Inv, NEW c \in Sessions, OnQcApproved(c)
  PROVE  Inv' /\ RisesWithReceipts
<1> DEFINE r == session[c]
           l == r.of
           i == r.wo
           p == ProductOf[l]
           w == wo[l][i]
           got == NewReceipt(l, i, w.produced)
           want == IF line[l].shortfall > 0 THEN Least(w.produced, line[l].shortfall)
                                            ELSE w.produced
           take == IF want =< onHand[p] + got - reserved[p] THEN want ELSE 0
<1>1. r.kind = "WORKFLOW"
  BY DEF OnQcApproved
<1>2. /\ l \in Lines /\ i \in DOMAIN wo[l] /\ p \in Products /\ OrderOf[l] \in Orders
      /\ w \in WorkOrder
  BY <1>1, ReceiptRead
<1>3. End(c) /\ UNCHANGED <<status, creditUsed>>
  BY DEF OnQcApproved
<1>4. w.produced \in Nat /\ w.receipt \in Nat
  BY <1>2 DEF WorkOrder
<1>5. line[l].allocated \in Nat /\ line[l].shortfall \in Nat
  BY <1>2 DEF Inv, TypeOK, LineColumns
<1>6. status' \in [Orders -> Status] /\ creditUsed' = creditUsed
  BY <1>3 DEF Inv, TypeOK
<1>7. CASE r.receipt = 0
  <2>1. /\ ReceiveFG(l, i, got)
        /\ reserved' = [reserved EXCEPT ![p] = @ + take]
        /\ line' = [line EXCEPT ![l].allocated = @ + take,
                                ![l].shortfall = Positive(@ - take)]
        /\ rows' = IF take > 0 THEN rows \cup {<<OrderOf[l], p>>} ELSE rows
    BY <1>7, Zenon DEF OnQcApproved
  <2> HIDE DEF w, l, i, p
  <2>2. want \in Nat
    BY <1>4, <1>5 DEF Least
  <2> HIDE DEF want
  <2>3. take \in Nat /\ (take = 0 \/ take =< onHand[p] + got - reserved[p])
    BY <2>2
  <2> HIDE DEF take
  <2> DEFINE a == line[l].allocated + take
             s == Positive(line[l].shortfall - take)
  <2>4. a \in Nat /\ s \in Nat
    BY <1>5, <2>3 DEF Positive
  <2>5. line' = [line EXCEPT ![l].allocated = a, ![l].shortfall = s]
    BY <2>1
  <2> HIDE DEF a, s
  <2>6. line' \in [Lines -> Quantity]
    BY <1>2, <2>4, <2>5, LineAllocated DEF Inv
  <2>7. rows' \subseteq rows \cup ((Orders \cup Lines) \X Products)
    BY <1>2, <2>1
  <2> QED
    BY <1>2, <1>3, <1>4, <1>6, <2>1, <2>3, <2>6, <2>7, ReceiptInv DEF p
<1>8. CASE r.receipt # 0
  <2>1. /\ wo' = [wo EXCEPT ![l][i] = [@ EXCEPT !.status = "FG_RECEIVED"]]
        /\ UNCHANGED <<onHand, reserved, rows, line>>
    BY <1>8 DEF OnQcApproved, stockVars
  <2> DEFINE v == [wo[l][i] EXCEPT !.status = "FG_RECEIVED"]
  <2>2. v \in WorkOrder /\ v.receipt = wo[l][i].receipt
    BY <1>2 DEF WorkOrder
  <2>3. wo' = [wo EXCEPT ![l][i] = v]
    BY <2>1
  <2> HIDE DEF v, l, i
  <2>4. /\ wo' \in [Lines -> Seq(WorkOrder)]
        /\ \A k \in Lines : DOMAIN wo'[k] = DOMAIN wo[k]
        /\ wo'[l][i] = v
        /\ \A k \in Lines : \A j \in DOMAIN wo[k] : k # l \/ j # i => wo'[k][j] = wo[k][j]
    BY <1>2, <2>2, <2>3, WorkOrderReplaced DEF Inv
  <2>5. Inv'
    BY <1>3, <1>6, <2>1, <2>4, StepInv
    DEF Inv, TypeOK, ReservedWithinStock, CreditWithinLimit, Quantity
  <2>6. \A q \in Products : ~(onHand'[q] > onHand[q])
    BY <2>1 DEF Inv, TypeOK
  <2>7. \A k \in Lines : \A j \in DOMAIN wo[k] : wo'[k][j].receipt = wo[k][j].receipt
    BY <2>2, <2>4
  <2> QED  BY <2>5, <2>6, <2>7 DEF RisesWithReceipts
<1> QED  BY <1>7, <1>8

-----------------------------------------------------------------------------
(* Every step *)

LEMMA AbandonInv ==
  ASSUME Inv, NEW c \in Sessions, Abandon(c)
  PROVE  Inv'
<1>1. End(c) /\ UNCHANGED <<onHand, reserved, rows, status, line, wo, creditUsed>>
  BY DEF Abandon, stockVars
<1> QED
  BY <1>1, StepInv DEF Inv, TypeOK, ReservedWithinStock, CreditWithinLimit, Quantity

LEMMA OrderStepInv ==
  ASSUME Inv, NEW c \in Sessions, OrderStep(c)
  PROVE  Inv'
<1>1. CASE Submit(c)
  BY <1>1, MoveInv, Names DEF Submit, OrderKinds
<1>2. CASE Reject(c)
  BY <1>2, MoveInv, Names DEF Reject, OrderKinds
<1>3. CASE Deliver(c)
  BY <1>3, MoveInv, Names DEF Deliver, OrderKinds
<1>4. CASE Approve(c)
  BY <1>4, ApproveInv
<1>5. CASE Confirm(c)
  BY <1>5, ConfirmInv
<1>6. CASE Cancel(c)
  BY <1>6, CancelInv
<1>7. CASE Ship(c)
  BY <1>7, ShipInv
<1>8. CASE Invoice(c)
  BY <1>8, InvoiceInv
<1>9. CASE Complete(c)
  BY <1>9, CompleteInv
<1> QED
  BY <1>1, <1>2, <1>3, <1>4, <1>5, <1>6, <1>7, <1>8, <1>9 DEF OrderStep

\* Orders never raise the stock: only ReceiveFG does.  A confirmation adds work
\* orders after those there are.
LEMMA OrderStepReceipts ==
  ASSUME Inv, Inv', NEW c \in Sessions, OrderStep(c)
  PROVE  RisesWithReceipts
<1>1. onHand \in [Products -> Nat] /\ onHand' \in [Products -> Nat] /\ wo \in [Lines -> Seq(WorkOrder)]
  BY DEF Inv, TypeOK
<1>2. \A p \in Products : onHand'[p] =< onHand[p]
  <2>1. CASE UNCHANGED onHand
    BY <1>1, <2>1
  <2>2. CASE Ship(c)
    <3> SUFFICES ASSUME NEW p \in Products PROVE onHand'[p] =< onHand[p]
      OBVIOUS
    <3> DEFINE o == session[c].order
               sent(q) == {l \in LinesOf(o) : q[l] > 0}
    <3>1. PICK q \in Shipments(o) : \E found \in Found(sent(q)) :
            onHand' = [x \in Products |-> StockLess(x, SumFor(x, sent(q), found, q))]
      BY <2>2, Zenon DEF Ship
    <3>2. PICK found \in Found(sent(q)) :
            onHand' = [x \in Products |-> StockLess(x, SumFor(x, sent(q), found, q))]
      BY <3>1
    <3> DEFINE ls == sent(q)
               f == [l \in ls |-> q[l]]
    <3>3. ls \in SUBSET Lines /\ f \in [ls -> Nat]
      <4>1. \A l \in Lines : Ordered[l] \in Nat
        BY LineAssumption
      <4>2. UNION {0..Ordered[l] : l \in LinesOf(o)} \subseteq Nat
        BY <4>1 DEF LinesOf
      <4> HIDE DEF o
      <4> QED  BY <4>2 DEF Shipments, LinesOf
    <3>4. SumFor(p, ls, found, f) = SumFor(p, ls, found, q)
      BY DEF SumFor
    <3> HIDE DEF f, ls
    <3>5. SumFor(p, ls, found, f) \in Nat
      BY <3>3, SumNat
    <3>6. onHand'[p] = onHand[p] - SumFor(p, ls, found, q)
      BY <3>2 DEF StockLess, ls
    <3> QED  BY <1>1, <3>4, <3>5, <3>6
  <2> QED
    BY <2>1, <2>2
    DEF OrderStep, Submit, Reject, Deliver, Move, Approve, Confirm, ConfirmLines, Cancel,
        Invoice, Complete, stockVars
<1>3. \A l \in Lines : \A i \in DOMAIN wo[l] : wo'[l][i] = wo[l][i]
  <2>1. CASE UNCHANGED wo
    BY <2>1
  <2>2. ASSUME NEW made, NEW n,
               wo' = [l \in Lines |-> IF l \in made THEN Append(wo[l], n[l]) ELSE wo[l]]
        PROVE  \A l \in Lines : \A i \in DOMAIN wo[l] : wo'[l][i] = wo[l][i]
    <3> SUFFICES ASSUME NEW l \in Lines, NEW i \in DOMAIN wo[l]
                 PROVE  wo'[l][i] = wo[l][i]
      OBVIOUS
    <3>1. wo[l] \in Seq(WorkOrder)
      BY <1>1
    <3>2. Append(wo[l], n[l])[i] = wo[l][i]
      BY <3>1
    <3> QED  BY <2>2, <3>2
  <2>3. ASSUME NEW read, NEW take, NEW short, ConfirmLines(c, read, take, short)
        PROVE  \E made, n :
                 wo' = [l \in Lines |-> IF l \in made THEN Append(wo[l], n[l]) ELSE wo[l]]
    <3>1. PICK made \in SUBSET Lines :
            wo' = [l \in Lines |-> IF l \in made THEN Append(wo[l], NewWorkOrder(short[l]))
                                                 ELSE wo[l]]
      BY <2>3 DEF ConfirmLines, LinesOf
    <3> DEFINE n == [l \in Lines |-> NewWorkOrder(short[l])]
    <3>2. wo' = [l \in Lines |-> IF l \in made THEN Append(wo[l], n[l]) ELSE wo[l]]
      BY <3>1
    <3> QED  BY <3>2
  <2>4. CASE Confirm(c) \/ Approve(c)
    <3>1. \E read, take, short : ConfirmLines(c, read, take, short)
      BY <2>4 DEF Confirm, Approve
    <3> QED  BY <2>2, <2>3, <3>1
  <2> QED
    BY <2>1, <2>4
    DEF OrderStep, Submit, Reject, Deliver, Move, Cancel, Ship, Invoice, Complete
<1>4. \A p \in Products : ~(onHand'[p] > onHand[p])
  BY <1>1, <1>2
<1> QED  BY <1>3, <1>4 DEF RisesWithReceipts

LEMMA NextInv ==
  ASSUME Inv, [Next]_vars
  PROVE  Inv' /\ (RisesWithReceipts \/ UNCHANGED vars)
<1>1. ASSUME UNCHANGED <<onHand, wo>>
      PROVE  RisesWithReceipts
  BY <1>1 DEF RisesWithReceipts, Inv, TypeOK
<1>2. ASSUME NEW c \in Sessions, NEW kind \in OrderKinds, NEW o \in Orders,
             BeginOrderRequest(c, kind, o)
      PROVE  Inv' /\ RisesWithReceipts
  BY <1>1, <1>2, BeginOrderRequestInv DEF BeginOrderRequest, stockVars
<1>3. ASSUME NEW c \in Sessions, NEW kind \in {"INSPECT", "WORKFLOW"}, NEW l \in Lines,
             NEW i \in DOMAIN wo[l], BeginReceipt(c, kind, l, i)
      PROVE  Inv' /\ RisesWithReceipts
  BY <1>1, <1>3, BeginReceiptInv DEF BeginReceipt, stockVars
<1>4. ASSUME NEW c \in Sessions, OrderStep(c)
      PROVE  Inv' /\ RisesWithReceipts
  BY <1>4, OrderStepInv, OrderStepReceipts
<1>5. ASSUME NEW c \in Sessions, ApproveInspection(c) \/ OnQcApproved(c)
      PROVE  Inv' /\ RisesWithReceipts
  BY <1>5, ApproveInspectionInv, OnQcApprovedInv
<1>6. ASSUME NEW c \in Sessions, Abandon(c)
      PROVE  Inv' /\ RisesWithReceipts
  BY <1>1, <1>6, AbandonInv DEF Abandon, stockVars
<1>7. ASSUME NEW l \in Lines, NEW i \in DOMAIN wo[l], SubmitForQC(l, i)
      PROVE  Inv' /\ RisesWithReceipts
  BY <1>7, SubmitForQCInv
<1>8. CASE UNCHANGED vars
  <2>1. UNCHANGED <<onHand, reserved, rows, status, line, wo, creditUsed, session>>
    BY <1>8 DEF vars
  <2>2. Inv'
    BY <2>1 DEF Inv, TypeOK, ReceiptsOfWorkOrders, CreditReadWithinLimit,
                ReservedWithinStock, CreditWithinLimit
  <2> QED  BY <1>8, <2>2
<1> QED
  BY <1>2, <1>3, <1>4, <1>5, <1>6, <1>7, <1>8 DEF Next

(* Inv, which TLC also checks, is inductive: whichever requests interleave and
   whatever they read before others committed, every table keeps its types and
   both bounds hold. *)
THEOREM SalesInvariant == Spec => []Inv
<1>1. Inv /\ [Next]_vars => Inv'
  BY NextInv
<1> QED  BY InitInv, <1>1, PTL DEF Spec

(* No reachable state holds a row of another type, nor a negative quantity. *)
THEOREM SalesTypes == Spec => []TypeOK
<1>1. Inv => TypeOK
  BY DEF Inv
<1> QED  BY SalesInvariant, <1>1, PTL

(* Finished goods are never over-reserved, for any number of concurrent requests:
   whoever reserves compares with the rows as they are under the lock, and whoever
   releases, too often as it may be, stops at zero. *)
THEOREM FinishedGoodsNeverOverReserved == Spec => []ReservedWithinStock
<1>1. Inv => ReservedWithinStock
  BY DEF Inv
<1> QED  BY SalesInvariant, <1>1, PTL

(* The recorded credit stays within the limit although the client is read without
   a lock: an update that is lost makes the record too low, never too high. *)
THEOREM RecordedCreditWithinLimit == Spec => []CreditWithinLimit
<1>1. Inv => CreditWithinLimit
  BY DEF Inv
<1> QED  BY SalesInvariant, <1>1, PTL

(* The inspection and the workflow service never both add the output of a work
   order to the stock. *)
THEOREM NoGoodsReceivedTwice == Spec => GoodsReceivedOnce
<1>1. Inv /\ [Next]_vars => [RisesWithReceipts]_vars
  BY NextInv
<1> QED  BY SalesInvariant, <1>1, PTL DEF Spec, GoodsReceivedOnce

-----------------------------------------------------------------------------
(* Requests that follow each other: what each does when what it read holds *)

OneSession == \A c, d \in Sessions : c = d

\* The request of c is about an order, and its order is as the request read it.
LEMMA OrderRead ==
  ASSUME Inv, ReadHolds, NEW c \in Sessions, session[c].kind \in OrderKinds
  PROVE  \E o \in Orders :
           /\ session[c].order = o /\ session[c] \in OrderRequest(o)
           /\ session[c].status = status[o]
           /\ Accepts(session[c].kind, status[o])
           /\ session[c].line = [l \in LinesOf(o) |-> line[l]]
           /\ session[c].line \in [LinesOf(o) -> Quantity]
<1>1. PICK o \in Orders : session[c] \in OrderRequest(o)
  BY Kinds DEF Inv
<1>2. session[c].order = o /\ session[c].line \in [LinesOf(o) -> Quantity]
  BY <1>1 DEF OrderRequest, Quantity
<1>3. /\ session[c].status = status[o]
      /\ Accepts(session[c].kind, status[o])
      /\ session[c].line = [l \in LinesOf(o) |-> line[l]]
  BY <1>2 DEF ReadHolds
<1> QED  BY <1>1, <1>2, <1>3

\* Then the save writes what the request computed, and nothing else.
LEMMA SavedExactly ==
  ASSUME Inv, NEW o \in Orders, NEW ns, NEW nl \in [LinesOf(o) -> Quantity],
         SaveOrder(o, status[o], ns, [l \in LinesOf(o) |-> line[l]], nl)
  PROVE  /\ status' = [status EXCEPT ![o] = ns]
         /\ \A l \in LinesOf(o) : line'[l] = nl[l]
         /\ \A l \in Lines \ LinesOf(o) : line'[l] = line[l]
<1> DEFINE rl == [l \in LinesOf(o) |-> line[l]]
<1>1. PICK refreshed \in BOOLEAN :
        /\ status' = [status EXCEPT ![o] = Saved(refreshed, @, status[o], ns)]
        /\ line' = [l \in Lines |->
             IF l \in LinesOf(o)
             THEN [f \in LineColumns |-> Saved(refreshed, line[l][f], rl[l][f], nl[l][f])]
             ELSE line[l]]
  BY DEF SaveOrder
<1>2. status' = [status EXCEPT ![o] = ns]
  <2>1. Saved(refreshed, status[o], status[o], ns) = ns
    BY DEF Saved
  <2>2. status' = [status EXCEPT ![o] = Saved(refreshed, status[o], status[o], ns)]
    BY <1>1
  <2> QED  BY <2>1, <2>2, Zenon
<1>3. ASSUME NEW l \in LinesOf(o)
      PROVE  line'[l] = nl[l]
  <2>1. line'[l] = [f \in LineColumns |-> Saved(refreshed, line[l][f], rl[l][f], nl[l][f])]
    BY <1>1 DEF LinesOf
  <2>2. \A f \in LineColumns : Saved(refreshed, line[l][f], rl[l][f], nl[l][f]) = nl[l][f]
    BY DEF Saved
  <2>3. nl[l] = [f \in LineColumns |-> nl[l][f]]
    BY DEF Quantity
  <2> HIDE DEF rl
  <2>4. [f \in LineColumns |-> Saved(refreshed, line[l][f], rl[l][f], nl[l][f])]
          = [f \in LineColumns |-> nl[l][f]]
    BY <2>2
  <2> QED  BY <2>1, <2>3, <2>4
<1>4. \A l \in Lines \ LinesOf(o) : line'[l] = line[l]
  BY <1>1
<1> QED  BY <1>2, <1>3, <1>4

Final == {"CANCELLED", "COMPLETED"}

\* A step that changes no line and no work order, and at most the state of o.
Restates(o, s) ==
  /\ status' = [status EXCEPT ![o] = s]
  /\ \A l \in Lines : line'[l] = line[l]
  /\ wo' = wo
  /\ s # "READY_FOR_DISPATCH"
  /\ s \in Early => status[o] \in Early
  /\ status[o] \notin Final

\* An order that becomes what a plain move makes of it is open, and still early if
\* it stays so.
LEMMA Predecessors ==
  ASSUME NEW s \in Status, NEW target \in {"PENDING_APPROVAL", "REJECTED", "DELIVERED"},
         CanBecome(s, target)
  PROVE  s \notin Final /\ (target \in Early => s \in Early)
  BY DEF CanBecome, Targets, Status, Early, Final

LEMMA MoveRestates ==
  ASSUME Inv, ReadHolds, NEW c \in Sessions, NEW kind \in OrderKinds,
         NEW target \in {"PENDING_APPROVAL", "REJECTED", "DELIVERED"},
         Move(c, kind, target),
         \A s : Accepts(kind, s) => CanBecome(s, target)
  PROVE  /\ \E o \in Orders : Restates(o, target)
         /\ UNCHANGED <<onHand, reserved, rows>> /\ End(c)
<1>1. session[c].kind = kind /\ End(c) /\ UNCHANGED <<onHand, reserved, rows, wo>>
  BY DEF Move, stockVars
<1>2. PICK o \in Orders :
        /\ session[c].order = o /\ session[c].status = status[o]
        /\ Accepts(kind, status[o])
        /\ session[c].line = [l \in LinesOf(o) |-> line[l]]
        /\ session[c].line \in [LinesOf(o) -> Quantity]
  BY <1>1, OrderRead
<1> DEFINE ls == [l \in LinesOf(o) |-> line[l]]
<1>3. SaveOrder(o, status[o], target, ls, ls)
  BY <1>2 DEF Move
<1>4. ls \in [LinesOf(o) -> Quantity]
  BY <1>2
<1>5. /\ status' = [status EXCEPT ![o] = target]
      /\ \A l \in LinesOf(o) : line'[l] = ls[l]
      /\ \A l \in Lines \ LinesOf(o) : line'[l] = line[l]
  <2> DEFINE nl == ls
  <2>1. nl \in [LinesOf(o) -> Quantity] /\ SaveOrder(o, status[o], target, ls, nl)
    BY <1>3, <1>4
  <2> HIDE DEF nl
  <2>2. /\ status' = [status EXCEPT ![o] = target]
        /\ \A l \in LinesOf(o) : line'[l] = nl[l]
        /\ \A l \in Lines \ LinesOf(o) : line'[l] = line[l]
    BY <2>1, SavedExactly
  <2> QED  BY <2>2 DEF nl
<1>6. \A l \in Lines : line'[l] = line[l]
  BY <1>5
<1>7. CanBecome(status[o], target) /\ status[o] \in Status
  BY <1>2 DEF Inv, TypeOK
<1>8. status[o] \notin Final /\ (target \in Early => status[o] \in Early)
  BY <1>7, Predecessors
<1> QED  BY <1>1, <1>5, <1>6, <1>8 DEF Restates

LEMMA InvoiceRestates ==
  ASSUME Inv, ReadHolds, NEW c \in Sessions, Invoice(c)
  PROVE  /\ \E o \in Orders : Restates(o, "INVOICED")
         /\ UNCHANGED <<onHand, reserved, rows>> /\ End(c)
<1>1. /\ session[c].kind = "INVOICE" /\ End(c)
      /\ status' = [status EXCEPT ![session[c].order] = "INVOICED"]
      /\ UNCHANGED <<onHand, reserved, rows, line, wo>>
  BY DEF Invoice, stockVars
<1>2. PICK o \in Orders : session[c].order = o /\ Accepts("INVOICE", status[o])
  BY <1>1, OrderRead DEF OrderKinds
<1>3. status[o] \notin Final
  BY <1>2 DEF Accepts, Final
<1> QED  BY <1>1, <1>2, <1>3 DEF Restates, Early

\* What a completion of o releases.
CompletionReleases(o) ==
  LET ls == {l \in LinesOf(o) : IsMaterial[ProductOf[l]]} IN
  reserved' = [p \in Products |->
    Released(reserved[p], SumFor(p, ls, ProductOf, [l \in ls |-> line[l].allocated]))]

LEMMA CompleteRestates ==
  ASSUME Inv, ReadHolds, NEW c \in Sessions, Complete(c)
  PROVE  /\ \E o \in Orders : Restates(o, "COMPLETED") /\ CompletionReleases(o)
         /\ UNCHANGED <<onHand, rows>> /\ End(c)
<1>1. /\ session[c].kind = "COMPLETE" /\ End(c)
      /\ status' = [status EXCEPT ![session[c].order] = "COMPLETED"]
      /\ UNCHANGED <<onHand, rows, line, wo>>
  BY DEF Complete
<1>2. PICK o \in Orders : session[c].order = o /\ Accepts("COMPLETE", status[o])
  BY <1>1, OrderRead DEF OrderKinds
<1>3. status[o] \notin Final
  BY <1>2 DEF Accepts, CanBecome, Targets, Final
<1>4. CompletionReleases(session[c].order)
  BY Zenon DEF Complete, CompletionReleases
<1> QED  BY <1>1, <1>2, <1>3, <1>4 DEF Restates, Early

\* What a cancellation of o releases.
Releases(o) ==
  LET held == {l \in LinesOf(o) : line[l].allocated > 0 /\ RowsFor(l) # {}}
      allocated == [l \in held |-> line[l].allocated]
  IN  \E found \in Found(held) :
        reserved' = [p \in Products |-> Released(reserved[p], SumFor(p, held, found, allocated))]

LEMMA CancelRestates ==
  ASSUME Inv, ReadHolds, NEW c \in Sessions, Cancel(c)
  PROVE  /\ \E o \in Orders : Restates(o, "CANCELLED") /\ Releases(o)
         /\ UNCHANGED <<onHand, rows>> /\ End(c)
<1>1. session[c].kind = "CANCEL" /\ End(c) /\ UNCHANGED <<onHand, rows, wo>>
  BY DEF Cancel
<1>2. PICK o \in Orders :
        /\ session[c].order = o /\ session[c].status = status[o]
        /\ Accepts("CANCEL", status[o])
        /\ session[c].line = [l \in LinesOf(o) |-> line[l]]
        /\ session[c].line \in [LinesOf(o) -> Quantity]
  BY <1>1, OrderRead DEF OrderKinds
<1> DEFINE ls == [l \in LinesOf(o) |-> line[l]]
<1>3. SaveOrder(o, status[o], "CANCELLED", ls, ls)
  BY <1>2 DEF Cancel
<1>4. ls \in [LinesOf(o) -> Quantity]
  BY <1>2
<1>5. /\ status' = [status EXCEPT ![o] = "CANCELLED"]
      /\ \A l \in LinesOf(o) : line'[l] = ls[l]
      /\ \A l \in Lines \ LinesOf(o) : line'[l] = line[l]
  <2> DEFINE nl == ls
  <2>1. nl \in [LinesOf(o) -> Quantity] /\ SaveOrder(o, status[o], "CANCELLED", ls, nl)
    BY <1>3, <1>4
  <2> HIDE DEF nl
  <2>2. /\ status' = [status EXCEPT ![o] = "CANCELLED"]
        /\ \A l \in LinesOf(o) : line'[l] = nl[l]
        /\ \A l \in Lines \ LinesOf(o) : line'[l] = line[l]
    BY <2>1, SavedExactly
  <2> QED  BY <2>2 DEF nl
<1>6. \A l \in Lines : line'[l] = line[l]
  BY <1>5
<1>7. status[o] \notin Final
  BY <1>2 DEF Accepts, CanBecome, Targets, Final
<1>8. Restates(o, "CANCELLED")
  BY <1>1, <1>5, <1>6, <1>7 DEF Restates, Early
<1>9. Releases(o)
  <2> DEFINE q == session[c].line
             held == {l \in LinesOf(o) : q[l].allocated > 0 /\ RowsFor(l) # {}}
             allocated == [l \in held |-> q[l].allocated]
             kept == {l \in LinesOf(o) : line[l].allocated > 0 /\ RowsFor(l) # {}}
             given == [l \in kept |-> line[l].allocated]
             asked == {l \in LinesOf(session[c].order) : q[l].allocated > 0 /\ RowsFor(l) # {}}
  <2>0. \E found \in Found(asked) :
          reserved' = [p \in Products |->
            Released(reserved[p], SumFor(p, asked, found, [l \in asked |-> q[l].allocated]))]
    BY Zenon DEF Cancel
  <2>1. \E found \in Found(held) :
          reserved' = [p \in Products |->
                         Released(reserved[p], SumFor(p, held, found, allocated))]
    BY <1>2, <2>0
  <2>2. held = kept
    BY <1>2
  <2>3. allocated = given
    BY <1>2, <2>2
  <2> HIDE DEF held, allocated, kept, given
  <2>4. \E found \in Found(kept) :
          reserved' = [p \in Products |->
                         Released(reserved[p], SumFor(p, kept, found, given))]
    BY <2>1, <2>2, <2>3
  <2> QED  BY <2>4 DEF Releases, kept, given
<1> QED  BY <1>1, <1>8, <1>9

\* A confirmation of o takes, and is short of, so much of each line.
Confirms(o, take, short) ==
  /\ status[o] \in {"DRAFT", "PENDING_APPROVAL", "APPROVED"}
  /\ \E s \in {"CONFIRMED", "PRODUCTION", "READY_FOR_DISPATCH"} :
       /\ status' = [status EXCEPT ![o] = s]
       /\ s = "READY_FOR_DISPATCH" =>
            \A l \in LinesOf(o) : line[l].allocated + take[l] >= Ordered[l]
  /\ \A l \in LinesOf(o) :
       /\ take[l] \in Nat /\ short[l] \in Nat
       /\ line[l].allocated + take[l] + short[l] =< Ordered[l]
       /\ line'[l].allocated = line[l].allocated + take[l]
       /\ line'[l].shipped = line[l].shipped
       /\ line'[l].shortfall = IF short[l] > 0 THEN short[l] ELSE line[l].shortfall
       /\ \/ wo'[l] = wo[l]
          \/ short[l] > 0 /\ wo'[l] = Append(wo[l], NewWorkOrder(short[l]))
  /\ \A l \in Lines \ LinesOf(o) : line'[l] = line[l] /\ wo'[l] = wo[l]
  /\ onHand' = onHand
  /\ reserved' = [p \in Products |-> reserved[p] + SumFor(p, LinesOf(o), ProductOf, take)]
  /\ rows' = rows \cup {<<o, ProductOf[l]>> : l \in {k \in LinesOf(o) : take[k] > 0}}

LEMMA ConfirmLinesConfirms ==
  ASSUME Inv, ReadHolds, NEW c \in Sessions, NEW o \in Orders, session[c].order = o,
         session[c].kind \in {"APPROVE", "CONFIRM"},
         NEW read \in {session[c].line, [l \in LinesOf(o) |-> line[l]]},
         NEW take \in [LinesOf(o) -> Nat], NEW short \in [LinesOf(o) -> Nat],
         ConfirmLines(c, read, take, short)
  PROVE  Confirms(o, take, short) /\ End(c)
<1> DEFINE r == session[c]
           ls == [l \in LinesOf(o) |-> line[l]]
           new == [l \in LinesOf(o) |->
                     [read[l] EXCEPT !.allocated = @ + take[l],
                                     !.shortfall = IF short[l] > 0 THEN short[l] ELSE @,
                                     !.backorder = IF short[l] > 0 THEN short[l] ELSE @]]
           next == IF \E l \in LinesOf(o) : new[l].backorder > 0 THEN "PRODUCTION"
                   ELSE IF \A l \in LinesOf(o) : new[l].allocated >= Ordered[l]
                        THEN "READY_FOR_DISPATCH" ELSE "CONFIRMED"
<1>1. /\ r.status = status[o] /\ Accepts(r.kind, status[o])
      /\ r.line = ls /\ ls \in [LinesOf(o) -> Quantity]
  <2>1. session[c].kind \in OrderKinds
    BY DEF OrderKinds
  <2>2. PICK x \in Orders :
          /\ session[c].order = x
          /\ session[c].status = status[x]
          /\ Accepts(session[c].kind, status[x])
          /\ session[c].line = [l \in LinesOf(x) |-> line[l]]
          /\ session[c].line \in [LinesOf(x) -> Quantity]
    BY <2>1, OrderRead
  <2> QED  BY <2>2
<1>2. read = ls
  BY <1>1
<1>3. /\ \A l \in LinesOf(o) : read[l].allocated + take[l] + short[l] =< Ordered[l]
      /\ reserved' = [p \in Products |-> reserved[p] + SumFor(p, LinesOf(o), ProductOf, take)]
      /\ rows' = rows \cup {<<o, ProductOf[l]>> : l \in {k \in LinesOf(o) : take[k] > 0}}
      /\ End(c) /\ onHand' = onHand
  <2> HIDE DEF new, next
  <2> DEFINE here == LinesOf(session[c].order)
  <2>1. /\ \A l \in here : read[l].allocated + take[l] + short[l] =< Ordered[l]
        /\ reserved' = [p \in Products |-> reserved[p] + SumFor(p, here, ProductOf, take)]
        /\ rows' = rows \cup {<<session[c].order, ProductOf[l]>> : l \in {k \in here : take[k] > 0}}
        /\ End(c) /\ UNCHANGED onHand
    BY Zenon DEF ConfirmLines
  <2> QED  BY <2>1
<1>4. PICK made \in SUBSET {l \in LinesOf(o) : short[l] > 0} :
        wo' = [l \in Lines |-> IF l \in made THEN Append(wo[l], NewWorkOrder(short[l]))
                                             ELSE wo[l]]
  BY DEF ConfirmLines
<1>5. SaveOrder(o, r.status, next, read, new)
  BY DEF ConfirmLines
<1>6. ASSUME NEW l \in LinesOf(o)
      PROVE  /\ new[l] \in Quantity
             /\ new[l].allocated = line[l].allocated + take[l]
             /\ new[l].shipped = line[l].shipped
             /\ new[l].shortfall = IF short[l] > 0 THEN short[l] ELSE line[l].shortfall
  <2> DEFINE q == line[l]
             a == q.allocated + take[l]
             s == IF short[l] > 0 THEN short[l] ELSE q.shortfall
             b == IF short[l] > 0 THEN short[l] ELSE q.backorder
             n == [q EXCEPT !.allocated = a, !.shortfall = s, !.backorder = b]
  <2>1. q \in Quantity
    BY <1>1
  <2>2. take[l] \in Nat /\ short[l] \in Nat
    OBVIOUS
  <2>3. a \in Nat /\ s \in Nat /\ b \in Nat
    BY <2>1, <2>2 DEF Quantity, LineColumns
  <2>4. new[l] = n
    BY <1>2
  <2> HIDE DEF new, a, s, b, q
  <2>5. n \in Quantity /\ n.allocated = a /\ n.shipped = q.shipped /\ n.shortfall = s
    BY <2>1, <2>3 DEF Quantity, LineColumns
  <2> QED  BY <2>4, <2>5 DEF a, s, q
<1>7. new \in [LinesOf(o) -> Quantity]
  BY <1>6
<1>8. next \in {"CONFIRMED", "PRODUCTION", "READY_FOR_DISPATCH"}
  OBVIOUS
<1>9. next = "READY_FOR_DISPATCH" => \A l \in LinesOf(o) : new[l].allocated >= Ordered[l]
  OBVIOUS
<1> HIDE DEF new, next, r
<1>10. /\ status' = [status EXCEPT ![o] = next]
       /\ \A l \in LinesOf(o) : line'[l] = new[l]
       /\ \A l \in Lines \ LinesOf(o) : line'[l] = line[l]
  <2>1. SaveOrder(o, status[o], next, ls, new)
    BY <1>1, <1>2, <1>5 DEF r
  <2> QED  BY <1>7, <2>1, SavedExactly
<1>11. status[o] \in {"DRAFT", "PENDING_APPROVAL", "APPROVED"}
  <2>1. r.kind = "CONFIRM" \/ r.kind = "APPROVE"
    BY DEF r
  <2>2. status[o] \in Status
    BY DEF Inv, TypeOK
  <2>3. CASE r.kind = "CONFIRM"
    BY <1>1, <2>3 DEF Accepts
  <2>4. CASE r.kind = "APPROVE"
    <3>1. CanBecome(status[o], "APPROVED")
      BY <1>1, <2>4 DEF Accepts
    <3> QED  BY <2>2, <3>1 DEF CanBecome, Targets, Status
  <2> QED  BY <2>1, <2>3, <2>4
<1>12. next = "READY_FOR_DISPATCH" =>
         \A l \in LinesOf(o) : line[l].allocated + take[l] >= Ordered[l]
  BY <1>6, <1>9
<1>13. \A l \in LinesOf(o) :
         /\ take[l] \in Nat /\ short[l] \in Nat
         /\ line[l].allocated + take[l] + short[l] =< Ordered[l]
         /\ line'[l].allocated = line[l].allocated + take[l]
         /\ line'[l].shipped = line[l].shipped
         /\ line'[l].shortfall = IF short[l] > 0 THEN short[l] ELSE line[l].shortfall
  BY <1>2, <1>3, <1>6, <1>10
<1>14. \A l \in LinesOf(o) :
         \/ wo'[l] = wo[l]
         \/ short[l] > 0 /\ wo'[l] = Append(wo[l], NewWorkOrder(short[l]))
  BY <1>4 DEF LinesOf
<1>15. \A l \in Lines \ LinesOf(o) : wo'[l] = wo[l]
  BY <1>4
<1> QED
  BY <1>3, <1>8, <1>10, <1>11, <1>12, <1>13, <1>14, <1>15 DEF Confirms

LEMMA ConfirmConfirms ==
  ASSUME Inv, ReadHolds, NEW c \in Sessions, Confirm(c) \/ Approve(c)
  PROVE  \E o \in Orders :
           /\ \E take, short \in [LinesOf(o) -> Nat] : Confirms(o, take, short)
           /\ End(c)
<1>1. session[c].kind \in {"APPROVE", "CONFIRM"}
  BY DEF Confirm, Approve
<1>2. PICK o \in Orders : session[c] \in OrderRequest(o) /\ session[c].order = o
  BY <1>1, OrderRead DEF OrderKinds
<1>3. \A stale \in SUBSET Products, l \in LinesOf(o) :
        Believed(c, stale, l) \in Nat /\ Ordered[l] \in Nat
  BY <1>2, BelievedNat DEF Inv, LinesOf
<1>4. CASE Confirm(c)
  <2>1. PICK stale \in SUBSET Products :
          ConfirmLines(c, session[c].line,
            [l \in LinesOf(o) |-> IF Believed(c, stale, l) >= Ordered[l] THEN Ordered[l] ELSE 0],
            [l \in LinesOf(o) |-> Positive(Ordered[l] - Believed(c, stale, l))])
    BY <1>2, <1>4 DEF Confirm
  <2> DEFINE take == [l \in LinesOf(o) |->
                        IF Believed(c, stale, l) >= Ordered[l] THEN Ordered[l] ELSE 0]
             short == [l \in LinesOf(o) |-> Positive(Ordered[l] - Believed(c, stale, l))]
  <2>2. take \in [LinesOf(o) -> Nat] /\ short \in [LinesOf(o) -> Nat]
    BY <1>3 DEF Positive
  <2>3. ConfirmLines(c, session[c].line, take, short)
    BY <2>1
  <2> HIDE DEF take, short
  <2>4. Confirms(o, take, short) /\ End(c)
    BY <1>1, <1>2, <2>2, <2>3, ConfirmLinesConfirms
  <2> QED  BY <2>2, <2>4
<1>5. CASE Approve(c)
  <2>1. PICK stale \in SUBSET Products,
             read \in {session[c].line, [l \in LinesOf(o) |-> line[l]]} :
          ConfirmLines(c, read,
            [l \in LinesOf(o) |-> Least(Believed(c, stale, l), Ordered[l])],
            [l \in LinesOf(o) |-> Positive(Ordered[l] - Believed(c, stale, l))])
    BY <1>2, <1>5 DEF Approve
  <2> DEFINE take == [l \in LinesOf(o) |-> Least(Believed(c, stale, l), Ordered[l])]
             short == [l \in LinesOf(o) |-> Positive(Ordered[l] - Believed(c, stale, l))]
  <2>2. take \in [LinesOf(o) -> Nat] /\ short \in [LinesOf(o) -> Nat]
    BY <1>3 DEF Positive, Least
  <2>3. ConfirmLines(c, read, take, short)
    BY <2>1
  <2> HIDE DEF take, short
  <2>4. Confirms(o, take, short) /\ End(c)
    BY <1>1, <1>2, <2>2, <2>3, ConfirmLinesConfirms
  <2> QED  BY <2>2, <2>4
<1> QED  BY <1>4, <1>5

\* A shipment of q[l] units of each line of o.
Ships(o, q) ==
  LET sent == {l \in LinesOf(o) : q[l] > 0} IN
  /\ sent # {}
  /\ \E s \in {status[o], "SHIPPED"} :
       /\ status' = [status EXCEPT ![o] = s]
       /\ s # status[o] => CanBecome(ReadyToShip(status[o]), "SHIPPED")
  /\ \A l \in LinesOf(o) :
       /\ line'[l] = [line[l] EXCEPT !.shipped = line[l].shipped + q[l]]
       /\ q[l] > 0 => line[l].shipped + q[l] =< line[l].allocated
  /\ \A l \in Lines \ LinesOf(o) : line'[l] = line[l]
  /\ wo' = wo /\ rows' = rows
  /\ \E found \in Found(sent) :
       /\ \A p \in Products : SumFor(p, sent, found, q) =< onHand[p]
       /\ onHand' = [p \in Products |-> onHand[p] - SumFor(p, sent, found, q)]
       /\ reserved' = [p \in Products |-> Released(reserved[p], SumFor(p, sent, found, q))]

LEMMA ShipShips ==
  ASSUME Inv, ReadHolds, NEW c \in Sessions, Ship(c)
  PROVE  \E o \in Orders : /\ \E q \in [LinesOf(o) -> Nat] : Ships(o, q)
                           /\ End(c)
<1> DEFINE r == session[c]
<1>1. r.kind = "SHIP" /\ End(c) /\ wo' = wo /\ rows' = rows
  BY DEF Ship
<1>2. PICK o \in Orders : /\ r.order = o /\ r.status = status[o]
                          /\ r.line = [l \in LinesOf(o) |-> line[l]]
                          /\ r.line \in [LinesOf(o) -> Quantity]
  BY <1>1, OrderRead DEF OrderKinds
<1> DEFINE sent(q) == {l \in LinesOf(r.order) : q[l] > 0}
           new(q) == [l \in LinesOf(r.order) |-> [r.line[l] EXCEPT !.shipped = @ + q[l]]]
           all(q) == \A l \in LinesOf(r.order) :
                       new(q)[l].allocated > 0 /\ new(q)[l].shipped >= new(q)[l].allocated
<1>3. PICK q \in Shipments(r.order) :
        /\ sent(q) # {}
        /\ \A l \in sent(q) : new(q)[l].shipped =< new(q)[l].allocated
        /\ \E found \in Found(sent(q)) :
             /\ \A p \in Products : SumFor(p, sent(q), found, q) =< onHand[p]
             /\ onHand' = [p \in Products |-> StockLess(p, SumFor(p, sent(q), found, q))]
             /\ reserved' = [p \in Products |->
                               Released(reserved[p], SumFor(p, sent(q), found, q))]
        /\ all(q) => CanBecome(ReadyToShip(r.status), "SHIPPED")
        /\ SaveOrder(r.order, r.status, IF all(q) THEN "SHIPPED" ELSE r.status, r.line, new(q))
  BY Zenon DEF Ship
<1> DEFINE ls == {l \in LinesOf(o) : q[l] > 0}
           nl == new(q)
           s == IF all(q) THEN "SHIPPED" ELSE status[o]
<1>4. q \in [LinesOf(o) -> Nat]
  <2>1. \A l \in Lines : Ordered[l] \in Nat
    BY LineAssumption
  <2>2. UNION {0..Ordered[l] : l \in LinesOf(o)} \subseteq Nat
    BY <2>1 DEF LinesOf
  <2> QED  BY <1>2, <2>2 DEF Shipments
<1>5. sent(q) = ls
  BY <1>2
<1>6. \A l \in LinesOf(o) : nl[l] = [line[l] EXCEPT !.shipped = line[l].shipped + q[l]]
  BY <1>2
<1>7. \A l \in LinesOf(o) : /\ nl[l] \in Quantity /\ nl[l].allocated = line[l].allocated
                            /\ nl[l].shipped = line[l].shipped + q[l]
  <2> SUFFICES ASSUME NEW l \in LinesOf(o)
               PROVE  /\ nl[l] \in Quantity /\ nl[l].allocated = line[l].allocated
                      /\ nl[l].shipped = line[l].shipped + q[l]
    OBVIOUS
  <2> DEFINE n == line[l].shipped + q[l]
  <2>1. line[l] \in Quantity /\ q[l] \in Nat
    BY <1>2, <1>4
  <2>2. n \in Nat
    BY <2>1 DEF Quantity, LineColumns
  <2>3. nl[l] = [line[l] EXCEPT !.shipped = n]
    BY <1>6
  <2> HIDE DEF n, nl
  <2>4. nl[l] \in Quantity /\ nl[l].allocated = line[l].allocated /\ nl[l].shipped = n
    BY <2>1, <2>2, <2>3 DEF Quantity, LineColumns
  <2> QED  BY <2>4 DEF n
<1>8. nl \in [LinesOf(o) -> Quantity]
  BY <1>2, <1>7
<1>9. SaveOrder(o, status[o], s, [l \in LinesOf(o) |-> line[l]], nl)
  BY <1>2, <1>3
<1>10. s \in {status[o], "SHIPPED"} /\ (s # status[o] => CanBecome(ReadyToShip(status[o]), "SHIPPED"))
  BY <1>2, <1>3
<1>11. \A l \in LinesOf(o) : q[l] > 0 => nl[l].shipped =< nl[l].allocated
  BY <1>2, <1>3
<1>12. \E found \in Found(ls) :
         /\ \A p \in Products : SumFor(p, ls, found, q) =< onHand[p]
         /\ onHand' = [p \in Products |-> onHand[p] - SumFor(p, ls, found, q)]
         /\ reserved' = [p \in Products |-> Released(reserved[p], SumFor(p, ls, found, q))]
  <2> HIDE DEF sent, ls
  <2>1. \E found \in Found(ls) :
         /\ \A p \in Products : SumFor(p, ls, found, q) =< onHand[p]
         /\ onHand' = [p \in Products |-> StockLess(p, SumFor(p, ls, found, q))]
         /\ reserved' = [p \in Products |-> Released(reserved[p], SumFor(p, ls, found, q))]
    BY <1>3, <1>5
  <2> QED  BY <2>1 DEF StockLess
<1>13. ls # {}
  BY <1>3, <1>5
<1> HIDE DEF nl, s, new, all, sent, r
<1>14. /\ status' = [status EXCEPT ![o] = s]
       /\ \A l \in LinesOf(o) : line'[l] = nl[l]
       /\ \A l \in Lines \ LinesOf(o) : line'[l] = line[l]
  BY <1>8, <1>9, SavedExactly
<1>15. \A l \in LinesOf(o) :
         /\ line'[l] = [line[l] EXCEPT !.shipped = line[l].shipped + q[l]]
         /\ q[l] > 0 => line[l].shipped + q[l] =< line[l].allocated
  BY <1>6, <1>7, <1>11, <1>14
<1>16. Ships(o, q)
  BY <1>1, <1>10, <1>12, <1>13, <1>14, <1>15 DEF Ships
<1> QED  BY <1>1, <1>4, <1>16

\* Work order i of l is received: got units enter the stock, and take units are
\* reserved for the line.
Receives(l, i, got, take) ==
  LET p == ProductOf[l]
      o == OrderOf[l]
  IN
  /\ onHand' = [onHand EXCEPT ![p] = onHand[p] + got]
  /\ reserved' = [reserved EXCEPT ![p] = reserved[p] + take]
  /\ rows \subseteq rows' /\ rows' \subseteq rows \cup {<<l, p>>, <<o, p>>}
  /\ take > 0 => <<l, p>> \in rows' \/ <<o, p>> \in rows'
  /\ \A k \in Lines : DOMAIN wo'[k] = DOMAIN wo[k]
  /\ \A k \in Lines : \A j \in DOMAIN wo[k] : k # l \/ j # i => wo'[k][j] = wo[k][j]
  /\ wo'[l][i].status = "FG_RECEIVED" /\ wo'[l][i].receipt = wo[l][i].receipt + got
  /\ \A k \in Lines : k # l => line'[k] = line[k]
  /\ line'[l].shipped = line[l].shipped
  /\ line'[l].allocated = line[l].allocated + take /\ line'[l].allocated =< Ordered[l]
  /\ \E s \in {status[o], "READY_FOR_DISPATCH"} :
       /\ status' = [status EXCEPT ![o] = s]
       /\ s # status[o] => /\ CanBecome(status[o], "READY_FOR_DISPATCH")
                           /\ \A k \in LinesOf(o) : line'[k].allocated >= Ordered[k]
  /\ take > 0 => wo[l][i].receipt = 0
  /\ wo'[l][i].receipt = 0 => take = 0 /\ line'[l].shortfall = line[l].shortfall

\* The work orders after the receipt of got units.
LEMMA FGReceived ==
  ASSUME Inv, NEW l \in Lines, NEW i \in DOMAIN wo[l], NEW got \in Nat,
         ReceiveFG(l, i, got)
  PROVE  /\ onHand' = [onHand EXCEPT ![ProductOf[l]] = onHand[ProductOf[l]] + got]
         /\ \A k \in Lines : DOMAIN wo'[k] = DOMAIN wo[k]
         /\ \A k \in Lines : \A j \in DOMAIN wo[k] : k # l \/ j # i => wo'[k][j] = wo[k][j]
         /\ wo'[l][i].status = "FG_RECEIVED" /\ wo'[l][i].receipt = wo[l][i].receipt + got
<1> DEFINE total == wo[l][i].receipt + got
           w == [wo[l][i] EXCEPT !.status = "FG_RECEIVED", !.receipt = total]
<1>1. wo[l][i] \in WorkOrder
  BY DEF Inv, TypeOK
<1>2. total \in Nat
  BY <1>1 DEF WorkOrder
<1>3. wo' = [wo EXCEPT ![l][i] = w]
  BY Zenon DEF ReceiveFG
<1>4. onHand' = [onHand EXCEPT ![ProductOf[l]] = @ + got]
  BY Zenon DEF ReceiveFG
<1> HIDE DEF total
<1>5. w \in WorkOrder /\ w.receipt = total /\ w.status = "FG_RECEIVED"
  BY <1>1, <1>2 DEF WorkOrder
<1> HIDE DEF w
<1>6. /\ wo' \in [Lines -> Seq(WorkOrder)]
      /\ \A k \in Lines : DOMAIN wo'[k] = DOMAIN wo[k]
      /\ wo'[l][i] = w
      /\ \A k \in Lines : \A j \in DOMAIN wo[k] : k # l \/ j # i => wo'[k][j] = wo[k][j]
  BY <1>3, <1>5, WorkOrderReplaced DEF Inv
<1> QED  BY <1>4, <1>5, <1>6 DEF total

\* The columns of a line to which a units are allocated, which is then short of s.
LEMMA Allocated ==
  ASSUME Inv, NEW l \in Lines, NEW a \in Nat, NEW s \in Nat,
         line' = [line EXCEPT ![l].allocated = a] \/
         line' = [line EXCEPT ![l].allocated = a, ![l].shortfall = s]
  PROVE  /\ \A k \in Lines : k # l => line'[k] = line[k]
         /\ line'[l].shipped = line[l].shipped
         /\ line'[l].allocated = a
<1>1. line \in [Lines -> Quantity]
  BY DEF Inv, TypeOK, Quantity
<1>2. line[l] \in Quantity
  BY <1>1
<1>3. [line[l] EXCEPT !.allocated = a].shipped = line[l].shipped
  BY <1>2 DEF Quantity, LineColumns
<1> QED  BY <1>1, <1>2, <1>3 DEF Quantity, LineColumns

LEMMA InspectionReceives ==
  ASSUME Inv, ReadHolds, Books, NEW c \in Sessions, ApproveInspection(c)
  PROVE  /\ \E l \in Lines : \E i \in DOMAIN wo[l] : \E got, take \in Nat :
              Receives(l, i, got, take)
         /\ End(c)
<1> DEFINE r == session[c]
           l == r.of
           i == r.wo
           p == ProductOf[l]
           w == wo[l][i]
           net == Positive(w.produced - w.scrap)
           got == NewReceipt(l, i, net)
           first == Least(net, Need(l, 0))
           rest == Least(net, Need(l, first))
           second == IF rest =< onHand[p] + got - reserved[p] - first THEN rest ELSE 0
           allocated == [k \in Lines |-> line[k].allocated + IF k = l THEN first + second ELSE 0]
           s == IF FullyAllocated(OrderOf[l], allocated)
                   /\ CanBecome(status[OrderOf[l]], "READY_FOR_DISPATCH")
                THEN "READY_FOR_DISPATCH" ELSE status[OrderOf[l]]
<1>1. r.kind = "INSPECT" /\ End(c)
  BY DEF ApproveInspection
<1>2. /\ l \in Lines /\ i \in DOMAIN wo[l] /\ p \in Products /\ OrderOf[l] \in Orders
      /\ w \in WorkOrder
  BY <1>1, ReceiptRead
<1>3. /\ ReceiveFG(l, i, got)
      /\ reserved' = [reserved EXCEPT ![p] = @ + first + second]
      /\ line' = [line EXCEPT ![l].allocated = allocated[l]]
      /\ rows' = IF first + second > 0 THEN rows \cup {<<l, p>>} ELSE rows
  BY Zenon DEF ApproveInspection
<1>4. status' = [status EXCEPT ![OrderOf[l]] = s]
  BY Zenon DEF ApproveInspection
<1>5. w.status = "QC_PENDING"
  BY <1>1 DEF ReadHolds
<1>6. w.receipt = 0
  <2>1. BookKept(line[l], wo[l], status[OrderOf[l]], Ordered[l])
    BY <1>2 DEF Books
  <2> QED  BY <1>2, <1>5, <2>1 DEF BookKept
<1>7. net \in Nat /\ got = net
  BY <1>2, <1>6 DEF WorkOrder, Positive, NewReceipt
<1>8. line[l].allocated \in Nat /\ Ordered[l] \in Nat /\ line[l].allocated =< Ordered[l]
  BY <1>2, LineAssumption DEF Inv, TypeOK, LineColumns, Books, BookKept
<1>9. onHand[p] \in Nat /\ reserved[p] \in Nat /\ reserved \in [Products -> Nat]
  BY <1>2 DEF Inv, TypeOK
<1>30. s \in {status[OrderOf[l]], "READY_FOR_DISPATCH"}
       /\ (s # status[OrderOf[l]] => /\ CanBecome(status[OrderOf[l]], "READY_FOR_DISPATCH")
                                     /\ FullyAllocated(OrderOf[l], allocated))
  OBVIOUS
<1> HIDE DEF net, got, l, p, w, i, s
<1>10. first \in Nat /\ first =< Ordered[l] - line[l].allocated /\ first =< net
  BY <1>7, <1>8 DEF Least, Need, Positive
<1> HIDE DEF first
<1>11. rest \in Nat /\ rest =< Ordered[l] - line[l].allocated - first /\ rest =< net
  BY <1>7, <1>8, <1>10 DEF Least, Need, Positive
<1> HIDE DEF rest
<1>12. second \in Nat /\ second =< Ordered[l] - line[l].allocated - first /\ second =< net
  BY <1>7, <1>8, <1>10, <1>11
<1> HIDE DEF second
<1> DEFINE take == first + second
           a == line[l].allocated + take
<1>13. take \in Nat /\ a \in Nat /\ a =< Ordered[l] /\ (net = 0 => take = 0)
  BY <1>7, <1>8, <1>10, <1>12
<1>14. reserved[p] + first + second = reserved[p] + take
  BY <1>9, <1>10, <1>12
<1>15. allocated[l] = a
  BY <1>2
<1>16. \A k \in Lines : k # l => allocated[k] = line[k].allocated
  BY DEF Inv, TypeOK, LineColumns
<1> HIDE DEF allocated, a
<1>17. line' = [line EXCEPT ![l].allocated = a]
  BY <1>3, <1>15
<1>18. /\ \A k \in Lines : k # l => line'[k] = line[k]
       /\ line'[l].shipped = line[l].shipped
       /\ line'[l].allocated = a
  BY <1>2, <1>13, <1>17, Allocated
<1>19. /\ onHand' = [onHand EXCEPT ![ProductOf[l]] = onHand[ProductOf[l]] + got]
       /\ \A k \in Lines : DOMAIN wo'[k] = DOMAIN wo[k]
       /\ \A k \in Lines : \A j \in DOMAIN wo[k] : k # l \/ j # i => wo'[k][j] = wo[k][j]
       /\ wo'[l][i].status = "FG_RECEIVED" /\ wo'[l][i].receipt = wo[l][i].receipt + got
  BY <1>2, <1>3, <1>7, FGReceived
<1>20. rows' = IF take > 0 THEN rows \cup {<<l, p>>} ELSE rows
  BY <1>3
<1> HIDE DEF take
<1>21. reserved' = [reserved EXCEPT ![p] = reserved[p] + take]
  <2>1. reserved' = [reserved EXCEPT ![p] = reserved[p] + first + second]
    BY <1>3
  <2> QED  BY <1>14, <2>1, Zenon
<1>22. s # status[OrderOf[l]] =>
         /\ CanBecome(status[OrderOf[l]], "READY_FOR_DISPATCH")
         /\ \A k \in LinesOf(OrderOf[l]) : line'[k].allocated >= Ordered[k]
  <2>1. \A k \in Lines : line'[k].allocated = allocated[k]
    BY <1>15, <1>16, <1>18
  <2> QED  BY <1>30, <2>1 DEF FullyAllocated, LinesOf
<1>23. wo'[l][i].receipt = 0 => take = 0 /\ line'[l].shortfall = line[l].shortfall
  <2>1. wo'[l][i].receipt = net
    BY <1>6, <1>7, <1>19 DEF w
  <2>2. line[l] \in Quantity
    BY <1>2 DEF Inv, TypeOK, Quantity
  <2>3. line'[l] = [line[l] EXCEPT !.allocated = a]
    BY <1>2, <1>17 DEF Inv, TypeOK
  <2>4. line'[l].shortfall = line[l].shortfall
    BY <2>2, <2>3 DEF Quantity, LineColumns
  <2> QED  BY <1>13, <2>1, <2>4
<1>24. wo[l][i].receipt = 0
  BY <1>6 DEF w
<1>25. \E x \in {status[OrderOf[l]], "READY_FOR_DISPATCH"} :
         /\ status' = [status EXCEPT ![OrderOf[l]] = x]
         /\ x # status[OrderOf[l]] =>
              /\ CanBecome(status[OrderOf[l]], "READY_FOR_DISPATCH")
              /\ \A k \in LinesOf(OrderOf[l]) : line'[k].allocated >= Ordered[k]
  BY <1>4, <1>22, <1>30
<1>26. line'[l].allocated = line[l].allocated + take /\ line'[l].allocated =< Ordered[l]
  BY <1>13, <1>18 DEF a, take
<1>27. Receives(l, i, got, take)
  BY <1>18, <1>19, <1>20, <1>21, <1>23, <1>24, <1>25, <1>26 DEF Receives, p
<1> QED  BY <1>1, <1>2, <1>7, <1>13, <1>27 DEF take

LEMMA WorkflowReceives ==
  ASSUME Inv, ReadHolds, Books, NEW c \in Sessions, OnQcApproved(c)
  PROVE  /\ \E l \in Lines : \E i \in DOMAIN wo[l] : \E got, take \in Nat :
              Receives(l, i, got, take)
         /\ End(c)
<1> DEFINE r == session[c]
           l == r.of
           i == r.wo
           p == ProductOf[l]
           w == wo[l][i]
           got == NewReceipt(l, i, w.produced)
           want == IF line[l].shortfall > 0 THEN Least(w.produced, line[l].shortfall)
                                            ELSE w.produced
           take == IF want =< onHand[p] + got - reserved[p] THEN want ELSE 0
<1>1. r.kind = "WORKFLOW" /\ End(c) /\ status' = status
  BY DEF OnQcApproved
<1>2. /\ l \in Lines /\ i \in DOMAIN wo[l] /\ p \in Products /\ OrderOf[l] \in Orders
      /\ w \in WorkOrder
  BY <1>1, ReceiptRead
<1>3. r.receipt = w.receipt
  BY <1>1 DEF ReadHolds
<1>4. /\ line[l].allocated \in Nat /\ line[l].shortfall \in Nat /\ Ordered[l] \in Nat
      /\ onHand \in [Products -> Nat] /\ reserved \in [Products -> Nat] /\ line[l] \in Quantity
      /\ status \in [Orders -> Status]
  BY <1>2, LineAssumption DEF Inv, TypeOK, LineColumns, Quantity
<1>5. /\ line[l].allocated =< Ordered[l]
      /\ w.receipt = 0 => line[l].shortfall > 0 /\ line[l].allocated + line[l].shortfall =< Ordered[l]
  <2>1. BookKept(line[l], wo[l], status[OrderOf[l]], Ordered[l])
    BY <1>2 DEF Books
  <2> QED  BY <1>2, <2>1 DEF BookKept
<1>6. w.produced \in Nat /\ w.receipt \in Nat
  BY <1>2 DEF WorkOrder
<1>7. \E x \in {status[OrderOf[l]], "READY_FOR_DISPATCH"} :
         /\ status' = [status EXCEPT ![OrderOf[l]] = x]
         /\ x # status[OrderOf[l]] =>
              /\ CanBecome(status[OrderOf[l]], "READY_FOR_DISPATCH")
              /\ \A k \in LinesOf(OrderOf[l]) : line'[k].allocated >= Ordered[k]
  BY <1>1, <1>2, <1>4
<1>8. CASE r.receipt = 0
  <2>1. /\ ReceiveFG(l, i, got)
        /\ reserved' = [reserved EXCEPT ![p] = @ + take]
        /\ line' = [line EXCEPT ![l].allocated = @ + take,
                                ![l].shortfall = Positive(@ - take)]
        /\ rows' = IF take > 0 THEN rows \cup {<<OrderOf[l], p>>} ELSE rows
    BY <1>8, Zenon DEF OnQcApproved
  <2>2. wo[l][i].receipt = 0
    BY <1>3, <1>8
  <2>3. got = w.produced
    BY <2>2 DEF NewReceipt
  <2> HIDE DEF w, l, i, p, got
  <2>4. want \in Nat /\ want =< w.produced /\ want =< line[l].shortfall
    BY <1>3, <1>4, <1>5, <1>6, <1>8 DEF Least
  <2> HIDE DEF want
  <2>5. take \in Nat /\ take =< w.produced /\ take =< line[l].shortfall
    BY <1>4, <1>6, <2>4
  <2> HIDE DEF take
  <2> DEFINE a == line[l].allocated + take
             s == Positive(line[l].shortfall - take)
  <2>6. a \in Nat /\ s \in Nat /\ a =< Ordered[l]
    BY <1>3, <1>4, <1>5, <1>8, <2>5 DEF Positive
  <2>7. line' = [line EXCEPT ![l].allocated = a, ![l].shortfall = s]
    BY <2>1
  <2>8. take = 0 => s = line[l].shortfall
    BY <1>4 DEF Positive
  <2> HIDE DEF a, s
  <2>9. /\ \A k \in Lines : k # l => line'[k] = line[k]
        /\ line'[l].shipped = line[l].shipped
        /\ line'[l].allocated = a
    BY <1>2, <2>6, <2>7, Allocated
  <2>10. /\ onHand' = [onHand EXCEPT ![ProductOf[l]] = onHand[ProductOf[l]] + got]
         /\ \A k \in Lines : DOMAIN wo'[k] = DOMAIN wo[k]
         /\ \A k \in Lines : \A j \in DOMAIN wo[k] : k # l \/ j # i => wo'[k][j] = wo[k][j]
         /\ wo'[l][i].status = "FG_RECEIVED" /\ wo'[l][i].receipt = wo[l][i].receipt + got
    BY <1>2, <1>6, <2>1, <2>3, FGReceived
  <2>11. wo'[l][i].receipt = 0 => take = 0 /\ line'[l].shortfall = line[l].shortfall
    <3>1. wo'[l][i].receipt = w.produced
      BY <1>6, <2>2, <2>3, <2>10
    <3>2. line'[l].shortfall = s
      <4>1. line \in [Lines -> Quantity]
        BY DEF Inv, TypeOK, Quantity
      <4> QED  BY <1>2, <1>4, <2>7, <4>1 DEF Quantity, LineColumns
    <3> QED  BY <1>6, <2>5, <2>8, <3>1, <3>2
  <2>12. line'[l].allocated = line[l].allocated + take /\ line'[l].allocated =< Ordered[l]
    BY <2>6, <2>9 DEF a
  <2>13. reserved' = [reserved EXCEPT ![p] = reserved[p] + take]
    BY <2>1
  <2>14. Receives(l, i, got, take)
    BY <1>7, <2>1, <2>2, <2>9, <2>10, <2>11, <2>12, <2>13 DEF Receives, p
  <2> QED  BY <1>1, <1>2, <1>6, <2>3, <2>5, <2>14 DEF l, i
<1>9. CASE r.receipt # 0
  <2>1. /\ wo' = [wo EXCEPT ![l][i] = [@ EXCEPT !.status = "FG_RECEIVED"]]
        /\ UNCHANGED <<onHand, reserved, rows, line>>
    BY <1>9 DEF OnQcApproved, stockVars
  <2> DEFINE v == [wo[l][i] EXCEPT !.status = "FG_RECEIVED"]
  <2>2. v \in WorkOrder /\ v.receipt = wo[l][i].receipt /\ v.status = "FG_RECEIVED"
    BY <1>2 DEF WorkOrder
  <2>3. wo' = [wo EXCEPT ![l][i] = v]
    BY <2>1
  <2>4. wo[l][i].receipt \in Nat /\ wo[l][i].receipt # 0
    BY <1>3, <1>6, <1>9
  <2> HIDE DEF v, l, i, w, r
  <2>5. /\ \A k \in Lines : DOMAIN wo'[k] = DOMAIN wo[k]
        /\ wo'[l][i] = v
        /\ \A k \in Lines : \A j \in DOMAIN wo[k] : k # l \/ j # i => wo'[k][j] = wo[k][j]
    BY <1>2, <2>2, <2>3, WorkOrderReplaced DEF Inv
  <2>6. onHand' = [onHand EXCEPT ![p] = onHand[p] + 0] /\ reserved' = [reserved EXCEPT ![p] = reserved[p] + 0]
    BY <1>2, <1>4, <2>1
  <2>7. line'[l].allocated = line[l].allocated + 0
    BY <1>4, <2>1
  <2>8. wo'[l][i].receipt = wo[l][i].receipt + 0 /\ wo'[l][i].receipt # 0
    BY <2>2, <2>4, <2>5
  <2>9. /\ \A k \in Lines : k # l => line'[k] = line[k]
        /\ line'[l].shipped = line[l].shipped /\ line'[l].allocated =< Ordered[l]
        /\ wo'[l][i].status = "FG_RECEIVED" /\ ~(0 > 0)
    BY <1>5, <2>1, <2>2, <2>5
  <2>10. Receives(l, i, 0, 0)
    BY <1>7, <2>1, <2>5, <2>6, <2>7, <2>8, <2>9 DEF Receives, p
  <2> QED  BY <1>1, <1>2, <2>10
<1> QED  BY <1>8, <1>9

\* Work order i of l is produced and waits for its inspection.
Produces(l, i) ==
  /\ wo[l][i].status = "OPEN"
  /\ \A k \in Lines : DOMAIN wo'[k] = DOMAIN wo[k]
  /\ \A k \in Lines : \A j \in DOMAIN wo[k] : k # l \/ j # i => wo'[k][j] = wo[k][j]
  /\ wo'[l][i].receipt = wo[l][i].receipt

LEMMA SubmitProduces ==
  ASSUME Inv, NEW l \in Lines, NEW i \in DOMAIN wo[l], SubmitForQC(l, i)
  PROVE  Produces(l, i) /\ UNCHANGED <<onHand, reserved, rows, status, line, session>>
<1>1. wo[l][i] \in WorkOrder
  BY DEF Inv, TypeOK
<1>2. PICK made \in 1..wo[l][i].planned : \E bad \in 0..made :
        wo' = [wo EXCEPT ![l][i] = [@ EXCEPT !.status = "QC_PENDING",
                                             !.produced = made, !.scrap = bad]]
  BY Zenon DEF SubmitForQC
<1>3. PICK bad \in 0..made :
        wo' = [wo EXCEPT ![l][i] = [@ EXCEPT !.status = "QC_PENDING",
                                             !.produced = made, !.scrap = bad]]
  BY <1>2
<1>4. made \in Nat /\ bad \in Nat
  BY <1>1 DEF WorkOrder
<1> DEFINE w == [wo[l][i] EXCEPT !.status = "QC_PENDING", !.produced = made, !.scrap = bad]
<1>5. w \in WorkOrder /\ w.receipt = wo[l][i].receipt
  BY <1>1, <1>4 DEF WorkOrder
<1>6. wo' = [wo EXCEPT ![l][i] = w]
  BY <1>3, Zenon
<1>7. wo[l][i].status = "OPEN" /\ UNCHANGED <<onHand, reserved, rows, status, line, session>>
  BY DEF SubmitForQC, stockVars
<1> HIDE DEF w
<1>8. /\ \A k \in Lines : DOMAIN wo'[k] = DOMAIN wo[k]
      /\ wo'[l][i] = w
      /\ \A k \in Lines : \A j \in DOMAIN wo[k] : k # l \/ j # i => wo'[k][j] = wo[k][j]
  BY <1>5, <1>6, WorkOrderReplaced DEF Inv
<1> QED  BY <1>5, <1>7, <1>8 DEF Produces

\* What a step does to the tables, by the kind of step.
QuietStep == UNCHANGED <<onHand, reserved, rows, status, line, wo>>

ProduceStep ==
  /\ \E l \in Lines : \E i \in DOMAIN wo[l] : Produces(l, i)
  /\ UNCHANGED <<onHand, reserved, rows, status, line>>

RestateStep ==
  /\ \E o \in Orders, s \in Status :
       /\ Restates(o, s)
       /\ \/ s \notin Final /\ UNCHANGED reserved
          \/ s = "CANCELLED" /\ Releases(o)
          \/ s = "COMPLETED" /\ CompletionReleases(o)
  /\ UNCHANGED <<onHand, rows>>

ConfirmStep == \E o \in Orders : \E take, short \in [LinesOf(o) -> Nat] : Confirms(o, take, short)

ShipStep == \E o \in Orders : \E q \in [LinesOf(o) -> Nat] : Ships(o, q)

ReceiveStep ==
  \E l \in Lines : \E i \in DOMAIN wo[l] : \E got, take \in Nat : Receives(l, i, got, take)

TableStep ==
  QuietStep \/ ProduceStep \/ RestateStep \/ ConfirmStep \/ ShipStep \/ ReceiveStep

LEMMA OrderTables ==
  ASSUME Inv, ReadHolds, NEW c \in Sessions, OrderStep(c)
  PROVE  TableStep /\ End(c)
<1>1. CASE Submit(c)
  <2>1. \A s : Accepts("SUBMIT", s) => CanBecome(s, "PENDING_APPROVAL")
    BY DEF Accepts
  <2>2. (\E o \in Orders : Restates(o, "PENDING_APPROVAL")) /\ UNCHANGED <<onHand, reserved, rows>> /\ End(c)
    BY <1>1, <2>1, MoveRestates DEF Submit, OrderKinds
  <2> QED  BY <2>2, Names DEF TableStep, RestateStep, Final
<1>2. CASE Reject(c)
  <2>1. \A s : Accepts("REJECT", s) => CanBecome(s, "REJECTED")
    BY DEF Accepts
  <2>2. (\E o \in Orders : Restates(o, "REJECTED")) /\ UNCHANGED <<onHand, reserved, rows>> /\ End(c)
    BY <1>2, <2>1, MoveRestates DEF Reject, OrderKinds
  <2> QED  BY <2>2, Names DEF TableStep, RestateStep, Final
<1>3. CASE Deliver(c)
  <2>1. \A s : Accepts("DELIVER", s) => CanBecome(s, "DELIVERED")
    BY DEF Accepts
  <2>2. (\E o \in Orders : Restates(o, "DELIVERED")) /\ UNCHANGED <<onHand, reserved, rows>> /\ End(c)
    BY <1>3, <2>1, MoveRestates DEF Deliver, OrderKinds
  <2> QED  BY <2>2, Names DEF TableStep, RestateStep, Final
<1>4. CASE Approve(c) \/ Confirm(c)
  BY <1>4, ConfirmConfirms DEF TableStep, ConfirmStep
<1>5. CASE Cancel(c)
  BY <1>5, CancelRestates, Names DEF TableStep, RestateStep
<1>6. CASE Ship(c)
  BY <1>6, ShipShips DEF TableStep, ShipStep
<1>7. CASE Invoice(c)
  BY <1>7, InvoiceRestates, Names DEF TableStep, RestateStep, Final
<1>8. CASE Complete(c)
  <2>1. (\E o \in Orders : Restates(o, "COMPLETED") /\ CompletionReleases(o))
        /\ UNCHANGED <<onHand, rows>> /\ End(c)
    BY <1>8, CompleteRestates
  <2> QED  BY <2>1, Names DEF TableStep, RestateStep
<1> QED
  BY <1>1, <1>2, <1>3, <1>4, <1>5, <1>6, <1>7, <1>8 DEF OrderStep

LEMMA Tables ==
  ASSUME Inv, ReadHolds, Books, [Next]_vars
  PROVE  TableStep
<1>1. ASSUME NEW c \in Sessions, NEW kind \in OrderKinds, NEW o \in Orders,
             BeginOrderRequest(c, kind, o)
      PROVE  QuietStep
  BY <1>1 DEF BeginOrderRequest, QuietStep, stockVars
<1>2. ASSUME NEW c \in Sessions, NEW kind \in {"INSPECT", "WORKFLOW"}, NEW l \in Lines,
             NEW i \in DOMAIN wo[l], BeginReceipt(c, kind, l, i)
      PROVE  QuietStep
  BY <1>2 DEF BeginReceipt, QuietStep, stockVars
<1>3. ASSUME NEW c \in Sessions, OrderStep(c)
      PROVE  TableStep
  BY <1>3, OrderTables
<1>4. ASSUME NEW c \in Sessions, ApproveInspection(c) \/ OnQcApproved(c)
      PROVE  ReceiveStep
  BY <1>4, InspectionReceives, WorkflowReceives DEF ReceiveStep
<1>5. ASSUME NEW c \in Sessions, Abandon(c)
      PROVE  QuietStep
  BY <1>5 DEF Abandon, QuietStep, stockVars
<1>6. ASSUME NEW l \in Lines, NEW i \in DOMAIN wo[l], SubmitForQC(l, i)
      PROVE  ProduceStep
  BY <1>6, SubmitProduces DEF ProduceStep
<1>7. CASE UNCHANGED vars
  <2>1. UNCHANGED <<onHand, reserved, rows, status, line, wo, creditUsed, session>>
    BY <1>7 DEF vars
  <2>2. QuietStep
    BY <2>1, Zenon DEF QuietStep
  <2> QED  BY <2>2, Zenon DEF TableStep
<1> QED
  BY <1>1, <1>2, <1>3, <1>4, <1>5, <1>6, <1>7 DEF Next, TableStep

-----------------------------------------------------------------------------
(* With one session, what a request read holds until it commits *)

\* A session that is idle holds nothing it read.
LEMMA IdleHolds ==
  ASSUME OneSession, NEW c \in Sessions, Inv, End(c)
  PROVE  ReadHolds'
<1>1. \A d \in Sessions : session'[d] = Idle
  BY DEF OneSession, Inv, TypeOK, End
<1>2. \A d \in Sessions : /\ session'[d].kind \notin OrderKinds
                          /\ session'[d].kind \notin {"INSPECT", "WORKFLOW"}
  BY <1>1 DEF Idle, OrderKinds
<1> QED  BY <1>2 DEF ReadHolds

LEMMA ReadKept ==
  ASSUME OneSession, Inv, ReadHolds, [Next]_vars
  PROVE  ReadHolds'
<1>1. ASSUME NEW c \in Sessions, NEW kind \in OrderKinds, NEW o \in Orders,
             BeginOrderRequest(c, kind, o)
      PROVE  ReadHolds'
  <2> DEFINE r == [kind |-> kind, order |-> o, status |-> status[o],
                   line |-> [l \in LinesOf(o) |-> line[l]],
                   credit |-> IF kind \in {"APPROVE", "CONFIRM", "CANCEL"} THEN creditUsed ELSE 0,
                   free |-> [p \in Products |->
                               IF kind \in {"APPROVE", "CONFIRM"} THEN Free(p) ELSE 0]]
  <2>1. session' = [session EXCEPT ![c] = r] /\ Accepts(kind, status[o])
    BY <1>1 DEF BeginOrderRequest
  <2>2. status' = status /\ line' = line /\ wo' = wo
    BY <1>1 DEF BeginOrderRequest
  <2>3. /\ r.kind = kind /\ r.order = o /\ r.status = status[o]
        /\ r.line = [l \in LinesOf(o) |-> line[l]]
    OBVIOUS
  <2> HIDE DEF r
  <2>4. \A d \in Sessions : session'[d] = r
    BY <2>1 DEF OneSession, Inv, TypeOK
  <2>5. kind \notin {"INSPECT", "WORKFLOW"}
    BY DEF OrderKinds
  <2>6. [l \in LinesOf(o) |-> line'[l]] = [l \in LinesOf(o) |-> line[l]]
    BY <2>2
  <2> QED  BY <2>1, <2>2, <2>3, <2>4, <2>5, <2>6 DEF ReadHolds
<1>2. ASSUME NEW c \in Sessions, NEW kind \in {"INSPECT", "WORKFLOW"}, NEW l \in Lines,
             NEW i \in DOMAIN wo[l], BeginReceipt(c, kind, l, i)
      PROVE  ReadHolds'
  <2> DEFINE r == [kind |-> kind, of |-> l, wo |-> i, receipt |-> wo[l][i].receipt]
  <2>1. session' = [session EXCEPT ![c] = r]
    BY <1>2 DEF BeginReceipt
  <2>2. kind = "INSPECT" => wo[l][i].status = "QC_PENDING"
    BY <1>2 DEF BeginReceipt
  <2>3. wo' = wo
    BY <1>2 DEF BeginReceipt
  <2>4. r.kind = kind /\ r.of = l /\ r.wo = i /\ r.receipt = wo[l][i].receipt
    OBVIOUS
  <2> HIDE DEF r
  <2>5. \A d \in Sessions : session'[d] = r
    BY <2>1 DEF OneSession, Inv, TypeOK
  <2>6. kind \notin OrderKinds
    BY DEF OrderKinds
  <2> QED  BY <2>2, <2>3, <2>4, <2>5, <2>6 DEF ReadHolds
<1>3. ASSUME NEW c \in Sessions, OrderStep(c)
      PROVE  ReadHolds'
  BY <1>3, OrderTables, IdleHolds
<1>4. ASSUME NEW c \in Sessions, ApproveInspection(c) \/ OnQcApproved(c) \/ Abandon(c)
      PROVE  ReadHolds'
  BY <1>4, IdleHolds DEF ApproveInspection, OnQcApproved, Abandon
<1>5. ASSUME NEW l \in Lines, NEW i \in DOMAIN wo[l], SubmitForQC(l, i)
      PROVE  ReadHolds'
  <2>1. Produces(l, i) /\ session' = session /\ status' = status /\ line' = line
    BY <1>5, SubmitProduces
  <2>2. ASSUME NEW c \in Sessions, session[c].kind \in OrderKinds
        PROVE  /\ session[c].status = status'[session[c].order]
               /\ Accepts(session[c].kind, session[c].status)
               /\ session[c].line = [k \in LinesOf(session[c].order) |-> line'[k]]
    <3>1. /\ session[c].status = status[session[c].order]
          /\ Accepts(session[c].kind, session[c].status)
          /\ session[c].line = [k \in LinesOf(session[c].order) |-> line[k]]
      BY <2>2 DEF ReadHolds
    <3>2. [k \in LinesOf(session[c].order) |-> line'[k]] = [k \in LinesOf(session[c].order) |-> line[k]]
      BY <2>1
    <3> QED  BY <2>1, <3>1, <3>2
  <2>3. ASSUME NEW c \in Sessions, session[c].kind \in {"INSPECT", "WORKFLOW"}
        PROVE  /\ session[c].receipt = wo'[session[c].of][session[c].wo].receipt
               /\ session[c].kind = "INSPECT" =>
                    wo'[session[c].of][session[c].wo].status = "QC_PENDING"
    <3> DEFINE k == session[c].of
               j == session[c].wo
    <3>1. k \in Lines /\ j \in DOMAIN wo[k]
      BY <2>3, ReceiptRead
    <3>2. /\ session[c].receipt = wo[k][j].receipt
          /\ session[c].kind = "INSPECT" => wo[k][j].status = "QC_PENDING"
      BY <2>3 DEF ReadHolds
    <3> HIDE DEF k, j
    <3>3. CASE k # l \/ j # i
      <4>1. wo'[k][j] = wo[k][j]
        BY <2>1, <3>1, <3>3 DEF Produces
      <4> QED  BY <3>2, <4>1 DEF k, j
    <3>4. CASE k = l /\ j = i
      <4>1. wo[l][i].status = "OPEN" /\ wo'[l][i].receipt = wo[l][i].receipt
        BY <2>1 DEF Produces
      <4>2. wo[k][j].status # "QC_PENDING"
        BY <3>4, <4>1
      <4>3. session[c].receipt = wo'[k][j].receipt
        BY <3>2, <3>4, <4>1
      <4> QED  BY <3>2, <4>2, <4>3 DEF k, j
    <3> QED  BY <3>3, <3>4
  <2> QED  BY <2>1, <2>2, <2>3 DEF ReadHolds
<1>6. CASE UNCHANGED vars
  BY <1>6 DEF vars, ReadHolds
<1> QED
  BY <1>1, <1>2, <1>3, <1>4, <1>5, <1>6 DEF Next

-----------------------------------------------------------------------------
(* The books of a line: what it is allocated, short of, and has work orders for *)

\* The types that the arithmetic on the books of a line needs.
LEMMA BookTypes ==
  ASSUME Inv, NEW l \in Lines
  PROVE  /\ line[l] \in Quantity /\ Ordered[l] \in Nat
         /\ line[l].allocated \in Nat /\ line[l].shipped \in Nat /\ line[l].shortfall \in Nat
         /\ OrderOf[l] \in Orders /\ ProductOf[l] \in Products /\ l \in LinesOf(OrderOf[l])
         /\ wo[l] \in Seq(WorkOrder)
  BY LineAssumption DEF Inv, TypeOK, Quantity, LineColumns, LinesOf

\* The lines of the other orders are not in the state that a step gives to o.
LEMMA StateWritten ==
  ASSUME Inv, NEW o \in Orders, NEW s, status' = [status EXCEPT ![o] = s], NEW l \in Lines
  PROVE  status'[OrderOf[l]] = IF l \in LinesOf(o) THEN s ELSE status[OrderOf[l]]
  BY LineAssumption DEF Inv, TypeOK, LinesOf

LEMMA BooksKept ==
  ASSUME Inv, Books, TableStep
  PROVE  Books'
<1> SUFFICES ASSUME NEW l \in Lines
             PROVE  BookKept(line'[l], wo'[l], status'[OrderOf[l]], Ordered[l])
  BY DEF Books
<1>1. BookKept(line[l], wo[l], status[OrderOf[l]], Ordered[l])
  BY DEF Books
<1> DEFINE q == line[l]
           s == status[OrderOf[l]]
<1>2. /\ q \in Quantity /\ Ordered[l] \in Nat
      /\ q.allocated \in Nat /\ q.shipped \in Nat /\ q.shortfall \in Nat
      /\ OrderOf[l] \in Orders /\ wo[l] \in Seq(WorkOrder)
  BY BookTypes
<1>3. CASE QuietStep
  BY <1>1, <1>3 DEF QuietStep
<1>4. CASE ProduceStep
  <2>1. PICK k \in Lines : \E i \in DOMAIN wo[k] : Produces(k, i)
    BY <1>4 DEF ProduceStep
  <2>0. PICK i \in DOMAIN wo[k] : Produces(k, i)
    BY <2>1
  <2>2. line' = line /\ status' = status
    BY <1>4 DEF ProduceStep
  <2>3. DOMAIN wo'[l] = DOMAIN wo[l] /\ (k # l => \A j \in DOMAIN wo[l] : wo'[l][j] = wo[l][j])
    BY <2>0 DEF Produces
  <2>4. CASE k # l
    BY <1>1, <2>2, <2>3, <2>4, <1>2 DEF BookKept
  <2>5. CASE k = l
    <3>1. wo[l][i].status = "OPEN" /\ wo'[l][i].receipt = wo[l][i].receipt
      BY <2>0, <2>5 DEF Produces
    <3>2. i = 1 /\ DOMAIN wo[l] = {1} /\ s \notin Early
      BY <1>1, <2>5 DEF BookKept
    <3>3. wo[l][i].receipt = 0
      BY <1>1, <2>5, <3>1 DEF BookKept
    <3> QED  BY <1>1, <2>2, <2>3, <3>1, <3>2, <3>3 DEF BookKept
  <2> QED  BY <2>4, <2>5
<1>5. CASE RestateStep
  <2>1. PICK o \in Orders, t \in Status : Restates(o, t)
    BY <1>5 DEF RestateStep
  <2>2. line'[l] = line[l] /\ wo' = wo
    BY <2>1 DEF Restates
  <2>3. status' = [status EXCEPT ![o] = t] /\ (t \in Early => status[o] \in Early)
    BY <2>1 DEF Restates
  <2>4. status'[OrderOf[l]] = IF l \in LinesOf(o) THEN t ELSE s
    BY <2>3, StateWritten
  <2>5. status'[OrderOf[l]] \in Early => s \in Early
    BY <2>3, <2>4 DEF LinesOf
  <2> QED  BY <1>1, <2>2, <2>5 DEF BookKept
<1>6. CASE ConfirmStep
  <2>1. PICK o \in Orders : \E take, short \in [LinesOf(o) -> Nat] : Confirms(o, take, short)
    BY <1>6 DEF ConfirmStep
  <2>2. PICK take \in [LinesOf(o) -> Nat], short \in [LinesOf(o) -> Nat] : Confirms(o, take, short)
    BY <2>1
  <2>3. PICK t \in {"CONFIRMED", "PRODUCTION", "READY_FOR_DISPATCH"} :
          status' = [status EXCEPT ![o] = t]
    BY <2>2 DEF Confirms
  <2>4. status'[OrderOf[l]] = IF l \in LinesOf(o) THEN t ELSE s
    BY <2>3, StateWritten
  <2>5. CASE l \notin LinesOf(o)
    <3>1. line'[l] = line[l] /\ wo'[l] = wo[l]
      BY <2>2, <2>5 DEF Confirms
    <3> QED  BY <1>1, <2>4, <2>5, <3>1
  <2>6. CASE l \in LinesOf(o)
    <3>1. s \in Early /\ t \notin Early
      BY <2>2, <2>6 DEF Confirms, Early, LinesOf
    <3>2. wo[l] = << >> /\ DOMAIN wo[l] = {}
      BY <1>1, <1>2, <3>1 DEF BookKept
    <3>3. /\ take[l] \in Nat /\ short[l] \in Nat
          /\ q.allocated + take[l] + short[l] =< Ordered[l]
          /\ line'[l].allocated = q.allocated + take[l]
          /\ line'[l].shipped = q.shipped
          /\ line'[l].shortfall = IF short[l] > 0 THEN short[l] ELSE q.shortfall
          /\ \/ wo'[l] = wo[l]
             \/ short[l] > 0 /\ wo'[l] = Append(wo[l], NewWorkOrder(short[l]))
      BY <2>2, <2>6 DEF Confirms
    <3>4. q.shipped =< q.allocated /\ q.allocated =< Ordered[l]
      BY <1>1 DEF BookKept
    <3>5. line'[l].shipped =< line'[l].allocated /\ line'[l].allocated =< Ordered[l]
      BY <1>2, <3>3, <3>4
    <3>6. CASE wo'[l] = wo[l]
      BY <2>4, <2>6, <3>1, <3>2, <3>5, <3>6 DEF BookKept
    <3>7. CASE short[l] > 0 /\ wo'[l] = Append(wo[l], NewWorkOrder(short[l]))
      <4> DEFINE w == NewWorkOrder(short[l])
      <4>1. wo'[l] = << w >>
        BY <3>2, <3>7
      <4>2. w.receipt = 0
        BY DEF NewWorkOrder
      <4> HIDE DEF w
      <4>3. DOMAIN wo'[l] = {1} /\ \A i \in DOMAIN wo'[l] : wo'[l][i].receipt = 0
        BY <4>1, <4>2
      <4>4. line'[l].shortfall > 0 /\ line'[l].allocated + line'[l].shortfall =< Ordered[l]
        BY <1>2, <3>3, <3>7
      <4>5. status'[OrderOf[l]] \notin Early
        BY <2>4, <2>6, <3>1
      <4> HIDE DEF q, s
      <4> QED  BY <3>5, <4>3, <4>4, <4>5 DEF BookKept
    <3> QED  BY <3>3, <3>6, <3>7
  <2> QED  BY <2>5, <2>6
<1>7. CASE ShipStep
  <2>1. PICK o \in Orders : \E sent \in [LinesOf(o) -> Nat] : Ships(o, sent)
    BY <1>7 DEF ShipStep
  <2>2. PICK sent \in [LinesOf(o) -> Nat] : Ships(o, sent)
    BY <2>1
  <2>3. PICK t \in {status[o], "SHIPPED"} : status' = [status EXCEPT ![o] = t]
    BY <2>2 DEF Ships
  <2>4. status'[OrderOf[l]] = IF l \in LinesOf(o) THEN t ELSE s
    BY <2>3, StateWritten
  <2>5. wo' = wo
    BY <2>2 DEF Ships
  <2>6. status'[OrderOf[l]] \in Early => s \in Early
    BY <2>3, <2>4 DEF LinesOf, Early
  <2>7. CASE l \notin LinesOf(o)
    <3>1. line'[l] = line[l]
      BY <2>2, <2>7 DEF Ships
    <3> QED  BY <1>1, <2>5, <2>6, <3>1 DEF BookKept
  <2>8. CASE l \in LinesOf(o)
    <3>1. /\ line'[l] = [line[l] EXCEPT !.shipped = line[l].shipped + sent[l]]
          /\ sent[l] > 0 => line[l].shipped + sent[l] =< line[l].allocated
          /\ sent[l] \in Nat
      BY <2>2, <2>8 DEF Ships
    <3>2. /\ line'[l].allocated = q.allocated /\ line'[l].shortfall = q.shortfall
          /\ line'[l].shipped = q.shipped + sent[l]
      BY <1>2, <3>1 DEF Quantity, LineColumns
    <3>3. q.shipped =< q.allocated
      BY <1>1 DEF BookKept
    <3>4. line'[l].shipped =< line'[l].allocated
      BY <1>2, <3>1, <3>2, <3>3
    <3> QED  BY <1>1, <2>5, <2>6, <3>2, <3>4 DEF BookKept
  <2> QED  BY <2>7, <2>8
<1>8. CASE ReceiveStep
  <2>1. PICK k \in Lines :
          \E i \in DOMAIN wo[k] : \E got, take \in Nat : Receives(k, i, got, take)
    BY <1>8 DEF ReceiveStep
  <2>0. PICK i \in DOMAIN wo[k] : \E got, take \in Nat : Receives(k, i, got, take)
    BY <2>1
  <2>2. PICK got \in Nat, take \in Nat : Receives(k, i, got, take)
    BY <2>0
  <2>3. OrderOf[k] \in Orders
    BY LineAssumption
  <2>4. PICK t \in {status[OrderOf[k]], "READY_FOR_DISPATCH"} :
          status' = [status EXCEPT ![OrderOf[k]] = t]
    BY <2>2 DEF Receives
  <2>5. status'[OrderOf[l]] = IF l \in LinesOf(OrderOf[k]) THEN t ELSE s
    BY <2>3, <2>4, StateWritten
  <2>6. status'[OrderOf[l]] \in Early => s \in Early
    BY <2>4, <2>5 DEF LinesOf, Early
  <2>7. DOMAIN wo'[l] = DOMAIN wo[l]
    BY <2>2 DEF Receives
  <2>8. CASE k # l
    <3>1. line'[l] = line[l] /\ \A j \in DOMAIN wo[l] : wo'[l][j] = wo[l][j]
      BY <2>2, <2>8 DEF Receives
    <3> QED  BY <1>1, <2>6, <2>7, <3>1 DEF BookKept
  <2>9. CASE k = l
    <3>1. i = 1 /\ DOMAIN wo[l] = {1} /\ s \notin Early
      BY <1>1, <2>9 DEF BookKept
    <3>2. /\ line'[l].shipped = q.shipped
          /\ line'[l].allocated = q.allocated + take /\ line'[l].allocated =< Ordered[l]
          /\ wo'[l][i].status = "FG_RECEIVED"
          /\ wo'[l][i].receipt = 0 => take = 0 /\ line'[l].shortfall = q.shortfall
          /\ wo'[l][i].receipt = wo[l][i].receipt + got
      BY <2>2, <2>9 DEF Receives
    <3>3. /\ q.shipped =< q.allocated
          /\ wo[l][i].receipt = 0 => q.shortfall > 0 /\ q.allocated + q.shortfall =< Ordered[l]
      BY <1>1, <2>9 DEF BookKept
    <3>4. wo[l][i].receipt \in Nat
      <4>1. wo[l][i] \in WorkOrder
        BY <1>2, <2>9
      <4> QED  BY <4>1 DEF WorkOrder
    <3>5. line'[l].shipped =< line'[l].allocated
      BY <1>2, <3>2, <3>3
    <3>6. wo'[l][i].receipt = 0 =>
            line'[l].shortfall > 0 /\ line'[l].allocated + line'[l].shortfall =< Ordered[l]
      <4>1. wo'[l][i].receipt = 0 => wo[l][i].receipt = 0
        BY <3>2, <3>4
      <4>2. take = 0 => line'[l].allocated = q.allocated
        BY <1>2, <3>2
      <4> HIDE DEF q
      <4> QED  BY <3>2, <3>3, <4>1, <4>2
    <3>7. status'[OrderOf[l]] \notin Early
      BY <2>6, <3>1
    <3> HIDE DEF q, s
    <3> QED  BY <2>7, <3>1, <3>2, <3>5, <3>6, <3>7 DEF BookKept
  <2> QED  BY <2>8, <2>9
<1> QED
  BY <1>3, <1>4, <1>5, <1>6, <1>7, <1>8 DEF TableStep

(* The state READY_FOR_DISPATCH is given to orders that are allocated in full, and
   nothing that was allocated is taken back. *)
LEMMA ReadyKept ==
  ASSUME Inv, ReadyMeansAllocated, TableStep
  PROVE  ReadyMeansAllocated'
<1> SUFFICES ASSUME NEW x \in Orders, status'[x] = "READY_FOR_DISPATCH", NEW l \in LinesOf(x)
             PROVE  line'[l].allocated >= Ordered[l]
  BY DEF ReadyMeansAllocated
<1>1. status[x] = "READY_FOR_DISPATCH" => line[l].allocated >= Ordered[l]
  BY DEF ReadyMeansAllocated
<1>2. l \in Lines /\ OrderOf[l] = x
  BY DEF LinesOf
<1>3. /\ line[l] \in Quantity /\ Ordered[l] \in Nat /\ line[l].allocated \in Nat
  BY <1>2, BookTypes
<1>4. status \in [Orders -> Status]
  BY DEF Inv, TypeOK
<1>5. CASE QuietStep
  BY <1>1, <1>5 DEF QuietStep
<1>6. CASE ProduceStep
  BY <1>1, <1>6 DEF ProduceStep
<1>7. CASE RestateStep
  <2>1. PICK o \in Orders, t \in Status : Restates(o, t)
    BY <1>7 DEF RestateStep
  <2>2. status' = [status EXCEPT ![o] = t] /\ t # "READY_FOR_DISPATCH" /\ line'[l] = line[l]
    BY <1>2, <2>1 DEF Restates
  <2>3. status[x] = "READY_FOR_DISPATCH"
    BY <1>4, <2>2
  <2> QED  BY <1>1, <2>2, <2>3
<1>8. CASE ConfirmStep
  <2>1. PICK o \in Orders : \E take, short \in [LinesOf(o) -> Nat] : Confirms(o, take, short)
    BY <1>8 DEF ConfirmStep
  <2>2. PICK take \in [LinesOf(o) -> Nat], short \in [LinesOf(o) -> Nat] : Confirms(o, take, short)
    BY <2>1
  <2>3. PICK t \in {"CONFIRMED", "PRODUCTION", "READY_FOR_DISPATCH"} :
          /\ status' = [status EXCEPT ![o] = t]
          /\ t = "READY_FOR_DISPATCH" =>
               \A k \in LinesOf(o) : line[k].allocated + take[k] >= Ordered[k]
    BY <2>2 DEF Confirms
  <2>4. CASE x = o
    <3>1. t = "READY_FOR_DISPATCH"
      BY <1>4, <2>3, <2>4
    <3>2. line'[l].allocated = line[l].allocated + take[l]
      BY <2>2, <2>4 DEF Confirms
    <3> QED  BY <2>3, <2>4, <3>1, <3>2
  <2>5. CASE x # o
    <3>1. status[x] = "READY_FOR_DISPATCH"
      BY <1>4, <2>3, <2>5
    <3>2. l \in Lines \ LinesOf(o)
      BY <1>2, <2>5 DEF LinesOf
    <3>3. line'[l] = line[l]
      BY <2>2, <3>2 DEF Confirms
    <3> QED  BY <1>1, <3>1, <3>3
  <2> QED  BY <2>4, <2>5
<1>9. CASE ShipStep
  <2>1. PICK o \in Orders : \E sent \in [LinesOf(o) -> Nat] : Ships(o, sent)
    BY <1>9 DEF ShipStep
  <2>2. PICK sent \in [LinesOf(o) -> Nat] : Ships(o, sent)
    BY <2>1
  <2>3. PICK t \in {status[o], "SHIPPED"} : status' = [status EXCEPT ![o] = t]
    BY <2>2 DEF Ships
  <2>4. status[x] = "READY_FOR_DISPATCH"
    BY <1>4, <2>3
  <2>5. line'[l].allocated = line[l].allocated
    <3>1. CASE l \in LinesOf(o)
      <4>1. line'[l] = [line[l] EXCEPT !.shipped = line[l].shipped + sent[l]]
        BY <2>2, <3>1 DEF Ships
      <4> QED  BY <1>3, <4>1 DEF Quantity, LineColumns
    <3>2. CASE l \notin LinesOf(o)
      <4>1. line'[l] = line[l]
        BY <1>2, <2>2, <3>2 DEF Ships
      <4> QED  BY <4>1
    <3> QED  BY <3>1, <3>2
  <2> QED  BY <1>1, <2>4, <2>5
<1>10. CASE ReceiveStep
  <2>1. PICK k \in Lines :
          \E i \in DOMAIN wo[k] : \E got, take \in Nat : Receives(k, i, got, take)
    BY <1>10 DEF ReceiveStep
  <2>0. PICK i \in DOMAIN wo[k] : \E got, take \in Nat : Receives(k, i, got, take)
    BY <2>1
  <2>2. PICK got \in Nat, take \in Nat : Receives(k, i, got, take)
    BY <2>0
  <2>3. PICK t \in {status[OrderOf[k]], "READY_FOR_DISPATCH"} :
          /\ status' = [status EXCEPT ![OrderOf[k]] = t]
          /\ t # status[OrderOf[k]] =>
               \A j \in LinesOf(OrderOf[k]) : line'[j].allocated >= Ordered[j]
    BY <2>2 DEF Receives
  <2>4. CASE x = OrderOf[k] /\ t # status[x]
    BY <2>3, <2>4
  <2>5. CASE x # OrderOf[k] \/ t = status[x]
    <3>1. status[x] = "READY_FOR_DISPATCH"
      BY <1>4, <2>3, <2>5
    <3>2. CASE k = l
      <4>1. line'[l].allocated = line[l].allocated + take
        BY <2>2, <3>2 DEF Receives
      <4>2. line[l].allocated >= Ordered[l]
        BY <1>1, <3>1
      <4> QED  BY <1>3, <4>1, <4>2
    <3>3. CASE k # l
      <4>1. line'[l] = line[l]
        BY <1>2, <2>2, <3>3 DEF Receives
      <4> QED  BY <1>1, <3>1, <4>1
    <3> QED  BY <3>2, <3>3
  <2> QED  BY <2>4, <2>5
<1> QED
  BY <1>5, <1>6, <1>7, <1>8, <1>9, <1>10 DEF TableStep

LEMMA BooksInvNext ==
  ASSUME OneSession, BooksInv, [Next]_vars
  PROVE  BooksInv' /\ TableStep
<1>1. Inv' /\ ReadHolds' /\ TableStep
  BY NextInv, ReadKept, Tables DEF BooksInv
<1>2. Books' /\ ReadyMeansAllocated'
  BY <1>1, BooksKept, ReadyKept DEF BooksInv
<1> QED  BY <1>1, <1>2 DEF BooksInv

LEMMA BooksInvInit == Init => BooksInv
<1> SUFFICES ASSUME Init PROVE BooksInv
  OBVIOUS
<1>1. Inv
  BY InitInv
<1>2. ReadHolds
  BY DEF Init, ReadHolds, Idle, OrderKinds
<1>3. Books
  <2> SUFFICES ASSUME NEW l \in Lines
               PROVE  BookKept(line[l], wo[l], status[OrderOf[l]], Ordered[l])
    BY DEF Books
  <2>1. line[l] = [f \in LineColumns |-> 0] /\ wo[l] = << >> /\ Ordered[l] \in Nat
    BY LineAssumption DEF Init
  <2> QED  BY <2>1 DEF BookKept, LineColumns
<1>4. ReadyMeansAllocated
  BY DEF Init, ReadyMeansAllocated
<1> QED  BY <1>1, <1>2, <1>3, <1>4 DEF BooksInv

(* When requests follow each other, whatever they are, the books of every line stay
   in order: a request finds what it read, so the line it saves is the line there is,
   changed. *)
THEOREM BooksInvariant ==
  ASSUME OneSession
  PROVE  Spec => []BooksInv
<1>1. BooksInv /\ [Next]_vars => BooksInv'
  BY BooksInvNext
<1> QED  BY BooksInvInit, <1>1, PTL DEF Spec

(* Then no line is allocated more than it ordered, by its confirmation, the
   inspection of its work order and the workflow service together, whichever of them
   come and in whatever order, for any number of orders and lines. *)
THEOREM LinesNotOverAllocated ==
  ASSUME OneSession
  PROVE  Spec => []AllocatedWithinOrdered
<1>1. BooksInv => AllocatedWithinOrdered
  BY DEF BooksInv, Books, BookKept, AllocatedWithinOrdered
<1> QED  BY BooksInvariant, <1>1, PTL

(* And an order that waits for its dispatch is allocated in full. *)
THEOREM DispatchQueueAllocated ==
  ASSUME OneSession
  PROVE  Spec => []ReadyMeansAllocated
<1>1. BooksInv => ReadyMeansAllocated
  BY DEF BooksInv
<1> QED  BY BooksInvariant, <1>1, PTL

-----------------------------------------------------------------------------
(* Orders of one line: the stock is conserved *)

OneLinePerOrder == \A k, l \in Lines : OrderOf[k] = OrderOf[l] => k = l

\* A reservation says whether it is for an order or for a line.
Apart == Orders \cap Lines = {}

LEMMA TheLine ==
  ASSUME OneLinePerOrder, NEW o \in Orders
  PROVE  \E l \in Lines : LinesOf(o) = {l} /\ OrderOf[l] = o
  BY EveryOrderHasLines DEF OneLinePerOrder, LinesOf

\* A sum over at most one line.
LEMMA SumOne ==
  ASSUME NEW l, NEW ls \in SUBSET {l}, NEW product, NEW q, NEW p,
         l \in ls => q[l] \in Nat
  PROVE  SumFor(p, ls, product, q) = IF l \in ls /\ product[l] = p THEN q[l] ELSE 0
<1> DEFINE here == {k \in ls : product[k] = p}
           f == [k \in here |-> q[k]]
<1>0. SumFor(p, ls, product, q) = Total(f)
  BY DEF SumFor
<1>1. CASE here = {}
  <2>1. DOMAIN f = {} /\ \A x \in {} : f[x] = 0
    BY <1>1
  <2>2. ~(l \in ls /\ product[l] = p)
    BY <1>1
  <2> HIDE DEF f
  <2>3. Total(f) = 0
    BY <2>1, TotalZero
  <2> QED  BY <1>0, <2>2, <2>3
<1>2. CASE here # {}
  <2>1. here = {l} /\ l \in ls /\ product[l] = p
    BY <1>2
  <2> DEFINE rest == here \ {l}
             e == [k \in rest |-> q[k]]
  <2>2. f \in [rest \cup {l} -> Nat] /\ f[l] = q[l]
    BY <2>1
  <2>3. e \in [rest -> Nat] /\ DOMAIN e = rest /\ \A x \in rest : f[x] = e[x] /\ e[x] = 0
    BY <2>1
  <2>4. IsFiniteSet(rest) /\ l \notin rest
    BY <2>1, FS_EmptySet
  <2> HIDE DEF f, e, here, rest
  <2>5. Total(e) = 0
    BY <2>3, TotalZero
  <2>6. Total(f) = Total(e) + f[l]
    BY <2>2, <2>3, <2>4, TotalSplit
  <2>7. f[l] \in Nat
    BY <2>2
  <2>8. Total(f) = q[l]
    BY <2>2, <2>5, <2>6, <2>7
  <2> QED  BY <1>0, <2>1, <2>8
<1> QED  BY <1>1, <1>2

\* The sum of f over the lines of product p.
ProductSum(p, f) == Total([l \in LinesFor(p) |-> f[l]])

LEMMA ProductSumNat ==
  ASSUME NEW p, NEW f \in [Lines -> Nat]
  PROVE  ProductSum(p, f) \in Nat
<1> DEFINE D == LinesFor(p)
           e == [l \in D |-> f[l]]
<1>1. IsFiniteSet(D) /\ D \subseteq Lines
  BY FiniteOrders, FS_Subset DEF LinesFor
<1>2. e \in [D -> Nat]
  BY <1>1
<1> HIDE DEF D, e
<1>3. Total(e) \in Nat
  BY <1>1, <1>2, UnitsFinite
<1> QED  BY <1>3 DEF ProductSum, D, e

\* A sum changes with the one term that changes.
LEMMA ProductSumUpdate ==
  ASSUME NEW p, NEW x \in Lines, NEW f \in [Lines -> Nat], NEW g \in [Lines -> Nat],
         \A l \in Lines : l # x => g[l] = f[l]
  PROVE  IF ProductOf[x] = p THEN ProductSum(p, g) + f[x] = ProductSum(p, f) + g[x]
                             ELSE ProductSum(p, g) = ProductSum(p, f)
<1> DEFINE D == LinesFor(p)
           a == [l \in D |-> f[l]]
           b == [l \in D |-> g[l]]
<1>1. IsFiniteSet(D) /\ D \subseteq Lines
  BY FiniteOrders, FS_Subset DEF LinesFor
<1>2. a \in [D -> Nat] /\ b \in [D -> Nat]
  BY <1>1
<1>3. CASE ProductOf[x] = p
  <2>1. x \in D /\ a[x] = f[x] /\ b[x] = g[x]
    BY <1>3 DEF LinesFor
  <2>2. \A y \in D \ {x} : b[y] = a[y]
    BY <1>1
  <2> HIDE DEF D, a, b
  <2>3. Total(b) + a[x] = Total(a) + b[x]
    BY <1>1, <1>2, <2>1, <2>2, TotalUpdate
  <2> QED  BY <1>3, <2>1, <2>3 DEF ProductSum, D, a, b
<1>4. CASE ProductOf[x] # p
  <2>1. a = b
    BY <1>4 DEF LinesFor
  <2> QED  BY <1>4, <2>1 DEF ProductSum
<1> QED  BY <1>3, <1>4

\* The quantities that the sums are of.
ShippedOf(q) == [l \in Lines |-> q[l].shipped]
ReceiptsOf(works) == Total([i \in DOMAIN works |-> works[i].receipt])
ReceiptsIn(w) == [l \in Lines |-> ReceiptsOf(w[l])]

StockBalance(stock, q, w) ==
  \A p \in Products :
    stock[p] + ProductSum(p, ShippedOf(q)) = InitialStock[p] + ProductSum(p, ReceiptsIn(w))

LEMMA Balance ==
  /\ StockConserved <=> StockBalance(onHand, line, wo)
  /\ StockConserved' <=> StockBalance(onHand', line', wo')
<1>1. ASSUME NEW q, NEW p
      PROVE  ProductSum(p, ShippedOf(q)) = Total([l \in LinesFor(p) |-> q[l].shipped])
  <2>1. [l \in LinesFor(p) |-> ShippedOf(q)[l]] = [l \in LinesFor(p) |-> q[l].shipped]
    BY DEF ShippedOf, LinesFor
  <2> QED  BY <2>1 DEF ProductSum
<1>2. ASSUME NEW w, NEW p
      PROVE  ProductSum(p, ReceiptsIn(w))
               = Total([l \in LinesFor(p) |-> Total([i \in DOMAIN w[l] |-> w[l][i].receipt])])
  <2>1. [l \in LinesFor(p) |-> ReceiptsIn(w)[l]]
          = [l \in LinesFor(p) |-> Total([i \in DOMAIN w[l] |-> w[l][i].receipt])]
    BY DEF ReceiptsIn, ReceiptsOf, LinesFor
  <2> QED  BY <2>1 DEF ProductSum
<1>3. StockConserved <=> StockBalance(onHand, line, wo)
  BY <1>1, <1>2 DEF StockConserved, StockBalance, ReceivedFor
<1>4. StockConserved' <=> StockBalance(onHand', line', wo')
  BY <1>1, <1>2 DEF StockConserved, StockBalance, ReceivedFor
<1> QED  BY <1>3, <1>4

LEMMA ReceiptsNat ==
  ASSUME NEW works \in Seq(WorkOrder)
  PROVE  ReceiptsOf(works) \in Nat
<1> DEFINE D == DOMAIN works
           f == [i \in D |-> works[i].receipt]
<1>1. D = 1..Len(works) /\ Len(works) \in Nat
  OBVIOUS
<1>2. IsFiniteSet(D)
  BY <1>1, FS_Interval
<1>0. \A j \in D : works[j] \in WorkOrder
  OBVIOUS
<1>3. f \in [D -> Nat]
  BY <1>0 DEF WorkOrder
<1> HIDE DEF D, f
<1>4. Total(f) \in Nat
  BY <1>2, <1>3, UnitsFinite
<1> QED  BY <1>4 DEF ReceiptsOf, D, f

\* Work orders without a receipt contribute nothing.
LEMMA ReceiptsZero ==
  ASSUME NEW works, \A i \in DOMAIN works : works[i].receipt = 0
  PROVE  ReceiptsOf(works) = 0
<1> DEFINE D == DOMAIN works
           f == [i \in D |-> works[i].receipt]
<1>1. DOMAIN f = D /\ \A i \in D : f[i] = 0
  OBVIOUS
<1> HIDE DEF D, f
<1>2. Total(f) = 0
  BY <1>1, TotalZero
<1> QED  BY <1>2 DEF ReceiptsOf, D, f

LEMMA ReceiptsSame ==
  ASSUME NEW works, NEW made, DOMAIN made = DOMAIN works,
         \A i \in DOMAIN works : made[i].receipt = works[i].receipt
  PROVE  ReceiptsOf(made) = ReceiptsOf(works)
<1>1. [i \in DOMAIN made |-> made[i].receipt] = [i \in DOMAIN works |-> works[i].receipt]
  OBVIOUS
<1> QED  BY <1>1 DEF ReceiptsOf

LEMMA ReceiptsUpdate ==
  ASSUME NEW works \in Seq(WorkOrder), NEW made \in Seq(WorkOrder),
         DOMAIN made = DOMAIN works, NEW i \in DOMAIN works, NEW got \in Nat,
         made[i].receipt = works[i].receipt + got,
         \A j \in DOMAIN works : j # i => made[j] = works[j]
  PROVE  ReceiptsOf(made) = ReceiptsOf(works) + got
<1> DEFINE D == DOMAIN works
           f == [j \in D |-> works[j].receipt]
           g == [j \in D |-> made[j].receipt]
<1>1. D = 1..Len(works) /\ Len(works) \in Nat
  OBVIOUS
<1>2. IsFiniteSet(D)
  BY <1>1, FS_Interval
<1>0. \A j \in D : works[j] \in WorkOrder /\ made[j] \in WorkOrder
  OBVIOUS
<1>3. f \in [D -> Nat] /\ g \in [D -> Nat]
  BY <1>0 DEF WorkOrder
<1>4. i \in D /\ g[i] = f[i] + got /\ \A j \in D \ {i} : g[j] = f[j]
  OBVIOUS
<1>5. ReceiptsOf(works) = Total(f) /\ ReceiptsOf(made) = Total(g)
  BY DEF ReceiptsOf
<1> HIDE DEF D, f, g
<1>6. Total(g) + f[i] = Total(f) + g[i]
  BY <1>2, <1>3, <1>4, TotalUpdate
<1>7. Total(f) \in Nat /\ Total(g) \in Nat /\ f[i] \in Nat
  BY <1>2, <1>3, <1>4, UnitsFinite
<1>8. Total(g) = Total(f) + got
  <2>1. g[i] = f[i] + got
    BY <1>4
  <2>2. Total(g) + f[i] = Total(f) + (f[i] + got)
    BY <1>6, <2>1, Zenon
  <2> DEFINE a == Total(g)
             b == Total(f)
             x == f[i]
  <2>3. a \in Nat /\ b \in Nat /\ x \in Nat /\ a + x = b + (x + got)
    BY <1>7, <2>2
  <2> HIDE DEF a, b, x
  <2>4. a = b + got
    BY <2>3
  <2> QED  BY <2>4 DEF a, b
<1> QED  BY <1>5, <1>8

\* The reservations that a release or a shipment of a line may find are of its product.
LEMMA RowsOfLine ==
  ASSUME RowsOfProduct, NEW l \in Lines, NEW p \in RowsFor(l)
  PROVE  p = ProductOf[l]
  BY DEF RowsOfProduct, RowsFor

LEMMA RowsKept ==
  ASSUME OneLinePerOrder, Apart, Inv, RowsOfProduct, TableStep
  PROVE  RowsOfProduct'
<1> SUFFICES ASSUME NEW k \in Lines, NEW p \in Products,
                    <<k, p>> \in rows' \/ <<OrderOf[k], p>> \in rows'
             PROVE  p = ProductOf[k]
  BY DEF RowsOfProduct
<1>1. <<k, p>> \in rows \/ <<OrderOf[k], p>> \in rows => p = ProductOf[k]
  BY DEF RowsOfProduct
<1>2. CASE rows' = rows
  BY <1>1, <1>2
<1>3. CASE ConfirmStep
  <2>1. PICK o \in Orders : \E take, short \in [LinesOf(o) -> Nat] : Confirms(o, take, short)
    BY <1>3 DEF ConfirmStep
  <2>2. PICK take \in [LinesOf(o) -> Nat], short \in [LinesOf(o) -> Nat] : Confirms(o, take, short)
    BY <2>1
  <2>3. rows' = rows \cup {<<o, ProductOf[l]>> : l \in {x \in LinesOf(o) : take[x] > 0}}
    BY <2>2 DEF Confirms
  <2>4. ASSUME NEW l \in LinesOf(o), <<k, p>> = <<o, ProductOf[l]>> \/ <<OrderOf[k], p>> = <<o, ProductOf[l]>>
        PROVE  p = ProductOf[k]
    <3>1. k # o
      BY DEF Apart
    <3>2. OrderOf[k] = OrderOf[l] /\ p = ProductOf[l] /\ l \in Lines
      BY <2>4, <3>1 DEF LinesOf
    <3> QED  BY <3>2 DEF OneLinePerOrder
  <2> QED  BY <1>1, <2>3, <2>4
<1>4. CASE ReceiveStep
  <2>1. PICK l \in Lines : \E i \in DOMAIN wo[l] : \E got, take \in Nat : Receives(l, i, got, take)
    BY <1>4 DEF ReceiveStep
  <2>2. rows' \subseteq rows \cup {<<l, ProductOf[l]>>, <<OrderOf[l], ProductOf[l]>>}
    BY <2>1 DEF Receives
  <2>3. k # OrderOf[l] /\ l # OrderOf[k]
    BY LineAssumption DEF Apart
  <2>4. OrderOf[k] = OrderOf[l] => k = l
    BY DEF OneLinePerOrder
  <2> QED  BY <1>1, <2>2, <2>3, <2>4
<1>5. QuietStep \/ ProduceStep \/ RestateStep \/ ShipStep => rows' = rows
  BY DEF QuietStep, ProduceStep, RestateStep, ShipStep, Ships
<1> QED  BY <1>2, <1>3, <1>4, <1>5 DEF TableStep

\* A shipment of an order is a shipment of its line, and takes the line's product.
ShipsOne(l, n) ==
  /\ n > 0
  /\ line'[l].shipped = line[l].shipped + n
  /\ line'[l].allocated = line[l].allocated
  /\ line[l].shipped + n =< line[l].allocated
  /\ \A k \in Lines : k # l => line'[k] = line[k]
  /\ n =< onHand[ProductOf[l]]
  /\ onHand' = [p \in Products |-> IF p = ProductOf[l] THEN onHand[p] - n ELSE onHand[p]]
  /\ reserved' = [p \in Products |-> IF p = ProductOf[l] THEN Released(reserved[p], n)
                                                         ELSE reserved[p]]
  /\ wo' = wo /\ rows' = rows

LEMMA ShipStepOne ==
  ASSUME OneLinePerOrder, Inv, RowsOfProduct, NEW o \in Orders, NEW q \in [LinesOf(o) -> Nat],
         Ships(o, q)
  PROVE  \E l \in Lines : \E n \in Nat : OrderOf[l] = o /\ ShipsOne(l, n)
<1>1. PICK l \in Lines : LinesOf(o) = {l} /\ OrderOf[l] = o
  BY TheLine
<1> DEFINE sent == {k \in LinesOf(o) : q[k] > 0}
<1>2. sent # {} /\ wo' = wo /\ rows' = rows
  BY DEF Ships
<1>3. PICK found \in Found(sent) :
        /\ \A p \in Products : SumFor(p, sent, found, q) =< onHand[p]
        /\ onHand' = [p \in Products |-> onHand[p] - SumFor(p, sent, found, q)]
        /\ reserved' = [p \in Products |-> Released(reserved[p], SumFor(p, sent, found, q))]
  BY DEF Ships
<1>4. sent = {l} /\ q[l] > 0 /\ q[l] \in Nat
  BY <1>1, <1>2
<1>5. found[l] = ProductOf[l]
  BY <1>3, <1>4, RowsOfLine DEF Found
<1>6. /\ line'[l] = [line[l] EXCEPT !.shipped = line[l].shipped + q[l]]
      /\ line[l].shipped + q[l] =< line[l].allocated
      /\ \A k \in Lines : k # l => line'[k] = line[k]
  BY <1>1, <1>4 DEF Ships
<1>7. /\ line[l] \in Quantity /\ ProductOf[l] \in Products
      /\ onHand \in [Products -> Nat] /\ reserved \in [Products -> Nat]
  BY BookTypes DEF Inv, TypeOK
<1>8. line'[l].shipped = line[l].shipped + q[l] /\ line'[l].allocated = line[l].allocated
  BY <1>6, <1>7 DEF Quantity, LineColumns
<1> HIDE DEF sent
<1>9. ASSUME NEW p \in Products
      PROVE  SumFor(p, sent, found, q) = IF p = ProductOf[l] THEN q[l] ELSE 0
  <2>1. sent \in SUBSET {l} /\ (l \in sent => q[l] \in Nat)
    BY <1>4
  <2>2. SumFor(p, sent, found, q) = IF l \in sent /\ found[l] = p THEN q[l] ELSE 0
    BY <2>1, SumOne
  <2> QED  BY <1>4, <1>5, <2>2
<1>10. q[l] =< onHand[ProductOf[l]]
  BY <1>3, <1>7, <1>9
<1>11. onHand' = [p \in Products |-> IF p = ProductOf[l] THEN onHand[p] - q[l] ELSE onHand[p]]
  BY <1>3, <1>7, <1>9
<1>12. ASSUME NEW p \in Products, p # ProductOf[l]
       PROVE  Released(reserved[p], SumFor(p, sent, found, q)) = reserved[p]
  BY <1>7, <1>9, <1>12 DEF Released, Positive
<1>13. reserved' = [p \in Products |-> IF p = ProductOf[l] THEN Released(reserved[p], q[l])
                                                           ELSE reserved[p]]
  BY <1>3, <1>9, <1>12
<1>14. ShipsOne(l, q[l])
  BY <1>2, <1>4, <1>6, <1>8, <1>10, <1>11, <1>13 DEF ShipsOne
<1> QED  BY <1>1, <1>4, <1>14

LEMMA EmptySeq ==
  ASSUME NEW S, NEW s \in Seq(S), DOMAIN s = {}
  PROVE  s = << >>
  OBVIOUS

\* A confirmation of an order is one of its line.
ConfirmsOne(l, take) ==
  /\ line'[l].allocated = line[l].allocated + take
  /\ line'[l].shipped = line[l].shipped
  /\ \A k \in Lines : k # l => line'[k] = line[k] /\ wo'[k] = wo[k]
  /\ ReceiptsOf(wo'[l]) = ReceiptsOf(wo[l])
  /\ status[OrderOf[l]] \notin Final /\ status'[OrderOf[l]] \notin Final
  /\ \A k \in Lines : k # l => status'[OrderOf[k]] = status[OrderOf[k]]
  /\ onHand' = onHand
  /\ reserved' = [p \in Products |-> IF p = ProductOf[l] THEN reserved[p] + take ELSE reserved[p]]
  /\ rows \subseteq rows' /\ (take > 0 => <<OrderOf[l], ProductOf[l]>> \in rows')

LEMMA ConfirmStepOne ==
  ASSUME OneLinePerOrder, Inv, Books, ConfirmStep
  PROVE  \E l \in Lines : \E take \in Nat : ConfirmsOne(l, take)
<1>1. PICK o \in Orders : \E take, short \in [LinesOf(o) -> Nat] : Confirms(o, take, short)
  BY DEF ConfirmStep
<1>2. PICK take \in [LinesOf(o) -> Nat], short \in [LinesOf(o) -> Nat] : Confirms(o, take, short)
  BY <1>1
<1>3. PICK l \in Lines : LinesOf(o) = {l} /\ OrderOf[l] = o
  BY TheLine
<1>4. take[l] \in Nat /\ short[l] \in Nat
  BY <1>3
<1>5. /\ line'[l].allocated = line[l].allocated + take[l]
      /\ line'[l].shipped = line[l].shipped
      /\ \A k \in Lines : k # l => line'[k] = line[k] /\ wo'[k] = wo[k]
      /\ onHand' = onHand
  BY <1>2, <1>3 DEF Confirms
<1>6. ReceiptsOf(wo'[l]) = ReceiptsOf(wo[l])
  <2>1. DOMAIN wo[l] = {} /\ wo[l] \in Seq(WorkOrder)
    <3>1. BookKept(line[l], wo[l], status[OrderOf[l]], Ordered[l])
      BY DEF Books
    <3>2. status[OrderOf[l]] \in Early
      BY <1>2, <1>3 DEF Confirms, Early
    <3> QED  BY <3>1, <3>2, BookTypes DEF BookKept
  <2>2. wo'[l] = wo[l] \/ wo'[l] = Append(wo[l], NewWorkOrder(short[l]))
    BY <1>2, <1>3 DEF Confirms
  <2>3. CASE wo'[l] = wo[l]
    BY <2>3
  <2>4. CASE wo'[l] = Append(wo[l], NewWorkOrder(short[l]))
    <3> DEFINE w == NewWorkOrder(short[l])
    <3>1. w.receipt = 0
      BY DEF NewWorkOrder
    <3> HIDE DEF w
    <3>2. wo[l] = << >>
      BY <2>1, EmptySeq
    <3>3. wo'[l] = << w >>
      BY <2>4, <3>2 DEF w
    <3>4. \A i \in DOMAIN wo'[l] : wo'[l][i].receipt = 0
      BY <3>1, <3>3
    <3>5. \A i \in DOMAIN wo[l] : wo[l][i].receipt = 0
      BY <2>1
    <3> QED  BY <3>4, <3>5, ReceiptsZero
  <2> QED  BY <2>2, <2>3, <2>4
<1>7. /\ status[OrderOf[l]] \notin Final /\ status'[OrderOf[l]] \notin Final
      /\ \A k \in Lines : k # l => status'[OrderOf[k]] = status[OrderOf[k]]
  <2>1. PICK s \in {"CONFIRMED", "PRODUCTION", "READY_FOR_DISPATCH"} :
          status' = [status EXCEPT ![o] = s]
    BY <1>2 DEF Confirms
  <2>2. \A k \in Lines : status'[OrderOf[k]] = IF k \in LinesOf(o) THEN s ELSE status[OrderOf[k]]
    BY <2>1, StateWritten
  <2>3. status[o] \notin Final
    BY <1>2 DEF Confirms, Final
  <2> QED  BY <1>3, <2>2, <2>3 DEF Final
<1>8. rows' = rows \cup {<<o, ProductOf[k]>> : k \in {x \in LinesOf(o) : take[x] > 0}}
  BY <1>2 DEF Confirms
<1>9. rows \subseteq rows' /\ (take[l] > 0 => <<OrderOf[l], ProductOf[l]>> \in rows')
  BY <1>3, <1>8
<1>10. ASSUME NEW p \in Products
       PROVE  SumFor(p, LinesOf(o), ProductOf, take) = IF p = ProductOf[l] THEN take[l] ELSE 0
  <2>1. SumFor(p, LinesOf(o), ProductOf, take)
          = IF l \in LinesOf(o) /\ ProductOf[l] = p THEN take[l] ELSE 0
    BY <1>3, <1>4, SumOne
  <2> QED  BY <1>3, <2>1
<1>11. reserved' = [p \in Products |-> reserved[p] + SumFor(p, LinesOf(o), ProductOf, take)]
  BY <1>2 DEF Confirms
<1>12. reserved' = [p \in Products |-> IF p = ProductOf[l] THEN reserved[p] + take[l] ELSE reserved[p]]
  <2>1. \A p \in Products : reserved[p] + 0 = reserved[p]
    BY DEF Inv, TypeOK
  <2> QED  BY <1>10, <1>11, <2>1
<1>13. ConfirmsOne(l, take[l])
  BY <1>5, <1>6, <1>7, <1>9, <1>12 DEF ConfirmsOne
<1> QED  BY <1>4, <1>13

LEMMA SumTypes ==
  ASSUME TypeOK
  PROVE  /\ ShippedOf(line) \in [Lines -> Nat] /\ ReceiptsIn(wo) \in [Lines -> Nat]
         /\ \A l \in Lines : ShippedOf(line)[l] = line[l].shipped
                             /\ ReceiptsIn(wo)[l] = ReceiptsOf(wo[l])
<1>1. \A l \in Lines : line[l].shipped \in Nat /\ wo[l] \in Seq(WorkOrder)
  BY DEF TypeOK, LineColumns
<1>2. \A l \in Lines : ReceiptsOf(wo[l]) \in Nat
  BY <1>1, ReceiptsNat
<1> QED  BY <1>1, <1>2 DEF ShippedOf, ReceiptsIn

\* What a receipt adds to the receipts of its line.
LEMMA ReceivesReceipts ==
  ASSUME Inv, Inv', NEW l \in Lines, NEW i \in DOMAIN wo[l], NEW got \in Nat, NEW take \in Nat,
         Receives(l, i, got, take)
  PROVE  /\ ReceiptsOf(wo'[l]) = ReceiptsOf(wo[l]) + got
         /\ \A k \in Lines : k # l => ReceiptsOf(wo'[k]) = ReceiptsOf(wo[k])
         /\ \A k \in Lines : line'[k].shipped = line[k].shipped
<1>1. /\ \A k \in Lines : DOMAIN wo'[k] = DOMAIN wo[k]
      /\ \A k \in Lines : \A j \in DOMAIN wo[k] : k # l \/ j # i => wo'[k][j] = wo[k][j]
      /\ wo'[l][i].receipt = wo[l][i].receipt + got
      /\ \A k \in Lines : k # l => line'[k] = line[k]
      /\ line'[l].shipped = line[l].shipped
  BY DEF Receives
<1>2. wo[l] \in Seq(WorkOrder) /\ wo'[l] \in Seq(WorkOrder)
  BY DEF Inv, TypeOK
<1>3. ReceiptsOf(wo'[l]) = ReceiptsOf(wo[l]) + got
  <2> DEFINE works == wo[l]
             made == wo'[l]
  <2>1. /\ works \in Seq(WorkOrder) /\ made \in Seq(WorkOrder)
        /\ DOMAIN made = DOMAIN works /\ i \in DOMAIN works
        /\ made[i].receipt = works[i].receipt + got
        /\ \A j \in DOMAIN works : j # i => made[j] = works[j]
    BY <1>1, <1>2
  <2> HIDE DEF works, made
  <2>2. ReceiptsOf(made) = ReceiptsOf(works) + got
    BY <2>1, ReceiptsUpdate
  <2> QED  BY <2>2 DEF works, made
<1>4. ASSUME NEW k \in Lines, k # l
      PROVE  ReceiptsOf(wo'[k]) = ReceiptsOf(wo[k])
  <2>1. DOMAIN wo'[k] = DOMAIN wo[k] /\ \A j \in DOMAIN wo[k] : wo'[k][j].receipt = wo[k][j].receipt
    BY <1>1, <1>4
  <2> QED  BY <2>1, ReceiptsSame
<1> QED  BY <1>1, <1>3, <1>4

\* Neither the stock, nor what was shipped, nor what was received changes.
LEMMA BalanceSame ==
  ASSUME Inv, Inv', StockConserved, onHand' = onHand,
         \A l \in Lines : /\ line'[l].shipped = line[l].shipped
                          /\ ReceiptsOf(wo'[l]) = ReceiptsOf(wo[l])
  PROVE  StockConserved'
<1>1. ShippedOf(line') = ShippedOf(line) /\ ReceiptsIn(wo') = ReceiptsIn(wo)
  BY DEF ShippedOf, ReceiptsIn
<1>2. StockBalance(onHand, line, wo)
  BY Balance
<1>3. StockBalance(onHand', line', wo')
  BY <1>1, <1>2 DEF StockBalance
<1> QED  BY <1>3, Balance

\* n units of the line x are shipped, or got units of it are received.
LEMMA BalanceMoves ==
  ASSUME Inv, Inv', StockConserved, NEW x \in Lines, NEW n \in Nat, NEW got \in Nat,
         line'[x].shipped = line[x].shipped + n,
         ReceiptsOf(wo'[x]) = ReceiptsOf(wo[x]) + got,
         \A l \in Lines : l # x => /\ line'[l].shipped = line[l].shipped
                                   /\ ReceiptsOf(wo'[l]) = ReceiptsOf(wo[l]),
         \A p \in Products : onHand'[p] + (IF p = ProductOf[x] THEN n ELSE 0)
                               = onHand[p] + (IF p = ProductOf[x] THEN got ELSE 0)
  PROVE  StockConserved'
<1> DEFINE f == ShippedOf(line)
           g == ShippedOf(line')
           d == ReceiptsIn(wo)
           e == ReceiptsIn(wo')
<1>1. f \in [Lines -> Nat] /\ d \in [Lines -> Nat]
  BY SumTypes DEF Inv
<1>2. g \in [Lines -> Nat] /\ e \in [Lines -> Nat]
  <2>1. \A l \in Lines : line'[l].shipped \in Nat /\ wo'[l] \in Seq(WorkOrder)
    BY DEF Inv, TypeOK, LineColumns
  <2>2. \A l \in Lines : ReceiptsOf(wo'[l]) \in Nat
    BY <2>1, ReceiptsNat
  <2> QED  BY <2>1, <2>2 DEF ShippedOf, ReceiptsIn
<1>3. /\ g[x] = f[x] + n /\ e[x] = d[x] + got
      /\ \A l \in Lines : l # x => g[l] = f[l] /\ e[l] = d[l]
  BY DEF ShippedOf, ReceiptsIn
<1>4. StockBalance(onHand, line, wo)
  BY Balance
<1>5. ASSUME NEW p \in Products
      PROVE  onHand'[p] + ProductSum(p, g) = InitialStock[p] + ProductSum(p, e)
  <2>1. onHand[p] + ProductSum(p, f) = InitialStock[p] + ProductSum(p, d)
    BY <1>4 DEF StockBalance
  <2> HIDE DEF f, g, d, e
  <2>2. /\ ProductSum(p, f) \in Nat /\ ProductSum(p, g) \in Nat
        /\ ProductSum(p, d) \in Nat /\ ProductSum(p, e) \in Nat
        /\ InitialStock[p] \in Nat /\ onHand[p] \in Nat /\ onHand'[p] \in Nat
        /\ f[x] \in Nat /\ d[x] \in Nat
    BY <1>1, <1>2, ProductSumNat, StockAssumption DEF Inv, TypeOK
  <2>3. IF ProductOf[x] = p THEN ProductSum(p, g) + f[x] = ProductSum(p, f) + g[x]
                            ELSE ProductSum(p, g) = ProductSum(p, f)
    BY <1>1, <1>2, <1>3, ProductSumUpdate
  <2>4. IF ProductOf[x] = p THEN ProductSum(p, e) + d[x] = ProductSum(p, d) + e[x]
                            ELSE ProductSum(p, e) = ProductSum(p, d)
    BY <1>1, <1>2, <1>3, ProductSumUpdate
  <2>5. CASE ProductOf[x] = p
    <3>1. g[x] = f[x] + n /\ e[x] = d[x] + got
      BY <1>3
    <3>2. onHand'[p] + n = onHand[p] + got
      BY <2>5
    <3>3. ProductSum(p, g) + f[x] = ProductSum(p, f) + g[x]
          /\ ProductSum(p, e) + d[x] = ProductSum(p, d) + e[x]
      BY <2>3, <2>4, <2>5
    <3>4. ProductSum(p, g) = ProductSum(p, f) + n
      BY <2>2, <3>1, <3>3
    <3>5. ProductSum(p, e) = ProductSum(p, d) + got
      BY <2>2, <3>1, <3>3
    <3> QED  BY <2>1, <2>2, <3>2, <3>4, <3>5
  <2>6. CASE ProductOf[x] # p
    <3>1. onHand'[p] + 0 = onHand[p] + 0
      BY <2>6
    <3>2. onHand'[p] = onHand[p]
      BY <2>2, <3>1
    <3> QED  BY <2>1, <2>3, <2>4, <2>6, <3>2
  <2> QED  BY <2>5, <2>6
<1>6. StockBalance(onHand', line', wo')
  BY <1>5 DEF StockBalance
<1> QED  BY <1>6, Balance

LEMMA StockKeptByStep ==
  ASSUME OneLinePerOrder, Inv, Inv', Books, RowsOfProduct, StockConserved, TableStep
  PROVE  StockConserved'
<1>1. CASE QuietStep
  BY <1>1, BalanceSame DEF QuietStep
<1>2. CASE ProduceStep
  <2>1. PICK k \in Lines : \E i \in DOMAIN wo[k] : Produces(k, i)
    BY <1>2 DEF ProduceStep
  <2>2. PICK i \in DOMAIN wo[k] : Produces(k, i)
    BY <2>1
  <2>3. onHand' = onHand /\ line' = line
    BY <1>2 DEF ProduceStep
  <2>4. ASSUME NEW l \in Lines
        PROVE  ReceiptsOf(wo'[l]) = ReceiptsOf(wo[l])
    <3>1. DOMAIN wo'[l] = DOMAIN wo[l] /\ \A j \in DOMAIN wo[l] : wo'[l][j].receipt = wo[l][j].receipt
      BY <2>2 DEF Produces
    <3> QED  BY <3>1, ReceiptsSame
  <2> QED  BY <2>3, <2>4, BalanceSame
<1>3. CASE RestateStep
  <2>1. PICK o \in Orders, t \in Status : Restates(o, t)
    BY <1>3 DEF RestateStep
  <2>2. onHand' = onHand /\ wo' = wo /\ \A l \in Lines : line'[l] = line[l]
    BY <1>3, <2>1 DEF RestateStep, Restates
  <2> QED  BY <2>2, BalanceSame
<1>4. CASE ConfirmStep
  <2>1. PICK l \in Lines : \E take \in Nat : ConfirmsOne(l, take)
    BY <1>4, ConfirmStepOne
  <2>2. /\ onHand' = onHand
        /\ line'[l].shipped = line[l].shipped
        /\ \A k \in Lines : k # l => line'[k] = line[k] /\ wo'[k] = wo[k]
        /\ ReceiptsOf(wo'[l]) = ReceiptsOf(wo[l])
    BY <2>1 DEF ConfirmsOne
  <2> QED  BY <2>2, BalanceSame
<1>5. CASE ShipStep
  <2>1. PICK o \in Orders : \E q \in [LinesOf(o) -> Nat] : Ships(o, q)
    BY <1>5 DEF ShipStep
  <2>2. PICK l \in Lines : \E n \in Nat : ShipsOne(l, n)
    BY <2>1, ShipStepOne
  <2>3. PICK n \in Nat : ShipsOne(l, n)
    BY <2>2
  <2>4. /\ line'[l].shipped = line[l].shipped + n
        /\ \A k \in Lines : k # l => line'[k] = line[k]
        /\ wo' = wo
        /\ n =< onHand[ProductOf[l]]
        /\ onHand' = [p \in Products |-> IF p = ProductOf[l] THEN onHand[p] - n ELSE onHand[p]]
    BY <2>3 DEF ShipsOne
  <2>5. \A p \in Products : onHand'[p] + (IF p = ProductOf[l] THEN n ELSE 0)
                              = onHand[p] + (IF p = ProductOf[l] THEN 0 ELSE 0)
    BY <2>4 DEF Inv, TypeOK
  <2>6. ReceiptsOf(wo'[l]) = ReceiptsOf(wo[l]) + 0
    <3>1. ReceiptsOf(wo[l]) \in Nat
      BY ReceiptsNat DEF Inv, TypeOK
    <3> QED  BY <2>4, <3>1
  <2>7. \A k \in Lines : k # l => /\ line'[k].shipped = line[k].shipped
                                 /\ ReceiptsOf(wo'[k]) = ReceiptsOf(wo[k])
    BY <2>4
  <2>8. line'[l].shipped = line[l].shipped + n
    BY <2>4
  <2> QED  BY <2>5, <2>6, <2>7, <2>8, BalanceMoves
<1>6. CASE ReceiveStep
  <2>1. PICK l \in Lines : \E i \in DOMAIN wo[l] : \E got, take \in Nat : Receives(l, i, got, take)
    BY <1>6 DEF ReceiveStep
  <2>2. PICK i \in DOMAIN wo[l] : \E got, take \in Nat : Receives(l, i, got, take)
    BY <2>1
  <2>3. PICK got \in Nat, take \in Nat : Receives(l, i, got, take)
    BY <2>2
  <2>4. /\ ReceiptsOf(wo'[l]) = ReceiptsOf(wo[l]) + got
        /\ \A k \in Lines : k # l => ReceiptsOf(wo'[k]) = ReceiptsOf(wo[k])
        /\ \A k \in Lines : line'[k].shipped = line[k].shipped
    BY <2>3, ReceivesReceipts
  <2>5. line'[l].shipped = line[l].shipped + 0
    BY <2>4, BookTypes
  <2>6. onHand' = [onHand EXCEPT ![ProductOf[l]] = onHand[ProductOf[l]] + got]
    BY <2>3 DEF Receives
  <2>7. \A p \in Products : onHand'[p] + (IF p = ProductOf[l] THEN 0 ELSE 0)
                              = onHand[p] + (IF p = ProductOf[l] THEN got ELSE 0)
    BY <2>6 DEF Inv, TypeOK
  <2> QED  BY <2>4, <2>5, <2>7, BalanceMoves
<1> QED
  BY <1>1, <1>2, <1>3, <1>4, <1>5, <1>6 DEF TableStep

LEMMA StockInvNext ==
  ASSUME OneSession, OneLinePerOrder, Apart, StockInv, [Next]_vars
  PROVE  StockInv'
<1>1. BooksInv' /\ TableStep
  BY BooksInvNext DEF StockInv
<1>2. RowsOfProduct'
  BY <1>1, RowsKept DEF StockInv, BooksInv
<1>3. StockConserved'
  BY <1>1, StockKeptByStep DEF StockInv, BooksInv
<1> QED  BY <1>1, <1>2, <1>3 DEF StockInv

LEMMA StockInvInit == Init => StockInv
<1> SUFFICES ASSUME Init PROVE StockInv
  OBVIOUS
<1>1. BooksInv /\ Inv
  BY BooksInvInit DEF BooksInv
<1>2. RowsOfProduct
  BY DEF Init, RowsOfProduct
<1>3. StockConserved
  <2> SUFFICES ASSUME NEW p \in Products
               PROVE  onHand[p] + ProductSum(p, ShippedOf(line))
                        = InitialStock[p] + ProductSum(p, ReceiptsIn(wo))
    BY Balance DEF StockBalance
  <2> DEFINE D == LinesFor(p)
             f == [l \in D |-> ShippedOf(line)[l]]
             g == [l \in D |-> ReceiptsIn(wo)[l]]
  <2>1. \A l \in Lines : line[l].shipped = 0 /\ ReceiptsOf(wo[l]) = 0
    BY ReceiptsZero DEF Init, LineColumns
  <2>2. DOMAIN f = D /\ \A l \in D : f[l] = 0
    BY <2>1 DEF ShippedOf, LinesFor
  <2>3. DOMAIN g = D /\ \A l \in D : g[l] = 0
    BY <2>1 DEF ReceiptsIn, LinesFor
  <2>4. onHand[p] = InitialStock[p] /\ InitialStock[p] \in Nat
    BY StockAssumption DEF Init
  <2>5. ProductSum(p, ShippedOf(line)) = Total(f) /\ ProductSum(p, ReceiptsIn(wo)) = Total(g)
    BY DEF ProductSum
  <2> HIDE DEF f, g, D
  <2>6. Total(f) = 0 /\ Total(g) = 0
    BY <2>2, <2>3, TotalZero
  <2> QED  BY <2>4, <2>5, <2>6
<1> QED  BY <1>1, <1>2, <1>3 DEF StockInv

(* When requests follow each other and an order has one line, every unit of a finished
   good that left the shelf is recorded as shipped of a line of that good, and every
   unit that came is the receipt of a work order.  With several lines a shipment may
   find the reservation of another line of its order, and takes that one's product. *)
THEOREM ShipmentsTakeTheirProduct ==
  ASSUME OneSession, OneLinePerOrder, Apart
  PROVE  Spec => []StockConserved
<1>1. StockInv /\ [Next]_vars => StockInv'
  BY StockInvNext
<1>2. StockInv => StockConserved
  BY DEF StockInv
<1> QED  BY StockInvInit, <1>1, <1>2, PTL DEF Spec

-----------------------------------------------------------------------------
(* Orders of one line: what is reserved is what the lines claim *)

\* The terms of the sums of ReservationsMatchLines, as functions of the tables.
ClosedIn(states, l) ==
  \/ states[OrderOf[l]] = "CANCELLED"
  \/ states[OrderOf[l]] = "COMPLETED" /\ IsMaterial[ProductOf[l]]

UnshippedIn(q, l) == Positive(q[l].allocated - q[l].shipped)

ClaimIn(states, q, w) ==
  [l \in Lines |-> IF ClosedIn(states, l) /\ ReceiptsOf(w[l]) = 0 THEN 0 ELSE UnshippedIn(q, l)]
OpenIn(states, q) ==
  [l \in Lines |-> IF ClosedIn(states, l) THEN 0 ELSE UnshippedIn(q, l)]
TwiceIn(states, q) ==
  [l \in Lines |-> IF ClosedIn(states, l) THEN q[l].shipped ELSE 0]

\* What is reserved is claimed, and what must be reserved is, or was released twice.
Claimed(r, claim) == \A p \in Products : r[p] =< ProductSum(p, claim)
Backed(r, open, twice) ==
  \A p \in Products : ProductSum(p, open) =< r[p] + ProductSum(p, twice)

Ledger(r, states, q, w) ==
  /\ Claimed(r, ClaimIn(states, q, w))
  /\ Backed(r, OpenIn(states, q), TwiceIn(states, q))

LEMMA LedgerForm ==
  /\ ReservationsMatchLines <=> Ledger(reserved, status, line, wo)
  /\ ReservationsMatchLines' <=> Ledger(reserved', status', line', wo')
<1>1. ASSUME NEW p
      PROVE  /\ ProductSum(p, ClaimIn(status, line, wo)) = Total([l \in LinesFor(p) |-> Claim(l)])
             /\ ProductSum(p, OpenIn(status, line)) = Total([l \in LinesFor(p) |-> OpenAllocation(l)])
             /\ ProductSum(p, TwiceIn(status, line)) = Total([l \in LinesFor(p) |-> ReleasedTwice(l)])
  <2>1. [l \in LinesFor(p) |-> ClaimIn(status, line, wo)[l]] = [l \in LinesFor(p) |-> Claim(l)]
    BY DEF ClaimIn, ClosedIn, UnshippedIn, ReceiptsOf, Claim, Closed, Unshipped, ReceivedFor, LinesFor
  <2>2. [l \in LinesFor(p) |-> OpenIn(status, line)[l]] = [l \in LinesFor(p) |-> OpenAllocation(l)]
    BY DEF OpenIn, ClosedIn, UnshippedIn, OpenAllocation, Closed, Unshipped, LinesFor
  <2>3. [l \in LinesFor(p) |-> TwiceIn(status, line)[l]] = [l \in LinesFor(p) |-> ReleasedTwice(l)]
    BY DEF TwiceIn, ClosedIn, ReleasedTwice, Closed, LinesFor
  <2> QED  BY <2>1, <2>2, <2>3 DEF ProductSum
<1>2. ASSUME NEW p
      PROVE  /\ ProductSum(p, ClaimIn(status', line', wo'))
                  = Total([l \in LinesFor(p) |-> Claim(l)'])
             /\ ProductSum(p, OpenIn(status', line'))
                  = Total([l \in LinesFor(p) |-> OpenAllocation(l)'])
             /\ ProductSum(p, TwiceIn(status', line'))
                  = Total([l \in LinesFor(p) |-> ReleasedTwice(l)'])
  <2>1. [l \in LinesFor(p) |-> ClaimIn(status', line', wo')[l]] = [l \in LinesFor(p) |-> Claim(l)']
    BY DEF ClaimIn, ClosedIn, UnshippedIn, ReceiptsOf, Claim, Closed, Unshipped, ReceivedFor, LinesFor
  <2>2. [l \in LinesFor(p) |-> OpenIn(status', line')[l]] = [l \in LinesFor(p) |-> OpenAllocation(l)']
    BY DEF OpenIn, ClosedIn, UnshippedIn, OpenAllocation, Closed, Unshipped, LinesFor
  <2>3. [l \in LinesFor(p) |-> TwiceIn(status', line')[l]] = [l \in LinesFor(p) |-> ReleasedTwice(l)']
    BY DEF TwiceIn, ClosedIn, ReleasedTwice, Closed, LinesFor
  <2> QED  BY <2>1, <2>2, <2>3 DEF ProductSum
<1>3. ReservationsMatchLines <=> Ledger(reserved, status, line, wo)
  BY <1>1 DEF ReservationsMatchLines, Ledger, Claimed, Backed
<1>4. ReservationsMatchLines' <=> Ledger(reserved', status', line', wo')
  BY <1>2 DEF ReservationsMatchLines, Ledger, Claimed, Backed, LinesFor
<1> QED  BY <1>3, <1>4

\* The terms of one line, by whether its order is closed.
TermsOf(states, q, w, l) ==
  /\ ~ClosedIn(states, l) =>
       /\ ClaimIn(states, q, w)[l] = q[l].allocated - q[l].shipped
       /\ OpenIn(states, q)[l] = q[l].allocated - q[l].shipped
       /\ TwiceIn(states, q)[l] = 0
  /\ ClosedIn(states, l) =>
       /\ ClaimIn(states, q, w)[l] = IF ReceiptsOf(w[l]) = 0 THEN 0
                                     ELSE q[l].allocated - q[l].shipped
       /\ OpenIn(states, q)[l] = 0
       /\ TwiceIn(states, q)[l] = q[l].shipped

LEMMA Terms ==
  ASSUME NEW states, NEW q, NEW w, NEW l \in Lines,
         q[l].allocated \in Nat, q[l].shipped \in Nat, q[l].shipped =< q[l].allocated
  PROVE  TermsOf(states, q, w, l)
<1>1. UnshippedIn(q, l) = q[l].allocated - q[l].shipped
  BY DEF UnshippedIn, Positive
<1> QED  BY <1>1 DEF TermsOf, ClaimIn, OpenIn, TwiceIn

LEMMA TermsNat ==
  ASSUME NEW states, NEW q, NEW w,
         \A l \in Lines : q[l].allocated \in Nat /\ q[l].shipped \in Nat
  PROVE  /\ ClaimIn(states, q, w) \in [Lines -> Nat]
         /\ OpenIn(states, q) \in [Lines -> Nat] /\ TwiceIn(states, q) \in [Lines -> Nat]
<1>1. \A l \in Lines : UnshippedIn(q, l) \in Nat
  BY DEF UnshippedIn, Positive
<1> QED  BY <1>1 DEF ClaimIn, OpenIn, TwiceIn

\* Only the terms of the line x change, and what is reserved of its product.
LEMMA ClaimedMove ==
  ASSUME NEW r \in [Products -> Nat], NEW r2 \in [Products -> Nat], NEW x \in Lines,
         NEW a \in [Lines -> Nat], NEW a2 \in [Lines -> Nat], Claimed(r, a),
         \A l \in Lines : l # x => a2[l] = a[l],
         \A p \in Products : p # ProductOf[x] => r2[p] = r[p],
         r2[ProductOf[x]] = 0 \/ r2[ProductOf[x]] + a[x] =< r[ProductOf[x]] + a2[x]
  PROVE  Claimed(r2, a2)
<1> SUFFICES ASSUME NEW p \in Products
             PROVE  r2[p] =< ProductSum(p, a2)
  BY DEF Claimed
<1>1. r[p] =< ProductSum(p, a)
  BY DEF Claimed
<1>2. ProductSum(p, a) \in Nat /\ ProductSum(p, a2) \in Nat
  BY ProductSumNat
<1>3. r[p] \in Nat /\ r2[p] \in Nat /\ a[x] \in Nat /\ a2[x] \in Nat
  OBVIOUS
<1>4. IF ProductOf[x] = p THEN ProductSum(p, a2) + a[x] = ProductSum(p, a) + a2[x]
                          ELSE ProductSum(p, a2) = ProductSum(p, a)
  BY ProductSumUpdate
<1>5. CASE ProductOf[x] = p
  <2>1. r2[p] = 0 \/ r2[p] + a[x] =< r[p] + a2[x]
    BY <1>5
  <2>2. ProductSum(p, a2) + a[x] = ProductSum(p, a) + a2[x]
    BY <1>4, <1>5
  <2> QED  BY <1>1, <1>2, <1>3, <2>1, <2>2
<1>6. CASE ProductOf[x] # p
  BY <1>1, <1>4, <1>6
<1> QED  BY <1>5, <1>6

\* The terms of l are what they were.
TermsKept(l) ==
  /\ ClaimIn(status', line', wo')[l] = ClaimIn(status, line, wo)[l]
  /\ OpenIn(status', line')[l] = OpenIn(status, line)[l]
  /\ TwiceIn(status', line')[l] = TwiceIn(status, line)[l]

LEMMA TermsSame ==
  ASSUME NEW l \in Lines, line'[l].allocated = line[l].allocated,
         line'[l].shipped = line[l].shipped, ReceiptsOf(wo'[l]) = ReceiptsOf(wo[l]),
         ClosedIn(status', l) <=> ClosedIn(status, l)
  PROVE  TermsKept(l)
  BY DEF TermsKept, ClaimIn, OpenIn, TwiceIn, UnshippedIn

LEMMA LedgerSame ==
  ASSUME ReservationsMatchLines, \A p \in Products : reserved'[p] = reserved[p],
         \A l \in Lines : TermsKept(l)
  PROVE  ReservationsMatchLines'
<1>1. /\ ClaimIn(status', line', wo') = ClaimIn(status, line, wo)
      /\ OpenIn(status', line') = OpenIn(status, line)
      /\ TwiceIn(status', line') = TwiceIn(status, line)
  BY DEF TermsKept, ClaimIn, OpenIn, TwiceIn
<1>2. Ledger(reserved, status, line, wo)
  BY LedgerForm
<1>3. Ledger(reserved', status', line', wo')
  BY <1>1, <1>2 DEF Ledger, Claimed, Backed
<1> QED  BY <1>3, LedgerForm

LEMMA LedgerMoves ==
  ASSUME Inv, Inv', ReservationsMatchLines, NEW x \in Lines,
         \A l \in Lines : l # x => TermsKept(l),
         \A p \in Products : p # ProductOf[x] => reserved'[p] = reserved[p],
         \/ reserved'[ProductOf[x]] = 0
         \/ reserved'[ProductOf[x]] + ClaimIn(status, line, wo)[x]
              =< reserved[ProductOf[x]] + ClaimIn(status', line', wo')[x],
         OpenIn(status', line')[x] + reserved[ProductOf[x]] + TwiceIn(status, line)[x]
           =< OpenIn(status, line)[x] + reserved'[ProductOf[x]] + TwiceIn(status', line')[x]
  PROVE  ReservationsMatchLines'
<1> DEFINE a == ClaimIn(status, line, wo)
           a2 == ClaimIn(status', line', wo')
           b == OpenIn(status, line)
           b2 == OpenIn(status', line')
           c == TwiceIn(status, line)
           c2 == TwiceIn(status', line')
           r == reserved
           r2 == reserved'
<1>1. \A l \in Lines : line[l].allocated \in Nat /\ line[l].shipped \in Nat
  BY DEF Inv, TypeOK, LineColumns
<1>2. \A l \in Lines : line'[l].allocated \in Nat /\ line'[l].shipped \in Nat
  BY DEF Inv, TypeOK, LineColumns
<1>3. a \in [Lines -> Nat] /\ b \in [Lines -> Nat] /\ c \in [Lines -> Nat]
  BY <1>1, TermsNat
<1>4. a2 \in [Lines -> Nat] /\ b2 \in [Lines -> Nat] /\ c2 \in [Lines -> Nat]
  BY <1>2, TermsNat
<1>5. r \in [Products -> Nat] /\ r2 \in [Products -> Nat]
  BY DEF Inv, TypeOK
<1>6. Claimed(r, a) /\ Backed(r, b, c)
  BY LedgerForm DEF Ledger
<1>7. /\ \A l \in Lines : l # x => a2[l] = a[l]
      /\ \A l \in Lines : l # x => b2[l] = b[l] /\ c2[l] = c[l]
  BY DEF TermsKept
<1>8. \A p \in Products : p # ProductOf[x] => r2[p] = r[p]
  OBVIOUS
<1>9. r2[ProductOf[x]] = 0 \/ r2[ProductOf[x]] + a[x] =< r[ProductOf[x]] + a2[x]
  BY Zenon
<1>10. b2[x] + r[ProductOf[x]] + c[x] =< b[x] + r2[ProductOf[x]] + c2[x]
  BY Zenon
<1> HIDE DEF a, a2, b, b2, c, c2, r, r2
<1>11. Claimed(r2, a2)
  BY <1>3, <1>4, <1>5, <1>6, <1>7, <1>8, <1>9, ClaimedMove
<1>12. Backed(r2, b2, c2)
  <2> SUFFICES ASSUME NEW p \in Products
               PROVE  ProductSum(p, b2) =< r2[p] + ProductSum(p, c2)
    BY DEF Backed
  <2>1. ProductSum(p, b) =< r[p] + ProductSum(p, c)
    BY <1>6 DEF Backed
  <2>2. /\ ProductSum(p, b) \in Nat /\ ProductSum(p, b2) \in Nat
        /\ ProductSum(p, c) \in Nat /\ ProductSum(p, c2) \in Nat
    BY <1>3, <1>4, ProductSumNat
  <2>3. /\ r[p] \in Nat /\ r2[p] \in Nat
        /\ b[x] \in Nat /\ b2[x] \in Nat /\ c[x] \in Nat /\ c2[x] \in Nat
    BY <1>3, <1>4, <1>5
  <2>4. IF ProductOf[x] = p THEN ProductSum(p, b2) + b[x] = ProductSum(p, b) + b2[x]
                            ELSE ProductSum(p, b2) = ProductSum(p, b)
    BY <1>3, <1>4, <1>7, ProductSumUpdate
  <2>5. IF ProductOf[x] = p THEN ProductSum(p, c2) + c[x] = ProductSum(p, c) + c2[x]
                            ELSE ProductSum(p, c2) = ProductSum(p, c)
    BY <1>3, <1>4, <1>7, ProductSumUpdate
  <2>6. CASE ProductOf[x] = p
    <3>1. b2[x] + r[p] + c[x] =< b[x] + r2[p] + c2[x]
      BY <1>10, <2>6
    <3>2. ProductSum(p, b2) + b[x] = ProductSum(p, b) + b2[x]
      BY <2>4, <2>6
    <3>3. ProductSum(p, c2) + c[x] = ProductSum(p, c) + c2[x]
      BY <2>5, <2>6
    <3> QED  BY <2>1, <2>2, <2>3, <3>1, <3>2, <3>3
  <2>7. CASE ProductOf[x] # p
    BY <1>8, <2>1, <2>4, <2>5, <2>7
  <2> QED  BY <2>6, <2>7
<1>13. Ledger(reserved', status', line', wo')
  BY <1>11, <1>12 DEF Ledger, a2, b2, c2, r2
<1> QED  BY <1>13, LedgerForm

\* The books of a line, as the terms need them.
LEMMA TermTypes ==
  ASSUME Inv, Books, NEW l \in Lines
  PROVE  /\ line[l].allocated \in Nat /\ line[l].shipped \in Nat
         /\ line[l].shipped =< line[l].allocated
  BY BookTypes DEF Books, BookKept

LEMMA TermsBefore ==
  ASSUME Inv, Books, NEW l \in Lines
  PROVE  TermsOf(status, line, wo, l)
  BY TermTypes, Terms

LEMMA TermsAfter ==
  ASSUME Inv', Books', NEW l \in Lines
  PROVE  TermsOf(status', line', wo', l)
<1>1. /\ line'[l].allocated \in Nat /\ line'[l].shipped \in Nat
      /\ line'[l].shipped =< line'[l].allocated
  BY DEF Inv, TypeOK, LineColumns, Books, BookKept
<1> QED  BY <1>1, Terms

\* An order that is neither cancelled nor completed is not closed.
LEMMA OpenOrder ==
  ASSUME NEW states, NEW l, states[OrderOf[l]] \notin Final
  PROVE  ~ClosedIn(states, l)
  BY DEF ClosedIn, Final

\* A cancellation releases what the line of its order was allocated.
LEMMA CancelReleases ==
  ASSUME OneLinePerOrder, Inv, RowsOfProduct, AllocationsHaveRows,
         NEW o \in Orders, Releases(o), NEW l \in Lines, OrderOf[l] = o
  PROVE  /\ \A p \in Products : p # ProductOf[l] => reserved'[p] = reserved[p]
         /\ reserved'[ProductOf[l]] = Released(reserved[ProductOf[l]], line[l].allocated)
<1> DEFINE held == {k \in LinesOf(o) : line[k].allocated > 0 /\ RowsFor(k) # {}}
           allocated == [k \in held |-> line[k].allocated]
<1>1. PICK found \in Found(held) :
        reserved' = [p \in Products |-> Released(reserved[p], SumFor(p, held, found, allocated))]
  BY DEF Releases
<1>2. LinesOf(o) = {l}
  BY DEF LinesOf, OneLinePerOrder
<1>3. /\ line[l].allocated \in Nat /\ ProductOf[l] \in Products
      /\ \A p \in Products : reserved[p] \in Nat
  BY BookTypes DEF Inv, TypeOK
<1>4. held \in SUBSET {l} /\ (l \in held <=> line[l].allocated > 0)
  BY <1>2 DEF AllocationsHaveRows
<1>5. l \in held => found[l] = ProductOf[l] /\ allocated[l] = line[l].allocated
  BY <1>1, RowsOfLine DEF Found
<1> HIDE DEF held, allocated
<1>6. ASSUME NEW p \in Products
      PROVE  SumFor(p, held, found, allocated) = IF p = ProductOf[l] THEN line[l].allocated ELSE 0
  <2>1. l \in held => allocated[l] \in Nat
    BY <1>3, <1>5
  <2>2. SumFor(p, held, found, allocated)
          = IF l \in held /\ found[l] = p THEN allocated[l] ELSE 0
    BY <1>4, <2>1, SumOne
  <2> QED  BY <1>3, <1>4, <1>5, <2>2
<1>7. ASSUME NEW p \in Products, p # ProductOf[l]
      PROVE  reserved'[p] = reserved[p]
  BY <1>1, <1>3, <1>6, <1>7 DEF Released, Positive
<1> QED  BY <1>1, <1>3, <1>6, <1>7

\* A completion releases as much, if the line names its product by the id of a material.
LEMMA CompletionReleased ==
  ASSUME OneLinePerOrder, Inv, NEW o \in Orders, CompletionReleases(o),
         NEW l \in Lines, OrderOf[l] = o
  PROVE  /\ \A p \in Products : p # ProductOf[l] => reserved'[p] = reserved[p]
         /\ reserved'[ProductOf[l]] = IF IsMaterial[ProductOf[l]]
                                      THEN Released(reserved[ProductOf[l]], line[l].allocated)
                                      ELSE reserved[ProductOf[l]]
<1> DEFINE ls == {k \in LinesOf(o) : IsMaterial[ProductOf[k]]}
           allocated == [k \in ls |-> line[k].allocated]
<1>1. reserved' = [p \in Products |-> Released(reserved[p], SumFor(p, ls, ProductOf, allocated))]
  BY DEF CompletionReleases
<1>2. LinesOf(o) = {l}
  BY DEF LinesOf, OneLinePerOrder
<1>3. /\ line[l].allocated \in Nat /\ ProductOf[l] \in Products
      /\ \A p \in Products : reserved[p] \in Nat
  BY BookTypes DEF Inv, TypeOK
<1>4. ls \in SUBSET {l} /\ (l \in ls <=> IsMaterial[ProductOf[l]])
  BY <1>2
<1>5. l \in ls => allocated[l] = line[l].allocated
  OBVIOUS
<1> HIDE DEF ls, allocated
<1>6. ASSUME NEW p \in Products
      PROVE  SumFor(p, ls, ProductOf, allocated)
               = IF IsMaterial[ProductOf[l]] /\ ProductOf[l] = p THEN line[l].allocated ELSE 0
  <2>1. l \in ls => allocated[l] \in Nat
    BY <1>3, <1>5
  <2>2. SumFor(p, ls, ProductOf, allocated)
          = IF l \in ls /\ ProductOf[l] = p THEN allocated[l] ELSE 0
    BY <1>4, <2>1, SumOne
  <2> QED  BY <1>4, <1>5, <2>2
<1>7. \A n \in Nat : Released(n, 0) = n
  BY DEF Released, Positive
<1>8. ASSUME NEW p \in Products, p # ProductOf[l]
      PROVE  reserved'[p] = reserved[p]
  BY <1>1, <1>3, <1>6, <1>7, <1>8
<1>9. reserved'[ProductOf[l]] = Released(reserved[ProductOf[l]],
        IF IsMaterial[ProductOf[l]] THEN line[l].allocated ELSE 0)
  BY <1>1, <1>3, <1>6
<1> QED  BY <1>3, <1>7, <1>8, <1>9

\* An order that was open is closed, and releases what its line was allocated.
LEMMA LedgerCloses ==
  ASSUME Inv, Inv', Books, Books', ReservationsMatchLines, NEW l \in Lines,
         line'[l] = line[l], ~ClosedIn(status, l), ClosedIn(status', l),
         \A k \in Lines : k # l => TermsKept(k),
         \A p \in Products : p # ProductOf[l] => reserved'[p] = reserved[p],
         reserved'[ProductOf[l]] = Released(reserved[ProductOf[l]], line[l].allocated)
  PROVE  ReservationsMatchLines'
<1> DEFINE m == line[l].allocated
           n == line[l].shipped
           r == reserved[ProductOf[l]]
           a2 == ClaimIn(status', line', wo')[l]
<1>1. m \in Nat /\ n \in Nat /\ n =< m /\ line'[l].allocated = m /\ line'[l].shipped = n
  BY TermTypes
<1>2. r \in Nat /\ reserved'[ProductOf[l]] = Released(r, m)
  BY BookTypes DEF Inv, TypeOK
<1>3. /\ ClaimIn(status, line, wo)[l] = m - n /\ OpenIn(status, line)[l] = m - n
      /\ TwiceIn(status, line)[l] = 0
  BY <1>1, TermsBefore DEF TermsOf
<1>4. /\ a2 = IF ReceiptsOf(wo'[l]) = 0 THEN 0 ELSE m - n
      /\ OpenIn(status', line')[l] = 0 /\ TwiceIn(status', line')[l] = n
  BY <1>1, TermsAfter DEF TermsOf
<1>5. a2 \in Nat
  BY <1>1, <1>4
<1> HIDE DEF m, n, r, a2
<1>6. /\ Released(r, m) = 0 \/ Released(r, m) + (m - n) =< r + a2
      /\ 0 + r + 0 =< (m - n) + Released(r, m) + n
  BY <1>1, <1>2, <1>5 DEF Released, Positive
<1>7. \/ reserved'[ProductOf[l]] = 0
      \/ reserved'[ProductOf[l]] + ClaimIn(status, line, wo)[l]
           =< reserved[ProductOf[l]] + ClaimIn(status', line', wo')[l]
  BY <1>2, <1>3, <1>6 DEF r, a2
<1>8. OpenIn(status', line')[l] + reserved[ProductOf[l]] + TwiceIn(status, line)[l]
        =< OpenIn(status, line)[l] + reserved'[ProductOf[l]] + TwiceIn(status', line')[l]
  BY <1>2, <1>3, <1>4, <1>6 DEF r
<1> QED  BY <1>7, <1>8, LedgerMoves

\* take units more are reserved for the line l, whose product is received or was in stock.
LEMMA LedgerTakes ==
  ASSUME Inv, Inv', Books, Books', ReservationsMatchLines, NEW l \in Lines, NEW take \in Nat,
         line'[l].allocated = line[l].allocated + take, line'[l].shipped = line[l].shipped,
         ClosedIn(status', l) <=> ClosedIn(status, l),
         ReceiptsOf(wo[l]) # 0 => ReceiptsOf(wo'[l]) # 0,
         ClosedIn(status, l) /\ take > 0 => ReceiptsOf(wo'[l]) # 0,
         \A k \in Lines : k # l => TermsKept(k),
         \A p \in Products : p # ProductOf[l] => reserved'[p] = reserved[p],
         reserved'[ProductOf[l]] = reserved[ProductOf[l]] + take
  PROVE  ReservationsMatchLines'
<1> DEFINE m == line[l].allocated
           n == line[l].shipped
           r == reserved[ProductOf[l]]
           r2 == reserved'[ProductOf[l]]
           a == ClaimIn(status, line, wo)[l]
           a2 == ClaimIn(status', line', wo')[l]
           b == OpenIn(status, line)[l]
           b2 == OpenIn(status', line')[l]
           c == TwiceIn(status, line)[l]
           c2 == TwiceIn(status', line')[l]
           q == line'[l]
<1>1. m \in Nat /\ n \in Nat /\ n =< m /\ q.allocated = m + take /\ q.shipped = n
  BY TermTypes
<1>2. r \in Nat /\ r2 = r + take
  BY BookTypes DEF Inv, TypeOK
<1>3. /\ ~ClosedIn(status, l) => a = m - n /\ b = m - n /\ c = 0
      /\ ClosedIn(status, l) =>
           a = (IF ReceiptsOf(wo[l]) = 0 THEN 0 ELSE m - n) /\ b = 0 /\ c = n
  BY TermsBefore DEF TermsOf
<1>4. /\ ~ClosedIn(status', l) =>
           a2 = q.allocated - q.shipped /\ b2 = q.allocated - q.shipped /\ c2 = 0
      /\ ClosedIn(status', l) =>
           a2 = (IF ReceiptsOf(wo'[l]) = 0 THEN 0 ELSE q.allocated - q.shipped)
           /\ b2 = 0 /\ c2 = q.shipped
  BY TermsAfter DEF TermsOf
<1> HIDE DEF m, n, r, r2, a, a2, b, b2, c, c2, q
<1>5. CASE ~ClosedIn(status, l)
  <2>1. a = m - n /\ b = m - n /\ c = 0
    BY <1>3, <1>5
  <2>2. a2 = m + take - n /\ b2 = m + take - n /\ c2 = 0
    BY <1>1, <1>4, <1>5
  <2>3. r2 + a =< r + a2 /\ b2 + r + c =< b + r2 + c2
    BY <1>1, <1>2, <2>1, <2>2
  <2> QED  BY <2>3, LedgerMoves DEF r, r2, a, a2, b, b2, c, c2
<1>6. CASE ClosedIn(status, l)
  <2>1. b = 0 /\ c = n /\ b2 = 0 /\ c2 = n
    BY <1>1, <1>3, <1>4, <1>6
  <2>2. b2 + r + c =< b + r2 + c2
    BY <1>1, <1>2, <2>1
  <2>3. CASE ReceiptsOf(wo'[l]) = 0
    <3>1. a = 0 /\ a2 = 0 /\ ~(take > 0)
      BY <1>3, <1>4, <1>6, <2>3
    <3>2. take = 0
      BY <3>1
    <3> QED  BY <1>2, <2>2, <3>1, <3>2, LedgerMoves DEF r, r2, a, a2, b, b2, c, c2
  <2>4. CASE ReceiptsOf(wo'[l]) # 0
    <3>1. a2 = m + take - n /\ (a = 0 \/ a = m - n)
      BY <1>1, <1>3, <1>4, <1>6, <2>4
    <3>2. r2 + a =< r + a2
      BY <1>1, <1>2, <3>1
    <3> QED  BY <2>2, <3>2, LedgerMoves DEF r, r2, a, a2, b, b2, c, c2
  <2> QED  BY <2>3, <2>4
<1> QED  BY <1>5, <1>6

\* n units of the line l are shipped.
LEMMA LedgerShips ==
  ASSUME Inv, Inv', Books, Books', ReservationsMatchLines, NEW l \in Lines, NEW n \in Nat,
         ShipsOne(l, n), ClosedIn(status', l) <=> ClosedIn(status, l),
         \A k \in Lines : k # l => TermsKept(k)
  PROVE  ReservationsMatchLines'
<1> DEFINE m == line[l].allocated
           s == line[l].shipped
           r == reserved[ProductOf[l]]
           r2 == reserved'[ProductOf[l]]
           a == ClaimIn(status, line, wo)[l]
           a2 == ClaimIn(status', line', wo')[l]
           b == OpenIn(status, line)[l]
           b2 == OpenIn(status', line')[l]
           c == TwiceIn(status, line)[l]
           c2 == TwiceIn(status', line')[l]
           q == line'[l]
<1>0. \A p \in Products : p # ProductOf[l] => reserved'[p] = reserved[p]
  BY DEF ShipsOne
<1>1. m \in Nat /\ s \in Nat /\ s + n =< m /\ q.allocated = m /\ q.shipped = s + n
  BY TermTypes DEF ShipsOne
<1>2. r \in Nat /\ r2 = Released(r, n) /\ wo' = wo
  <2>1. ProductOf[l] \in Products /\ reserved \in [Products -> Nat]
    BY BookTypes DEF Inv, TypeOK
  <2>2. /\ wo' = wo
        /\ reserved' = [p \in Products |-> IF p = ProductOf[l] THEN Released(reserved[p], n)
                                                               ELSE reserved[p]]
    BY DEF ShipsOne
  <2> QED  BY <2>1, <2>2
<1>3. /\ ~ClosedIn(status, l) => a = m - s /\ b = m - s /\ c = 0
      /\ ClosedIn(status, l) =>
           a = (IF ReceiptsOf(wo[l]) = 0 THEN 0 ELSE m - s) /\ b = 0 /\ c = s
  BY TermsBefore DEF TermsOf
<1>4. /\ ~ClosedIn(status', l) =>
           a2 = q.allocated - q.shipped /\ b2 = q.allocated - q.shipped /\ c2 = 0
      /\ ClosedIn(status', l) =>
           a2 = (IF ReceiptsOf(wo'[l]) = 0 THEN 0 ELSE q.allocated - q.shipped)
           /\ b2 = 0 /\ c2 = q.shipped
  BY TermsAfter DEF TermsOf
<1>5. r2 = 0 \/ r2 = r - n
  BY <1>2 DEF Released, Positive
<1>6. r2 >= r - n /\ r2 =< r /\ r2 \in Nat
  BY <1>2 DEF Released, Positive
<1> HIDE DEF m, s, r, r2, a, a2, b, b2, c, c2, q
<1>7. CASE ~ClosedIn(status, l)
  <2>1. a = m - s /\ b = m - s /\ c = 0
    BY <1>3, <1>7
  <2>2. a2 = m - (s + n) /\ b2 = m - (s + n) /\ c2 = 0
    BY <1>1, <1>4, <1>7
  <2>3. (r2 = 0 \/ r2 + a =< r + a2) /\ b2 + r + c =< b + r2 + c2
    BY <1>1, <1>2, <1>5, <1>6, <2>1, <2>2
  <2> QED  BY <1>0, <2>3, LedgerMoves DEF r, r2, a, a2, b, b2, c, c2
<1>8. CASE ClosedIn(status, l)
  <2>1. b = 0 /\ c = s /\ b2 = 0 /\ c2 = s + n
    BY <1>1, <1>3, <1>4, <1>8
  <2>2. b2 + r + c =< b + r2 + c2
    BY <1>1, <1>2, <1>6, <2>1
  <2>3. CASE ReceiptsOf(wo[l]) = 0
    <3>1. a = 0 /\ a2 = 0
      BY <1>2, <1>3, <1>4, <1>8, <2>3
    <3>2. r2 + a =< r + a2
      BY <1>2, <1>6, <3>1
    <3> QED  BY <1>0, <2>2, <3>2, LedgerMoves DEF r, r2, a, a2, b, b2, c, c2
  <2>4. CASE ReceiptsOf(wo[l]) # 0
    <3>1. a = m - s /\ a2 = m - (s + n)
      BY <1>1, <1>2, <1>3, <1>4, <1>8, <2>4
    <3>2. r2 = 0 \/ r2 + a =< r + a2
      BY <1>1, <1>2, <1>5, <3>1
    <3> QED  BY <1>0, <2>2, <3>2, LedgerMoves DEF r, r2, a, a2, b, b2, c, c2
  <2> QED  BY <2>3, <2>4
<1> QED  BY <1>7, <1>8

\* The lines of the other orders keep their terms when one order is given a state.
LEMMA OthersKept ==
  ASSUME OneLinePerOrder, Inv, NEW x \in Lines, NEW t,
         status' = [status EXCEPT ![OrderOf[x]] = t],
         \A l \in Lines : l # x => line'[l] = line[l] /\ ReceiptsOf(wo'[l]) = ReceiptsOf(wo[l])
  PROVE  /\ status'[OrderOf[x]] = t
         /\ \A l \in Lines : l # x => TermsKept(l)
<1>1. OrderOf[x] \in Orders /\ LinesOf(OrderOf[x]) = {x}
  <2>1. OrderOf[x] \in Orders /\ x \in LinesOf(OrderOf[x])
    BY BookTypes
  <2>2. \A k \in LinesOf(OrderOf[x]) : k = x
    BY DEF LinesOf, OneLinePerOrder
  <2> QED  BY <2>1, <2>2
<1>2. \A l \in Lines : status'[OrderOf[l]] = IF l \in LinesOf(OrderOf[x]) THEN t
                                             ELSE status[OrderOf[l]]
  <2> DEFINE o == OrderOf[x]
  <2>1. o \in Orders /\ status' = [status EXCEPT ![o] = t]
    BY <1>1
  <2> HIDE DEF o
  <2>2. ASSUME NEW l \in Lines
        PROVE  status'[OrderOf[l]] = IF l \in LinesOf(o) THEN t ELSE status[OrderOf[l]]
    BY <2>1, StateWritten
  <2> QED  BY <2>2 DEF o
<1>3. ASSUME NEW l \in Lines, l # x
      PROVE  TermsKept(l)
  <2>1. status'[OrderOf[l]] = status[OrderOf[l]]
    BY <1>1, <1>2, <1>3
  <2>2. ClosedIn(status', l) <=> ClosedIn(status, l)
    BY <2>1 DEF ClosedIn
  <2>3. /\ line'[l].allocated = line[l].allocated /\ line'[l].shipped = line[l].shipped
        /\ ReceiptsOf(wo'[l]) = ReceiptsOf(wo[l])
    BY <1>3
  <2> QED  BY <2>2, <2>3, TermsSame
<1> QED  BY <1>1, <1>2, <1>3

LEMMA LedgerRestated ==
  ASSUME OneLinePerOrder, StockInv, StockInv', AllocationsHaveRows, ReservationsMatchLines,
         RestateStep
  PROVE  ReservationsMatchLines'
<1>1. Inv /\ Inv' /\ Books /\ Books' /\ RowsOfProduct
  BY DEF StockInv, BooksInv
<1>2. PICK o \in Orders, t \in Status :
        /\ Restates(o, t)
        /\ \/ t \notin Final /\ UNCHANGED reserved
           \/ t = "CANCELLED" /\ Releases(o)
           \/ t = "COMPLETED" /\ CompletionReleases(o)
  BY DEF RestateStep
<1>3. PICK l \in Lines : LinesOf(o) = {l} /\ OrderOf[l] = o
  BY TheLine
<1>4. /\ status' = [status EXCEPT ![OrderOf[l]] = t] /\ status[OrderOf[l]] \notin Final
      /\ \A k \in Lines : line'[k] = line[k]
      /\ \A k \in Lines : ReceiptsOf(wo'[k]) = ReceiptsOf(wo[k])
  BY <1>2, <1>3 DEF Restates
<1>5. status'[OrderOf[l]] = t /\ \A k \in Lines : k # l => TermsKept(k)
  BY <1>1, <1>4, OthersKept
<1>6. ~ClosedIn(status, l) /\ line'[l] = line[l] /\ ReceiptsOf(wo'[l]) = ReceiptsOf(wo[l])
  BY <1>4, OpenOrder
<1>7. ASSUME ~ClosedIn(status', l)
      PROVE  TermsKept(l)
  BY <1>6, <1>7, TermsSame
<1>8. CASE t \notin Final /\ UNCHANGED reserved
  <2>1. ~ClosedIn(status', l)
    BY <1>5, <1>8, OpenOrder
  <2>2. \A k \in Lines : TermsKept(k)
    BY <1>5, <1>7, <2>1
  <2> QED  BY <1>8, <2>2, LedgerSame
<1>9. CASE t = "CANCELLED" /\ Releases(o)
  <2>1. ClosedIn(status', l)
    BY <1>5, <1>9 DEF ClosedIn
  <2>2. /\ \A p \in Products : p # ProductOf[l] => reserved'[p] = reserved[p]
        /\ reserved'[ProductOf[l]] = Released(reserved[ProductOf[l]], line[l].allocated)
    BY <1>1, <1>3, <1>9, CancelReleases
  <2> QED  BY <1>1, <1>5, <1>6, <2>1, <2>2, LedgerCloses
<1>10. CASE t = "COMPLETED" /\ CompletionReleases(o)
  <2>1. /\ \A p \in Products : p # ProductOf[l] => reserved'[p] = reserved[p]
        /\ reserved'[ProductOf[l]] = IF IsMaterial[ProductOf[l]]
                                     THEN Released(reserved[ProductOf[l]], line[l].allocated)
                                     ELSE reserved[ProductOf[l]]
    BY <1>1, <1>3, <1>10, CompletionReleased
  <2>2. ClosedIn(status', l) <=> IsMaterial[ProductOf[l]]
    BY <1>5, <1>10 DEF ClosedIn
  <2>3. CASE IsMaterial[ProductOf[l]]
    <3>1. ClosedIn(status', l)
      BY <2>2, <2>3
    <3>2. /\ \A p \in Products : p # ProductOf[l] => reserved'[p] = reserved[p]
          /\ reserved'[ProductOf[l]] = Released(reserved[ProductOf[l]], line[l].allocated)
      BY <2>1, <2>3
    <3> QED  BY <1>1, <1>5, <1>6, <3>1, <3>2, LedgerCloses
  <2>4. CASE ~IsMaterial[ProductOf[l]]
    <3>1. \A k \in Lines : TermsKept(k)
      BY <1>5, <1>7, <2>2, <2>4
    <3>2. \A p \in Products : reserved'[p] = reserved[p]
      BY <2>1, <2>4
    <3> QED  BY <3>1, <3>2, LedgerSame
  <2> QED  BY <2>3, <2>4
<1> QED  BY <1>2, <1>8, <1>9, <1>10

LEMMA LedgerConfirmed ==
  ASSUME OneLinePerOrder, StockInv, StockInv', ReservationsMatchLines, ConfirmStep
  PROVE  ReservationsMatchLines'
<1>1. /\ Inv /\ Inv' /\ Books /\ Books'
      /\ reserved \in [Products -> Nat]
  BY DEF StockInv, BooksInv, Inv, TypeOK
<1>2. PICK l \in Lines : \E take \in Nat : ConfirmsOne(l, take)
  BY <1>1, ConfirmStepOne
<1>3. PICK take \in Nat : ConfirmsOne(l, take)
  BY <1>2
<1>4. /\ line'[l].allocated = line[l].allocated + take
      /\ line'[l].shipped = line[l].shipped
      /\ \A k \in Lines : k # l => line'[k] = line[k] /\ wo'[k] = wo[k]
      /\ ReceiptsOf(wo'[l]) = ReceiptsOf(wo[l])
      /\ status[OrderOf[l]] \notin Final /\ status'[OrderOf[l]] \notin Final
      /\ \A k \in Lines : k # l => status'[OrderOf[k]] = status[OrderOf[k]]
      /\ reserved' = [p \in Products |-> IF p = ProductOf[l] THEN reserved[p] + take
                                                             ELSE reserved[p]]
  BY <1>3 DEF ConfirmsOne
<1>5. ASSUME NEW k \in Lines, k # l
      PROVE  TermsKept(k)
  <2>1. ClosedIn(status', k) <=> ClosedIn(status, k)
    BY <1>4, <1>5 DEF ClosedIn
  <2>2. line'[k] = line[k] /\ wo'[k] = wo[k]
    BY <1>4, <1>5
  <2> QED  BY <2>1, <2>2, TermsSame
<1>6. ~ClosedIn(status, l) /\ ~ClosedIn(status', l)
  BY <1>4, OpenOrder
<1>7. ProductOf[l] \in Products
  BY <1>1, BookTypes
<1>8. /\ \A p \in Products : p # ProductOf[l] => reserved'[p] = reserved[p]
      /\ reserved'[ProductOf[l]] = reserved[ProductOf[l]] + take
  BY <1>4, <1>7
<1> QED  BY <1>1, <1>4, <1>5, <1>6, <1>8, LedgerTakes

LEMMA LedgerShipped ==
  ASSUME OneLinePerOrder, StockInv, StockInv', ReservationsMatchLines, ShipStep
  PROVE  ReservationsMatchLines'
<1>1. Inv /\ Inv' /\ Books /\ Books' /\ RowsOfProduct
  BY DEF StockInv, BooksInv
<1>2. PICK o \in Orders : \E q \in [LinesOf(o) -> Nat] : Ships(o, q)
  BY DEF ShipStep
<1>3. PICK q \in [LinesOf(o) -> Nat] : Ships(o, q)
  BY <1>2
<1>4. PICK l \in Lines : OrderOf[l] = o /\ \E n \in Nat : ShipsOne(l, n)
  BY <1>1, <1>3, ShipStepOne
<1>5. PICK n \in Nat : ShipsOne(l, n)
  BY <1>4
<1>6. PICK t \in {status[o], "SHIPPED"} :
        /\ status' = [status EXCEPT ![o] = t]
        /\ t # status[o] => CanBecome(ReadyToShip(status[o]), "SHIPPED")
  BY <1>3 DEF Ships
<1>7. wo' = wo /\ \A k \in Lines : k # l => line'[k] = line[k]
  BY <1>5 DEF ShipsOne
<1>8. status' = [status EXCEPT ![OrderOf[l]] = t]
  BY <1>4, <1>6
<1>9. status'[OrderOf[l]] = t /\ \A k \in Lines : k # l => TermsKept(k)
  BY <1>1, <1>7, <1>8, OthersKept
<1>10. ClosedIn(status', l) <=> ClosedIn(status, l)
  <2>1. CASE t = status[o]
    BY <1>4, <1>9, <2>1 DEF ClosedIn
  <2>2. CASE t # status[o]
    <3>1. status[o] \notin Final
      BY <1>6, <2>2 DEF ReadyToShip, CanBecome, Targets, Final
    <3>2. t \notin Final
      BY <1>6, <2>2 DEF Final
    <3> QED  BY <1>4, <1>9, <3>1, <3>2, OpenOrder
  <2> QED  BY <2>1, <2>2
<1> QED  BY <1>1, <1>5, <1>9, <1>10, LedgerShips

LEMMA LedgerReceived ==
  ASSUME OneLinePerOrder, StockInv, StockInv', ReservationsMatchLines, ReceiveStep
  PROVE  ReservationsMatchLines'
<1>1. Inv /\ Inv' /\ Books /\ Books'
  BY DEF StockInv, BooksInv
<1>2. PICK l \in Lines : \E i \in DOMAIN wo[l] : \E got, take \in Nat : Receives(l, i, got, take)
  BY DEF ReceiveStep
<1>3. PICK i \in DOMAIN wo[l] : \E got, take \in Nat : Receives(l, i, got, take)
  BY <1>2
<1>4. PICK got \in Nat, take \in Nat : Receives(l, i, got, take)
  BY <1>3
<1>5. /\ line'[l].shipped = line[l].shipped
      /\ line'[l].allocated = line[l].allocated + take
      /\ \A k \in Lines : k # l => line'[k] = line[k]
      /\ reserved' = [reserved EXCEPT ![ProductOf[l]] = reserved[ProductOf[l]] + take]
      /\ wo'[l][i].receipt = wo[l][i].receipt + got
      /\ take > 0 => wo[l][i].receipt = 0
      /\ wo'[l][i].receipt = 0 => take = 0
  BY <1>4 DEF Receives
<1>6. PICK t \in {status[OrderOf[l]], "READY_FOR_DISPATCH"} :
        /\ status' = [status EXCEPT ![OrderOf[l]] = t]
        /\ t # status[OrderOf[l]] => CanBecome(status[OrderOf[l]], "READY_FOR_DISPATCH")
  BY <1>4 DEF Receives
<1>7. /\ ReceiptsOf(wo'[l]) = ReceiptsOf(wo[l]) + got
      /\ \A k \in Lines : k # l => ReceiptsOf(wo'[k]) = ReceiptsOf(wo[k])
  BY <1>1, <1>4, ReceivesReceipts
<1>8. status'[OrderOf[l]] = t /\ \A k \in Lines : k # l => TermsKept(k)
  BY <1>1, <1>5, <1>6, <1>7, OthersKept
<1>9. ClosedIn(status', l) <=> ClosedIn(status, l)
  <2>1. CASE t = status[OrderOf[l]]
    BY <1>8, <2>1 DEF ClosedIn
  <2>2. CASE t # status[OrderOf[l]]
    <3>1. status[OrderOf[l]] \notin Final
      BY <1>6, <2>2 DEF CanBecome, Targets, Final
    <3>2. t \notin Final
      BY <1>6, <2>2 DEF Final
    <3> QED  BY <1>8, <3>1, <3>2, OpenOrder
  <2> QED  BY <2>1, <2>2
<1>10. ReceiptsOf(wo[l]) \in Nat
  <2>1. wo[l] \in Seq(WorkOrder)
    BY <1>1, BookTypes
  <2> QED  BY <2>1, ReceiptsNat
<1>11. take > 0 => ReceiptsOf(wo'[l]) # 0
  <2>1. CASE take > 0
    <3>1. wo[l][i].receipt = 0 /\ wo'[l][i].receipt # 0
      BY <1>5, <2>1
    <3>2. got # 0
      BY <1>5, <3>1
    <3>3. ReceiptsOf(wo[l]) + got # 0
      BY <1>10, <3>2
    <3> QED  BY <1>7, <3>3
  <2> QED  BY <2>1
<1>12. ReceiptsOf(wo[l]) # 0 => ReceiptsOf(wo'[l]) # 0
  BY <1>7, <1>10
<1>13. /\ \A p \in Products : p # ProductOf[l] => reserved'[p] = reserved[p]
       /\ reserved'[ProductOf[l]] = reserved[ProductOf[l]] + take
  <2>1. ProductOf[l] \in Products /\ reserved \in [Products -> Nat]
    BY <1>1, BookTypes DEF Inv, TypeOK
  <2> QED  BY <1>5, <2>1
<1>14. line'[l].allocated = line[l].allocated + take /\ line'[l].shipped = line[l].shipped
  BY <1>5
<1> QED  BY <1>1, <1>8, <1>9, <1>11, <1>12, <1>13, <1>14, LedgerTakes

LEMMA LedgerKept ==
  ASSUME OneLinePerOrder, StockInv, StockInv', AllocationsHaveRows, ReservationsMatchLines,
         TableStep
  PROVE  ReservationsMatchLines'
<1>1. ASSUME reserved' = reserved, status' = status, line' = line,
             \A l \in Lines : ReceiptsOf(wo'[l]) = ReceiptsOf(wo[l])
      PROVE  ReservationsMatchLines'
  <2>1. \A l \in Lines : TermsKept(l)
    BY <1>1 DEF TermsKept, ClaimIn, OpenIn, TwiceIn
  <2> QED  BY <1>1, <2>1, LedgerSame
<1>2. CASE QuietStep
  BY <1>1, <1>2 DEF QuietStep
<1>3. CASE ProduceStep
  <2>1. PICK k \in Lines : \E i \in DOMAIN wo[k] : Produces(k, i)
    BY <1>3 DEF ProduceStep
  <2>2. PICK i \in DOMAIN wo[k] : Produces(k, i)
    BY <2>1
  <2>3. reserved' = reserved /\ status' = status /\ line' = line
    BY <1>3 DEF ProduceStep
  <2>4. ASSUME NEW l \in Lines
        PROVE  ReceiptsOf(wo'[l]) = ReceiptsOf(wo[l])
    <3>1. DOMAIN wo'[l] = DOMAIN wo[l] /\ \A j \in DOMAIN wo[l] : wo'[l][j].receipt = wo[l][j].receipt
      BY <2>2 DEF Produces
    <3> QED  BY <3>1, ReceiptsSame
  <2> QED  BY <1>1, <2>3, <2>4
<1> QED
  BY <1>2, <1>3, LedgerRestated, LedgerConfirmed, LedgerShipped, LedgerReceived DEF TableStep

\* Which lines have a reservation, as a set of rows grows.
Rowed(rs, q) ==
  \A l \in Lines : q[l].allocated > 0 =>
    \E p \in Products : <<l, p>> \in rs \/ <<OrderOf[l], p>> \in rs

LEMMA RowedForm ==
  /\ AllocationsHaveRows <=> Rowed(rows, line)
  /\ AllocationsHaveRows' <=> Rowed(rows', line')
<1>1. \A l \in Lines : RowsFor(l) # {} <=>
        \E p \in Products : <<l, p>> \in rows \/ <<OrderOf[l], p>> \in rows
  BY DEF RowsFor
<1>2. \A l \in Lines : (RowsFor(l) # {})' <=>
        \E p \in Products : <<l, p>> \in rows' \/ <<OrderOf[l], p>> \in rows'
  BY DEF RowsFor
<1>3. AllocationsHaveRows <=> Rowed(rows, line)
  BY <1>1 DEF AllocationsHaveRows, Rowed
<1>4. AllocationsHaveRows' <=> Rowed(rows', line')
  BY <1>2 DEF AllocationsHaveRows, Rowed
<1> QED  BY <1>3, <1>4

\* A line's rows stay enough when rows are only added and no allocation changes, or one
\* line is allocated more and has a row.
LEMMA RowedSame ==
  ASSUME NEW rs, NEW rt, NEW q, NEW u, rs \subseteq rt, Rowed(rs, q),
         \A l \in Lines : u[l].allocated = q[l].allocated
  PROVE  Rowed(rt, u)
BY DEF Rowed

LEMMA RowedMore ==
  ASSUME NEW rs, NEW rt, NEW q, NEW u, rs \subseteq rt, Rowed(rs, q),
         NEW x \in Lines, NEW take \in Nat, q[x].allocated \in Nat, ProductOf[x] \in Products,
         \A l \in Lines : l # x => u[l] = q[l],
         u[x].allocated = q[x].allocated + take,
         take > 0 => <<x, ProductOf[x]>> \in rt \/ <<OrderOf[x], ProductOf[x]>> \in rt
  PROVE  Rowed(rt, u)
<1> SUFFICES ASSUME NEW l \in Lines, u[l].allocated > 0
             PROVE  \E p \in Products : <<l, p>> \in rt \/ <<OrderOf[l], p>> \in rt
  BY DEF Rowed
<1>1. q[l].allocated > 0 => \E p \in Products : <<l, p>> \in rt \/ <<OrderOf[l], p>> \in rt
  BY DEF Rowed
<1>2. CASE l = x /\ take > 0
  BY <1>2
<1>3. CASE l = x /\ take = 0
  <2>1. q[l].allocated > 0
    BY <1>3
  <2> QED  BY <1>1, <2>1
<1>4. CASE l # x
  BY <1>1, <1>4
<1>5. take = 0 \/ take > 0
  OBVIOUS
<1> QED  BY Zenon, <1>2, <1>3, <1>4, <1>5

LEMMA AllocationsKept ==
  ASSUME OneLinePerOrder, Inv, Books, RowsOfProduct, AllocationsHaveRows, TableStep
  PROVE  AllocationsHaveRows'
<1> SUFFICES Rowed(rows', line')
  BY RowedForm
<1>1. Rowed(rows, line)
  BY RowedForm
<1>2. \A l \in Lines : line[l].allocated \in Nat /\ ProductOf[l] \in Products
  BY BookTypes
<1>3. CASE QuietStep \/ ProduceStep
  <2>1. rows' = rows /\ line' = line
    BY <1>3 DEF QuietStep, ProduceStep, Produces
  <2> QED  BY <1>1, <2>1
<1>4. CASE RestateStep
  <2>1. rows' = rows /\ \A l \in Lines : line'[l] = line[l]
    BY <1>4 DEF RestateStep, Restates
  <2>2. \A l \in Lines : line'[l].allocated = line[l].allocated
    BY <2>1
  <2> QED  BY <1>1, <2>1, <2>2, RowedSame
<1>5. CASE ConfirmStep
  <2>1. PICK l \in Lines : \E take \in Nat : ConfirmsOne(l, take)
    BY <1>5, ConfirmStepOne
  <2>2. PICK take \in Nat : ConfirmsOne(l, take)
    BY <2>1
  <2>3. /\ rows \subseteq rows'
        /\ \A k \in Lines : k # l => line'[k] = line[k]
        /\ line'[l].allocated = line[l].allocated + take
        /\ take > 0 => <<OrderOf[l], ProductOf[l]>> \in rows'
    BY <2>2 DEF ConfirmsOne
  <2>4. take > 0 => <<l, ProductOf[l]>> \in rows' \/ <<OrderOf[l], ProductOf[l]>> \in rows'
    BY <2>3
  <2> QED  BY <1>1, <1>2, <2>3, <2>4, RowedMore
<1>6. CASE ShipStep
  <2>1. PICK o \in Orders : \E q \in [LinesOf(o) -> Nat] : Ships(o, q)
    BY <1>6 DEF ShipStep
  <2>2. PICK l \in Lines : \E n \in Nat : ShipsOne(l, n)
    BY <2>1, ShipStepOne
  <2>3. /\ rows' = rows /\ line'[l].allocated = line[l].allocated
        /\ \A k \in Lines : k # l => line'[k] = line[k]
    BY <2>2 DEF ShipsOne
  <2>4. \A k \in Lines : line'[k].allocated = line[k].allocated
    BY <2>3
  <2> QED  BY <1>1, <2>3, <2>4, RowedSame
<1>7. CASE ReceiveStep
  <2>1. PICK l \in Lines : \E i \in DOMAIN wo[l] : \E got, take \in Nat : Receives(l, i, got, take)
    BY <1>7 DEF ReceiveStep
  <2>2. PICK i \in DOMAIN wo[l] : \E got, take \in Nat : Receives(l, i, got, take)
    BY <2>1
  <2>3. PICK got \in Nat, take \in Nat : Receives(l, i, got, take)
    BY <2>2
  <2>4. /\ rows \subseteq rows'
        /\ \A k \in Lines : k # l => line'[k] = line[k]
        /\ line'[l].allocated = line[l].allocated + take
        /\ take > 0 => <<l, ProductOf[l]>> \in rows' \/ <<OrderOf[l], ProductOf[l]>> \in rows'
    BY <2>3 DEF Receives
  <2> QED  BY <1>1, <1>2, <2>4, RowedMore
<1> QED
  BY <1>3, <1>4, <1>5, <1>6, <1>7 DEF TableStep

LEMMA LedgerInvNext ==
  ASSUME OneSession, OneLinePerOrder, Apart, LedgerInv, [Next]_vars
  PROVE  LedgerInv'
<1>1. StockInv /\ BooksInv
  BY DEF LedgerInv, StockInv
<1>2. StockInv' /\ TableStep
  BY <1>1, StockInvNext, BooksInvNext
<1>3. Inv /\ Books /\ RowsOfProduct
  BY <1>1 DEF StockInv, BooksInv
<1>4. ReservationsMatchLines'
  BY <1>1, <1>2, LedgerKept DEF LedgerInv
<1>5. AllocationsHaveRows'
  BY <1>2, <1>3, AllocationsKept DEF LedgerInv
<1> QED  BY <1>2, <1>4, <1>5 DEF LedgerInv

LEMMA LedgerInvInit == Init => LedgerInv
<1> SUFFICES ASSUME Init PROVE LedgerInv
  OBVIOUS
<1>1. StockInv
  BY StockInvInit
<1>2. \A l \in Lines : line[l].allocated = 0 /\ line[l].shipped = 0
  BY DEF Init, LineColumns
<1>3. AllocationsHaveRows
  BY <1>2 DEF AllocationsHaveRows
<1>4. ASSUME NEW p \in Products, NEW f \in [Lines -> Nat], \A l \in Lines : f[l] = 0
      PROVE  ProductSum(p, f) = 0
  <2> DEFINE D == LinesFor(p)
             g == [l \in D |-> f[l]]
  <2>1. DOMAIN g = D /\ \A l \in D : g[l] = 0
    BY <1>4 DEF LinesFor
  <2> HIDE DEF g, D
  <2>2. Total(g) = 0
    BY <2>1, TotalZero
  <2> QED  BY <2>2 DEF ProductSum, g, D
<1>5. /\ ClaimIn(status, line, wo) \in [Lines -> Nat]
      /\ OpenIn(status, line) \in [Lines -> Nat] /\ TwiceIn(status, line) \in [Lines -> Nat]
  <2>1. \A l \in Lines : line[l].allocated \in Nat /\ line[l].shipped \in Nat
    BY <1>2
  <2> QED  BY <2>1, TermsNat
<1>6. \A l \in Lines : /\ ClaimIn(status, line, wo)[l] = 0
                       /\ OpenIn(status, line)[l] = 0 /\ TwiceIn(status, line)[l] = 0
  BY <1>2 DEF ClaimIn, OpenIn, TwiceIn, UnshippedIn, Positive
<1>7. ASSUME NEW p \in Products
      PROVE  /\ ProductSum(p, ClaimIn(status, line, wo)) = 0
             /\ ProductSum(p, OpenIn(status, line)) = 0
             /\ ProductSum(p, TwiceIn(status, line)) = 0
             /\ reserved[p] = 0
  <2>1. ProductSum(p, ClaimIn(status, line, wo)) = 0
    BY <1>4, <1>5, <1>6
  <2>2. ProductSum(p, OpenIn(status, line)) = 0
    BY <1>4, <1>5, <1>6
  <2>3. ProductSum(p, TwiceIn(status, line)) = 0
    BY <1>4, <1>5, <1>6
  <2> QED  BY <2>1, <2>2, <2>3 DEF Init
<1>8. Ledger(reserved, status, line, wo)
  BY <1>7 DEF Ledger, Claimed, Backed
<1>9. ReservationsMatchLines
  BY <1>8, LedgerForm
<1> QED  BY <1>1, <1>3, <1>9 DEF LedgerInv

(* When requests follow each other and an order has one line, whatever they are, what is
   reserved of a finished good is what the lines of the open orders are allocated and were
   not shipped, but for the goods production delivered for closed orders, above it, and
   the goods shipped of closed orders, below it.  Shipping a cancelled order, or cancelling
   a shipped one, is no exception; a completed order is closed when its line names the
   good by the id of its materials row. *)
THEOREM ReservationsFollowLines ==
  ASSUME OneSession, OneLinePerOrder, Apart
  PROVE  Spec => []ReservationsMatchLines
<1>1. LedgerInv /\ [Next]_vars => LedgerInv'
  BY LedgerInvNext
<1>2. LedgerInv => ReservationsMatchLines
  BY DEF LedgerInv
<1> QED  BY LedgerInvInit, <1>1, <1>2, PTL DEF Spec

=============================================================================
