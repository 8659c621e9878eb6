------------------------------ MODULE Deliveries ------------------------------
(***************************************************************************)
(* Deliveries of the finished goods that the lines of a sales order are    *)
(* allocated, over the two services that handle them (the delivery routes  *)
(* and the dispatch dashboard), the shipment of a whole order, and what    *)
(* becomes of a line that is only allocated in part.                       *)
(*                                                                         *)
(* A request reads the delivery and its order without a lock, and commits  *)
(* what it makes of them: Begin is the reading, the action named after the *)
(* handler the rest.  Only the row of the finished good is locked, so the  *)
(* stock is that of the commit.  A request that fails changes nothing.     *)
(*                                                                         *)
(* Every line has a reservation of its own; which reservation a shipment   *)
(* finds when it has none is the subject of SalesFulfilment.  A line names *)
(* its product by the id of a material: the reversal that a cancellation   *)
(* logs for the id of a variant violates a foreign key, and it fails.      *)
(***************************************************************************)
EXTENDS Integers, Sequences, UnitCount

CONSTANTS
  Orders, Lines, Products, Sessions,
  OrderOf,         \* OrderOf[l]: the order that line l belongs to
  ProductOf,       \* ProductOf[l]: the finished good that it orders
  Ordered,         \* Ordered[l]: the quantity it orders
  InStock,         \* InStock[l]: the part of it that was allocated from stock
  MaxOrdered,      \* bound: units of a line in one request
  MaxDeliveries    \* bound: delivery orders

ASSUME LineAssumption ==
  /\ IsFiniteSet(Lines)
  /\ OrderOf \in [Lines -> Orders]
  /\ ProductOf \in [Lines -> Products]
  /\ Ordered \in [Lines -> Nat \ {0}]
  /\ InStock \in [Lines -> Nat] /\ \A l \in Lines : InStock[l] =< Ordered[l]
ASSUME BoundAssumption == MaxOrdered \in Nat /\ MaxDeliveries \in Nat

VARIABLES
  onHand,      \* onHand[p]: finished stock of p
  reserved,    \* reserved[p]: materials.reserved_stock of p
  receipts,    \* receipts[p]: sum of the FG_RECEIPT transactions of p
  line,        \* line[l]: the sales_order_lines row
  producing,   \* producing[l]: units of l that its open work orders are still to deliver
  status,      \* sales_orders.status
  delivery,    \* delivery[n]: the delivery order with number n
  notified,    \* orders whose delivery the workflow has an audit entry for
  session      \* session[s]: the request of s, with what it has read

goods == <<onHand, reserved, receipts, producing>>
vars == <<goods, line, status, delivery, notified, session>>

-----------------------------------------------------------------------------
(* Rows *)

OrderStatus == {"PRODUCTION", "READY_FOR_DISPATCH", "SHIPPED", "DELIVERED", "INVOICED"}
LineStatus == {"PENDING", "ALLOCATED", "PARTIAL", "BACKORDER", "SHORT_CLOSED"}
DeliveryStatus == {"DRAFT", "PACKING", "IN_TRANSIT", "SHIPPED", "DELIVERED", "CANCELLED"}

Line == [quantity : Nat, allocated : Nat, dispatched : Nat, shipped : Nat, status : LineStatus]

LinesOf(o) == {l \in Lines : OrderOf[l] = o}
Quantities(o) == [LinesOf(o) -> Nat]

\* document: recorded after the shipment of the whole order, not to be shipped itself
Delivery(o) == [order : {o}, status : DeliveryStatus, of : Quantities(o), document : BOOLEAN]

Positive(n) == IF n > 0 THEN n ELSE 0
Least(a, b) == IF a =< b THEN a ELSE b

\* The sum of f over those of its lines that order p
SumFor(p, f) == Total([l \in {k \in DOMAIN f : ProductOf[k] = p} |-> f[l]])

-----------------------------------------------------------------------------
(* Requests *)

Idle == [kind |-> "none"]

\* What the dashboard may set the status of a delivery to, whatever it is
UpdatesAny == {"IN_TRANSIT", "DELIVERED", "LOST"}    \* mutant: not restricted
Updates == {"IN_TRANSIT", "DELIVERED"}

OnDelivery == {"ship", "deliver", "cancel", "pack", "dispatch", "confirm"} \cup Updates
OnOrder == {"create", "ship order", "deliver order"}
OnLine == {"receive", "remaining", "short close"}

Request(o) ==
  [kind : OnDelivery \cup OnOrder \cup OnLine, order : {o}, status : OrderStatus,
   line : [LinesOf(o) -> Line], of : (1..MaxDeliveries) \cup LinesOf(o) \cup {o}]

\* A delivery order in the making
Creation(o) ==
  [kind : {"number", "insert"}, order : {o}, line : [LinesOf(o) -> Line],
   status : DeliveryStatus, q : Quantities(o), number : Nat]

\* The states of a delivery that the handler of a request does not refuse
Accepts(kind) ==
  CASE kind \in {"ship", "cancel"} -> {"DRAFT", "PACKING"}
    [] kind = "deliver"            -> {"SHIPPED"}
    [] kind = "pack"               -> {"DRAFT"}
    [] kind = "dispatch"           -> {"PACKING"}
    [] kind = "confirm"            -> {"IN_TRANSIT"}
    [] kind \in Updates            -> DeliveryStatus \ {kind}

Begin(s, kind, o, of) ==
  /\ session[s] = Idle
  /\ session' = [session EXCEPT ![s] =
       [kind |-> kind, order |-> o, status |-> status[o],
        line |-> [l \in LinesOf(o) |-> line[l]], of |-> of]]
  /\ UNCHANGED <<goods, line, status, delivery, notified>>

BeginOnDelivery(s, kind, n) ==
  /\ delivery[n].status \in Accepts(kind)
  /\ Begin(s, kind, delivery[n].order, n)

BeginOnOrder(s, kind, o) ==
  /\ kind = "deliver order" => status[o] = "SHIPPED"
  /\ kind = "create" => \E l \in LinesOf(o) : line[l].dispatched < line[l].allocated
  /\ kind = "ship order" => \E l \in LinesOf(o) : line[l].shipped < line[l].allocated
  /\ Begin(s, kind, o, o)

BeginOnLine(s, kind, l) ==
  /\ kind = "receive" => producing[l] > 0
  /\ kind = "remaining" => line[l].status = "PARTIAL"
  /\ kind = "short close" => line[l].status \in {"PARTIAL", "BACKORDER"}
  /\ Begin(s, kind, OrderOf[l], l)

End(s) == session' = [session EXCEPT ![s] = Idle]

Abandon(s) ==
  /\ session[s] # Idle
  /\ End(s)
  /\ UNCHANGED <<goods, line, status, delivery, notified>>

\* A column holds the new value when it differs from the one that was read.
Written(now, read, new) == IF new = read THEN now ELSE new

\* Column c of the lines of new holds their new values.
Moved(c, new) ==
  line' = [l \in Lines |-> IF l \in DOMAIN new THEN [line[l] EXCEPT ![c] = new[l]] ELSE line[l]]

-----------------------------------------------------------------------------
(* Creation of a delivery *)

\* _resolve_delivery_lines: what can still be dispatched of a line
Dispatchable(r, l) == r.line[l].allocated - r.line[l].dispatched

Deliverable(r) == {l \in LinesOf(r.order) : r.line[l].status # "SHORT_CLOSED"}

\* The lines are chosen before the delivery orders are counted for a number.
ResolveLines(s) ==
  LET r == session[s] IN
  /\ r.kind = "create"
  /\ \E q \in [LinesOf(r.order) -> 0..MaxOrdered] :
       /\ \E l \in LinesOf(r.order) : q[l] > 0
       /\ \A l \in LinesOf(r.order) :
            q[l] > 0 => l \in Deliverable(r) /\ q[l] =< Dispatchable(r, l)
       /\ session' = [session EXCEPT ![s] =
            [kind |-> "number", order |-> r.order, line |-> r.line, status |-> "DRAFT",
             q |-> q, number |-> 0]]
  /\ UNCHANGED <<goods, line, status, delivery, notified>>

\* _next_delivery_number
NextNumber(s) ==
  /\ session[s].kind = "number"
  /\ session' = [session EXCEPT ![s].kind = "insert", ![s].number = Len(delivery) + 1]
  /\ UNCHANGED <<goods, line, status, delivery, notified>>

\* Two delivery orders cannot have one number: the second is refused.
InsertDelivery(s) ==
  LET r == session[s] IN
  /\ r.kind = "insert"
  /\ r.number = Len(delivery) + 1 /\ r.number =< MaxDeliveries
  /\ delivery' = Append(delivery, [order |-> r.order, status |-> r.status, of |-> r.q,
                                   document |-> r.status = "SHIPPED"])
  /\ IF r.status = "DRAFT"
     THEN Moved("dispatched", [l \in {k \in LinesOf(r.order) : r.q[k] > 0} |->
                                 r.line[l].dispatched + r.q[l]])
     ELSE UNCHANGED line
  /\ End(s)
  /\ UNCHANGED <<goods, status, notified>>

-----------------------------------------------------------------------------
(* A delivery is shipped, delivered, cancelled *)

\* reserved_stock of p once n units of it are shipped
KeptReserved(p, n) == reserved[p]          \* mutant: it is not lowered
LessReserved(p, n) == Positive(reserved[p] - n)

\* fulfill_sales_reservation for every line of q
Fulfil(q) ==
  /\ \A p \in Products : SumFor(p, q) =< onHand[p]
  /\ onHand' = [p \in Products |-> onHand[p] - SumFor(p, q)]
  /\ reserved' = [p \in Products |-> LessReserved(p, SumFor(p, q))]
  /\ UNCHANGED <<receipts, producing>>

Sent(q) == {l \in DOMAIN q : q[l] > 0}

ShippedBefore(r, q) == [l \in Sent(q) |-> r.line[l].shipped]    \* mutant: not counted
ShippedNow(r, q) == [l \in Sent(q) |-> r.line[l].shipped + q[l]]

AllShipped(r, shipped, column) ==
  \A l \in LinesOf(r.order) :
    (IF l \in DOMAIN shipped THEN shipped[l] ELSE r.line[l].shipped) >= r.line[l][column]

\* The status of a delivery, whatever it has become since it was read
SetDelivery(n, st) == delivery' = [delivery EXCEPT ![n].status = st]

ShipDelivery(s) ==
  LET r == session[s]
      q == delivery[r.of].of
      shipped == ShippedNow(r, q)
  IN
  /\ r.kind = "ship"
  /\ \A l \in Sent(q) : shipped[l] =< r.line[l].allocated
  /\ Fulfil(q)
  /\ Moved("shipped", shipped)
  /\ status' = [status EXCEPT ![r.order] =
       IF AllShipped(r, shipped, "allocated") THEN Written(@, r.status, "SHIPPED") ELSE @]
  /\ SetDelivery(r.of, "SHIPPED")
  /\ End(s)
  /\ UNCHANGED notified

\* on_order_delivered: the order is invoiced, unless it was delivered once before
Invoiced(r) ==
  /\ status' = [status EXCEPT ![r.order] =
       IF r.order \in notified THEN Written(@, r.status, "DELIVERED") ELSE "INVOICED"]
  /\ notified' = notified \cup {r.order}

Deliver(s) ==
  LET r == session[s] IN
  /\ r.kind = "deliver"
  /\ SetDelivery(r.of, "DELIVERED")
  /\ IF AllShipped(r, << >>, "quantity") THEN Invoiced(r)
                                   ELSE UNCHANGED <<status, notified>>
  /\ End(s)
  /\ UNCHANGED <<goods, line>>

\* dispatched_quantity once n units are cancelled
KeptDispatched(read, n) == read            \* mutant: it is not lowered
LessDispatched(read, n) == Positive(read - n)

CancelDelivery(s) ==
  LET r == session[s]
      q == delivery[r.of].of
  IN
  /\ r.kind = "cancel"
  /\ Moved("dispatched", [l \in Sent(q) |-> LessDispatched(r.line[l].dispatched, q[l])])
  /\ SetDelivery(r.of, "CANCELLED")
  /\ End(s)
  /\ UNCHANGED <<goods, status, notified>>

-----------------------------------------------------------------------------
(* The dispatch dashboard *)

\* handle_pack_delivery, handle_update_shipment_status: the delivery alone
MoveDelivery(s, kind, target) ==
  /\ session[s].kind = kind
  /\ SetDelivery(session[s].of, target)
  /\ End(s)
  /\ UNCHANGED <<goods, line, status, notified>>

PackDelivery(s) == MoveDelivery(s, "pack", "PACKING")
UpdateShipmentStatus(s) == \E target \in Updates : MoveDelivery(s, target, target)

\* dispatch_order: the order is SHIPPED, and no goods leave the stock.
DispatchOrder(s) ==
  LET r == session[s] IN
  /\ r.kind = "dispatch"
  /\ SetDelivery(r.of, "IN_TRANSIT")
  /\ status' = [status EXCEPT ![r.order] =
       IF r.status \in {"SHIPPED", "DELIVERED", "INVOICED"} THEN @ ELSE "SHIPPED"]
  /\ End(s)
  /\ UNCHANGED <<goods, line, notified>>

\* confirm_delivery: the order is DELIVERED and invoiced, whatever is still to be shipped;
\* an order that was not set to DELIVERED here is not invoiced unless it is DELIVERED.
ConfirmDelivery(s) ==
  LET r == session[s] IN
  /\ r.kind = "confirm"
  /\ SetDelivery(r.of, "DELIVERED")
  /\ IF r.status = "INVOICED"
     THEN notified' = notified \cup {r.order} /\ UNCHANGED status
     ELSE Invoiced(r)
  /\ End(s)
  /\ UNCHANGED <<goods, line>>

-----------------------------------------------------------------------------
(* The order as a whole *)

\* SalesOrderRepository.save: the columns the request changed, or all of the entity
SaveOrder(r, newStatus, shipped) ==
  \E refreshed \in BOOLEAN :
    LET Saved(now, read, new) == IF refreshed THEN new ELSE Written(now, read, new) IN
    /\ status' = [status EXCEPT ![r.order] = Saved(@, r.status, newStatus)]
    /\ line' = [l \in Lines |->
         IF l \in LinesOf(r.order)
         THEN [line[l] EXCEPT
                 !.quantity  = Saved(@, r.line[l].quantity, r.line[l].quantity),
                 !.allocated = Saved(@, r.line[l].allocated, r.line[l].allocated),
                 !.shipped   = Saved(@, r.line[l].shipped,
                                     IF l \in DOMAIN shipped THEN shipped[l]
                                                             ELSE r.line[l].shipped)]
         ELSE line[l]]

\* ship_order.  A delivery order records it, in a transaction of its own.
ShipOrder(s) ==
  LET r == session[s] IN
  /\ r.kind = "ship order"
  /\ \E q \in [LinesOf(r.order) -> 0..MaxOrdered] :
       LET shipped == ShippedNow(r, q)
           all == /\ \A l \in LinesOf(r.order) : r.line[l].allocated > 0
                  /\ AllShipped(r, shipped, "allocated")
       IN
       /\ Sent(q) # {}
       /\ \A l \in Sent(q) : shipped[l] =< r.line[l].allocated
       /\ Fulfil(q)
       /\ all => r.status \in {"PRODUCTION", "READY_FOR_DISPATCH"}
       /\ SaveOrder(r, IF all THEN "SHIPPED" ELSE r.status, shipped)
       /\ session' = [session EXCEPT ![s] =
            [kind |-> "number", order |-> r.order, line |-> r.line, status |-> "SHIPPED",
             q |-> [l \in LinesOf(r.order) |->
                      IF line[l].status = "SHORT_CLOSED" THEN 0 ELSE q[l]],
             number |-> 0]]
  /\ UNCHANGED <<delivery, notified>>

\* deliver_order: the order is DELIVERED; then it is invoiced and its delivery orders
\* are delivered, or neither.
DeliverOrder(s) ==
  LET r == session[s] IN
  /\ r.kind = "deliver order"
  /\ \E invoiced \in BOOLEAN :
       /\ SaveOrder(r, IF invoiced THEN "INVOICED" ELSE "DELIVERED", << >>)
       /\ delivery' = [n \in DOMAIN delivery |->
            IF invoiced /\ delivery[n].order = r.order /\ delivery[n].status = "SHIPPED"
            THEN [delivery[n] EXCEPT !.status = "DELIVERED"] ELSE delivery[n]]
  /\ End(s)
  /\ UNCHANGED <<goods, notified>>

-----------------------------------------------------------------------------
(* Lines that are allocated in part *)

\* READY_FOR_DISPATCH once every line that is not short-closed is allocated in full
Ready(o, new) ==
  IF /\ status[o] = "PRODUCTION"
     /\ \A l \in LinesOf(o) : new[l].status # "SHORT_CLOSED" =>
          new[l].allocated >= new[l].quantity
  THEN "READY_FOR_DISPATCH" ELSE status[o]

\* What a line that was read still needs once n units more are allocated to it
NeedAgain(read, n) == Positive(read.quantity - read.allocated)  \* mutant: n is not deducted
Need(read, n) == Positive(read.quantity - read.allocated - n)

\* A work order of l delivers n units: they are allocated to the line as far as it needs
\* them, and what it then still needs is allocated a second time, from free stock.
ReceiveGoods(s) ==
  LET r == session[s]
      l == r.of
      p == ProductOf[l]
  IN
  /\ r.kind = "receive"
  /\ \E n \in 1..producing[l] :
       LET first  == Least(n, Need(r.line[l], 0))
           rest   == Least(n, Need(r.line[l], first))
           second == IF rest =< onHand[p] + n - reserved[p] - first THEN rest ELSE 0
           allocated == r.line[l].allocated + first + second
           new == [line EXCEPT ![l].allocated = IF first > 0 THEN allocated ELSE @,
                               ![l].status =
                                 IF first = 0 THEN @
                                 ELSE IF allocated >= r.line[l].quantity THEN "ALLOCATED"
                                 ELSE "PARTIAL"]
       IN
       /\ onHand' = [onHand EXCEPT ![p] = @ + n]
       /\ receipts' = [receipts EXCEPT ![p] = @ + n]
       /\ producing' = [producing EXCEPT ![l] = @ - n]
       /\ reserved' = [reserved EXCEPT ![p] = @ + first + second]
       /\ line' = new
       /\ status' = [status EXCEPT ![r.order] = Ready(r.order, new)]
  /\ End(s)
  /\ UNCHANGED <<delivery, notified>>

\* create_wo_for_remaining
CreateWoForRemaining(s) ==
  LET r == session[s]
      l == r.of
  IN
  /\ r.kind = "remaining"
  /\ r.line[l].quantity > r.line[l].allocated
  /\ producing' = [producing EXCEPT ![l] = @ + r.line[l].quantity - r.line[l].allocated]
  /\ line' = [line EXCEPT ![l].status = "BACKORDER"]
  /\ End(s)
  /\ UNCHANGED <<onHand, reserved, receipts, status, delivery, notified>>

\* short_close_line: the line now orders what it is allocated.
ShortCloseLine(s) ==
  LET r == session[s]
      l == r.of
      new == [line EXCEPT ![l].status = "SHORT_CLOSED", ![l].quantity = r.line[l].allocated]
  IN
  /\ r.kind = "short close"
  /\ r.line[l].allocated > 0
  /\ line' = new
  /\ status' = [status EXCEPT ![r.order] = Ready(r.order, new)]
  /\ End(s)
  /\ UNCHANGED <<goods, delivery, notified>>

-----------------------------------------------------------------------------
(* The specification *)

Init ==
  /\ line = [l \in Lines |-> [quantity |-> Ordered[l], allocated |-> InStock[l],
                              dispatched |-> 0, shipped |-> 0, status |-> "PENDING"]]
  /\ onHand = [p \in Products |-> SumFor(p, InStock)]
  /\ reserved = onHand
  /\ receipts = [p \in Products |-> 0]
  /\ producing = [l \in Lines |-> Ordered[l] - InStock[l]]
  /\ status = [o \in Orders |-> IF \A l \in LinesOf(o) : InStock[l] = Ordered[l]
                                THEN "READY_FOR_DISPATCH" ELSE "PRODUCTION"]
  /\ delivery = << >>
  /\ notified = {}
  /\ session = [s \in Sessions |-> Idle]

Step(s) ==
  \/ \E kind \in OnDelivery : \E n \in DOMAIN delivery : BeginOnDelivery(s, kind, n)
  \/ \E kind \in OnOrder : \E o \in Orders : BeginOnOrder(s, kind, o)
  \/ \E kind \in OnLine : \E l \in Lines : BeginOnLine(s, kind, l)
  \/ ResolveLines(s) \/ NextNumber(s) \/ InsertDelivery(s)
  \/ ShipDelivery(s) \/ Deliver(s) \/ CancelDelivery(s)
  \/ PackDelivery(s) \/ UpdateShipmentStatus(s) \/ DispatchOrder(s) \/ ConfirmDelivery(s)
  \/ ShipOrder(s) \/ DeliverOrder(s)
  \/ ReceiveGoods(s) \/ CreateWoForRemaining(s) \/ ShortCloseLine(s)
  \/ Abandon(s)

Next == \E s \in Sessions : Step(s)

Spec == Init /\ [][Next]_vars

(* Requests on one order follow each other; those on different orders interleave.
   A cancelled delivery is not revived from the dashboard. *)
OrderlyStep ==
  /\ \A s, t \in Sessions :
       s # t /\ session'[s] # Idle /\ session'[t] # Idle
         => session'[s].order # session'[t].order
  /\ \A s \in Sessions : session[s] = Idle /\ session'[s] # Idle =>
       ~ /\ session'[s].kind \in Updates
         /\ delivery[session'[s].of].status = "CANCELLED"

OrderlySpec == Init /\ [][Next /\ OrderlyStep]_vars

-----------------------------------------------------------------------------
(* Properties *)

(* Every table holds rows of its type; no quantity is negative. *)
TypeOK ==
  /\ onHand \in [Products -> Nat]
  /\ reserved \in [Products -> Nat]
  /\ receipts \in [Products -> Nat]
  /\ line \in [Lines -> Line]
  /\ producing \in [Lines -> Nat]
  /\ status \in [Orders -> OrderStatus]
  /\ \A n \in DOMAIN delivery : \E o \in Orders : delivery[n] \in Delivery(o)
  /\ notified \subseteq Orders
  /\ \A s \in Sessions : \/ session[s] = Idle
                         \/ \E o \in Orders : session[s] \in Request(o) \/ session[s] \in Creation(o)

\* Units of l in the deliveries of ns
InDeliveries(l, ns) ==
  Total([n \in {m \in ns : l \in DOMAIN delivery[m].of} |-> delivery[n].of[l]])

\* Delivery orders that take goods of their order: not the records of shipments
Open == {n \in DOMAIN delivery : ~delivery[n].document /\ delivery[n].status # "CANCELLED"}

(* dispatched_quantity is what the delivery orders that were not cancelled hold of the
   line: an order is never offered goods that a delivery has, nor denied those that a
   cancellation freed, while other orders' deliveries take the numbers it counts on. *)
DispatchedMatchesDeliveries == \A l \in Lines : line[l].dispatched = InDeliveries(l, Open)

(* The deliveries hold no more of a line than it is allocated: "ensures
   dispatch_quantity per line =< (allocated - dispatched)"
   (partial_fulfillment_service.py:7). *)
DeliveriesWithinAllocated == \A l \in Lines : InDeliveries(l, Open) =< line[l].allocated

(* What is reserved of a finished good is what lines are allocated and were not shipped. *)
ReservedMatchesLines ==
  \A p \in Products :
    reserved[p] = SumFor(p, [l \in Lines |-> line[l].allocated - line[l].shipped])

(* Goods leave the stock when, and only when, a line records them as shipped, on
   whichever of the two services they are shipped. *)
StockMatchesShipments ==
  \A p \in Products :
    onHand[p] + SumFor(p, [l \in Lines |-> line[l].shipped]) = SumFor(p, InStock) + receipts[p]

(* No line is allocated more than it orders, although a second work order may produce
   what the first still delivers, and a line may be closed short meanwhile. *)
AllocatedWithinOrdered == \A l \in Lines : line[l].allocated =< line[l].quantity
-----------------------------------------------------------------------------
(* What the properties rest on *)

Creating == {"number", "insert"}

\* What a request refers to is there, and does not change hands.
Refers(r) ==
  /\ r.kind \in OnDelivery => r.of \in DOMAIN delivery /\ delivery[r.of].order = r.order
  /\ r.kind \in OnLine => r.of \in LinesOf(r.order)
  /\ r.kind \in Creating => r.status \in {"DRAFT", "SHIPPED"}

(* The types of the tables, and the references between them. *)
Tables ==
  /\ TypeOK
  /\ Len(delivery) =< MaxDeliveries
  /\ \A s \in Sessions : session[s] # Idle => Refers(session[s])

ShippedWithinAllocated == \A l \in Lines : line[l].shipped =< line[l].allocated

\* The record of a shipment is never packed, nor cancelled.
DocumentsSent ==
  \A n \in DOMAIN delivery :
    delivery[n].document => delivery[n].status \notin {"DRAFT", "PACKING", "CANCELLED"}

\* Requests in progress are on different orders ...
OrdersApart ==
  \A s, t \in Sessions :
    s # t /\ session[s] # Idle /\ session[t] # Idle => session[s].order # session[t].order

\* ... so that what a request has read still holds; only the record of a shipment is
\* made from lines that were read before it.
Holds(r) ==
  /\ ~ (r.kind \in Creating /\ r.status = "SHIPPED")
       => r.line = [l \in LinesOf(r.order) |-> line[l]]
  /\ r.kind \in OnDelivery \ Updates => delivery[r.of].status \in Accepts(r.kind)
  /\ r.kind \in Updates => delivery[r.of].status # "CANCELLED"

ReadHolds == \A s \in Sessions : session[s] # Idle => Holds(session[s])

(* The inductive invariant of OrderlySpec. *)
Inv ==
  /\ Tables
  /\ OrdersApart
  /\ ReadHolds
  /\ DocumentsSent
  /\ ShippedWithinAllocated
  /\ AllocatedWithinOrdered
  /\ DispatchedMatchesDeliveries
  /\ ReservedMatchesLines
  /\ StockMatchesShipments
=============================================================================
