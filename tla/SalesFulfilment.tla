--------------------------- MODULE SalesFulfilment ---------------------------
(***************************************************************************)
(* Finished goods and sales orders: how an order is approved, confirmed    *)
(* against the finished stock and the client's credit, how the goods its   *)
(* work orders produce are received and reserved for it, and how it is     *)
(* shipped, delivered, invoiced, completed or cancelled.                   *)
(*                                                                         *)
(* A request reads the order (or the work order) without a lock and writes *)
(* it back when it commits, whatever others wrote in between: the first is *)
(* a Begin step, the second a step named after the handler.  Only the row  *)
(* of a finished good is locked, so stock and reserved stock are those of  *)
(* the commit; the client's credit, and what a confirmation believes to be *)
(* available, may be either.  A request that fails changes nothing.        *)
(*                                                                         *)
(* There is one client.  A session runs one request at a time.             *)
(***************************************************************************)
EXTENDS Integers, Sequences, UnitCount

CONSTANTS
  Orders, Lines, Products, Sessions,
  OrderOf,        \* OrderOf[l]: the order that line l belongs to
  ProductOf,      \* ProductOf[l]: the finished good that l orders
  Ordered,        \* Ordered[l]: the quantity it orders
  Amount,         \* Amount[o]: grand total of order o
  CreditLimit,    \* credit limit of the client, 0 for none
  InitialStock,   \* InitialStock[p]: finished stock at the start
  IsMaterial,     \* IsMaterial[p]: the lines name p by the id of its materials row
  MaxWorkOrders   \* bound: work orders created for a line

ASSUME FiniteOrders == IsFiniteSet(Lines) /\ IsFiniteSet(Orders)
ASSUME LineAssumption ==
  /\ OrderOf \in [Lines -> Orders]
  /\ ProductOf \in [Lines -> Products]
  /\ Ordered \in [Lines -> Nat \ {0}]
\* Not enforced by the code: SalesOrder.add_line takes a second line of a product.  Of
\* two such lines a receipt takes the first that has its product or its work order.
ASSUME OneLinePerProduct ==
  \A k, l \in Lines : OrderOf[k] = OrderOf[l] /\ ProductOf[k] = ProductOf[l] => k = l
ASSUME EveryOrderHasLines == \A o \in Orders : \E l \in Lines : OrderOf[l] = o
ASSUME MoneyAssumption == Amount \in [Orders -> Nat \ {0}] /\ CreditLimit \in Nat
ASSUME StockAssumption == InitialStock \in [Products -> Nat] /\ IsMaterial \in [Products -> BOOLEAN]
ASSUME BoundAssumption == MaxWorkOrders \in Nat

VARIABLES
  onHand,      \* onHand[p]: finished stock of p
  reserved,    \* reserved[p]: materials.reserved_stock of p
  status,      \* sales_orders.status
  line,        \* line[l]: the quantities of a sales_order_lines row
  rows,        \* inventory_reservations: <<order or line, product>>
  wo,          \* wo[l]: the work orders created for l
  creditUsed,  \* clients.credit_used
  session      \* session[c]: the request of c that has begun, with what it read

vars == <<onHand, reserved, status, line, rows, wo, creditUsed, session>>
stockVars == <<onHand, reserved, rows>>

-----------------------------------------------------------------------------
(* Orders, lines and work orders *)

\* SalesOrder.VALID_TRANSITIONS.  WORK_ORDER_CREATED, which only the workflow routes
\* write, is left out.
Targets ==
  [DRAFT              |-> {"PENDING_APPROVAL", "CONFIRMED", "CANCELLED"},
   PENDING_APPROVAL   |-> {"APPROVED", "REJECTED", "CANCELLED"},
   APPROVED           |-> {"CONFIRMED", "PROCESSING", "CANCELLED"},
   REJECTED           |-> {},
   CONFIRMED          |-> {"READY_FOR_DISPATCH", "PROCESSING", "PRODUCTION", "READY", "CANCELLED"},
   PROCESSING         |-> {"PRODUCTION", "READY", "READY_FOR_DISPATCH", "CANCELLED"},
   PRODUCTION         |-> {"READY", "READY_FOR_DISPATCH", "CANCELLED"},
   READY              |-> {"READY_FOR_DISPATCH", "SHIPPED", "CANCELLED"},
   READY_FOR_DISPATCH |-> {"SHIPPED", "CANCELLED"},
   SHIPPED            |-> {"DELIVERED", "CANCELLED"},
   DELIVERED          |-> {"INVOICED", "CANCELLED"},
   INVOICED           |-> {"PAYMENT_RECEIVED", "CANCELLED"},
   PAYMENT_RECEIVED   |-> {"COMPLETED"},
   COMPLETED          |-> {},
   CANCELLED          |-> {}]

Status == DOMAIN Targets

CanBecome(from, to) == to \in Targets[from]

LineColumns == {"allocated", "shipped", "shortfall", "backorder"}

LinesOf(o) == {l \in Lines : OrderOf[l] = o}

\* A work order a shortage created.  receipt is the quantity of its FG_RECEIPT
\* transaction, 0 when there is none.
WorkOrder == [status : {"OPEN", "QC_PENDING", "FG_RECEIVED"},
              planned : Nat, produced : Nat, scrap : Nat, receipt : Nat]

NewWorkOrder(n) ==
  [status |-> "OPEN", planned |-> n, produced |-> 0, scrap |-> 0, receipt |-> 0]

Positive(n) == IF n > 0 THEN n ELSE 0

Least(a, b) == IF a =< b THEN a ELSE b

\* get_available_stock
Free(p) == Positive(onHand[p] - reserved[p])

\* What reserve_sales_stock compares the quantity with.
ReservableUnchecked(p) == onHand[p]    \* mutant: other reservations are not deducted
Reservable(p) == Free(p)

\* reserved_stock after n units of it are released or shipped
ReleasedUnclamped(n, q) == n - q       \* mutant: no lower bound
ReleasedNever(n, q) == n               \* mutant: not lowered at all
Released(n, q) == Positive(n - q)

\* The stock of p once n units of it are shipped.
StockKept(p, n) == onHand[p]           \* mutant: only the reservation is lowered
StockLess(p, n) == onHand[p] - n

\* The sum of q over the lines of ls whose reservation is of product p.
SumFor(p, ls, product, q) == Total([l \in {k \in ls : product[k] = p} |-> q[l]])

\* The reservation rows that a release or a shipment of l may find: those of the
\* line, and without any those of its order, whatever their product.
RowsFor(l) ==
  LET own == {p \in Products : <<l, p>> \in rows} IN
  IF own # {} THEN own ELSE {p \in Products : <<OrderOf[l], p>> \in rows}

\* `first()` takes one of the rows found.
Found(ls) == {f \in [ls -> Products] : \A l \in ls : f[l] \in RowsFor(l)}

-----------------------------------------------------------------------------
(* Requests *)

Idle == [kind |-> "NONE"]

OrderKinds == {"SUBMIT", "REJECT", "APPROVE", "CONFIRM", "CANCEL", "SHIP",
               "DELIVER", "INVOICE", "COMPLETE"}

OrderRequest(o) ==
  [kind : OrderKinds, order : {o}, status : Status,
   line : [LinesOf(o) -> [LineColumns -> Nat]],
   credit : Nat, free : [Products -> Nat]]

\* A receipt of finished goods on the path of the quality inspection or of the
\* workflow service.
ReceiptRequest ==
  [kind : {"INSPECT", "WORKFLOW"}, of : Lines, wo : Nat \ {0}, receipt : Nat]

Requests == {Idle} \cup ReceiptRequest \cup UNION {OrderRequest(o) : o \in Orders}

\* The states in which the handler of a request does not refuse the order it read.
Accepts(kind, s) ==
  CASE kind = "SUBMIT"   -> CanBecome(s, "PENDING_APPROVAL")
    [] kind = "REJECT"   -> CanBecome(s, "REJECTED")
    [] kind = "APPROVE"  -> CanBecome(s, "APPROVED")
    [] kind = "CONFIRM"  -> s \in {"DRAFT", "APPROVED"}
    [] kind = "CANCEL"   -> CanBecome(s, "CANCELLED")
    [] kind = "SHIP"     -> TRUE
    [] kind = "DELIVER"  -> CanBecome(s, "DELIVERED")
    [] kind = "INVOICE"  -> s = "DELIVERED"
    [] kind = "COMPLETE" -> s = "PAYMENT_RECEIVED" \/ CanBecome(s, "PAYMENT_RECEIVED")

BeginOrderRequest(c, kind, o) ==
  /\ session[c] = Idle
  /\ Accepts(kind, status[o])
  /\ kind = "SHIP" => \E l \in LinesOf(o) : line[l].shipped < line[l].allocated
  /\ session' = [session EXCEPT ![c] =
       [kind |-> kind, order |-> o, status |-> status[o],
        line |-> [l \in LinesOf(o) |-> line[l]],
        credit |-> IF kind \in {"APPROVE", "CONFIRM", "CANCEL"} THEN creditUsed ELSE 0,
        free |-> [p \in Products |-> IF kind \in {"APPROVE", "CONFIRM"} THEN Free(p) ELSE 0]]]
  /\ UNCHANGED <<stockVars, status, line, wo, creditUsed>>

\* approve_inspection wants QC_PENDING; on_qc_approved takes FG_RECEIVED as well.
BeginReceipt(c, kind, l, i) ==
  /\ session[c] = Idle
  /\ wo[l][i].status \in (IF kind = "INSPECT" THEN {"QC_PENDING"}
                                              ELSE {"QC_PENDING", "FG_RECEIVED"})
  /\ session' = [session EXCEPT ![c] =
       [kind |-> kind, of |-> l, wo |-> i, receipt |-> wo[l][i].receipt]]
  /\ UNCHANGED <<stockVars, status, line, wo, creditUsed>>

End(c) == session' = [session EXCEPT ![c] = Idle]

\* A request fails and is rolled back.
Abandon(c) ==
  /\ session[c] # Idle
  /\ End(c)
  /\ UNCHANGED <<stockVars, status, line, wo, creditUsed>>

\* What a column holds after SalesOrderRepository.save.  merge() compares the
\* entity with the object the session still holds, and then writes the columns
\* that the request changed, or, when that object is gone, with the row as it is
\* now, and then the entity replaces all of it.
Saved(refreshed, current, read, new) ==
  IF refreshed \/ new # read THEN new ELSE current

SaveOrder(o, readStatus, newStatus, readLine, newLine) ==
  \E refreshed \in BOOLEAN :
    /\ status' = [status EXCEPT ![o] = Saved(refreshed, @, readStatus, newStatus)]
    /\ line' = [l \in Lines |->
         IF l \in LinesOf(o)
         THEN [f \in LineColumns |->
                 Saved(refreshed, line[l][f], readLine[l][f], newLine[l][f])]
         ELSE line[l]]

-----------------------------------------------------------------------------
(* Initial state: draft orders, some finished stock *)

Init ==
  /\ onHand     = InitialStock
  /\ reserved   = [p \in Products |-> 0]
  /\ status     = [o \in Orders |-> "DRAFT"]
  /\ line       = [l \in Lines |-> [f \in LineColumns |-> 0]]
  /\ rows       = {}
  /\ wo         = [l \in Lines |-> << >>]
  /\ creditUsed = 0
  /\ session    = [c \in Sessions |-> Idle]

-----------------------------------------------------------------------------
(* Approval *)

Move(c, kind, target) ==
  LET r == session[c] IN
  /\ r.kind = kind
  /\ SaveOrder(r.order, r.status, target, r.line, r.line)
  /\ End(c)
  /\ UNCHANGED <<stockVars, wo, creditUsed>>

Submit(c)  == Move(c, "SUBMIT", "PENDING_APPROVAL")
Reject(c)  == Move(c, "REJECT", "REJECTED")
Deliver(c) == Move(c, "DELIVER", "DELIVERED")

-----------------------------------------------------------------------------
(* Confirmation *)

NoLimit(used, amount) == TRUE          \* mutant: the limit is not checked
WithinLimit(used, amount) == CreditLimit = 0 \/ used + amount =< CreditLimit

\* The client is read once for the check and once for the allocation.
AllocateCredit(r) ==
  \E checked, used \in {r.credit, creditUsed} :
    /\ WithinLimit(checked, Amount[r.order])
    /\ WithinLimit(used, Amount[r.order])
    /\ creditUsed' = used + Amount[r.order]

\* The end of a confirmation: from the lines it read, what it reserves of each
\* and what is short of it.
ConfirmLines(c, read, take, short) ==
  LET r   == session[c]
      ls  == LinesOf(r.order)
      new == [l \in ls |->
                [read[l] EXCEPT !.allocated = @ + take[l],
                                !.shortfall = IF short[l] > 0 THEN short[l] ELSE @,
                                !.backorder = IF short[l] > 0 THEN short[l] ELSE @]]
  IN
  /\ AllocateCredit(r)
  /\ \A l \in ls : /\ take[l] =< Reservable(ProductOf[l])
                   /\ read[l].allocated + take[l] + short[l] =< Ordered[l]
  /\ reserved' = [p \in Products |-> reserved[p] + SumFor(p, ls, ProductOf, take)]
  /\ rows' = rows \cup {<<r.order, ProductOf[l]>> : l \in {k \in ls : take[k] > 0}}
  /\ \E made \in SUBSET {l \in ls : short[l] > 0 /\ Len(wo[l]) < MaxWorkOrders} :
       wo' = [l \in Lines |-> IF l \in made THEN Append(wo[l], NewWorkOrder(short[l]))
                                            ELSE wo[l]]
  /\ SaveOrder(r.order, r.status,
               IF \E l \in ls : new[l].backorder > 0 THEN "PRODUCTION"
               ELSE IF \A l \in ls : new[l].allocated >= Ordered[l]
                    THEN "READY_FOR_DISPATCH" ELSE "CONFIRMED",
               read, new)
  /\ End(c)
  /\ UNCHANGED onHand

\* What the confirmation of c believes to be available: the material it reads
\* before it waits for the lock is not read again.
Believed(c, stale, l) ==
  IF ProductOf[l] \in stale THEN session[c].free[ProductOf[l]] ELSE Free(ProductOf[l])

\* The confirmation of a draft: a line is reserved whole or not at all.
Confirm(c) ==
  /\ session[c].kind = "CONFIRM"
  /\ \E stale \in SUBSET Products :
       ConfirmLines(c, session[c].line,
         [l \in LinesOf(session[c].order) |->
            IF Believed(c, stale, l) >= Ordered[l] THEN Ordered[l] ELSE 0],
         [l \in LinesOf(session[c].order) |-> Positive(Ordered[l] - Believed(c, stale, l))])

\* The approval saves the order and confirms it in the same transaction; it
\* reads the lines a second time, and a line is reserved as far as stock goes.
Approve(c) ==
  /\ session[c].kind = "APPROVE"
  /\ \E stale \in SUBSET Products, read \in {session[c].line,
                                             [l \in LinesOf(session[c].order) |-> line[l]]} :
       ConfirmLines(c, read,
         [l \in LinesOf(session[c].order) |-> Least(Believed(c, stale, l), Ordered[l])],
         [l \in LinesOf(session[c].order) |-> Positive(Ordered[l] - Believed(c, stale, l))])

-----------------------------------------------------------------------------
(* Cancellation *)

CreditHeld == {"CONFIRMED", "PRODUCTION", "READY", "SHIPPED"}

\* Every allocated line releases what it was allocated, shipped or not, and
\* keeps its allocated quantity.
Cancel(c) ==
  LET r    == session[c]
      held == {l \in LinesOf(r.order) : r.line[l].allocated > 0 /\ RowsFor(l) # {}}
      allocated == [l \in held |-> r.line[l].allocated]
  IN
  /\ r.kind = "CANCEL"
  /\ \E found \in Found(held) :
       reserved' = [p \in Products |-> Released(reserved[p], SumFor(p, held, found, allocated))]
  /\ IF r.status \in CreditHeld
     THEN \E used \in {r.credit, creditUsed} :
            used >= Amount[r.order] /\ creditUsed' = used - Amount[r.order]
     ELSE UNCHANGED creditUsed
  /\ SaveOrder(r.order, r.status, "CANCELLED", r.line, r.line)
  /\ End(c)
  /\ UNCHANGED <<onHand, rows, wo>>

-----------------------------------------------------------------------------
(* Shipment and completion *)

\* The quantities one request ships of the lines of o; 0 for a line it leaves out.
Shipments(o) == [LinesOf(o) -> UNION {0..Ordered[l] : l \in LinesOf(o)}]

ReadyToShip(s) == IF s \in {"CONFIRMED", "PRODUCTION"} THEN "READY" ELSE s

Ship(c) ==
  LET r == session[c] IN
  /\ r.kind = "SHIP"
  /\ \E q \in Shipments(r.order) :
       LET sent == {l \in LinesOf(r.order) : q[l] > 0}
           new  == [l \in LinesOf(r.order) |-> [r.line[l] EXCEPT !.shipped = @ + q[l]]]
           all  == \A l \in LinesOf(r.order) :
                     new[l].allocated > 0 /\ new[l].shipped >= new[l].allocated
       IN
       /\ sent # {}
       /\ \A l \in sent : new[l].shipped =< new[l].allocated
       /\ \E found \in Found(sent) :
            /\ \A p \in Products : SumFor(p, sent, found, q) =< onHand[p]
            /\ onHand' = [p \in Products |-> StockLess(p, SumFor(p, sent, found, q))]
            /\ reserved' = [p \in Products |->
                              Released(reserved[p], SumFor(p, sent, found, q))]
       /\ all => CanBecome(ReadyToShip(r.status), "SHIPPED")
       /\ SaveOrder(r.order, r.status, IF all THEN "SHIPPED" ELSE r.status, r.line, new)
  /\ End(c)
  /\ UNCHANGED <<rows, wo, creditUsed>>

\* create_invoice_from_sales_order writes the status alone.
Invoice(c) ==
  LET r == session[c] IN
  /\ r.kind = "INVOICE"
  /\ status' = [status EXCEPT ![r.order] = "INVOICED"]
  /\ End(c)
  /\ UNCHANGED <<stockVars, line, wo, creditUsed>>

\* close_sales_order, or the full payment: what the lines were allocated is
\* released, although it was shipped; a line that names its product by the id of
\* a variant finds no material, and that is logged.
Complete(c) ==
  LET r  == session[c]
      ls == {l \in LinesOf(r.order) : IsMaterial[ProductOf[l]]}
  IN
  /\ r.kind = "COMPLETE"
  /\ status' = [status EXCEPT ![r.order] = "COMPLETED"]
  /\ reserved' = [p \in Products |->
       Released(reserved[p], SumFor(p, ls, ProductOf, [l \in ls |-> line[l].allocated]))]
  /\ End(c)
  /\ UNCHANGED <<onHand, rows, line, wo, creditUsed>>

-----------------------------------------------------------------------------
(* Receipt of finished goods *)

\* Production and handle_complete, for a work order of a sales order: something
\* was produced, and no more than planned (see WorkOrderMaterials).
SubmitForQC(l, i) ==
  /\ wo[l][i].status = "OPEN"
  /\ \E made \in 1..wo[l][i].planned : \E bad \in 0..made :
       wo' = [wo EXCEPT ![l][i] = [@ EXCEPT !.status = "QC_PENDING",
                                            !.produced = made, !.scrap = bad]]
  /\ UNCHANGED <<stockVars, status, line, creditUsed, session>>

\* What receive_fg adds when n units are to be received: nothing when the work
\* order, now locked, has its receipt.
NewReceiptAgain(l, i, n) == n           \* mutant: the receipt is not looked for
NewReceipt(l, i, n) == IF wo[l][i].receipt = 0 THEN n ELSE 0

\* The work order is FG_RECEIVED and n units of its product are added to the stock.
ReceiveFG(l, i, n) ==
  /\ onHand' = [onHand EXCEPT ![ProductOf[l]] = @ + n]
  /\ wo' = [wo EXCEPT ![l][i] =
              [@ EXCEPT !.status = "FG_RECEIVED", !.receipt = wo[l][i].receipt + n]]

AnyAllocated(o, allocated) ==           \* mutant: one allocated line is enough
  \E l \in LinesOf(o) : allocated[l] > 0
FullyAllocated(o, allocated) == \A l \in LinesOf(o) : allocated[l] >= Ordered[l]

\* Units of l still to be allocated once n more are.
NeedIgnoringAllocated(l, n) == Ordered[l] - n     \* mutant
Need(l, n) == Positive(Ordered[l] - line[l].allocated - n)

\* approve_inspection with FGReceiveCommandHandler and on_fg_received: the net
\* output is received and allocated to the line, and what the line still needs
\* is allocated a second time, if there is stock for it.
ApproveInspection(c) ==
  LET r   == session[c]
      l   == r.of
      p   == ProductOf[l]
      w   == wo[l][r.wo]
      net == Positive(w.produced - w.scrap)
      got == NewReceipt(l, r.wo, net)
      first  == Least(net, Need(l, 0))
      rest   == Least(net, Need(l, first))
      second == IF rest =< onHand[p] + got - reserved[p] - first THEN rest ELSE 0
      allocated == [k \in Lines |-> line[k].allocated + IF k = l THEN first + second ELSE 0]
  IN
  /\ r.kind = "INSPECT"
  /\ first > 0 => first =< onHand[p] + got - reserved[p]
  /\ ReceiveFG(l, r.wo, got)
  /\ reserved' = [reserved EXCEPT ![p] = @ + first + second]
  /\ line' = [line EXCEPT ![l].allocated = allocated[l]]
  /\ rows' = IF first + second > 0 THEN rows \cup {<<l, p>>} ELSE rows
  /\ status' = [status EXCEPT ![OrderOf[l]] =
                  IF FullyAllocated(OrderOf[l], allocated) /\ CanBecome(@, "READY_FOR_DISPATCH")
                  THEN "READY_FOR_DISPATCH" ELSE @]
  /\ End(c)
  /\ UNCHANGED creditUsed

\* on_qc_approved: what was produced is received, scrap included, unless the work
\* order had its receipt when it was read, and reserved for the shortfall of the
\* line; the order is left as it is.
OnQcApproved(c) ==
  LET r    == session[c]
      l    == r.of
      p    == ProductOf[l]
      w    == wo[l][r.wo]
      got  == NewReceipt(l, r.wo, w.produced)
      want == IF line[l].shortfall > 0 THEN Least(w.produced, line[l].shortfall)
                                       ELSE w.produced
      take == IF want =< onHand[p] + got - reserved[p] THEN want ELSE 0
  IN
  /\ r.kind = "WORKFLOW"
  /\ IF r.receipt = 0
     THEN /\ ReceiveFG(l, r.wo, got)
          /\ reserved' = [reserved EXCEPT ![p] = @ + take]
          /\ line' = [line EXCEPT ![l].allocated = @ + take,
                                   ![l].shortfall = Positive(@ - take)]
          /\ rows' = IF take > 0 THEN rows \cup {<<OrderOf[l], p>>} ELSE rows
     ELSE /\ wo' = [wo EXCEPT ![l][r.wo] = [@ EXCEPT !.status = "FG_RECEIVED"]]
          /\ UNCHANGED <<stockVars, line>>
  /\ End(c)
  /\ UNCHANGED <<status, creditUsed>>

-----------------------------------------------------------------------------
(* The specification *)

OrderStep(c) ==
  \/ Submit(c) \/ Reject(c) \/ Approve(c) \/ Confirm(c) \/ Cancel(c)
  \/ Ship(c) \/ Deliver(c) \/ Invoice(c) \/ Complete(c)

Next ==
  \/ \E c \in Sessions, kind \in OrderKinds, o \in Orders : BeginOrderRequest(c, kind, o)
  \/ \E c \in Sessions, kind \in {"INSPECT", "WORKFLOW"}, l \in Lines :
       \E i \in DOMAIN wo[l] : BeginReceipt(c, kind, l, i)
  \/ \E c \in Sessions : OrderStep(c)
  \/ \E c \in Sessions : ApproveInspection(c) \/ OnQcApproved(c)
  \/ \E c \in Sessions : Abandon(c)
  \/ \E l \in Lines : \E i \in DOMAIN wo[l] : SubmitForQC(l, i)

Spec == Init /\ [][Next]_vars

-----------------------------------------------------------------------------
(* Properties *)

(* Every table holds rows of its type; no quantity is negative. *)
TypeOK ==
  /\ onHand \in [Products -> Nat]
  /\ reserved \in [Products -> Nat]
  /\ status \in [Orders -> Status]
  /\ line \in [Lines -> [LineColumns -> Nat]]
  /\ rows \subseteq (Orders \cup Lines) \X Products
  /\ wo \in [Lines -> Seq(WorkOrder)]
  /\ creditUsed \in Nat
  /\ session \in [Sessions -> Requests]

(* Whatever requests interleave, and whichever stale orders they write back, no
   more finished goods are reserved than are on hand. *)
ReservedWithinStock == \A p \in Products : reserved[p] =< onHand[p]

(* Confirmations that both read the client before either wrote it do not take its
   recorded credit over the limit. *)
CreditWithinLimit == CreditLimit = 0 \/ creditUsed =< CreditLimit

(* A receipt in progress is that of a work order there is: a fact the others need. *)
ReceiptsOfWorkOrders ==
  \A c \in Sessions : session[c] \in ReceiptRequest =>
    session[c].wo \in DOMAIN wo[session[c].of]

(* Nor is the credit that a request read over the limit: a cancellation may write
   the credit it read, less its amount. *)
CreditReadWithinLimit ==
  \A c \in Sessions : session[c].kind \in OrderKinds =>
    CreditLimit = 0 \/ session[c].credit =< CreditLimit

(* The inductive invariant. *)
Inv == /\ TypeOK /\ ReceiptsOfWorkOrders /\ CreditReadWithinLimit
       /\ ReservedWithinStock /\ CreditWithinLimit

(* Stock only rises with the first receipt of a work order of that product, by the
   quantity of the receipt, and a receipt is never changed. *)
RisesWithReceipts ==
  /\ \A p \in Products : onHand'[p] > onHand[p] =>
       \E l \in Lines : \E i \in DOMAIN wo[l] :
         /\ ProductOf[l] = p /\ wo[l][i].receipt = 0
         /\ wo'[l][i].receipt = onHand'[p] - onHand[p]
  /\ \A l \in Lines : \A i \in DOMAIN wo[l] :
       wo[l][i].receipt > 0 => wo'[l][i].receipt = wo[l][i].receipt

(* The output of a work order enters the stock once, although two paths receive
   it and both may have begun before either commits. *)
GoodsReceivedOnce == [][RisesWithReceipts]_vars

LinesFor(p) == {l \in Lines : ProductOf[l] = p}

\* Units received from the work orders of l.
ReceivedFor(l) == Total([i \in DOMAIN wo[l] |-> wo[l][i].receipt])

\* The order of l was cancelled, or completed with its reservations found: all that l
\* was allocated has been released.
Closed(l) ==
  \/ status[OrderOf[l]] = "CANCELLED"
  \/ status[OrderOf[l]] = "COMPLETED" /\ IsMaterial[ProductOf[l]]

Unshipped(l) == Positive(line[l].allocated - line[l].shipped)

\* What must be reserved for l, and what may be: goods that production delivers for a
\* closed order are reserved all the same.
OpenAllocation(l) == IF Closed(l) THEN 0 ELSE Unshipped(l)
Claim(l) == IF Closed(l) /\ ReceivedFor(l) = 0 THEN 0 ELSE Unshipped(l)

\* Units of l released when they were shipped and released again with the order.
ReleasedTwice(l) == IF Closed(l) THEN line[l].shipped ELSE 0

(* What is reserved of a finished good is what the lines of the open orders are
   allocated and were not shipped.  It exceeds that at most by what production
   delivered for closed orders, and falls short of it at most by what was shipped of
   them: a cancellation or a completion releases all that was allocated, out of the
   reservations of the others, and that loss never grows beyond those units. *)
ReservationsMatchLines ==
  \A p \in Products :
    /\ reserved[p] =< Total([l \in LinesFor(p) |-> Claim(l)])
    /\ Total([l \in LinesFor(p) |-> OpenAllocation(l)])
         =< reserved[p] + Total([l \in LinesFor(p) |-> ReleasedTwice(l)])

(* What is on hand and what the orders' lines record as shipped is the initial
   stock and the receipts from production. *)
StockConserved ==
  \A p \in Products :
    onHand[p] + Total([l \in LinesFor(p) |-> line[l].shipped])
      = InitialStock[p] + Total([l \in LinesFor(p) |-> ReceivedFor(l)])

(* No line is allocated more than it ordered, although a confirmation, the
   inspection (twice) and the workflow service all add to it. *)
AllocatedWithinOrdered == \A l \in Lines : line[l].allocated =< Ordered[l]

(* The dispatch queue only offers orders that are allocated in full. *)
ReadyMeansAllocated ==
  \A o \in Orders : status[o] = "READY_FOR_DISPATCH" =>
    \A l \in LinesOf(o) : line[l].allocated >= Ordered[l]
-----------------------------------------------------------------------------
(* What these four rest on, when requests follow each other *)

(* What a request read is still so when it commits. *)
ReadHolds ==
  \A c \in Sessions :
    LET r == session[c] IN
    /\ r.kind \in OrderKinds =>
         /\ r.status = status[r.order] /\ Accepts(r.kind, r.status)
         /\ r.line = [l \in LinesOf(r.order) |-> line[l]]
    /\ r.kind \in {"INSPECT", "WORKFLOW"} =>
         /\ r.receipt = wo[r.of][r.wo].receipt
         /\ r.kind = "INSPECT" => wo[r.of][r.wo].status = "QC_PENDING"

Early == {"DRAFT", "PENDING_APPROVAL", "APPROVED"}

\* A line with quantities q, of an order in state s, for which works were created and
\* which ordered n: it has a work order at most, from its confirmation on, and as long
\* as nothing was received from it what the line is short of is still recorded.
BookKept(q, works, s, n) ==
  /\ q.shipped =< q.allocated /\ q.allocated =< n
  /\ s \in Early => DOMAIN works = {}
  /\ DOMAIN works \subseteq {1}
  /\ \A i \in DOMAIN works :
       /\ works[i].receipt = 0 => q.shortfall > 0 /\ q.allocated + q.shortfall =< n
       /\ works[i].status # "FG_RECEIVED" => works[i].receipt = 0

Books == \A l \in Lines : BookKept(line[l], wo[l], status[OrderOf[l]], Ordered[l])

(* A reservation is of the product of the line it is for, or of the lines of its
   order. *)
RowsOfProduct ==
  \A l \in Lines : \A p \in Products :
    <<l, p>> \in rows \/ <<OrderOf[l], p>> \in rows => p = ProductOf[l]

(* Every line that is allocated something has a reservation to be released. *)
AllocationsHaveRows == \A l \in Lines : line[l].allocated > 0 => RowsFor(l) # {}

BooksInv  == Inv /\ ReadHolds /\ Books /\ ReadyMeansAllocated
StockInv  == BooksInv /\ RowsOfProduct /\ StockConserved
LedgerInv == StockInv /\ AllocationsHaveRows /\ ReservationsMatchLines
=============================================================================
