------------------------------ MODULE Procurement ------------------------------
(***************************************************************************)
(* Purchasing one material: requests for it, requests for quotation, the   *)
(* purchase orders they are awarded to, the receipts of goods and their    *)
(* reversal, and the manual changes of the same stock.                     *)
(*                                                                         *)
(* Most handlers read a row without a lock, check its status and write it  *)
(* when they commit: a Begin step and a step named after the handler.  A   *)
(* receipt and a reversal lock the order, so a write of another request to *)
(* it waits until they commit; all that take a document number wait for    *)
(* each other on the row of the sequence.  A commit that changes stock has *)
(* the row of the material locked, but may have loaded it before.          *)
(*                                                                         *)
(* An order has one line: its lines cannot be changed once it is created.  *)
(***************************************************************************)
EXTENDS StockBuckets

CONSTANTS
  Orders, Quotations, Requests, Notes, Sessions,
  Warehouse,       \* Warehouse[l]: l is a location goods are received at
  QuarantineAt,    \* the first quarantine location
  Ordered,         \* Ordered[p]: quantity of the line of order p
  RequestOf,       \* RequestOf[r]: the material request that quotation r is for
  NoOrder,         \* no order awarded yet
  Inspected,       \* materials.inspection_required
  InitialLevel,    \* the buckets at the start
  Quantities,      \* bound: quantities that a request may name
  MaxStock         \* bound: stock that manual additions may reach

ASSUME FiniteDocuments ==
  IsFiniteSet(Orders) /\ IsFiniteSet(Notes) /\ IsFiniteSet(Requests)
ASSUME OrderAssumption == Ordered \in [Orders -> Nat \ {0}] /\ NoOrder \notin Orders
ASSUME QuotationAssumption == RequestOf \in [Quotations -> Requests]
ASSUME PlaceAssumption ==
  Warehouse \subseteq Locations /\ QuarantineAt \in Locations \ Warehouse
ASSUME MaterialAssumption == Inspected \in BOOLEAN /\ InitialLevel \in Levels
ASSUME QuantityAssumption == Quantities \subseteq Nat \ {0} /\ MaxStock \in Nat

VARIABLES
  order,         \* purchase_orders and their lines
  quotation,     \* rfqs
  request,       \* material_requests
  note,          \* goods receipt notes, with the transaction that each receipt logged
  level,         \* stock_levels
  currentStock,  \* materials.current_stock
  ledger,        \* sum of quantity_change over the stock ledger
  session        \* session[s]: the request that s has begun, with what it read

stockVars == <<level, currentStock, ledger>>
vars == <<order, quotation, request, note, stockVars, session>>

-----------------------------------------------------------------------------
(* Documents *)

OrderStatus == {"none", "draft", "sent", "acknowledged", "partial", "received", "cancelled"}
QuotationStatus == {"none", "draft", "sent", "awarded"}

Order == [status : OrderStatus, deleted : BOOLEAN, received : Nat]
Quotation == [status : QuotationStatus, deleted : BOOLEAN, order : Orders \cup {NoOrder}]
Request == [status : {"none", "open", "fulfilled"}, deleted : BOOLEAN,
            required : Nat, fulfilled : Nat]
Note == [status : {"none", "pending_receipt", "received", "reversed"},
         order : Orders \cup {NoOrder}, quantity : Nat, accepted : Nat, logged : BOOLEAN]

Receivable == {"sent", "acknowledged", "partial"}

Outstanding(p) == Ordered[p] - order[p].received

\* The status of an order that has received n, when the request read `was`.
StatusAfter(p, n, was) ==
  IF n >= Ordered[p] THEN "received" ELSE IF n > 0 THEN "partial" ELSE was

\* A reversal that leaves nothing received puts the order back.
Reopened(was) == IF was \in {"acknowledged", "partial", "received"} THEN "acknowledged" ELSE "sent"

\* A column holds the new value when it differs from the one that was read.
Written(now, read, new) == IF new = read THEN now ELSE new

Less(n, q) == IF q < n THEN n - q ELSE 0

\* A receipt of q against p counts for the open requests whose quotation it was awarded.
RequestsOpen(p) == {m \in Requests : request[m].status = "open"}   \* mutant: any open request
RequestsFor(p) ==
  {m \in Requests :
     /\ request[m].status = "open" /\ ~request[m].deleted
     /\ \E r \in Quotations : /\ RequestOf[r] = m
                              /\ quotation[r].order = p /\ ~quotation[r].deleted}

Credited(m, q) ==
  LET next == Smaller(request[m].required, request[m].fulfilled + q)
  IN  [request[m] EXCEPT !.fulfilled = next,
                         !.status = IF next >= request[m].required THEN "fulfilled" ELSE @]

-----------------------------------------------------------------------------
(* Requests in progress and their locks *)

Idle == [kind |-> "none"]

End(s) == session' = [session EXCEPT ![s] = Idle]

\* What an unlocked handler accepts, and the status it writes.
Transition ==
  [send        |-> [from |-> {"draft"}, to |-> "sent"],
   acknowledge |-> [from |-> {"sent"}, to |-> "acknowledged"],
   cancel      |-> [from |-> OrderStatus \ {"none", "received"}, to |-> "cancelled"]]

InProgress ==
  {Idle}
  \cup [kind : DOMAIN Transition, of : Orders, status : OrderStatus]
  \cup [kind : {"delete"}, of : Orders]
  \cup [kind : {"announce"}, of : Orders, outstanding : Nat]
  \cup [kind : {"sendRfq", "deleteRfq", "award"}, of : Quotations]
  \cup [kind : {"updateRequest", "deleteRequest"}, of : Requests, required : Nat]
  \cup [kind : {"receive"}, of : Orders, received : Nat, held : Nat]
  \cup [kind : {"reverse"}, of : Notes, accepted : Nat, status : OrderStatus,
        locked : BOOLEAN, received : Nat, held : Nat]
  \cup [kind : {"unlog"}, of : Notes]

\* The order whose row s has locked.
LockedBy(s) ==
  IF session[s].kind = "receive" THEN {session[s].of}
  ELSE IF session[s].kind = "reverse" /\ session[s].locked THEN {note[session[s].of].order}
  ELSE {}

FreeAlways(p) == TRUE       \* mutant: the order is read without FOR UPDATE
Free(p) == \A s \in Sessions : p \notin LockedBy(s)

\* A receipt keeps the sequence of document numbers locked until it commits.
NumberFree == \A s \in Sessions : session[s].kind # "receive"

NoteFreeAlways(n) == TRUE   \* mutant: the note is read without FOR UPDATE
NoteFree(n) == \A s \in Sessions : ~(session[s].kind = "reverse" /\ session[s].of = n)

Unused(n) == note[n].status = "none" /\ n \in Notes

Begin(s, req) ==
  /\ session[s] = Idle
  /\ session' = [session EXCEPT ![s] = req]
  /\ UNCHANGED <<order, quotation, request, note, stockVars>>

\* A request fails, or is refused, and is rolled back.
Abandon(s) ==
  /\ session[s] # Idle
  /\ End(s)
  /\ UNCHANGED <<order, quotation, request, note, stockVars>>

-----------------------------------------------------------------------------
(* Purchase orders *)

\* The routes and MRP create drafts, the planning of shortages orders already sent.
CreateOrder(p, st) ==
  /\ NumberFree
  /\ order[p].status = "none"
  /\ order' = [order EXCEPT ![p].status = st]
  /\ UNCHANGED <<quotation, request, note, stockVars, session>>

BeginChange(s, kind, p) ==
  /\ order[p].status \in Transition[kind].from /\ ~order[p].deleted
  /\ Begin(s, [kind |-> kind, of |-> p, status |-> order[p].status])

BeginDelete(s, p) ==
  /\ order[p].status = "draft" /\ ~order[p].deleted
  /\ Begin(s, [kind |-> "delete", of |-> p])

BeginAnnounce(s, p) ==
  /\ order[p].status \in Receivable /\ ~order[p].deleted
  /\ Begin(s, [kind |-> "announce", of |-> p, outstanding |-> Outstanding(p)])

\* send_po, acknowledge_po (of the staff and of the supplier), cancel_purchase_order
ChangeOrder(s) ==
  /\ session[s].kind \in DOMAIN Transition
  /\ Free(session[s].of)
  /\ order' = [order EXCEPT ![session[s].of].status =
                 Written(@, session[s].status, Transition[session[s].kind].to)]
  /\ End(s)
  /\ UNCHANGED <<quotation, request, note, stockVars>>

DeleteOrder(s) ==
  /\ session[s].kind = "delete"
  /\ Free(session[s].of)
  /\ order' = [order EXCEPT ![session[s].of].deleted = TRUE]
  /\ End(s)
  /\ UNCHANGED <<quotation, request, note, stockVars>>

\* create_grn, and the shipment notice of a supplier: a note of goods still to come.
AnnounceGoods(s) ==
  /\ session[s].kind = "announce"
  /\ NumberFree
  /\ \E n \in Notes, q \in Quantities \cap 1..session[s].outstanding :
       /\ Unused(n)
       /\ note' = [note EXCEPT ![n] = [status |-> "pending_receipt", order |-> session[s].of,
                                       quantity |-> q, accepted |-> 0, logged |-> FALSE]]
  /\ End(s)
  /\ UNCHANGED <<order, quotation, request, stockVars>>

-----------------------------------------------------------------------------
(* Receipts and their reversal *)

\* receive_goods locks the order and takes a number; then it loads the material.
BeginReceipt(s, p) ==
  /\ Free(p) /\ NumberFree
  /\ order[p].status \in Receivable /\ ~order[p].deleted
  /\ Begin(s, [kind |-> "receive", of |-> p, received |-> order[p].received,
               held |-> currentStock])

AnyQuantity(p, n) == Quantities   \* mutant: the quantity is not compared with the line
MayReceive(p, n) == Quantities \cap 1..(Ordered[p] - n)

ReceiveGoods(s) ==
  /\ session[s].kind = "receive"
  /\ \E n \in Notes, l \in Warehouse, q \in MayReceive(session[s].of, session[s].received) :
       LET p == session[s].of
           k == IF Inspected THEN Pending(l) ELSE Available(l)
           total == session[s].received + q
       IN /\ Unused(n)
          /\ level' = Added(level, k, q)
          /\ currentStock' = Synced(level', session[s].held, currentStock)
          /\ ledger' = ledger + q
          /\ note' = [note EXCEPT ![n] = [status |-> "received", order |-> p,
                                          quantity |-> q, accepted |-> q, logged |-> TRUE]]
          /\ request' = [m \in Requests |->
                           IF m \in RequestsFor(p) THEN Credited(m, q) ELSE request[m]]
          /\ order' = [order EXCEPT ![p].received = total,
                                    ![p].status = StatusAfter(p, total, @)]
  /\ End(s)
  /\ UNCHANGED quotation

\* reverse_grn locks the note, and loads its order with it, ...
BeginReversal(s, n) ==
  /\ note[n].status = "received"
  /\ NoteFree(n)
  /\ Begin(s, [kind |-> "reverse", of |-> n, accepted |-> note[n].accepted,
               status |-> order[note[n].order].status,
               locked |-> FALSE, received |-> 0, held |-> 0])

\* ... then locks the order, unless it was deleted, and loads the material.
LockForReversal(s) ==
  /\ session[s].kind = "reverse" /\ ~session[s].locked
  /\ Free(note[session[s].of].order)
  /\ session' = [session EXCEPT ![s].locked = TRUE, ![s].held = currentStock,
                                ![s].received = order[note[session[s].of].order].received]
  /\ UNCHANGED <<order, quotation, request, note, stockVars>>

\* What a reversal of n units at l may leave: the stock waiting for inspection is
\* taken first when the material is inspected, then what is available there, what
\* waits there, and what is available anywhere.
Unreceived(l, n) ==
  LET first  == IF Inspected THEN Drawn(level, Pending(l), n) ELSE level
      left1  == n - (Total(level) - Total(first))
      second == Drawn(first, Available(l), left1)
      left2  == left1 - (Total(first) - Total(second))
      third  == Drawn(second, Pending(l), left2)
      left3  == left2 - (Total(second) - Total(third))
  IN  IF left3 = 0 THEN {third} ELSE Deductions(third, left3)

ReverseNote(s) ==
  /\ session[s].kind = "reverse" /\ session[s].locked
  /\ LET n == session[s].of
         p == note[n].order
         left == Less(session[s].received, session[s].accepted)
         status == StatusAfter(p, left, Reopened(session[s].status))
     IN /\ \E l \in Warehouse : level' \in Unreceived(l, session[s].accepted)
        /\ currentStock' = Synced(level', session[s].held, currentStock)
        /\ ledger' = ledger - session[s].accepted
        /\ order' = [order EXCEPT ![p].received = left,
                                  ![p].status = IF order[p].deleted THEN @
                                                ELSE Written(@, session[s].status, status)]
        /\ note' = [note EXCEPT ![n].status = "reversed", ![n].accepted = 0]
  /\ End(s)
  /\ UNCHANGED <<quotation, request>>

\* reverse_grn of the receipt's transaction, the older way: the order is not touched.
BeginUnlog(s, n) ==
  /\ note[n].logged
  /\ Begin(s, [kind |-> "unlog", of |-> n])

ReverseTransaction(s) ==
  /\ session[s].kind = "unlog"
  /\ LET n == session[s].of
     IN /\ \E l \in Warehouse : level' \in Unreceived(l, note[n].quantity)
        /\ currentStock' = Synced(level', currentStock, currentStock)
        /\ ledger' = ledger - note[n].quantity
        /\ note' = [note EXCEPT ![n].logged = FALSE]
  /\ End(s)
  /\ UNCHANGED <<order, quotation, request>>

-----------------------------------------------------------------------------
(* Requests for quotation and material requests *)

CreateQuotation(r) ==
  /\ quotation[r].status = "none"
  /\ quotation' = [quotation EXCEPT ![r].status = "draft"]
  /\ UNCHANGED <<order, request, note, stockVars, session>>

BeginQuotation(s, kind, r) ==
  /\ ~quotation[r].deleted
  /\ quotation[r].status = IF kind = "award" THEN "sent" ELSE "draft"
  /\ Begin(s, [kind |-> kind, of |-> r])

SendQuotation(s) ==
  /\ session[s].kind = "sendRfq"
  /\ quotation' = [quotation EXCEPT ![session[s].of].status = "sent"]
  /\ End(s)
  /\ UNCHANGED <<order, request, note, stockVars>>

DeleteQuotation(s) ==
  /\ session[s].kind = "deleteRfq"
  /\ quotation' = [quotation EXCEPT ![session[s].of].deleted = TRUE]
  /\ End(s)
  /\ UNCHANGED <<order, request, note, stockVars>>

\* award_rfq creates a draft order and replaces the one awarded before it, if any.
AwardQuotation(s) ==
  /\ session[s].kind = "award"
  /\ NumberFree
  /\ \E p \in Orders :
       /\ order[p].status = "none"
       /\ order' = [order EXCEPT ![p].status = "draft"]
       /\ quotation' = [quotation EXCEPT ![session[s].of].status = "awarded",
                                         ![session[s].of].order = p]
  /\ End(s)
  /\ UNCHANGED <<request, note, stockVars>>

CreateRequest(m) ==
  /\ request[m].status = "none"
  /\ \E q \in Quantities :
       request' = [request EXCEPT ![m].status = "open", ![m].required = q]
  /\ UNCHANGED <<order, quotation, note, stockVars, session>>

BeginRequest(s, kind, m) ==
  /\ request[m].status = "open" /\ ~request[m].deleted
  /\ Begin(s, [kind |-> kind, of |-> m, required |-> request[m].required])

\* A receipt locks the requests it credits until it commits, which is one step here.
UpdateRequest(s) ==
  /\ session[s].kind = "updateRequest"
  /\ \E q \in Quantities :
       request' = [request EXCEPT ![session[s].of].required = Written(@, session[s].required, q)]
  /\ End(s)
  /\ UNCHANGED <<order, quotation, note, stockVars>>

DeleteRequest(s) ==
  /\ session[s].kind = "deleteRequest"
  /\ request' = [request EXCEPT ![session[s].of].deleted = TRUE]
  /\ End(s)
  /\ UNCHANGED <<order, quotation, note, stockVars>>

-----------------------------------------------------------------------------
(* Stock that changes by hand.  The material is loaded with its lock. *)

ChangeStock(new, entered) ==
  /\ level' = new
  /\ currentStock' = Synced(new, currentStock, currentStock)
  /\ ledger' = ledger + entered
  /\ UNCHANGED <<order, quotation, request, note, session>>

\* add_stock, and adjust_stock to more than current_stock
AddStock(l, q) ==
  /\ Total(level) + q =< MaxStock
  /\ ChangeStock(Added(level, Available(l), q), q)

\* remove_stock, and adjust_stock to less: from one location or from all internal ones
RemovedUnchecked(l, q) == {Added(level, Available(l), -q)}   \* mutant: may fall below zero
RemovedFrom(l, q) == IF q =< level[Available(l)] THEN {Drawn(level, Available(l), q)} ELSE {}

RemoveStock(q) ==
  \E new \in Deductions(level, q) \cup UNION {RemovedFrom(l, q) : l \in Locations} :
    ChangeStock(new, -q)

\* adjust_stock takes the difference from current_stock, not from the buckets.
AdjustStock(n, l) ==
  LET delta == n - currentStock IN
  \/ delta > 0 /\ AddStock(l, delta)
  \/ delta < 0 /\ RemoveStock(-delta)

TransferStock(from, to, q) ==
  /\ from # to /\ q =< level[Available(from)]
  /\ ChangeStock(Moved(level, Available(from), Available(to), q), 0)

\* quality_inspect: what passes becomes available, what fails goes to quarantine.
PassInspection(l, q) ==
  /\ q =< level[Pending(l)]
  /\ ChangeStock(Moved(level, Pending(l), Available(l), q), 0)

FailInspection(l, q) ==
  /\ q =< level[Pending(l)]
  /\ ChangeStock(Moved(level, Pending(l), <<QuarantineAt, "quarantine">>, q), 0)

\* The material's storage location changes and its stock follows.
TransferStockLocation(from, to) ==
  /\ from # to
  /\ ChangeStock(Relocated(level, from, to), 0)

-----------------------------------------------------------------------------
(* The specification *)

Init ==
  /\ order = [p \in Orders |-> [status |-> "none", deleted |-> FALSE, received |-> 0]]
  /\ quotation = [r \in Quotations |-> [status |-> "none", deleted |-> FALSE, order |-> NoOrder]]
  /\ request = [m \in Requests |->
                  [status |-> "none", deleted |-> FALSE, required |-> 0, fulfilled |-> 0]]
  /\ note = [n \in Notes |-> [status |-> "none", order |-> NoOrder, quantity |-> 0,
                              accepted |-> 0, logged |-> FALSE]]
  /\ level = InitialLevel
  /\ currentStock = Total(InitialLevel)
  /\ ledger = 0
  /\ session = [s \in Sessions |-> Idle]

OrderStep(s) ==
  \/ \E p \in Orders : \E kind \in DOMAIN Transition : BeginChange(s, kind, p)
  \/ \E p \in Orders : BeginDelete(s, p)
  \/ \E p \in Orders : BeginAnnounce(s, p)
  \/ ChangeOrder(s)
  \/ DeleteOrder(s)
  \/ AnnounceGoods(s)

ReceiptStep(s) ==
  \/ \E p \in Orders : BeginReceipt(s, p)
  \/ ReceiveGoods(s)
  \/ \E n \in Notes : BeginReversal(s, n)
  \/ LockForReversal(s)
  \/ ReverseNote(s)
  \/ \E n \in Notes : BeginUnlog(s, n)
  \/ ReverseTransaction(s)

QuotationStep(s) ==
  \/ \E r \in Quotations : \E kind \in {"sendRfq", "deleteRfq", "award"} :
       BeginQuotation(s, kind, r)
  \/ SendQuotation(s)
  \/ DeleteQuotation(s)
  \/ AwardQuotation(s)

RequestStep(s) ==
  \/ \E m \in Requests : \E kind \in {"updateRequest", "deleteRequest"} :
       BeginRequest(s, kind, m)
  \/ UpdateRequest(s)
  \/ DeleteRequest(s)

Create ==
  \/ \E p \in Orders : \E st \in {"draft", "sent"} : CreateOrder(p, st)
  \/ \E r \in Quotations : CreateQuotation(r)
  \/ \E m \in Requests : CreateRequest(m)

StockStep ==
  \/ \E l \in Warehouse, q \in Quantities : AddStock(l, q)
  \/ \E q \in Quantities : RemoveStock(q)
  \/ \E n \in 0..MaxStock, l \in Warehouse : AdjustStock(n, l)
  \/ \E from, to \in Locations, q \in Quantities : TransferStock(from, to, q)
  \/ \E l \in Warehouse, q \in Quantities : PassInspection(l, q)
  \/ \E l \in Warehouse, q \in Quantities : FailInspection(l, q)
  \/ \E from, to \in Locations : TransferStockLocation(from, to)

Next ==
  \/ \E s \in Sessions :
       OrderStep(s) \/ ReceiptStep(s) \/ QuotationStep(s) \/ RequestStep(s) \/ Abandon(s)
  \/ Create
  \/ StockStep

Spec == Init /\ [][Next]_vars

-----------------------------------------------------------------------------
(* Properties *)

\* Every column, and every request in progress, holds a value of its kind.
TypeOK ==
  /\ order \in [Orders -> Order]
  /\ quotation \in [Quotations -> Quotation]
  /\ request \in [Requests -> Request]
  /\ note \in [Notes -> Note]
  /\ level \in Levels
  /\ currentStock \in Nat
  /\ ledger \in Int
  /\ session \in [Sessions -> InProgress]
  /\ \A s \in Sessions : session[s].kind \in {"reverse", "unlog"} =>
       note[session[s].of].order \in Orders

\* No sequence of receipts and reversals, of however many requests at once, gives
\* an order line more than was ordered (receive_goods).
ReceivedWithinOrdered == \A p \in Orders : order[p].received =< Ordered[p]

\* What an order counts as received is what its notes that stand have accepted:
\* no receipt or reversal is counted twice or lost (receive_goods, reverse_grn).
ReceivedMatchesNotes ==
  \A p \in Orders :
    order[p].received =
      Total([n \in Notes |-> IF note[n].order = p THEN note[n].accepted ELSE 0])

\* The stock ledger accounts for every unit in the buckets: receipts, reversals and
\* manual changes enter what they do, and moves between buckets do not change the sum.
LedgerMatchesBuckets == Total(level) = Total(InitialLevel) + ledger

\* Requests are fulfilled by goods that arrived: a unit received counts for one
\* request at most, however often quotations were awarded and orders received.
FulfilmentBacked ==
  Total([m \in Requests |-> request[m].fulfilled])
    =< Total([n \in Notes |-> IF note[n].status = "pending_receipt" THEN 0 ELSE note[n].quantity])

\* Goods are received on an order only while it is open for receiving: an order that
\* is cancelled, deleted or complete by the time of the receipt takes none, although
\* cancelling and deleting read the order without a lock.
NoReceiptForClosedOrder ==
  [][\A p \in Orders : order'[p].received > order[p].received =>
       order[p].status \in Receivable /\ ~order[p].deleted]_vars
=============================================================================
