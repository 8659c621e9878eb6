# Verification of MedTrack: stock, orders, production and money

MedTrack is an ERP for small manufacturers: a FastAPI backend over PostgreSQL
(SQLAlchemy, one transaction per request) and a React frontend. This directory
holds TLA+ models of the backend's core, the TLC runs that check them and the
TLAPS proofs about them. Everything is translated from the code under
`src/backend/app`; paths below are relative to it.

| Module | Subject | Instance for TLC | Proofs |
|---|---|---|---|
| `UnitCount` | sums of quantities in a form that can be proved about | | `UnitCountProofs` |
| `WorkOrderMaterials` | the life of raw material in work orders | `MCWorkOrderMaterials`, `Wom*.cfg` | `WorkOrderMaterialsProofs`, `WorkOrderSerialProofs` |
| `MaterialFlow` | what `WorkOrderMaterials` promises, seen from outside | as a property of `WomConcurrent.cfg` | `WorkOrderMaterialsProofs` |
| `SalesFulfilment` | sales orders: confirmation, credit, receipt and reservation of finished goods, completion, cancellation | `MCSalesFulfilment`, `Sf*.cfg` | `SalesFulfilmentProofs` |
| `Deliveries` | deliveries of what lines are allocated, over two services, and lines allocated in part | `MCDeliveries`, `Deliveries.cfg`, `DlvWithinAllocated.cfg` | `DeliveriesProofs` |
| `StockBuckets` | stock per location and status | within the next two | |
| `Procurement` | requests, quotations, purchase orders, receipts and their reversal, manual changes of stock | `MCProcurement`, `Proc*.cfg` | `ProcurementProofs` |
| `Subcontracting` | raw material at a subcontractor, and the row locks of the requests that move it | `MCSubcontracting`, `Subcontract.cfg` | `SubcontractingProofs` |
| `Finance` | invoices, payments and the completion of a paid order | `MCFinance`, `Fin*.cfg` | `FinanceProofs` |

To repeat a run: `tlc -config WomConcurrent.cfg MCWorkOrderMaterials`; a proof:
`tlapm FinanceProofs.tla`.

## 1. Inventory

### Components, their state and their operations

| Component | State | Operations |
|---|---|---|
| Stock gateway, `application/manufacturing/services/inventory_service.py` | `materials.current_stock`, `materials.reserved_stock`, `stock_levels` (a bucket per material, location, batch and status), `inventory_reservations`, `inventory_transactions` | add, remove, reserve (work order, sales order, reference), issue, consume, return, reject, release, receive finished goods, receive and issue for subcontracting |
| Work order lifecycle, `handlers/work_order_handler.py`, `domain/manufacturing/entities/work_order.py` | `work_orders` (status, planned, produced, scrap), `work_order_materials`, job cards | create, release, allocate, start, record production, complete, cancel |
| Planning at release, `material_planning_service.py`, `inventory/services/inventory_reservation_service.py` | `material_shortages`, material requests | plan and reserve each line, raise requests for shortages |
| Storekeeper, `inventory/services/storekeeper_service.py` | none of its own | reserve, issue in whole or in part, reject, return |
| Production recording, `production_execution_service.py`, `production_posting_service.py` | `production_logs`, `material_consumption_records` | record production (supervisor's increments, worker's totals), report wastage, post consumption |
| Quality control, `quality/handlers/qc_handler.py` | status and scrap of the work order | approve, reject, send to rework, scrap the batch |
| Finished goods, `quality/handlers/fg_receive_command_handler.py` | `fg_receipts` | receive into stock, allocate to the order line |
| Workflow orchestration, `workflow_orchestration_service.py` | `workflow_events`, idempotency keys | what follows a release, QC approval, receipt, dispatch, invoice, payment |
| Sales, `sales/command_handlers.py`, `sales/inventory_integration.py`, `sales/manufacturing_integration.py` | sales orders and lines, client credit, reservation rows | confirm, reserve, create work orders, release, ship, cancel |
| Delivery, `delivery/delivery_service.py` (routes of deliveries) and `delivery/services/delivery_service.py` (dispatch dashboard) | `delivery_orders` and their lines, `dispatched_quantity`, `shipped_quantity` | create, ship, deliver, cancel; pack, dispatch, update, confirm |
| Partial fulfilment, `sales/partial_fulfillment_service.py` | status and quantity of an order line | work order for the rest, short close |
| Procurement, `interfaces/api/v1/routes/supply_chain.py`, `procurement/` | material requests, requests for quotation, purchase orders, goods receipt notes, the sequence of document numbers | create, send, acknowledge, cancel, delete, award; announce, receive and reverse goods; inspect |
| Subcontracting, `interfaces/api/v1/routes/supply_chain.py` | subcontract orders, their lines and issue records | approve, issue, receive, return, cancel |
| Finance, `finance/finance_service.py` | invoices and payments of both sides, the journal | issue, send, pay, mark overdue |

The rest (capacity and planner boards, BOM and routing, products and item codes,
portals, MRP, notifications, documents, tenants and permissions, analytics, the
frontend) is master data, views, output or access control; PROJECT.json names
each with the reason it is left out.

### How they interact

Components call one another in one process within the request's transaction.
What they share is the database. Requests interleave at the database under READ
COMMITTED; a request locks rows with `SELECT ... FOR UPDATE`. A session neither
expires its objects on commit nor refreshes an object it holds when a later
query, locking or not, returns the row again (no `populate_existing`), and there
is no version column. `WorkOrderMaterialModel.material` is loaded with the line
(`lazy="joined"`), so a request that reads the lines of its work order holds the
material rows *as they were before it locked them*. This is the behaviour around
which the model is built.

Between components:

* sales confirmation creates and releases work orders in its own transaction and
  logs a failing release instead of failing itself
  (`manufacturing_integration.py:106`), so a partial release is committed;
* the direct release route rolls a failing release back;
* QC and storekeeper act on a work order by its status, mostly read unlocked;
* consumption is derived from sums over records written by other components;
* a goods receipt changes an order, its note, the stock, the ledger and the
  material requests behind the quotation the order was awarded from;
* a payment calls the workflow in its own transaction, which completes the order;
* a delivery and the shipment of its order take the same stock and write the same
  columns of the order's lines.

### What is hard

* stale reads (above), lost updates of `current_stock`, `reserved_stock` and
  `scrap_quantity`;
* four quantities per reservation row and a status, changed by five operations,
  beside a line total and consumption records kept by different code;
* a failure half-way, committed by one caller and rolled back by another;
* decisions taken on a status that has changed;
* lock order between work orders that share materials;
* idempotency keys of the orchestration;
* document numbers read before the work and unique at the end: the only
  concurrency control of finance, and nobody wrote that down;
* the same goods handled by two services that know nothing of each other.

PROJECT.json lists the hazards, each at its line, with the properties that
cover it or the reason none does yet.

### What makes each component correct

* Stock: units are neither lost nor made; what is reserved is there.
* Reservation rows: a row gives no more than it holds, and the books that count
  the same units agree.
* Work orders: nothing is produced without material, nor beyond the plan; final
  statuses are final.
* Sales and finished goods: what is reserved is on hand, goods are received
  once, an order line is allocated no more than it ordered, reserved stock is
  what the open lines hold, and the recorded credit is within the limit.
* Deliveries: what delivery orders hold is what the lines count as dispatched,
  goods leave the stock exactly when a line counts them as shipped, and what is
  reserved is what lines hold and have not shipped.
* Procurement: an order receives at most what it ordered, and only while it is
  open; its quantity is that of its notes; the ledger is the stock; a unit
  received fulfils one request at most.
* Subcontracting: what was issued is at the subcontractor, used up or returned,
  and every request ends although they lock in different orders.
* Finance: no payment is lost or exceeds its invoice, an order is invoiced once,
  the journal is what the invoices leave open; a paid order is completed.

## 2. The model of raw material: `WorkOrderMaterials`

| Variable | Code |
|---|---|
| `onHand` | usable stock: the sum of the available buckets, or `materials.current_stock` where a material has no bucket |
| `reservedStock` | `materials.reserved_stock` |
| `rows` | `inventory_reservations` of a work order and material, in the order of `created_at` |
| `lineIssued` | `work_order_materials.issued_quantity` |
| `posted` | sum of `material_consumption_records` |
| `produced`, `scrap`, `woStatus` | columns of `work_orders` |
| `request`, `seen` | a request that holds the lock of the work order, and the material rows its session has read |
| `wastageSeen`, `deciding` | wastage reports and quality decisions that have read the work order without a lock |
| `netReceived` | history: received less removed by hand |

| Actions | Code |
|---|---|
| `ReceiveStock`, `RemoveStock` | `add_stock`, `remove_stock` |
| `CreateWorkOrder`, `BeginRelease`, `CommitRelease`, `FailRelease`, `CommitSalesRelease` | `handle_create`, `handle_release` with `plan_for_release`, `reserve_for_work_order` and `on_work_order_released`; the sales path |
| `AllocateMaterials` | `handle_allocate_materials` |
| `StorekeeperReserve`, `IssueMaterial`, `RejectIssue`, `ReturnMaterial` | `StorekeeperService` and the gateway's `issue_material_for_wo`, `issue_stock`, `cancel_work_order_reservation`, `return_stock` |
| `StartProduction`, `RecordProduction`, `WorkerRecordProduction`, `BeginWastage`, `CommitWastage` | `handle_start`, `handle_record_production`, `ProductionExecutionService`, `ProductionPostingService` |
| `SubmitForQC`, `BeginDecision`, `RejectInspection`, `SendToRework`, `ScrapBatch` | `handle_complete`, `QCHandler` |
| `BeginWork`, `AbandonWork` | the read of the lines by any other request, and its rollback |

A request that uses what it read before locking is two steps, a `Begin...` that
reads and one that writes; requests that lock first and read then are one. What
is written over a stale object follows SQLAlchemy's rule: a column is written
when the new value differs from the value the object holds (`Written`). With
buckets, the gateway sums the bucket rows anew and only `reserved_stock` and
`current_stock` go through the stale object; without them, the stock itself does.
`Bucketed` chooses which. A tenant without a default warehouse location and with
no stock entered by location has no buckets.

The FIFO loops over reservation rows are not loops here: `FifoTakes` says what
they compute, the only way to take n units so that a row gives something
only when all earlier rows have given all they can.

### Abstractions

* Quantities are integers (they are decimals with three places).
* A work order has one line per material; a BOM names a material once. The lines
  of a work order are read together (they are read by one query).
* No batches, no locations; raw materials carry no sales or reference
  reservations.
* A request takes its materials at once. The order in which it locks them, and
  the deadlock that may bring, is not in this module.
* Open purchase orders, which can turn a shortage into MATERIAL_RESERVED, are
  external: they may or may not cover it. Material requests are left out.
* Scrap quantities are 0 or more. The route does not require it
  (`quality_schemas.py`).
* One request of each kind of quality decision and work order at a time, one
  wastage report at a time.
* The stock of the finished product, which scrapping also lowers, is outside.
* Whether the database accepts a statement is outside; `return_stock` locks
  over an outer join, which PostgreSQL refuses, and is modelled as on SQLite,
  where the tests run.

### What it promises: `MaterialFlow`

`MaterialFlow` has a store, and for each work order what it holds and what it has
used and made. A step is a supply or a removal of one material, or the work of one
work order (it takes from the store, uses some of what it holds, and makes no more
than that covers), or a return. `Flow` in `WorkOrderMaterials` instantiates it
with `onHand`, with `Holding` (issued on the line less what its rows consumed), with
`posted` and with `produced`; `MaterialFlows` is its specification. That a step
of the detailed model touches one work order only, balances material by
material, and never undoes use is what reservations, FIFO rows and stale reads
could break.

## 3. The model of sales orders: `SalesFulfilment`

| Variable | Code |
|---|---|
| `onHand`, `reserved` | available stock and `materials.reserved_stock` of a finished good |
| `status` | `sales_orders.status` |
| `line` | `allocated_quantity`, `shipped_quantity`, `shortfall_quantity`, `backorder_quantity` of `sales_order_lines` |
| `rows` | the `inventory_reservations` of sales: the reference (an order for a confirmation and `on_qc_approved`, a line for the receipt handler) and the material. Their quantity and status are written once and never read, so a row is its reference and material |
| `wo` | the work orders a shortage created for a line: planned, produced, scrap, status, and the quantity of the FG_RECEIPT transaction |
| `creditUsed` | `clients.credit_used` |
| `session` | the request a session has begun and what it read |

| Actions | Code |
|---|---|
| `BeginOrderRequest`, `BeginReceipt` | the first, unlocked read of the order or the work order, and the refusals that follow it |
| `Submit`, `Reject`, `Deliver` | the handlers of `sales/command_handlers.py` |
| `Approve` | the approve route: approval and confirmation in one transaction, with the partial reservation of `InventoryReservationService` |
| `Confirm` | the confirm route: `FGAvailabilityCheckService`, a line whole or not at all |
| `Cancel`, `Ship` | the handlers with `release_for_order` and `record_shipment` |
| `Invoice`, `Complete` | `create_invoice_from_sales_order`; `close_sales_order` or the full payment, and `_release_sales_order_reservations` |
| `SubmitForQC` | production and `handle_complete`, whose inside is `WorkOrderMaterials` |
| `ApproveInspection` | `QCHandler.approve_inspection`, `FGReceiveCommandHandler`, `on_fg_received`, in one transaction |
| `OnQcApproved` | `WorkflowOrchestrationService.on_qc_approved`, the other path |
| `Abandon` | a request that fails and is rolled back |

What a request uses, at its two moments:

* the order and its lines are those of the first read, except where the code
  reads the lines again (`Complete`, the two receipts, and perhaps `Approve`,
  depending on whether the session still holds them);
* the client's credit is read twice without a lock, and either read may be of
  the first or of the second moment (`AllocateCredit`);
* what a confirmation believes available may be stale: `get_available_stock`
  reads the material before it locks it, and the query that locks does not
  refresh the object (`Believed`). When it then reserves, that object is gone,
  the material is read again under the lock the transaction now holds, and the
  comparison in `reserve_sales_stock` is with the true values (`Reservable`). It
  is this second read, and nothing else, that keeps stock from being reserved
  twice;
* `SalesOrderRepository.save` merges a new object into the session. The columns
  that are written are those that differ from the object the session holds; if
  that object was collected the row is read again, and every column that differs
  from it is overwritten (`Saved`, `SaveOrder`). The model allows both.

A work order of a sales order is found by its line; the code looks for a line of
the order with the work order's id or its product. These agree as long as an order
names a product once. That is an assumption (`OneLinePerProduct`) which the code
does not enforce: neither `add_line` (`sales_order.py:119`), nor its route, nor the
table of lines refuses a second line of a product. With two,
`fg_receive_command_handler.py:325` and `workflow_orchestration_service.py:1050`
take the first that matches by work order or by product, which may be the other one;
such orders are outside the model.

### Abstractions

* One client, orders of fixed lines and amount; orders start as drafts.
* Stock of finished goods changes by these actions alone: no adjustments by
  hand, no buckets in other statuses, no scrapping of finished goods.
* The production of a work order is `SubmitForQC`, at most its plan
  (`ProducedWithinPlan` of the other model); rejection and rework are there.
* `fulfill_reservation` falls back to removing stock when there is no row at all.
  A line with something allocated always has one, since rows are never
  deleted, so the fallback is not an action.
* A shipment ships at most what was ordered of each line per request; the handler
  refuses more than is allocated, and under stale writes a line could be allocated
  more than was ordered (`AllocatedWithinOrdered` is shown one request at a time):
  several shipments cover it.
* A receipt reads the lines of its order and gives the order its status in one
  step. Between the two the code awaits, so that `ReadyMeansAllocated` is stated
  of requests that follow each other only.
* The status WORK_ORDER_CREATED, the deliveries of `delivery/` that also
  ship, partial fulfilment, partial payments and their idempotency key
  are the next modules of the plan.
* A read-modify-write of one line by the receipts is under the lock of its
  material, which both take first, and is one step.

## 4. Procurement and stock: `StockBuckets`, `Procurement`

`StockBuckets` is what the helpers of the gateway do to `stock_levels`: a bucket
per location and status. `Deductions` gives every outcome of a deduction that
names no location (`_deduct_available_internal` takes rows in the order the
database returns them); `Synced` is `_sync_material_total_from_buckets` on an
object that may be stale.

| Variable | Code |
|---|---|
| `order` | `purchase_orders` with the one line each has here: status, `is_deleted`, `received_quantity` |
| `quotation` | `rfqs`: status, `is_deleted`, `awarded_po_id` |
| `request` | `material_requests` |
| `note` | `goods_receipt_notes`, and whether the inventory transaction of the receipt still stands |
| `level`, `currentStock`, `ledger` | `stock_levels`, `materials.current_stock`, the sum of the stock ledger |
| `session` | a request with what it read and what it locked |

| Actions | Code |
|---|---|
| `CreateOrder`, `BeginChange`/`ChangeOrder`, `BeginDelete`/`DeleteOrder` | `create_purchase_order` (and the planning of shortages and MRP, which create orders too), send, acknowledge (staff and supplier), cancel, delete |
| `BeginAnnounce`, `AnnounceGoods` | `create_grn`, the supplier's shipment notice |
| `BeginReceipt`, `ReceiveGoods` | `receive_goods` with `receive_purchase_receipt` and `_apply_po_receipt_to_material_requests` |
| `BeginReversal`, `LockForReversal`, `ReverseNote` | `reverse_grn` of a note with `reverse_purchase_receipt` |
| `BeginUnlog`, `ReverseTransaction` | `reverse_grn` of a transaction, the older way |
| `CreateQuotation`, `SendQuotation`, `DeleteQuotation`, `AwardQuotation` | the handlers of requests for quotation |
| `CreateRequest`, `UpdateRequest`, `DeleteRequest` | the handlers of material requests |
| `AddStock`, `RemoveStock`, `AdjustStock`, `TransferStock`, `PassInspection`, `FailInspection`, `TransferStockLocation` | the gateway's operations by hand, by inspection and by location |

A receipt locks the order, then takes a document number, which locks the row of
the sequence until it commits (`NumberFree`); so receipts follow each other, and
with them whatever else takes a number. A reversal locks its note, then the order. All
other changes read without a lock; their write waits for a lock on the row
(`Free`) and then goes through, over whatever the holder wrote.

Abstractions: one material, which has bucket rows; one line per order (nothing
changes the lines of an order, because `update_po_line` and `delete_po_line`
fail on a lazy load); quantities are integers; what a request costs, and who
asks, are left out. `receive_grn_into_inventory` passes arguments its callee does
not take, so an announced note is never received.

## 5. Subcontracting: `Subcontracting`

`order` has the columns of a subcontract order and the sums of its lines and
issue records; `level` the buckets of the raw material; `output` what came back;
`owner` who holds which row lock; `session` the request, what it read, and how many
of its locks it has.

`Approve`, `Cancel`, `Issue`, `Receive` and `Return` are the commits of the route
handlers; `Plan` lists the rows each locks, in its order. `Receive` locks the
output's material, the bucket of the raw material and then its material;
`Issue` and `Return` lock the material and then the bucket. Such requests can wait
for each other; PostgreSQL aborts one, which is `AbortDeadlock` (external).

Faithful to the code, and visible in the model: `received` is written from a
value read before any lock, so that of two receipts one may be lost (`Receive`);
two approvals that both find no lines enter the bill of materials twice, and
every receipt then uses up twice the material (`lines`); a cancellation that
read `approved` overwrites a concurrent issue (`Cancel`); a return puts the whole
quantity into the warehouse even when less is at the subcontractor (`Return`),
which is why `SupplierStockAccounted` bounds what is issued from above and below
instead of equating it.

Abstractions: one raw material and one output, one subcontractor, no batches;
what `current_stock` becomes is in `Procurement`.

## 6. Finance: `Finance`

| Variable | Code |
|---|---|
| `invoice`, `payment` | invoices and payments by side (customer, supplier) and number |
| `balance` | the receivable and the payable account of the journal |
| `order` | `sales_orders.status`, from SHIPPED on |
| `evaluated` | orders with a record under `payment:{id}` in the workflow's audit log |
| `session` | a request, the number it read first and what it read after |

| Actions | Code |
|---|---|
| `BeginIssue`, `ReadOrder`, `FindInvoice`, `AnswerInvoice`, `Issue` | `create_invoice_from_sales_order`, `create_invoice_manual`, `create_supplier_invoice`, one step per read |
| `BeginSend`, `SendInvoice`, `MarkOverdue` | `send_invoice`, `mark_overdue_invoices` |
| `BeginPay`, `ReadInvoice`, `Pay` | `record_payment`, `record_supplier_payment`, with `on_payment_received` and `_complete_sales_order` |
| `Deliver` | the delivery that lets an order be invoiced |

No row is locked. `_next_document_number` reads the highest number in use;
the unique constraint refuses a second document with it, and so a request
commits only if none of its kind committed since it read the number, which it does
before anything else. The properties hold for that reason alone: with the
number read last (the mutant `NumberLast`) payments are lost and orders are
invoiced twice.

Abstractions: amounts are integers, the tolerance of 0.001 is no amount; numbers
are ordered as numbers (in the code they are ordered as strings, which differs
past 999999); the parts of an invoice and the accounts other than the two
control accounts are left out; the journal's own number, which makes more
requests fail, is left out; how a completed order releases stock is in
`SalesFulfilment`. `void_invoice` fails on a lazy load and changes nothing.

## 7. Deliveries: `Deliveries`

| Variable | Code |
|---|---|
| `line`, `status` | quantity, allocated, dispatched, shipped and status of `sales_order_lines`; `sales_orders.status` |
| `delivery` | `delivery_orders` by number, with their lines; `document` marks those that record the shipment of a whole order |
| `onHand`, `reserved`, `receipts` | stock, `reserved_stock` and received output of the finished goods |
| `producing` | output that open work orders of a line are still to deliver |
| `notified` | orders with an audit record of `on_order_delivered` |

| Actions | Code |
|---|---|
| `ResolveLines`, `NextNumber`, `InsertDelivery` | `create_from_sales_order`, `record_sales_shipment_document`: the lines are checked before the number is taken |
| `ShipDelivery`, `Deliver`, `CancelDelivery` | `ship`, `deliver`, `cancel` of the delivery routes, with `fulfill_sales_reservation` and `on_order_delivered` |
| `PackDelivery`, `UpdateShipmentStatus`, `DispatchOrder`, `ConfirmDelivery` | the dispatch dashboard, which moves statuses and no stock |
| `ShipOrder`, `DeliverOrder` | the routes of the order as a whole, with `SalesOrderRepository.save` |
| `ReceiveGoods`, `CreateWoForRemaining`, `ShortCloseLine` | finished goods for a line, and what becomes of a line allocated in part |

`Spec` is the code. `OrderlySpec` adds that requests on one order follow each
other (those on different orders interleave) and that a cancelled delivery is not
revived from the dashboard. Without the first, two creations dispatch the same
goods (`dlv_within_allocated`), and two shipments of one delivery, or a shipment
and a cancellation, take stock that only one of them records. Without the
second, `handle_update_shipment_status` makes a cancelled delivery count again,
whose goods the line has given to another.

Abstractions: each line has a reservation row of its own and names its
product by the id of a material; orders begin allocated as their confirmation
left them. A delivery document is created in a transaction of its own after the
shipment, and may fail.

## 8. What the runs check

| Run | Instance | Shows |
|---|---|---|
| `wom_concurrent` | 2 work orders, 1 material, plan 1, stock 2, buckets | types; line and rows agree; no plan exceeded; stock conserved; `MaterialFlow` is implemented |
| `wom_lines` | 1 work order, 2 materials, plan 2, 2 rows a line, scrap 1, stock 2, buckets | accounting row by row; consumption records and rows agree; no goods without material |
| `wom_serial` | 2 work orders, 1 material, no buckets, one request at a time | what is reserved is there, and a row claims it |
| `sf_concurrent` | 1 order of 2 units, 1 in stock, credit for one order, 2 sessions | types; stock not over-reserved; credit within the limit; goods received once |
| `sf_serial` | 2 orders of 2 units of a material, 3 in stock, an order of 1 unit of a variant, none in stock, 1 session | reserved stock is what open lines hold, but for closed orders; stock conserved; lines allocated within the order; ready orders allocated in full |
| `proc_receipts` | 1 order of 2 units, 2 notes, 2 sessions, 1 warehouse, 1 quarantine location, inspected material | no over-receipt; order and notes agree; ledger and buckets agree; a closed order receives nothing |
| `proc_sourcing` | 2 requests with a quotation each, 1 order, 1 note, 2 sessions | types; a unit fulfils one request at most |
| `subcontract` | orders of 1 and 2 units, 1 unit of material, 2 sessions, `FairSpec` | types; issued material accounted for; every request ends |
| `fin_concurrent` | 1 order and 1 reference, invoices of 2 units, 2 invoices and 2 payments a side, 2 sessions | types; payments counted and within the total; one invoice each; status; journal |
| `deliveries` | an order of 2 units to be produced and one of a unit in stock, one product, 2 deliveries, 2 sessions, `OrderlySpec` | types; dispatched, reserved, shipped and stock agree; lines within the order |

`sf_serial` checks `Spec` as it is, one request at a time, so that every history is
there. Two kinds of history keep the reserved stock from being what the open lines
hold, and `ReservationsMatchLines` measures each of them by its cause:

* *More is reserved.* Goods that production delivers for a cancelled order are
  allocated and reserved all the same. The excess is at most what closed lines with a
  receipt hold and did not ship (`Claim`).
* *Less is reserved.* A cancellation after the shipment, a completion whose lines name
  materials, and the shipment of a cancelled order release what was released before,
  out of the reservations of other orders. The loss is at most what was
  shipped of closed orders (`ReleasedTwice`).

Without either of the two the property fails, after 8 and 9 steps. What it rules
out is any other way to gain or lose a reservation: one that a release forgets,
takes from the wrong order, or takes once more. The orders of the run compete for a
material, whose lines a completion releases; the third orders a variant, whose lines
it does not. Orders of several lines are left out, because a release may then find the
reservation of another line's product (hazard at `inventory_integration.py:225`).

Two runs each check one statement of a docstring that the code does not keep;
TLC's counterexample is the story in the finding.

| Run | Statement | Story |
|---|---|---|
| `fin_fully_paid_completes` | an order is completed when cumulative payments reach its total | the first, partial payment claims the key of the order; the second is a duplicate |
| `dlv_within_allocated` | the dispatched quantity of a line is at most what is allocated less what was dispatched | two creations read the line, both find all of it free, and get numbers one after the other |

### Bounds and why they are enough

`MaxStock` bounds the stock ever received, `MaxRows` the reservation rows of a
line, `MaxScrap` the scrap; the produced quantity is tried up to one beyond the
plan. Two work orders and two units give every conflict between two requests
(who reads first, who locks first, who runs short). Two rows a line are the
fewest in which first-in first-out has something to choose and a status filter
can skip a row; two units per row the fewest that allow a partial issue, return
and cancellation. Three concurrent writers of a row add no new kind of
conflict, because a step reads one stale value and one current one.

In `SalesFulfilment`, `MaxWorkOrders` bounds the work orders of a line. One order
and two sessions give every pair of requests on the same rows, each
between the read and the write of the other: two confirmations, a confirmation
and a cancellation, both receipts of one work order. A credit limit of exactly
one order is the one at which a second allocation shows, and one unit in stock of
two ordered makes both the reservation and the shortage happen. In `sf_serial`, two orders
with three units in stock of four ordered make the second run short, and
the reservation that a second release takes is then the first one's.

In `Procurement`, two notes of an order of two units are the fewest with
which a reversal of one leaves the other, two receipts can exceed the order, and
two reversals can meet on one note; `MaxStock` bounds manual additions and
adjustments. `proc_sourcing` has two requests, since fulfilling the wrong one is
the hazard, and needs no second order because a quotation can be awarded again
only to an order that there is. In `Subcontracting`, two orders and two
sessions are what sharing a stock and a deadlock take; `MaxOutput` and
`MaxReturned` bound what comes back. In `Finance`, two documents of each kind and
side are the fewest for a clash of numbers after one that succeeded;
`MaxDocuments`, by the constraint `FewDocuments`, bounds how many there are in
all. In `Deliveries`, two units in production give partial allocation and two
deliveries of one line; the constraint `RestWaits` leaves the second order,
there to take delivery numbers and stock in between, at creating and
cancelling deliveries.

The proofs lift the bounds for the properties they cover.

Deadlock is not checked: the system stops when the stock is used up and the plans
are produced, or every order is closed, which is legitimate. Requests that
wait for each other are the subject of `RequestsEnd`.

### Fairness

`FairSpec` of `Subcontracting` is strongly fair to the steps with which a request
goes on: taking its next lock, being aborted by the database, committing, or
failing once it has all its locks. Each request is served by a coroutine the event loop
runs to its end, PostgreSQL grants a freed lock to a waiter (weak fairness would
not do: a lock that is freed and taken again is not continuously free, but its
queue is first come, first served), and its deadlock detection aborts
one of a cycle. No fairness is assumed of users: nobody need begin a request. `RequestsEnd` fails with
a lock that outlives its request (its mutant), and without `AbortDeadlock`
two requests could wait for good.

Nothing else is stated under fairness: the other specifications allow a request
to stop, which only adds behaviours to the safety properties.

## 9. What is proved

`THEOREM Invariance == Spec => []Inv`, and from it `TypeCorrect`, `RowsAccounted`,
`BooksAgree`, `PostingsAgree`, `Conservation`, `GoodsPaidFor`, `PlanRespected`: for every finite
set of work orders and of materials, every BOM, every plan, every bound, with and
without buckets. The assumptions are those stated with the constants:
`FiniteInstances` (a sum over infinitely many lines has no meaning),
`BomAssumption`, `PlanAssumption`, `StockKeeping`, `BoundAssumption`.

The inductive invariant `Inv` is `TypeOK`, `RowAccounting`, `LineMatchesRows`,
`PostedMatchesRows`, `IssuedWithinRequired`, `NoFreeGoods` and `StockConserved`.
None but the first is inductive alone:

* that a return does not make `issued_quantity` negative (a clamp in the code
  that would break conservation) needs `LineMatchesRows`: what a row can return
  was issued by it, so the line holds at least as much;
* that in turn needs `RowAccounting`, consumed and returned within issued;
* `NoFreeGoods` needs the posting to bring `posted` up to the output, also after
  scrap was written over by a stale decision, which is why it is stated on
  `produced`, which nothing lowers;
* `ProducedWithinPlan` is a corollary: `produced * PerUnit` is at most `posted`,
  which is what rows consumed, at most what they were issued net of returns,
  which is `lineIssued`, at most `Planned * PerUnit`; divide by `PerUnit > 0`.

The proof goes in three layers. `UnitCountProofs`: a sum is the cardinality of a
set of units (no recursion, which the provers could not follow), and changes
by as much as one term changes (`TotalUpdate`), grows when every term
grows, splits when every term is a sum. In `WorkOrderMaterialsProofs`, first what
an issue, consumption, return, cancellation and new row do to one row and then to
a line of any number of rows; then one lemma per action, each with a step per
part of `Inv` it can disturb, combined by `NextInv`.

Last, `THEOREM FlowImplemented`: if materials are `Bucketed`,
`Spec => MaterialFlows`, the refinement `wom_concurrent` checks. Each action is
mapped to a step of `MaterialFlow` or to a stutter, under the invariant `Inv`
before and after the step. The balance of a step follows from how one line's
rows change: an issue raises what is held by what leaves the store, a consumption
moves held to used, a return undoes an issue. That output is covered after the step is
`NoFreeGoods` in the next state. Without buckets it is not a theorem: an issue
can write over a receipt.

`WorkOrderSerialProofs`: with one request at a time, `THEOREM Backed`
(`SerialSpec => []ReservedBacked`) and `THEOREM CoveredByStock`
(`SerialSpec => []ReservedWithinStock`, for stock kept in `current_stock`). Both
fail for `Spec`. They rest on `SeenCurrent`: what a request has read of the
materials is what is there, so that writing `reserved_stock` over the stale object
loses nothing. A row claims what it has not issued unless it was cancelled
(`RowClaim`), a line what its rows claim (`ClaimOf`), and each action changes
`reserved_stock` by no more than it changes the claims, summed over all work
orders. With buckets `ReservedWithinStock` is no theorem even then:
`remove_stock` compares with the reservations only where it takes from
`current_stock`. `OneAtATime` allows a scrapping its two reads, of the work order
and then of the materials, with nothing between.

`SalesFulfilmentProofs`: `THEOREM SalesInvariant == Spec => []Inv`, and from it
`SalesTypes`, `FinishedGoodsNeverOverReserved`, `RecordedCreditWithinLimit` and
`NoGoodsReceivedTwice`: for all finite sets of orders and lines, any products,
sessions, amounts and limits, under the assumptions stated with the constants.
`Inv` adds to `TypeOK`, `ReservedWithinStock` and `CreditWithinLimit` two facts
about requests in progress: a receipt is of a work order there is, and the credit
a request read was within the limit (`CreditReadWithinLimit`), without which a
cancellation that writes back a stale credit could leave it above. The argument
for the stock: a confirmation adds for a product what one line takes, as an order
names it once (`SumOfOrder`), and that is at most what is free under the lock; a
shipment lowers both sides by the same sum, a release stops at zero; a receipt
raises the stock first and reserves what is then free (`ReceiptInv`). That goods
are received once is an action property: only `ReceiveFG` raises the stock, by
`NewReceipt`, which is zero once there is a receipt (`Receipt`), and
confirmations only append work orders (`OrderStepReceipts`).

With one session, that is one request at a time, more can be said, in three
steps, each an inductive invariant that contains the one before it. What they share is `ReadHolds`:
the order, the lines and the work order a request read are those there are, so
that `save` writes exactly what the request computed, whether or not the session
still held the object (`SavedExactly`). Every step of `Next` is then one of six
kinds (`TableStep`): nothing but sessions and credit changes, a work order goes to
inspection, an order changes state (and may release), is confirmed, ships, or receives
a work order.

| Invariant | Adds | Theorems | Beyond one session |
|---|---|---|---|
| `BooksInv` | `Books`: a line has no work order before its confirmation and one at most after it, and until that is received what the line is short of is still recorded | `LinesNotOverAllocated`, `DispatchQueueAllocated`, of `Spec` | nothing |
| `StockInv` | `RowsOfProduct`: a reservation is of the product of the line it is for | `ShipmentsTakeTheirProduct`, of `Spec` | `OneLinePerOrder`, `Apart` |
| `LedgerInv` | `AllocationsHaveRows`: what is allocated has a row to be released | `ReservationsFollowLines`, of `Spec` | `OneLinePerOrder`, `Apart` |

`OneLinePerOrder` is there because the code does not keep the properties without it:
a shipment or a release of a line finds the first reservation of its order,
which may be of another line's product. `Apart`, that no order is a line, only says that
a reservation tells which of the two it is for. Nothing is assumed of the histories, nor of
whether lines name materials or variants. The instance of `sf_serial` satisfies both
hypotheses, and so do instances of any size.

The reservations are three sums over the lines of a product (`Ledger`): what lines
claim, what they hold for open orders, and what closed orders have shipped. One line's
terms change in a step, and the reserved stock with them: it is received or confirmed
(`LedgerTakes`), shipped (`LedgerShips`), or its order is closed (`LedgerCloses`); the
others keep theirs (`OthersKept`). Where `reserved_stock` is clamped at zero, the upper
bound is trivial and the lower one is what the clamp can only improve. That an order is
closed once, `Restates` says: no transition leaves CANCELLED or COMPLETED.

`FinanceProofs`: `THEOREM BooksInvariant == Spec => []FInv`, and from it
`FinanceTyped`, `PaymentsCounted`, `NeverOverpaid`, `InvoicedOnce`, `JournalAgrees` and `StatusTells`, for any orders, references,
amounts, sessions and bounds. `FInv` says that the numbers in use on a side are
1 to some k; that all numbers below the one a request read are taken; and that
*as long as a request's own number is free*, what it read is what is there: the
paid amount of the invoice, whether the subject has an invoice, and
whether the status is one that was read. A commit uses up the number, so for
every other request with the same number the premise becomes false, and any
request with a higher number cannot exist. A request whose number was taken
cannot commit. The sums change by one term (`TotalUpdate`).

`ProcurementProofs`: `THEOREM PurchasingInvariant == Spec => []Inv`, and from it
`PurchasingTyped`, `NeverOverReceived`, `ReceiptsCounted`, `ReceivedWhileOrderOpen`,
`LedgerComplete` and `FulfilledByArrivals`, for any finite sets of orders, notes, requests and
locations, any sessions, quantities and initial buckets. Three arguments meet in `Inv`:

* *Orders and notes* (`OInv`). What a receipt read of its order is still so, its status
  included, until it commits (`ReceiptOK`), and so is what a reversal read of its
  note, and of its order once it has that locked (`ReversalOK`). This is kept because an order is
  locked by one request and a note reversed by one (`Exclusive`). A reversal reads its order
  before it locks it; only the status it then writes can be out of date, which is
  why no property is about the status alone. That a reversal never takes
  an order below zero is `TotalTerm`: a note's term is at most the sum.
* *Stock* (`SInv`). Each change of the buckets adds to their sum what the ledger is
  told (`Gains`): written bucket by bucket for additions and draws, as three moves
  for a relocation (`RelocatedGains`), and for an unplaced deduction by splitting the
  buckets into those it empties and the others (`DeductionsGain`). Of
  `current_stock` it says only that it is not negative: it need not be the sum.
* *Fulfilment* (`FInv`). An order belongs to one quotation (`QuotationsOK`), so a
  receipt credits one request at most (`OneCredited`), by no more than it received.

`SubcontractingProofs`: `THEOREM SubcontractingInvariant == Spec => []IInv`, and from it
`SubcontractingTyped` and `SupplierAccounted`, for any finite set of orders, any sessions and
quantities. The stock at the subcontractor and the three sums over the orders change
together in one commit (`OrderChanged`); a receipt takes no more than is there, and a
return no more than it enters. `IInv` adds that issue records are credited within what they
issued. The proof uses no lock: that a commit is one step stands for the row
locks it holds, and what was read without them (`received`) is in none of these sums.

`DeliveriesProofs`: `THEOREM Types == Spec => []TypeOK`, however requests interleave,
with the references between the tables (`Tables`): the delivery or line a request
names is there and stays of its order. And `THEOREM Orderly == OrderlySpec => []Inv`, from it
`DispatchedMatches`, `ReservedMatches`, `StockMatches` and `AllocatedWithin`, for
any finite set of orders and lines, any products, sessions and quantities, and any
number of deliveries. `Inv` says that requests in progress are on different orders
(`OrdersApart`), hence what each read of its order still holds (`ReadHolds`), with
one exception the code makes: the record of a shipment is created from lines read before
the shipment, which is sound only because the record takes nothing from a line. For
that `DocumentsSent` is needed: such a record is never packed nor cancelled, or it would give
back what it never took. The properties are sums over the lines of a product and over
the deliveries of a line; a step changes one line's terms, or those of one
order's lines, and the sums with them.

Only model-checked: `RequestsEnd`, which needs fairness, and the two violations.
Every other property of the runs is a theorem, of the specification its run
checks or, where a hypothesis is named above, of the instances that satisfy it.
Out of the prover's reach: liveness under fairness (`RequestsEnd`), `ENABLED`,
and induction over data (so the recursive form of a FIFO loop is specified by
its result, as above).

## 10. Findings

"findings" in PROJECT.json has the two that runs show: the payment key that names
the order, and two deliveries of the same goods.

Others came up while modelling. They are in the models as they are in the code,
and the properties are stated so that they hold in spite of them:

* a release reads its materials unlocked and reserves stock that was removed or
  reserved since (`material_planning_service.py:41`); without buckets an
  issue writes over a concurrent receipt (`inventory_service.py:1221`);
* a release of a work order with a shortage always fails on the direct route
  (`.get` on a `MaterialShortage`, `workflow_orchestration_service.py:103`);
* the cancelled part of a partly issued reservation can still be issued
  (`inventory_service.py:1229`);
* rework reopens a work order that scrapping closed meanwhile
  (`qc_handler.py:222`);
* completing an order releases what it has shipped a second time
  (`inventory_service.py:1062`), and a shipment finds the reservation of another
  product of the order (`inventory_integration.py:225`);
* `current_stock` can keep another total than the buckets
  (`inventory_service.py:218`);
* a dispatch from the dashboard takes no stock, and a confirmation marks the
  order DELIVERED with lines unshipped (`delivery/services/delivery_service.py:236`,
  `:293`); a second delivery moves an INVOICED order back to DELIVERED;
* two approvals of a subcontract order double its lines (`supply_chain.py:2438`), two
  receipts lose one (`:2584`), a return makes stock that was not at the
  subcontractor (`:2653`).

## 11. Plan

| Order | Module | Contents | State |
|---|---|---|---|
| 1 | `WorkOrderMaterials` | raw material | modelled, checked, proved |
| 2 | `MaterialFlow` | its abstract specification | implemented: checked and proved |
| 3 | `SalesFulfilment` | sales orders and finished goods | modelled, checked, proved: under concurrency, and with one request at a time |
| 4 | `StockBuckets`, `Procurement` | stock per location, purchase orders and receipts | modelled, checked, proved |
| 5 | `Finance` | invoices and payments | modelled, checked, proved |
| 6 | `Deliveries` | deliveries and partial fulfilment | modelled, checked, proved |
| 7 | `Subcontracting` | subcontract orders and their locks | modelled, checked, safety proved |
| 8 | `WorkOrderLifecycle` | job cards, hold, closing with the handler's transitions | not begun |

## 12. Not modelled

PROJECT.json gives the reason for each component. In short: reads and reports
have no state to get wrong; master data enters as constants; rendering and
mail are output; access control is another subject.

Of the components that are modelled in part:

* operations that always fail change nothing and are no actions:
  `on_goods_received`, `receive_grn_into_inventory`, `update_po_line`,
  `delete_po_line`, `void_invoice`;
* code nothing calls: `subcontract_order_service.py`,
  `validate_dispatch_quantities`, `update_dispatched_quantities`;
* batches and serial numbers, which split the same quantities further;
* supplier quotations, non-conformance reports, credit notes, expenses: records
  that no modelled operation reads;
* job cards, the hold status (`PRODUCTION_HOLD` is written and is no
  `WorkOrderStatus`) and the closing of work orders: `WorkOrderLifecycle` of the
  plan;
* `reject_stock`, and the entries of the stock ledger that consumption makes on
  top of the issue.
