------------------------- MODULE WorkOrderMaterials -------------------------
(***************************************************************************)
(* Raw material of the work orders: how InventoryService reserves, issues, *)
(* consumes, takes back and releases the stock a work order needs, driven  *)
(* by the release of a work order, the storekeeper, production recording   *)
(* and quality control.                                                    *)
(*                                                                         *)
(* Every request runs in one transaction that locks the work order's row   *)
(* and then the rows of its materials.  Many requests read a row unlocked  *)
(* before, and SQLAlchemy does not refresh an object it holds when the row *)
(* is locked, so they go on using what they read:                          *)
(*   - a release, an allocation, an issue, a posting of production and the *)
(*     scrapping of a batch read the materials with the lines of the work  *)
(*     order (WorkOrderMaterialModel.material is loaded eagerly);          *)
(*   - a wastage report reads the scrap of the work order;                 *)
(*   - a decision of quality control reads its status.                     *)
(* Each of them is a step that reads and a step that writes, with steps of *)
(* others in between.  A column is written only when its new value differs *)
(* from the value read.                                                    *)
(*                                                                         *)
(* Quantities are integers, a work order has one line, a BOM names a       *)
(* material once, and materials are not batch tracked.                     *)
(***************************************************************************)
EXTENDS Integers, Sequences, UnitCount

CONSTANTS
  WorkOrders, Materials,
  PerUnit,      \* PerUnit[w][m]: BOM quantity of m per unit of w, its scrap percentage included
  Planned,      \* Planned[w]: planned quantity of w
  Bucketed,     \* TRUE: stock is kept in stock_levels rows; FALSE: in materials.current_stock alone
  MaxStock,     \* bound: units ever received of a material, net of removals
  MaxRows,      \* bound: reservation rows of a work order and material
  MaxScrap      \* bound: scrap of a work order

ASSUME FiniteInstances == IsFiniteSet(WorkOrders) /\ IsFiniteSet(Materials)
ASSUME BomAssumption   == PerUnit \in [WorkOrders -> [Materials -> Nat]]
ASSUME PlanAssumption  == Planned \in [WorkOrders -> Nat]
ASSUME StockKeeping    == Bucketed \in BOOLEAN
ASSUME BoundAssumption == MaxStock \in Nat /\ MaxRows \in Nat /\ MaxScrap \in Nat

VARIABLES
  onHand,         \* onHand[m]: usable stock (available buckets, or current_stock)
  reservedStock,  \* reservedStock[m]: materials.reserved_stock
  rows,           \* rows[w][m]: inventory_reservations of w and m by created_at
  lineIssued,     \* lineIssued[w][m]: work_order_materials.issued_quantity
  posted,         \* posted[w][m]: sum of the material_consumption_records
  produced,       \* work_orders.produced_quantity
  scrap,          \* work_orders.scrap_quantity
  woStatus,       \* work_orders.status, "NONE" before the work order is created
  request,        \* request[w]: the request that has locked the row of w and read its materials
  seen,           \* seen[w]: the material rows that request has read
  wastageSeen,    \* wastageSeen[w]: the scrap a wastage report in progress has read, if any
  deciding,       \* deciding[w]: the quality decisions in progress, with the scrap each has read
  netReceived     \* history: units received minus units removed by hand

stockVars   == <<onHand, reservedStock, netReceived>>
lineVars    == <<rows, lineIssued, posted>>
outputVars  == <<produced, scrap>>
requestVars == <<request, seen, wastageSeen, deciding>>
vars == <<stockVars, lineVars, outputVars, woStatus, requestVars>>

-----------------------------------------------------------------------------
(* Reservation rows *)

RowStatus == {"RESERVED", "PARTIALLY_ISSUED", "ISSUED",
              "PARTIALLY_CONSUMED", "CONSUMED", "RETURNED"}

Row == [quantity : Nat, issued : Nat, consumed : Nat, returned : Nat,
        status : RowStatus]

WOStatus == {"NONE", "PLANNED", "MATERIAL_PENDING", "MATERIAL_RESERVED",
             "MATERIAL_ISSUED", "IN_PRODUCTION", "QC_PENDING", "QC_REJECTED",
             "REWORK", "CLOSED"}

Requests == {"NONE", "RELEASE", "WORK"}

Decisions == {"REJECT", "REWORK", "SCRAP"}

NewRow(q) == [quantity |-> q, issued |-> 0, consumed |-> 0, returned |-> 0,
              status |-> "RESERVED"]

Positive(n) == IF n > 0 THEN n ELSE 0

Least(a, b) == IF a =< b THEN a ELSE b

Unissued(r) == r.quantity - r.issued

\* mutant of Unused: a unit already returned can be used again
UnusedForgettingReturns(r) == Positive(r.issued - r.consumed)

Unused(r) == Positive(r.issued - r.consumed - r.returned)

\* The columns of a line's rows, to be summed with Total.
QuantityOf(s) == [i \in DOMAIN s |-> s[i].quantity]
IssuedOf(s)   == [i \in DOMAIN s |-> s[i].issued]
ConsumedOf(s) == [i \in DOMAIN s |-> s[i].consumed]
ReturnedOf(s) == [i \in DOMAIN s |-> s[i].returned]

\* What each row can give to an operation: zero when its status is filtered out.
\* mutant of IssuableOf: what the row gave already is not deducted
IssuableAnew(s) ==
  [i \in DOMAIN s |-> IF s[i].status \in {"RESERVED", "PARTIALLY_ISSUED", "ISSUED"}
                      THEN s[i].quantity ELSE 0]

IssuableOf(s) ==
  [i \in DOMAIN s |-> IF s[i].status \in {"RESERVED", "PARTIALLY_ISSUED", "ISSUED"}
                      THEN Positive(Unissued(s[i])) ELSE 0]
ConsumableOf(s) ==
  [i \in DOMAIN s |-> IF s[i].status \in {"RESERVED", "PARTIALLY_ISSUED", "ISSUED",
                                          "PARTIALLY_CONSUMED"}
                      THEN Unused(s[i]) ELSE 0]
\* mutant of ReturnableOf: a unit that was used can be given back
ReturnableUsed(s) ==
  [i \in DOMAIN s |-> IF s[i].status # "RESERVED" THEN s[i].issued - s[i].returned ELSE 0]

ReturnableOf(s) ==
  [i \in DOMAIN s |-> IF s[i].status # "RESERVED" THEN Unused(s[i]) ELSE 0]
CancellableOf(s) ==
  [i \in DOMAIN s |-> IF s[i].status \in {"RESERVED", "PARTIALLY_ISSUED"}
                      THEN Positive(Unissued(s[i])) ELSE 0]

\* The ways to take n units first-in first-out: a row gives something only when
\* every earlier row has given all it can.  There is one when the rows hold n
\* units together, and none otherwise.
FifoTakes(avail, n) ==
  {t \in [DOMAIN avail -> 0..n] :
     /\ Total(t) = n
     /\ \A i \in DOMAIN avail : t[i] =< avail[i]
     /\ \A i, j \in DOMAIN avail : i < j /\ t[j] > 0 => t[i] = avail[i]}

CanTake(avail, n) == FifoTakes(avail, n) # {}

Fifo(avail, n) == CHOOSE t \in FifoTakes(avail, n) : TRUE

\* A row after n of its units are issued, consumed, returned or released.
AfterIssue(r, n) ==
  IF n = 0 THEN r
  ELSE [r EXCEPT !.issued = @ + n,
                 !.status = IF r.issued + n >= r.quantity THEN "ISSUED"
                                                          ELSE "PARTIALLY_ISSUED"]

\* mutant of AfterConsume: the consumed quantity is written over, not added to
AfterConsumeOverwritten(r, n) ==
  IF n = 0 THEN r ELSE [r EXCEPT !.consumed = n, !.status = "PARTIALLY_CONSUMED"]

AfterConsume(r, n) ==
  IF n = 0 THEN r
  ELSE [r EXCEPT !.consumed = @ + n,
                 !.status = IF r.consumed + n >= r.quantity THEN "CONSUMED"
                                                            ELSE "PARTIALLY_CONSUMED"]

AfterReturn(r, n) ==
  IF n = 0 THEN r
  ELSE [r EXCEPT !.returned = @ + n,
                 !.status = IF r.consumed = 0 /\ r.returned + n >= r.issued THEN "RETURNED"
                            ELSE IF r.consumed >= r.quantity THEN "CONSUMED"
                            ELSE IF r.consumed > 0 THEN "PARTIALLY_CONSUMED"
                            ELSE "PARTIALLY_ISSUED"]

AfterCancel(r, n) ==
  IF n = 0 THEN r
  ELSE [r EXCEPT !.status = IF r.issued > 0 THEN "ISSUED" ELSE "RETURNED"]

IssueRows(s, t)   == [i \in DOMAIN s |-> AfterIssue(s[i], t[i])]
ConsumeRows(s, t) == [i \in DOMAIN s |-> AfterConsume(s[i], t[i])]
CancelRows(s)     == [i \in DOMAIN s |-> AfterCancel(s[i], CancellableOf(s)[i])]

\* mutant of ReturnRows: the return does not reach the rows
ReturnRowsForgotten(s, t) == s

ReturnRows(s, t)  == [i \in DOMAIN s |-> AfterReturn(s[i], t[i])]

-----------------------------------------------------------------------------
(* A work order's lines *)

Required(w, m) == Planned[w] * PerUnit[w][m]

\* Quantity still to be reserved for a line: what is required and not issued,
\* less the quantity of every reservation row the line ever had.
NeedOf(w, m) ==
  Positive(Required(w, m) - lineIssued[w][m] - Total(QuantityOf(rows[w][m])))

\* What the new totals of output still have to consume of m.
ToConsumeFromIssued(w, m, output) ==   \* mutant: what was issued counts as consumed
  Positive(output * PerUnit[w][m] - lineIssued[w][m])

ToConsume(w, m, output) == Positive(output * PerUnit[w][m] - posted[w][m])

\* reserved_stock after n units of it are issued or cancelled.
ReleasedUnclamped(reserved, n) == reserved - n   \* mutant: no lower bound
ReleasedNever(reserved, n) == reserved           \* mutant: not lowered at all

Released(reserved, n) == Positive(reserved - n)

\* What a column holds after a request that read `read` sets it to `new`.
Written(current, read, new) == IF new = read THEN current ELSE new

\* The stock of m as the request on w finds it once it has locked m: buckets are
\* summed anew, current_stock is that of the object it holds.
InHand(w, m) == IF Bucketed THEN onHand[m] ELSE seen[w].stock[m]

\* The stock of m, and its reserved_stock, after the request on w takes n from them.
Drawn(w, m, n) ==
  IF Bucketed THEN onHand[m] - n
              ELSE Written(onHand[m], seen[w].stock[m], seen[w].stock[m] - n)

ReservedLess(w, m, n) ==
  Written(reservedStock[m], seen[w].reserved[m], Released(seen[w].reserved[m], n))

\* Stock a reservation may still take, given the on-hand and reserved
\* quantities the request has in hand.
AvailableGross(stock, reserved) == Positive(stock)   \* mutant: reservations ignored

Available(stock, reserved) == Positive(stock - reserved)

AppendRows(w, got) ==
  [m \in Materials |-> IF got[m] > 0 THEN Append(rows[w][m], NewRow(got[m]))
                                     ELSE rows[w][m]]

Created(w) == woStatus[w] # "NONE"

\* The row of w is not locked by a request in progress.
Unlocked(w) == request[w] = "NONE"

NothingSeen == [stock |-> [m \in Materials |-> 0], reserved |-> [m \in Materials |-> 0]]

-----------------------------------------------------------------------------
(* Initial state: no stock, no work order *)

Init ==
  /\ onHand        = [m \in Materials |-> 0]
  /\ reservedStock = [m \in Materials |-> 0]
  /\ netReceived   = [m \in Materials |-> 0]
  /\ rows          = [w \in WorkOrders |-> [m \in Materials |-> << >>]]
  /\ lineIssued    = [w \in WorkOrders |-> [m \in Materials |-> 0]]
  /\ posted        = [w \in WorkOrders |-> [m \in Materials |-> 0]]
  /\ produced      = [w \in WorkOrders |-> 0]
  /\ scrap         = [w \in WorkOrders |-> 0]
  /\ woStatus      = [w \in WorkOrders |-> "NONE"]
  /\ request       = [w \in WorkOrders |-> "NONE"]
  /\ seen          = [w \in WorkOrders |-> NothingSeen]
  /\ wastageSeen   = [w \in WorkOrders |-> {}]
  /\ deciding      = [w \in WorkOrders |-> {}]

-----------------------------------------------------------------------------
(* Stock in and out by hand *)

\* add_stock, and the receipts that end in it
ReceiveStock(m, n) ==
  /\ n > 0
  /\ netReceived[m] + n =< MaxStock
  /\ onHand' = [onHand EXCEPT ![m] = @ + n]
  /\ netReceived' = [netReceived EXCEPT ![m] = @ + n]
  /\ UNCHANGED <<reservedStock, lineVars, outputVars, woStatus, requestVars>>

\* remove_stock: only stock without stock_levels rows is checked against reservations
RemoveStock(m, n) ==
  /\ n > 0
  /\ n =< (IF Bucketed THEN onHand[m] ELSE onHand[m] - reservedStock[m])
  /\ onHand' = [onHand EXCEPT ![m] = @ - n]
  /\ netReceived' = [netReceived EXCEPT ![m] = @ - n]
  /\ UNCHANGED <<reservedStock, lineVars, outputVars, woStatus, requestVars>>

-----------------------------------------------------------------------------
(* Creation and release *)

\* handle_create from the work order routes
CreateWorkOrder(w) ==
  /\ woStatus[w] = "NONE" /\ Unlocked(w)
  /\ woStatus' = [woStatus EXCEPT ![w] = "PLANNED"]
  /\ UNCHANGED <<stockVars, lineVars, outputVars, requestVars>>

\* A request locks w and reads its materials.  With buckets the current_stock it
\* reads is not used.
Lock(w, kind) ==
  /\ Unlocked(w)
  /\ request' = [request EXCEPT ![w] = kind]
  /\ seen' = [seen EXCEPT ![w] = [stock |-> IF Bucketed THEN NothingSeen.stock ELSE onHand,
                                  reserved |-> reservedStock]]
  /\ UNCHANGED <<stockVars, lineVars, outputVars, woStatus, wastageSeen, deciding>>

\* handle_release locks the work order and plan_for_release reads its materials.
\* A sales order with a shortage creates and releases the work order in one
\* transaction, so for that release w does not exist yet.
BeginRelease(w) == woStatus[w] \in {"NONE", "PLANNED"} /\ Lock(w, "RELEASE")

\* Any other request that reads the materials with the lines of w; which one it
\* is shows when it writes.
BeginWork(w) == Created(w) /\ Lock(w, "WORK")

EndRequest(w) ==
  /\ request' = [request EXCEPT ![w] = "NONE"]
  /\ seen' = [seen EXCEPT ![w] = NothingSeen]
  /\ UNCHANGED wastageSeen

\* The request fails and the route rolls it back.
AbandonWork(w) ==
  /\ request[w] = "WORK" /\ EndRequest(w)
  /\ UNCHANGED <<stockVars, lineVars, outputVars, woStatus, deciding>>

\* What a request on w reserves of m: what it needs or what it finds available.
GrantOf(w, m) == Least(NeedOf(w, m), Available(InHand(w, m), seen[w].reserved[m]))

ShortageIn(w) == \E m \in Materials : GrantOf(w, m) < NeedOf(w, m)

\* InventoryReservationService.reserve_for_work_order for every line of w;
\* reserved_stock is written over with the value read plus the grant.
ReserveLines(w) ==
  /\ rows' = [rows EXCEPT ![w] = AppendRows(w, [m \in Materials |-> GrantOf(w, m)])]
  /\ reservedStock' = [m \in Materials |->
                         IF GrantOf(w, m) > 0 THEN seen[w].reserved[m] + GrantOf(w, m)
                                              ELSE reservedStock[m]]
  /\ UNCHANGED <<onHand, netReceived, lineIssued, posted, outputVars, deciding>>

\* Everything could be reserved.
CommitRelease(w) ==
  /\ request[w] = "RELEASE" /\ ~ ShortageIn(w)
  /\ ReserveLines(w)
  /\ woStatus' = [woStatus EXCEPT ![w] = "MATERIAL_RESERVED"]
  /\ EndRequest(w)

\* A shortage row was written: on_work_order_released asks the MaterialShortage
\* object for .get and fails, and the route rolls everything back.
FailRelease(w) ==
  /\ request[w] = "RELEASE" /\ ShortageIn(w) /\ Created(w)
  /\ EndRequest(w)
  /\ UNCHANGED <<stockVars, lineVars, outputVars, woStatus, deciding>>

\* The sales integration logs that failure and commits what the release had
\* done.  Open purchase orders, external here, may cover the whole shortage.
CommitSalesRelease(w) ==
  /\ request[w] = "RELEASE" /\ ShortageIn(w) /\ ~ Created(w)
  /\ ReserveLines(w)
  /\ \E st \in {"MATERIAL_PENDING", "MATERIAL_RESERVED"} :
       woStatus' = [woStatus EXCEPT ![w] = st]
  /\ EndRequest(w)

\* handle_allocate_materials
AllocateMaterials(w) ==
  /\ request[w] = "WORK" /\ woStatus[w] = "MATERIAL_PENDING"
  /\ \A m \in Materials : GrantOf(w, m) > 0 => Len(rows[w][m]) < MaxRows
  /\ ReserveLines(w)
  /\ woStatus' = [woStatus EXCEPT ![w] = IF ShortageIn(w) THEN @ ELSE "MATERIAL_RESERVED"]
  /\ EndRequest(w)

-----------------------------------------------------------------------------
(* Storekeeper *)

\* StorekeeperService.reserve_stock: all or nothing, whatever the status of w
StorekeeperReserve(w, m, n) ==
  /\ Created(w) /\ Unlocked(w)
  /\ n > 0 /\ n =< Available(onHand[m], reservedStock[m])
  /\ Len(rows[w][m]) < MaxRows
  /\ rows' = [rows EXCEPT ![w][m] = Append(@, NewRow(n))]
  /\ reservedStock' = [reservedStock EXCEPT ![m] = @ + n]
  /\ woStatus' = [woStatus EXCEPT ![w] = IF @ = "MATERIAL_PENDING"
                                         THEN "MATERIAL_RESERVED" ELSE @]
  /\ UNCHANGED <<onHand, netReceived, lineIssued, posted, outputVars, requestVars>>

\* The checks of issue_material_for_wo and issue_stock
CanIssueUnplanned(w, m, n) ==   \* mutant: the work order line is not checked
  CanTake(IssuableOf(rows[w][m]), n) /\ n =< InHand(w, m)

CanIssue(w, m, n) ==
  /\ n =< Required(w, m) - lineIssued[w][m]
  /\ CanTake(IssuableOf(rows[w][m]), n)
  /\ n =< InHand(w, m)

\* issue_material_for_wo with transition_wo_status
IssueMaterial(w, m, n) ==
  LET issued == [lineIssued[w] EXCEPT ![m] = @ + n] IN
  /\ request[w] = "WORK"
  /\ n > 0 /\ CanIssue(w, m, n)
  /\ rows' = [rows EXCEPT ![w][m] = IssueRows(@, Fifo(IssuableOf(@), n))]
  /\ lineIssued' = [lineIssued EXCEPT ![w] = issued]
  /\ onHand' = [onHand EXCEPT ![m] = Drawn(w, m, n)]
  /\ reservedStock' = [reservedStock EXCEPT ![m] = ReservedLess(w, m, n)]
  /\ woStatus' = [woStatus EXCEPT ![w] =
                    IF /\ @ \in {"MATERIAL_PENDING", "MATERIAL_RESERVED", "MATERIAL_ISSUED"}
                       /\ \A k \in Materials : issued[k] >= Required(w, k)
                    THEN "MATERIAL_ISSUED" ELSE @]
  /\ EndRequest(w)
  /\ UNCHANGED <<netReceived, posted, outputVars, deciding>>

\* reject_issue: cancel_work_order_reservation of one material
RejectIssue(w, m) ==
  /\ Created(w) /\ Unlocked(w)
  /\ Total(CancellableOf(rows[w][m])) > 0
  /\ rows' = [rows EXCEPT ![w][m] = CancelRows(@)]
  /\ reservedStock' = [reservedStock EXCEPT
                         ![m] = Released(@, Total(CancellableOf(rows[w][m])))]
  /\ UNCHANGED <<onHand, netReceived, lineIssued, posted, outputVars, woStatus, requestVars>>

\* return_material: _returnable_qty fails when the line has a second row
ReturnMaterial(w, m, n) ==
  /\ Created(w) /\ Unlocked(w)
  /\ Len(rows[w][m]) = 1
  /\ n > 0 /\ CanTake(ReturnableOf(rows[w][m]), n)
  /\ rows' = [rows EXCEPT ![w][m] = ReturnRows(@, Fifo(ReturnableOf(@), n))]
  /\ onHand' = [onHand EXCEPT ![m] = @ + n]
  /\ lineIssued' = [lineIssued EXCEPT ![w][m] = Positive(@ - n)]
  /\ UNCHANGED <<reservedStock, netReceived, posted, outputVars, woStatus, requestVars>>

-----------------------------------------------------------------------------
(* Production *)

\* handle_start, or the start of the first job card
StartProduction(w) ==
  /\ woStatus[w] = "MATERIAL_ISSUED" /\ Unlocked(w)
  /\ woStatus' = [woStatus EXCEPT ![w] = "IN_PRODUCTION"]
  /\ UNCHANGED <<stockVars, lineVars, outputVars, requestVars>>

\* post_production_consumption: consumption catches up with the new output; what
\* is not issued yet is issued on the spot, and one line short fails the request.
PostOutput(w, p, s) ==
  LET need  == [m \in Materials |-> ToConsume(w, m, p + s)]
      short == [m \in Materials |->
                  Positive(need[m] - Total(ConsumableOf(rows[w][m])))]
      issued == [m \in Materials |->
                  IssueRows(rows[w][m], Fifo(IssuableOf(rows[w][m]), short[m]))]
  IN
  /\ request[w] = "WORK"
  /\ \A m \in Materials : CanIssue(w, m, short[m]) /\ CanTake(ConsumableOf(issued[m]), need[m])
  /\ rows' = [rows EXCEPT ![w] = [m \in Materials |->
                ConsumeRows(issued[m], Fifo(ConsumableOf(issued[m]), need[m]))]]
  /\ lineIssued' = [lineIssued EXCEPT ![w] = [m \in Materials |-> @[m] + short[m]]]
  /\ posted' = [posted EXCEPT ![w] = [m \in Materials |-> @[m] + need[m]]]
  /\ onHand' = [m \in Materials |-> Drawn(w, m, short[m])]
  /\ reservedStock' = [m \in Materials |-> ReservedLess(w, m, short[m])]
  /\ produced' = [produced EXCEPT ![w] = p]
  /\ scrap' = [scrap EXCEPT ![w] = s]
  /\ EndRequest(w)
  /\ UNCHANGED <<netReceived, deciding>>

\* handle_record_production: increments; an operation that is not the last of
\* the routing adds its scrap only
RecordProduction(w, dp, s) ==
  /\ woStatus[w] \in {"IN_PRODUCTION", "REWORK"}
  /\ scrap[w] =< s /\ s =< MaxScrap
  /\ PostOutput(w, produced[w] + dp, s)
  /\ UNCHANGED woStatus

\* ProductionExecutionService.record_production: new totals, no guard on the
\* status, and the work order goes to quality control when the plan is met
WorkerRecordProduction(w, p, s) ==
  /\ produced[w] =< p /\ scrap[w] =< s /\ s =< MaxScrap
  /\ p > 0 /\ (produced[w] < p \/ scrap[w] < s)
  /\ PostOutput(w, p, s)
  /\ woStatus' = [woStatus EXCEPT ![w] = IF @ = "IN_PRODUCTION" /\ p >= Planned[w]
                                         THEN "QC_PENDING" ELSE @]

\* report_wastage reads the scrap of the work order without locking it ...
BeginWastage(w) ==
  /\ Created(w) /\ wastageSeen[w] = {} /\ scrap[w] < MaxScrap
  /\ wastageSeen' = [wastageSeen EXCEPT ![w] = {scrap[w]}]
  /\ UNCHANGED <<stockVars, lineVars, outputVars, woStatus, request, seen, deciding>>

\* ... and writes what it read plus the wastage; no material is posted for it
CommitWastage(w, n) ==
  /\ Unlocked(w)
  /\ \E v \in wastageSeen[w] :
       v + n =< MaxScrap /\ scrap' = [scrap EXCEPT ![w] = v + n]
  /\ wastageSeen' = [wastageSeen EXCEPT ![w] = {}]
  /\ UNCHANGED <<stockVars, lineVars, produced, woStatus, request, seen, deciding>>

-----------------------------------------------------------------------------
(* Quality control *)

\* handle_complete in production: submit for inspection
SubmitForQC(w) ==
  /\ woStatus[w] = "IN_PRODUCTION" /\ produced[w] > 0 /\ Unlocked(w)
  /\ woStatus' = [woStatus EXCEPT ![w] = "QC_PENDING"]
  /\ UNCHANGED <<stockVars, lineVars, outputVars, requestVars>>

\* QCHandler reads the work order without locking it and checks its status; one
\* request of each kind and work order at a time.
BeginDecision(w, d) ==
  /\ woStatus[w] = IF d = "REJECT" THEN "QC_PENDING" ELSE "QC_REJECTED"
  /\ \A r \in deciding[w] : r.decision # d
  /\ deciding' = [deciding EXCEPT ![w] = @ \cup {[decision |-> d, scrap |-> scrap[w]]}]
  /\ UNCHANGED <<stockVars, lineVars, outputVars, woStatus, request, seen, wastageSeen>>

\* The decision r is written, whatever the status has become.
Decide(w, r, status) ==
  /\ woStatus' = [woStatus EXCEPT ![w] = status]
  /\ deciding' = [deciding EXCEPT ![w] = @ \ {r}]
  /\ UNCHANGED <<onHand, netReceived, lineIssued, posted, produced>>

\* reject_inspection
RejectInspection(w) ==
  \E r \in deciding[w] :
    /\ Unlocked(w)
    /\ r.decision = "REJECT" /\ Decide(w, r, "QC_REJECTED")
    /\ UNCHANGED <<reservedStock, rows, scrap, request, seen, wastageSeen>>

\* send_to_rework
SendToRework(w) ==
  \E r \in deciding[w] :
    /\ Unlocked(w)
    /\ r.decision = "REWORK" /\ Decide(w, r, "REWORK")
    /\ UNCHANGED <<reservedStock, rows, scrap, request, seen, wastageSeen>>

\* scrap_batch, which has locked w by then, writes the scrap over and releases
\* the rows of every line
ScrapBatch(w, s) ==
  \E r \in deciding[w] :
    /\ request[w] = "WORK"
    /\ r.decision = "SCRAP" /\ Decide(w, r, "CLOSED")
    /\ scrap' = [scrap EXCEPT ![w] = Written(@, r.scrap, s)]
    /\ rows' = [rows EXCEPT ![w] = [m \in Materials |-> CancelRows(@[m])]]
    /\ reservedStock' = [m \in Materials |->
                           ReservedLess(w, m, Total(CancellableOf(rows[w][m])))]
    /\ EndRequest(w)

-----------------------------------------------------------------------------
(* The system *)

Stock(m) == \E n \in 1..MaxStock : ReceiveStock(m, n) \/ RemoveStock(m, n)

Release(w) ==
  \/ CreateWorkOrder(w)
  \/ BeginRelease(w)
  \/ BeginWork(w)
  \/ AbandonWork(w)
  \/ CommitRelease(w)
  \/ FailRelease(w)
  \/ CommitSalesRelease(w)
  \/ AllocateMaterials(w)

Storekeeper(w) ==
  \E m \in Materials :
    \/ \E n \in 1..MaxStock : \/ StorekeeperReserve(w, m, n)
                              \/ IssueMaterial(w, m, n)
                              \/ ReturnMaterial(w, m, n)
    \/ RejectIssue(w, m)

Production(w) ==
  \/ StartProduction(w)
  \/ \E p \in 0..Planned[w] + 1, s \in 0..MaxScrap :
       RecordProduction(w, p, s) \/ WorkerRecordProduction(w, p, s)
  \/ BeginWastage(w)
  \/ \E n \in 1..MaxScrap : CommitWastage(w, n)

QualityControl(w) ==
  \/ SubmitForQC(w)
  \/ \E d \in Decisions : BeginDecision(w, d)
  \/ RejectInspection(w)
  \/ SendToRework(w)
  \/ \E s \in 0..MaxScrap : ScrapBatch(w, s)

Next ==
  \/ \E m \in Materials : Stock(m)
  \/ \E w \in WorkOrders :
       Release(w) \/ Storekeeper(w) \/ Production(w) \/ QualityControl(w)

Spec == Init /\ [][Next]_vars

\* One request at a time: a request that has read is the next to write.  The
\* scrapping of a batch reads twice, its work order and then its materials.
OneAtATime ==
  /\ \A w \in WorkOrders : request[w] # "NONE" => request'[w] = "NONE"
  /\ \A w \in WorkOrders : wastageSeen[w] # {} => wastageSeen'[w] = {}
  /\ \A w \in WorkOrders : deciding[w] # {} =>
       \/ deciding'[w] = {}
       \/ Unlocked(w) /\ request'[w] = "WORK" /\ \E r \in deciding[w] : r.decision = "SCRAP"

SerialSpec == Init /\ [][Next /\ OneAtATime]_vars

-----------------------------------------------------------------------------
(* Properties *)

Quantities(T) == [WorkOrders -> [Materials -> T]]

(* Every table holds rows of its type. *)
TypeOK ==
  /\ onHand \in [Materials -> Nat]
  /\ reservedStock \in [Materials -> Nat]
  /\ netReceived \in [Materials -> Int]
  /\ rows \in Quantities(Seq(Row))
  /\ lineIssued \in Quantities(Nat)
  /\ posted \in Quantities(Nat)
  /\ produced \in [WorkOrders -> Nat]
  /\ scrap \in [WorkOrders -> Nat]
  /\ woStatus \in [WorkOrders -> WOStatus]
  /\ request \in [WorkOrders -> Requests]
  /\ seen \in [WorkOrders -> [stock : [Materials -> Nat], reserved : [Materials -> Nat]]]
  /\ wastageSeen \in [WorkOrders -> SUBSET Nat]
  /\ deciding \in [WorkOrders -> SUBSET [decision : Decisions, scrap : Nat]]

(* A reservation row never gives more than it holds: what was consumed and
   returned was issued before, what was issued was reserved, and a row still
   RESERVED has given nothing. *)
RowAccounting ==
  \A w \in WorkOrders, m \in Materials : \A i \in DOMAIN rows[w][m] :
    LET r == rows[w][m][i] IN
    /\ r.consumed + r.returned =< r.issued
    /\ r.issued =< r.quantity
    /\ r.status = "RESERVED" => r.issued = 0

(* The work order line and the reservation rows agree on what the work order
   holds, although issues, returns and consumption reach them by different
   paths: issued_quantity is the sum issued less the sum returned. *)
LineMatchesRows ==
  \A w \in WorkOrders, m \in Materials :
    lineIssued[w][m] + Total(ReturnedOf(rows[w][m])) = Total(IssuedOf(rows[w][m]))

(* The consumption records, from which production computes what it still has to
   consume, agree with the consumed quantities of the reservation rows. *)
PostedMatchesRows ==
  \A w \in WorkOrders, m \in Materials :
    posted[w][m] = Total(ConsumedOf(rows[w][m]))

(* No finished goods without material: the consumption posted for a work order
   covers what its BOM asks for the quantity produced, for every material and
   whichever of the two recording paths was used. *)
NoFreeGoods ==
  \A w \in WorkOrders, m \in Materials : produced[w] * PerUnit[w][m] =< posted[w][m]

(* A work order never produces beyond its plan.  No code compares the two: it
   follows from the material a work order can be issued, as long as its BOM
   asks for some. *)
ProducedWithinPlan ==
  \A w \in WorkOrders :
    (\E m \in Materials : PerUnit[w][m] > 0) => produced[w] =< Planned[w]

(* No line is issued more than it requires: a fact the others need. *)
IssuedWithinRequired ==
  \A w \in WorkOrders, m \in Materials : lineIssued[w][m] =< Required(w, m)

\* What is on hand and what the work orders hold is what was received.
Accounted(m) == onHand[m] + Total([w \in WorkOrders |-> lineIssued[w][m]]) = netReceived[m]

(* With stock in buckets, material is neither lost nor created between the store
   and the work orders, whatever requests interleave and whatever stale material
   objects they hold. *)
StockConserved == Bucketed => \A m \in Materials : Accounted(m)

\* What a work order was issued, and has neither consumed nor returned.
Holding == [w \in WorkOrders |-> [m \in Materials |-> lineIssued[w][m] - posted[w][m]]]

Flow == INSTANCE MaterialFlow
          WITH store <- onHand, held <- Holding, used <- posted, made <- produced

(* With stock in buckets, every step of every request, whatever others do between its
   reading and its writing, is one of MaterialFlow: material moves between the store
   and one work order, none appears or disappears on the way, consumption is never
   taken back, and output is covered by the material consumed for it. *)
MaterialFlows == Flow!Spec

(* The inductive invariant. *)
Inv ==
  /\ TypeOK
  /\ RowAccounting
  /\ LineMatchesRows
  /\ PostedMatchesRows
  /\ IssuedWithinRequired
  /\ NoFreeGoods
  /\ StockConserved

(* A row that was cancelled: none of it, or part of it, had been issued. *)
Cancelled(r) ==
  \/ r.status = "RETURNED" /\ r.issued = 0
  \/ r.status = "ISSUED" /\ r.issued < r.quantity

Claim(w, m) ==
  Total([i \in DOMAIN rows[w][m] |->
           IF Cancelled(rows[w][m][i]) THEN 0 ELSE Unissued(rows[w][m][i])])

(* With one request at a time, reserved_stock is never more than the unissued
   quantity of the reservation rows that were not cancelled: no stock is held
   back for nobody. *)
ReservedBacked ==
  \A m \in Materials :
    reservedStock[m] =< Total([w \in WorkOrders |-> Claim(w, m)])

(* With one request at a time and stock kept in current_stock, no more is
   reserved than is there: whatever is reserved, issued, cancelled or removed,
   the next issue of a reserved unit does not fail for want of stock. *)
ReservedWithinStock ==
  \A m \in Materials : reservedStock[m] =< onHand[m]
=============================================================================
