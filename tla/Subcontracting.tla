---------------------------- MODULE Subcontracting ----------------------------
(***************************************************************************)
(* Work given to one subcontractor: raw material is issued to the location *)
(* of the subcontractor, output comes back and uses it up, and what is     *)
(* left is returned.                                                       *)
(*                                                                         *)
(* Every handler reads the order without a lock.  The three that move      *)
(* stock then lock rows one after the other and keep them until they       *)
(* commit; a receipt takes the bucket of the raw material before the       *)
(* material, the other two take them the other way round, so requests can  *)
(* wait for each other.  PostgreSQL ends such a wait by aborting one.      *)
(*                                                                         *)
(* All orders use one raw material and produce one output.  What           *)
(* current_stock becomes when buckets change is in Procurement.            *)
(***************************************************************************)
EXTENDS StockBuckets, Sequences

CONSTANTS
  Orders, Sessions,
  Supplier,        \* the location of the subcontractor
  Quantity,        \* Quantity[o]: output ordered
  PerUnit,         \* PerUnit[o]: raw material that a unit of output uses
  InitialLevel,    \* buckets of the raw material at the start
  Quantities,      \* bound: quantities that a request may name
  MaxOutput,       \* bound: output received
  MaxReturned,     \* bound: raw material returned
  NoSession        \* nobody

ASSUME FiniteOrders == IsFiniteSet(Orders)
ASSUME OrderAssumption ==
  Quantity \in [Orders -> Nat \ {0}] /\ PerUnit \in [Orders -> Nat \ {0}]
ASSUME PlaceAssumption == Supplier \in Locations \ Internal
ASSUME StockAssumption == InitialLevel \in Levels /\ InitialLevel[Available(Supplier)] = 0
ASSUME BoundAssumption ==
  Quantities \subseteq Nat \ {0} /\ MaxOutput \in Nat /\ MaxReturned \in Nat
ASSUME NobodyAssumption == NoSession \notin Sessions

VARIABLES
  order,      \* subcontract_orders, the sums of their lines and of their issue records
  level,      \* stock_levels of the raw material
  output,     \* stock of the output
  owner,      \* owner[k]: the session that has row k locked
  session     \* session[s]: the request of s, what it read and the locks it has

vars == <<order, level, output, owner, session>>

-----------------------------------------------------------------------------
(* Orders *)

Status == {"draft", "approved", "materials_issued", "partially_received", "completed", "cancelled"}

\* lines: order lines, one for the raw material for each approval that found none.
\* issued, consumed and returned are sums over the lines; rows and credited are the
\* sums of quantity and returned_quantity over the issue records.
Order == [status : Status, lines : Nat, received : Nat, issued : Nat, consumed : Nat,
          returned : Nat, rows : Nat, credited : Nat]

NewOrder == [status |-> "draft", lines |-> 0, received |-> 0, issued |-> 0, consumed |-> 0,
             returned |-> 0, rows |-> 0, credited |-> 0]

\* A column holds the new value when it differs from the one that was read.
Written(now, read, new) == IF new = read THEN now ELSE new

AtSupplier == level[Available(Supplier)]

\* Over all orders
Issued == Total([o \in Orders |-> order[o].issued])
Consumed == Total([o \in Orders |-> order[o].consumed])
Returned == Total([o \in Orders |-> order[o].returned])

-----------------------------------------------------------------------------
(* Requests and row locks *)

Locks == {"raw", "output", "bucket"}

\* The rows a request locks, in its order: the materials of the raw material and of
\* the output, and the bucket of the raw material at the subcontractor.
Plan ==
  [approve |-> <<>>,
   cancel  |-> <<>>,
   issue   |-> <<"raw", "bucket">>,
   return  |-> <<"raw", "bucket">>,
   receive |-> <<"output", "bucket", "raw">>]

Accepts ==
  [approve |-> {"draft"},
   cancel  |-> {"draft", "approved"},
   issue   |-> {"approved", "materials_issued"},
   return  |-> {"materials_issued", "partially_received", "completed"},
   receive |-> {"materials_issued", "partially_received"}]

Kinds == DOMAIN Plan

Idle == [kind |-> "none"]

InProgress ==
  {Idle} \cup [kind : Kinds, of : Orders, status : Status, lines : Nat, received : Nat,
               locked : 0..3]

Begin(s, kind, o) ==
  /\ session[s] = Idle
  /\ order[o].status \in Accepts[kind]
  /\ session' = [session EXCEPT ![s] =
       [kind |-> kind, of |-> o, status |-> order[o].status,
        lines |-> IF kind = "approve" THEN order[o].lines ELSE 0,
        received |-> IF kind = "receive" THEN order[o].received ELSE 0, locked |-> 0]]
  /\ UNCHANGED <<order, level, output, owner>>

Waiting(s) == session[s] # Idle /\ session[s].locked < Len(Plan[session[s].kind])

Wanted(s) == Plan[session[s].kind][session[s].locked + 1]

Lock(s) ==
  /\ Waiting(s)
  /\ owner[Wanted(s)] = NoSession
  /\ owner' = [owner EXCEPT ![Wanted(s)] = s]
  /\ session' = [session EXCEPT ![s].locked = @ + 1]
  /\ UNCHANGED <<order, level, output>>

KeptLocks(s) == owner     \* mutant: the locks outlive the request
Unlocked(s) == [k \in Locks |-> IF owner[k] = s THEN NoSession ELSE owner[k]]

End(s) ==
  /\ session' = [session EXCEPT ![s] = Idle]
  /\ owner' = Unlocked(s)

\* The request of s has all its locks and commits.
Ready(s, kind) == session[s].kind = kind /\ ~Waiting(s)

\* A request fails and is rolled back.
Abandon(s) ==
  /\ session[s] # Idle
  /\ End(s)
  /\ UNCHANGED <<order, level, output>>

\* Two requests hold what the other wants: the database aborts one of them.
Deadlocked(s, t) ==
  /\ Waiting(s) /\ Waiting(t)
  /\ owner[Wanted(s)] = t
  /\ owner[Wanted(t)] = s

AbortDeadlock(s) ==
  /\ \E t \in Sessions : Deadlocked(s, t)
  /\ Abandon(s)

-----------------------------------------------------------------------------
(* The handlers *)

\* approve_subcontract_order snapshots the bill of materials unless there are lines.
Approve(s) ==
  /\ Ready(s, "approve")
  /\ order' = [order EXCEPT
       ![session[s].of].status = Written(@, session[s].status, "approved"),
       ![session[s].of].lines = IF session[s].lines = 0 THEN @ + 1 ELSE @]
  /\ End(s)
  /\ UNCHANGED <<level, output>>

Cancel(s) ==
  /\ Ready(s, "cancel")
  /\ order' = [order EXCEPT ![session[s].of].status = Written(@, session[s].status, "cancelled")]
  /\ End(s)
  /\ UNCHANGED <<level, output>>

\* issue_subcontract_material; it needs the whole quantity at the location named.
Issue(s) ==
  /\ Ready(s, "issue")
  /\ \E q \in Quantities, l \in Internal :
       LET o == session[s].of IN
       /\ q =< level[Available(l)]
       /\ level' = Moved(level, Available(l), Available(Supplier), q)
       /\ order' = [order EXCEPT
            ![o].status = Written(@, session[s].status, "materials_issued"),
            ![o].issued = @ + q, ![o].rows = @ + q]
  /\ End(s)
  /\ UNCHANGED output

\* What a receipt of q asks for, on every line, and what it takes from the subcontractor.
Needed(o, q) == order[o].lines * PerUnit[o] * q
UsedAll(o, q) == Needed(o, q)            \* mutant: not limited by what is there
Used(o, q) == Smaller(AtSupplier, Needed(o, q))

\* What is entered as consumed is what was taken.
ConsumedAsNeeded(o, q) == Needed(o, q)   \* mutant: what is missing is entered as well
ConsumedOf(o, q) == Used(o, q)

ReceivedStatus(o, n) == IF n >= Quantity[o] THEN "completed" ELSE "partially_received"

\* receive_subcontract adds to the quantity it read before it had any lock.
Receive(s) ==
  /\ Ready(s, "receive")
  /\ \E q \in Quantities :
       LET o == session[s].of
           total == session[s].received + q
       IN /\ output + q =< MaxOutput
          /\ output' = output + q
          /\ level' = [level EXCEPT ![Available(Supplier)] = @ - Used(o, q)]
          /\ order' = [order EXCEPT
               ![o].received = total,
               ![o].consumed = @ + ConsumedOf(o, q),
               ![o].status = Written(@, session[s].status, ReceivedStatus(o, total))]
  /\ End(s)

\* What the issue records are credited with when q is returned.
Credit(o, q) == Smaller(order[o].rows - order[o].credited, q)

\* return_subcontract_material: the whole quantity goes to the warehouse, whatever
\* is there to be taken from the subcontractor.
Return(s) ==
  /\ Ready(s, "return")
  /\ \E q \in Quantities, l \in Internal :
       LET o == session[s].of IN
       /\ Returned + q =< MaxReturned
       /\ level' = Drawn(Added(level, Available(l), q), Available(Supplier), q)
       /\ order' = [order EXCEPT ![o].returned = @ + q, ![o].credited = @ + Credit(o, q)]
  /\ End(s)
  /\ UNCHANGED output

-----------------------------------------------------------------------------
(* The specification *)

Init ==
  /\ order = [o \in Orders |-> NewOrder]
  /\ level = InitialLevel
  /\ output = 0
  /\ owner = [k \in Locks |-> NoSession]
  /\ session = [s \in Sessions |-> Idle]

Commit(s) == Approve(s) \/ Cancel(s) \/ Issue(s) \/ Receive(s) \/ Return(s)

Advance(s) == Lock(s) \/ AbortDeadlock(s) \/ Commit(s)

Next ==
  \E s \in Sessions :
    \/ \E o \in Orders : \E kind \in Kinds : Begin(s, kind, o)
    \/ Advance(s)
    \/ Abandon(s)

Spec == Init /\ [][Next]_vars

\* A request goes on, or fails: the client waits for its answer, and a lock that is
\* set free goes to a request that waits for it.  Nothing makes a request begin.
FairSpec == Spec /\ \A s \in Sessions : SF_vars(Advance(s) \/ (~Waiting(s) /\ Abandon(s)))

-----------------------------------------------------------------------------
(* Properties *)

\* Every column, lock and request in progress holds a value of its kind.
TypeOK ==
  /\ order \in [Orders -> Order]
  /\ level \in Levels
  /\ output \in Nat
  /\ owner \in [Locks -> Sessions \cup {NoSession}]
  /\ session \in [Sessions -> InProgress]

\* What lies at the subcontractor is what was issued there and not yet used up, less
\* what was returned at most: all orders together never consume what was not issued,
\* and no issued unit vanishes (issue, receive and return of several orders at once).
SupplierStockAccounted ==
  /\ Consumed + AtSupplier =< Issued
  /\ Issued =< Consumed + AtSupplier + Returned

\* Every request ends, although requests lock the same rows in opposite orders.
RequestsEnd == \A s \in Sessions : session[s] # Idle ~> session[s] = Idle
=============================================================================
