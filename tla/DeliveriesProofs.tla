--------------------------- MODULE DeliveriesProofs ---------------------------
(***************************************************************************)
(* What Deliveries promises for every set of orders, lines, products and   *)
(* sessions.  The types hold however requests interleave; the accounts of  *)
(* goods and deliveries hold when those on one order follow each other.    *)
(***************************************************************************)
EXTENDS Deliveries, UnitCountProofs

-----------------------------------------------------------------------------
(* Sums over lines *)

\* Terms that are zero do not count.
LEMMA TotalOfPart ==
  ASSUME NEW A, NEW B, A \subseteq B, NEW f \in [A -> Nat], NEW g \in [B -> Nat],
         \A x \in A : g[x] = f[x], \A x \in B \ A : g[x] = 0
  PROVE  Total(g) = Total(f)
<1>1. \A x \in B \ A : {x} \X (1..g[x]) = {}
  <2> SUFFICES ASSUME NEW x \in B \ A PROVE 1..g[x] = {}
    OBVIOUS
  <2> QED  OBVIOUS
<1>2. Units(f) = UNION {{x} \X (1..f[x]) : x \in A}
  BY DEF Units
<1>3. Units(g) = UNION {{x} \X (1..g[x]) : x \in B}
  BY DEF Units
<1>4. ASSUME NEW u \in Units(g) PROVE u \in Units(f)
  <2>1. PICK x \in B : u \in {x} \X (1..g[x])
    BY <1>3
  <2>2. x \in A /\ g[x] = f[x]
    BY <1>1, <2>1
  <2> QED  BY <1>2, <2>1, <2>2
<1>5. ASSUME NEW u \in Units(f) PROVE u \in Units(g)
  <2>1. PICK x \in A : u \in {x} \X (1..f[x])
    BY <1>2
  <2>2. x \in B /\ g[x] = f[x]
    OBVIOUS
  <2> QED  BY <1>3, <2>1, <2>2
<1>6. Units(f) = Units(g)
  BY <1>4, <1>5
<1> QED  BY <1>6 DEF Total

LEMMA SumNat ==
  ASSUME NEW ls \in SUBSET Lines, NEW q \in [ls -> Nat], NEW p
  PROVE  SumFor(p, q) \in Nat
<1> DEFINE here == {k \in ls : ProductOf[k] = p}
           f == [l \in here |-> q[l]]
<1>1. IsFiniteSet(here) /\ f \in [here -> Nat]
  BY LineAssumption, FS_Subset
<1>2. SumFor(p, q) = Total(f)
  BY DEF SumFor
<1> HIDE DEF here, f
<1> QED  BY <1>1, <1>2, UnitsFinite

\* Units of l that q holds
PartOf(q, l) == IF l \in DOMAIN q THEN q[l] ELSE 0

\* g is f with q added on the lines that q has.
AddsTo(f, q, g) == \A l \in Lines : g[l] = f[l] + PartOf(q, l)
SumsTo(p, f, q, g) ==
  /\ SumFor(p, g) = SumFor(p, f) + SumFor(p, q)
  /\ SumFor(p, g) \in Nat /\ SumFor(p, f) \in Nat /\ SumFor(p, q) \in Nat

LEMMA SumAdd ==
  ASSUME NEW ls \in SUBSET Lines, NEW q \in [ls -> Nat],
         NEW f \in [Lines -> Nat], NEW g \in [Lines -> Nat], NEW p, AddsTo(f, q, g)
  PROVE  SumsTo(p, f, q, g)
<1> DEFINE all == {k \in Lines : ProductOf[k] = p}
           some == {k \in ls : ProductOf[k] = p}
           F == [l \in all |-> f[l]]
           G == [l \in all |-> g[l]]
           Q == [l \in some |-> q[l]]
           Z == [l \in all |-> IF l \in ls THEN q[l] ELSE 0]
<1>1. IsFiniteSet(all) /\ some \subseteq all
  BY LineAssumption, FS_Subset
<1>2. F \in [all -> Nat] /\ G \in [all -> Nat] /\ Z \in [all -> Nat] /\ Q \in [some -> Nat]
  OBVIOUS
<1>3. \A l \in all : G[l] = F[l] + Z[l]
  BY DEF AddsTo, PartOf
<1>4. (\A l \in some : Z[l] = Q[l]) /\ (\A l \in all \ some : Z[l] = 0)
  OBVIOUS
<1>5. SumFor(p, g) = Total(G) /\ SumFor(p, f) = Total(F) /\ SumFor(p, q) = Total(Q)
  BY DEF SumFor
<1> HIDE DEF all, some, F, G, Q, Z
<1>6. Total(G) = Total(F) + Total(Z)
  BY <1>1, <1>2, <1>3, TotalAdd
<1>7. Total(Z) = Total(Q)
  BY <1>1, <1>2, <1>4, TotalOfPart
<1>8. Total(F) \in Nat /\ Total(G) \in Nat /\ Total(Z) \in Nat
  BY <1>1, <1>2, UnitsFinite
<1> QED  BY <1>5, <1>6, <1>7, <1>8 DEF SumsTo

\* One line's quantity counts for its product alone.
Single(l, n) == [k \in {l} |-> n]

LEMMA SumOne ==
  ASSUME NEW l \in Lines, NEW n \in Nat, NEW p
  PROVE  /\ ProductOf[l] = p => SumFor(p, Single(l, n)) = n
         /\ ProductOf[l] # p => SumFor(p, Single(l, n)) = 0
<1> DEFINE q == [k \in {l} |-> n]
           here == {k \in DOMAIN q : ProductOf[k] = p}
           f == [k \in here |-> q[k]]
<1>1. SumFor(p, Single(l, n)) = Total(f)
  BY DEF SumFor, Single
<1>2. CASE ProductOf[l] # p
  <2>1. here = {} /\ DOMAIN f = here
    BY <1>2
  <2>2. Total(f) = 0
    <3> HIDE DEF f, here
    <3> QED  BY <2>1, TotalZero
  <2> QED  BY <1>1, <1>2, <2>2
<1>3. CASE ProductOf[l] = p
  <2> DEFINE e == [k \in {} |-> 0]
  <2>1. here = {} \cup {l} /\ f \in [{} \cup {l} -> Nat] /\ f[l] = n
    BY <1>3
  <2>2. e \in [{} -> Nat] /\ DOMAIN e = {} /\ IsFiniteSet({})
    BY FS_EmptySet
  <2>3. Total(e) = 0
    BY <2>2, TotalZero
  <2>4. Total(f) = Total(e) + f[l]
    <3> HIDE DEF f, e, here
    <3>1. l \notin {} /\ \A y \in {} : f[y] = e[y]
      OBVIOUS
    <3> QED  BY <2>1, <2>2, <3>1, TotalSplit
  <2> QED  BY <1>1, <1>3, <2>1, <2>3, <2>4
<1> QED  BY <1>2, <1>3

-----------------------------------------------------------------------------
(* Types *)

DeliveryRows == UNION {Delivery(o) : o \in Orders}
Requests == {Idle} \cup UNION {Request(o) \cup Creation(o) : o \in Orders}

\* TypeOK, with the tables as functions and sequences.
Typed ==
  /\ onHand \in [Products -> Nat] /\ reserved \in [Products -> Nat]
  /\ receipts \in [Products -> Nat] /\ producing \in [Lines -> Nat]
  /\ line \in [Lines -> Line]
  /\ status \in [Orders -> OrderStatus]
  /\ notified \subseteq Orders
  /\ delivery \in Seq(DeliveryRows) /\ Len(delivery) =< MaxDeliveries
  /\ session \in [Sessions -> Requests]
  /\ \A s \in Sessions : session[s] # Idle => Refers(session[s])

LEMMA TypedTables == Typed => Tables
<1> SUFFICES ASSUME Typed PROVE Tables
  OBVIOUS
<1>1. \A n \in DOMAIN delivery : delivery[n] \in DeliveryRows
  BY DEF Typed
<1>2. \A s \in Sessions : session[s] \in Requests
  BY DEF Typed
<1>3. TypeOK
  BY <1>1, <1>2 DEF Typed, TypeOK, DeliveryRows, Requests
<1> QED  BY <1>3 DEF Typed, Tables

\* What a request holds, by its kind.
LEMMA RequestParts ==
  ASSUME Typed, NEW s \in Sessions, session[s] # Idle
  PROVE  LET r == session[s] IN
         /\ r.order \in Orders
         /\ r.kind \in OnDelivery \cup OnOrder \cup OnLine \cup Creating
         /\ r.line \in [LinesOf(r.order) -> Line]
         /\ r.kind \notin Creating => r \in Request(r.order) /\ r.status \in OrderStatus
         /\ r.kind \in Creating => /\ r \in Creation(r.order) /\ r.q \in Quantities(r.order)
                                   /\ r.number \in Nat /\ r.status \in {"DRAFT", "SHIPPED"}
         /\ r.kind \in OnDelivery => r.of \in DOMAIN delivery /\ delivery[r.of].order = r.order
         /\ r.kind \in OnLine => r.of \in Lines /\ OrderOf[r.of] = r.order
<1> DEFINE r == session[s]
<1>1. r \in Requests /\ Refers(r)
  BY DEF Typed
<1>2. PICK o \in Orders : r \in Request(o) \cup Creation(o)
  BY <1>1 DEF Requests
<1>3. CASE r \in Request(o)
  <2>1. r.kind \notin Creating /\ r.order = o
    BY <1>3 DEF Request, Creating, OnDelivery, OnOrder, OnLine, Updates
  <2> QED  BY <1>1, <1>3, <2>1 DEF Request, Refers, LinesOf
<1>4. CASE r \in Creation(o)
  <2>1. r.kind \in Creating /\ r.order = o
    BY <1>4 DEF Creation, Creating
  <2>2. r.kind \notin OnDelivery /\ r.kind \notin OnLine
    BY <2>1 DEF Creating, OnDelivery, OnLine, Updates
  <2> QED  BY <1>1, <1>4, <2>1, <2>2 DEF Creation, Refers
<1> QED  BY <1>2, <1>3, <1>4

\* A delivery order, by its number.
LEMMA DeliveryParts ==
  ASSUME Typed, NEW n \in DOMAIN delivery
  PROVE  /\ n \in 1..MaxDeliveries
         /\ delivery[n].order \in Orders
         /\ delivery[n] \in Delivery(delivery[n].order)
         /\ delivery[n].of \in Quantities(delivery[n].order)
         /\ delivery[n].status \in DeliveryStatus
         /\ delivery[n].document \in BOOLEAN
<1>1. delivery[n] \in DeliveryRows /\ n \in 1..Len(delivery) /\ Len(delivery) \in Nat
  BY DEF Typed
<1>2. n \in 1..MaxDeliveries
  BY <1>1, BoundAssumption DEF Typed
<1>3. PICK o \in Orders : delivery[n] \in Delivery(o)
  BY <1>1 DEF DeliveryRows
<1> QED  BY <1>2, <1>3 DEF Delivery

\* The delivery orders keep their numbers and their orders.
OrdersKept ==
  \A n \in DOMAIN delivery : n \in DOMAIN delivery' /\ delivery'[n].order = delivery[n].order

\* A step of s that leaves well typed tables.
LEMMA TypedStep ==
  ASSUME Typed, NEW s \in Sessions, session' \in [Sessions -> Requests],
         \A t \in Sessions \ {s} : session'[t] = session[t],
         session'[s] # Idle => Refers(session[s])', OrdersKept,
         onHand' \in [Products -> Nat], reserved' \in [Products -> Nat],
         receipts' \in [Products -> Nat], producing' \in [Lines -> Nat],
         line' \in [Lines -> Line], status' \in [Orders -> OrderStatus], notified' \subseteq Orders,
         delivery' \in Seq(DeliveryRows), Len(delivery') =< MaxDeliveries
  PROVE  Typed'
<1>1. ASSUME NEW t \in Sessions, session'[t] # Idle PROVE Refers(session[t])'
  <2>1. CASE t = s
    BY <1>1, <2>1
  <2>2. CASE t # s
    <3>1. session'[t] = session[t] /\ Refers(session[t])
      BY <1>1, <2>2 DEF Typed
    <3> QED  BY <3>1 DEF Refers, OrdersKept
  <2> QED  BY <2>1, <2>2
<1> QED  BY <1>1 DEF Typed

\* The delivery orders keep their contents when only the status of some changes.
StatusesOnly ==
  /\ DOMAIN delivery' = DOMAIN delivery
  /\ \A n \in DOMAIN delivery :
       \E st \in DeliveryStatus : delivery'[n] = [delivery[n] EXCEPT !.status = st]

LEMMA StatusesTyped ==
  ASSUME Typed, StatusesOnly, delivery' = [n \in DOMAIN delivery |-> delivery'[n]]
  PROVE  /\ OrdersKept
         /\ delivery' \in Seq(DeliveryRows) /\ Len(delivery') =< MaxDeliveries
         /\ \A n \in DOMAIN delivery :
              /\ delivery'[n].order = delivery[n].order
              /\ delivery'[n].of = delivery[n].of
              /\ delivery'[n].document = delivery[n].document
<1>1. delivery \in Seq(DeliveryRows)
  BY DEF Typed
<1>2. ASSUME NEW n \in DOMAIN delivery
      PROVE  /\ delivery'[n] \in DeliveryRows
             /\ delivery'[n].order = delivery[n].order
             /\ delivery'[n].of = delivery[n].of
             /\ delivery'[n].document = delivery[n].document
  <2>1. PICK o \in Orders : delivery[n] \in Delivery(o)
    BY <1>1 DEF DeliveryRows
  <2>2. PICK st \in DeliveryStatus : delivery'[n] = [delivery[n] EXCEPT !.status = st]
    BY DEF StatusesOnly
  <2>3. delivery'[n] \in Delivery(o)
    BY <2>1, <2>2 DEF Delivery
  <2> QED  BY <2>1, <2>2, <2>3 DEF DeliveryRows, Delivery
<1>3. Len(delivery) \in Nat /\ DOMAIN delivery = 1..Len(delivery)
  BY <1>1
<1>4. delivery' \in [1..Len(delivery) -> DeliveryRows]
  BY <1>2, <1>3
<1>5. delivery' \in Seq(DeliveryRows) /\ Len(delivery') = Len(delivery)
  BY <1>3, <1>4
<1> QED  BY <1>2, <1>3, <1>5 DEF OrdersKept, StatusesOnly, Typed

-----------------------------------------------------------------------------
(* What the handlers write *)

LEMMA LinesOfLines ==
  ASSUME NEW o
  PROVE  LinesOf(o) \subseteq Lines /\ \A l \in LinesOf(o) : OrderOf[l] = o
BY DEF LinesOf

LEMMA MovedShipped ==
  ASSUME line \in [Lines -> Line], NEW ls \in SUBSET Lines, NEW new \in [ls -> Nat],
         Moved("shipped", new)
  PROVE  /\ line' \in [Lines -> Line]
         /\ \A l \in Lines :
              /\ line'[l].quantity = line[l].quantity
              /\ line'[l].allocated = line[l].allocated
              /\ line'[l].dispatched = line[l].dispatched
              /\ line'[l].shipped = IF l \in ls THEN new[l] ELSE line[l].shipped
              /\ l \notin ls => line'[l] = line[l]
<1>1. line' = [l \in Lines |-> IF l \in ls THEN [line[l] EXCEPT !.shipped = new[l]] ELSE line[l]]
  BY DEF Moved
<1>2. ASSUME NEW l \in Lines, l \in ls
      PROVE  /\ line'[l] \in Line
             /\ line'[l].quantity = line[l].quantity
             /\ line'[l].allocated = line[l].allocated
             /\ line'[l].dispatched = line[l].dispatched
             /\ line'[l].shipped = new[l]
  <2>1. line'[l] = [line[l] EXCEPT !.shipped = new[l]] /\ line[l] \in Line /\ new[l] \in Nat
    BY <1>1, <1>2
  <2> QED  BY <2>1 DEF Line
<1>3. ASSUME NEW l \in Lines, l \notin ls PROVE line'[l] = line[l] /\ line[l] \in Line
  BY <1>1, <1>3
<1> QED  BY <1>1, <1>2, <1>3

LEMMA MovedDispatched ==
  ASSUME line \in [Lines -> Line], NEW ls \in SUBSET Lines, NEW new \in [ls -> Nat],
         Moved("dispatched", new)
  PROVE  /\ line' \in [Lines -> Line]
         /\ \A l \in Lines :
              /\ line'[l].quantity = line[l].quantity
              /\ line'[l].allocated = line[l].allocated
              /\ line'[l].dispatched = IF l \in ls THEN new[l] ELSE line[l].dispatched
              /\ line'[l].shipped = line[l].shipped
              /\ l \notin ls => line'[l] = line[l]
<1>1. line' = [l \in Lines |->
                 IF l \in ls THEN [line[l] EXCEPT !.dispatched = new[l]] ELSE line[l]]
  BY DEF Moved
<1>2. ASSUME NEW l \in Lines, l \in ls
      PROVE  /\ line'[l] \in Line
             /\ line'[l].quantity = line[l].quantity
             /\ line'[l].allocated = line[l].allocated
             /\ line'[l].dispatched = new[l]
             /\ line'[l].shipped = line[l].shipped
  <2>1. line'[l] = [line[l] EXCEPT !.dispatched = new[l]] /\ line[l] \in Line /\ new[l] \in Nat
    BY <1>1, <1>2
  <2> QED  BY <2>1 DEF Line
<1>3. ASSUME NEW l \in Lines, l \notin ls PROVE line'[l] = line[l] /\ line[l] \in Line
  BY <1>1, <1>3
<1> QED  BY <1>1, <1>2, <1>3

LEMMA SetDeliveryWrites ==
  ASSUME Typed, NEW n \in DOMAIN delivery, NEW st \in DeliveryStatus, SetDelivery(n, st)
  PROVE  /\ StatusesOnly /\ OrdersKept
         /\ delivery' \in Seq(DeliveryRows) /\ Len(delivery') =< MaxDeliveries
         /\ delivery'[n].status = st
         /\ \A m \in DOMAIN delivery \ {n} : delivery'[m] = delivery[m]
<1>1. delivery' = [delivery EXCEPT ![n] = [@ EXCEPT !.status = st]]
  BY DEF SetDelivery
<1>2. /\ DOMAIN delivery' = DOMAIN delivery
      /\ delivery'[n] = [delivery[n] EXCEPT !.status = st]
      /\ \A m \in DOMAIN delivery \ {n} : delivery'[m] = delivery[m]
      /\ delivery' = [m \in DOMAIN delivery |-> delivery'[m]]
  BY <1>1
<1>3. ASSUME NEW m \in DOMAIN delivery, m # n
      PROVE  delivery'[m] = [delivery[m] EXCEPT !.status = delivery[m].status]
  BY <1>2, <1>3, DeliveryParts DEF Delivery
<1>4. \A m \in DOMAIN delivery : delivery[m].status \in DeliveryStatus
  BY DeliveryParts
<1>5. StatusesOnly
  BY <1>2, <1>3, <1>4 DEF StatusesOnly
<1>6. delivery'[n].status = st
  BY <1>2, DeliveryParts DEF Delivery
<1> QED  BY <1>2, <1>5, <1>6, StatusesTyped

\* What r has read of its lines is what they are.
Current(r) == \A l \in LinesOf(r.order) : r.line[l] = line[l]

\* The lines of ls have shipped what new says, and nothing else of a line changes.
LinesShip(ls, new) ==
  \A l \in Lines :
    /\ line'[l].quantity = line[l].quantity
    /\ line'[l].allocated = line[l].allocated
    /\ line'[l].dispatched = line[l].dispatched
    /\ line'[l].shipped = IF l \in ls THEN new[l] ELSE line[l].shipped

\* What a save of the order leaves in its lines.
LEMMA SaveOrderWrites ==
  ASSUME Typed, NEW r, r.order \in Orders, r.line \in [LinesOf(r.order) -> Line],
         NEW st \in OrderStatus, NEW ls \in SUBSET LinesOf(r.order), NEW shipped \in [ls -> Nat],
         SaveOrder(r, st, shipped)
  PROVE  /\ line' \in [Lines -> Line] /\ status' \in [Orders -> OrderStatus]
         /\ \A l \in Lines \ LinesOf(r.order) : line'[l] = line[l]
         /\ Current(r) => LinesShip(ls, shipped)
<1> DEFINE Saved(refreshed, now, read, new) ==
             IF refreshed THEN new ELSE Written(now, read, new)
           NowShipped(l) == IF l \in ls THEN shipped[l] ELSE r.line[l].shipped
<1>1. PICK refreshed \in BOOLEAN :
        /\ status' = [status EXCEPT ![r.order] = Saved(refreshed, @, r.status, st)]
        /\ line' = [l \in Lines |->
             IF l \in LinesOf(r.order)
             THEN [line[l] EXCEPT
                     !.quantity  = Saved(refreshed, @, r.line[l].quantity, r.line[l].quantity),
                     !.allocated = Saved(refreshed, @, r.line[l].allocated, r.line[l].allocated),
                     !.shipped   = Saved(refreshed, @, r.line[l].shipped, NowShipped(l))]
             ELSE line[l]]
  BY DEF SaveOrder
<1>2. status' \in [Orders -> OrderStatus]
  BY <1>1 DEF Typed, Written
<1>3. ASSUME NEW l \in Lines, l \notin LinesOf(r.order)
      PROVE  line'[l] = line[l] /\ line[l] \in Line
  BY <1>1, <1>3 DEF Typed
<1>4. ASSUME NEW l \in LinesOf(r.order)
      PROVE  /\ line'[l] \in Line
             /\ r.line[l] = line[l] =>
                  /\ line'[l].quantity = line[l].quantity
                  /\ line'[l].allocated = line[l].allocated
                  /\ line'[l].dispatched = line[l].dispatched
                  /\ line'[l].shipped = NowShipped(l)
  <2> DEFINE q == Saved(refreshed, line[l].quantity, r.line[l].quantity, r.line[l].quantity)
             a == Saved(refreshed, line[l].allocated, r.line[l].allocated, r.line[l].allocated)
             n == Saved(refreshed, line[l].shipped, r.line[l].shipped, NowShipped(l))
  <2>1. l \in Lines /\ line[l] \in Line /\ r.line[l] \in Line
    BY LinesOfLines DEF Typed
  <2>2. line'[l] = [line[l] EXCEPT !.quantity = q, !.allocated = a, !.shipped = n]
    BY <1>1, <2>1
  <2>3. NowShipped(l) \in Nat
    BY <2>1 DEF Line
  <2>4. q \in Nat /\ a \in Nat /\ n \in Nat
    BY <2>1, <2>3 DEF Line, Written
  <2>5. r.line[l] = line[l] => q = line[l].quantity /\ a = line[l].allocated /\ n = NowShipped(l)
    BY DEF Written
  <2> HIDE DEF q, a, n, NowShipped
  <2>6. /\ line'[l] \in Line
        /\ line'[l].quantity = q /\ line'[l].allocated = a /\ line'[l].shipped = n
        /\ line'[l].dispatched = line[l].dispatched
    BY <2>1, <2>2, <2>4 DEF Line
  <2> QED  BY <2>5, <2>6
<1>5. line' \in [Lines -> Line]
  BY <1>1, <1>3, <1>4
<1>6. ASSUME Current(r), NEW l \in Lines
      PROVE  /\ line'[l].quantity = line[l].quantity
             /\ line'[l].allocated = line[l].allocated
             /\ line'[l].dispatched = line[l].dispatched
             /\ line'[l].shipped = IF l \in ls THEN shipped[l] ELSE line[l].shipped
  <2>1. CASE l \in LinesOf(r.order)
    BY <1>4, <1>6, <2>1 DEF Current
  <2>2. CASE l \notin LinesOf(r.order)
    BY <1>3, <2>2
  <2> QED  BY <2>1, <2>2
<1> QED  BY <1>2, <1>3, <1>5, <1>6 DEF LinesShip

\* Goods leave the stock, and the reservation with them.
LEMMA FulfilWrites ==
  ASSUME Typed, NEW ls \in SUBSET Lines, NEW q \in [ls -> Nat], Fulfil(q)
  PROVE  /\ onHand' \in [Products -> Nat] /\ reserved' \in [Products -> Nat]
         /\ UNCHANGED <<receipts, producing>>
         /\ \A p \in Products : /\ SumFor(p, q) \in Nat
                                /\ onHand'[p] = onHand[p] - SumFor(p, q)
                                /\ reserved'[p] = Positive(reserved[p] - SumFor(p, q))
<1>1. /\ \A p \in Products : SumFor(p, q) =< onHand[p]
      /\ onHand' = [p \in Products |-> onHand[p] - SumFor(p, q)]
      /\ reserved' = [p \in Products |-> Positive(reserved[p] - SumFor(p, q))]
      /\ UNCHANGED <<receipts, producing>>
  BY DEF Fulfil, LessReserved
<1>2. ASSUME NEW p \in Products
      PROVE  /\ SumFor(p, q) \in Nat /\ onHand[p] - SumFor(p, q) \in Nat
             /\ Positive(reserved[p] - SumFor(p, q)) \in Nat
  <2>1. SumFor(p, q) \in Nat
    BY SumNat
  <2>2. onHand[p] \in Nat /\ reserved[p] \in Nat /\ SumFor(p, q) =< onHand[p]
    BY <1>1 DEF Typed
  <2> QED  BY <2>1, <2>2 DEF Positive
<1> QED  BY <1>1, <1>2

-----------------------------------------------------------------------------
(* Every step keeps the types, and a request writes to its own order alone *)

Local(s, o) ==
  /\ \A l \in Lines \ LinesOf(o) : line'[l] = line[l]
  /\ \A n \in DOMAIN delivery : delivery[n].order # o => delivery'[n] = delivery[n]
  /\ \A t \in Sessions \ {s} : session'[t] = session[t]

LEMMA EndTyped ==
  ASSUME Typed, NEW s \in Sessions, End(s), OrdersKept,
         onHand' \in [Products -> Nat], reserved' \in [Products -> Nat],
         receipts' \in [Products -> Nat], producing' \in [Lines -> Nat],
         line' \in [Lines -> Line], status' \in [Orders -> OrderStatus], notified' \subseteq Orders,
         delivery' \in Seq(DeliveryRows), Len(delivery') =< MaxDeliveries
  PROVE  Typed' /\ session'[s] = Idle /\ \A t \in Sessions \ {s} : session'[t] = session[t]
<1>1. Idle \in Requests /\ session' = [session EXCEPT ![s] = Idle]
  BY DEF Requests, End
<1>2. /\ session' \in [Sessions -> Requests] /\ session'[s] = Idle
      /\ \A t \in Sessions \ {s} : session'[t] = session[t]
  BY <1>1 DEF Typed
<1>3. Typed'
  BY <1>2, TypedStep
<1> QED  BY <1>2, <1>3

LEMMA Kept ==
  ASSUME Typed
  PROVE  /\ UNCHANGED goods => /\ onHand' \in [Products -> Nat] /\ reserved' \in [Products -> Nat]
                               /\ receipts' \in [Products -> Nat] /\ producing' \in [Lines -> Nat]
         /\ UNCHANGED line => line' \in [Lines -> Line]
         /\ UNCHANGED status => status' \in [Orders -> OrderStatus]
         /\ UNCHANGED notified => notified' \subseteq Orders
         /\ UNCHANGED delivery => /\ delivery' \in Seq(DeliveryRows)
                                  /\ Len(delivery') =< MaxDeliveries /\ OrdersKept
BY DEF Typed, goods, OrdersKept

LEMMA BeginTyped ==
  ASSUME Typed, NEW s \in Sessions, NEW kind \in OnDelivery \cup OnOrder \cup OnLine,
         NEW o \in Orders, NEW of \in (1..MaxDeliveries) \cup LinesOf(o) \cup {o},
         kind \in OnDelivery => of \in DOMAIN delivery /\ delivery[of].order = o,
         kind \in OnLine => of \in LinesOf(o),
         Begin(s, kind, o, of)
  PROVE  /\ Typed'
         /\ session'[s].kind = kind /\ session'[s].order = o /\ session'[s].of = of
         /\ session'[s].line = [l \in LinesOf(o) |-> line[l]]
         /\ \A t \in Sessions \ {s} : session'[t] = session[t]
<1> DEFINE x == [kind |-> kind, order |-> o, status |-> status[o],
                 line |-> [l \in LinesOf(o) |-> line[l]], of |-> of]
<1>1. session' = [session EXCEPT ![s] = x] /\ UNCHANGED <<goods, line, status, delivery, notified>>
  BY DEF Begin
<1>2. [l \in LinesOf(o) |-> line[l]] \in [LinesOf(o) -> Line] /\ status[o] \in OrderStatus
  BY LinesOfLines DEF Typed
<1>3. x \in Request(o)
  BY <1>2 DEF Request
<1>4. x \in Requests
  BY <1>3 DEF Requests
<1>5. x.kind = kind /\ x.order = o /\ x.of = of /\ x.line = [l \in LinesOf(o) |-> line[l]]
  OBVIOUS
<1>6. kind \notin Creating
  BY DEF Creating, OnDelivery, OnOrder, OnLine, Updates
<1> HIDE DEF x
<1>7. /\ session' \in [Sessions -> Requests] /\ session'[s] = x
      /\ \A t \in Sessions \ {s} : session'[t] = session[t]
  BY <1>1, <1>4 DEF Typed
<1>8. Refers(session[s])'
  BY <1>1, <1>5, <1>6, <1>7 DEF Refers
<1>9. Typed'
  BY <1>1, <1>7, <1>8, Kept, TypedStep
<1> QED  BY <1>5, <1>7, <1>9

LEMMA AbandonTyped ==
  ASSUME Typed, NEW s \in Sessions, Abandon(s)
  PROVE  Typed'
BY Kept, EndTyped DEF Abandon

LEMMA ResolveTyped ==
  ASSUME Typed, NEW s \in Sessions, ResolveLines(s)
  PROVE  /\ Typed' /\ Local(s, session[s].order) /\ session[s] # Idle
         /\ session'[s].kind = "number" /\ session'[s].status = "DRAFT"
         /\ session'[s].line = session[s].line /\ session'[s].order = session[s].order
<1> DEFINE r == session[s]
<1>1. /\ r.kind = "create"
      /\ UNCHANGED <<goods, line, status, delivery, notified>>
  BY DEF ResolveLines
<1>2. r # Idle
  BY <1>1 DEF Idle
<1>3. r.order \in Orders /\ r.line \in [LinesOf(r.order) -> Line]
  BY <1>2, RequestParts
<1>4. PICK q \in [LinesOf(r.order) -> 0..MaxOrdered] :
        session' = [session EXCEPT ![s] =
          [kind |-> "number", order |-> r.order, line |-> r.line, status |-> "DRAFT",
           q |-> q, number |-> 0]]
  BY DEF ResolveLines
<1> DEFINE x == [kind |-> "number", order |-> r.order, line |-> r.line, status |-> "DRAFT",
                 q |-> q, number |-> 0]
<1>5. q \in Quantities(r.order)
  BY <1>4, BoundAssumption DEF Quantities
<1>6. x \in Creation(r.order)
  BY <1>3, <1>5 DEF Creation, DeliveryStatus
<1>7. x \in Requests
  BY <1>3, <1>6 DEF Requests
<1>8. /\ x.kind = "number" /\ x.status = "DRAFT" /\ x.line = r.line /\ x.order = r.order
  OBVIOUS
<1> HIDE DEF x
<1>9. session' = [session EXCEPT ![s] = x]
  BY <1>4 DEF x
<1>10. /\ session' \in [Sessions -> Requests] /\ session'[s] = x
       /\ \A t \in Sessions \ {s} : session'[t] = session[t]
  BY <1>7, <1>9 DEF Typed
<1>11. Refers(session[s])'
  BY <1>8, <1>10 DEF Refers, Creating, OnDelivery, OnLine, Updates
<1>12. Typed'
  BY <1>1, <1>10, <1>11, Kept, TypedStep
<1> QED  BY <1>1, <1>2, <1>8, <1>10, <1>12 DEF Local

LEMMA NumberTyped ==
  ASSUME Typed, NEW s \in Sessions, NextNumber(s)
  PROVE  /\ Typed' /\ Local(s, session[s].order) /\ session[s] # Idle
         /\ session[s].kind \in Creating /\ session'[s].kind \in Creating
         /\ session'[s].status = session[s].status
         /\ session'[s].line = session[s].line /\ session'[s].order = session[s].order
<1> DEFINE r == session[s]
           x == [r EXCEPT !.kind = "insert", !.number = Len(delivery) + 1]
<1>1. /\ r.kind = "number"
      /\ UNCHANGED <<goods, line, status, delivery, notified>>
  BY DEF NextNumber
<1>2. session' = [session EXCEPT ![s] = x]
  BY DEF NextNumber, Typed
<1>3. r # Idle /\ r.kind \in Creating
  BY <1>1 DEF Idle, Creating
<1>4. r.order \in Orders /\ r \in Creation(r.order) /\ r.status \in {"DRAFT", "SHIPPED"}
  BY <1>3, RequestParts
<1>5. Len(delivery) + 1 \in Nat
  BY DEF Typed
<1>6. /\ x \in Creation(r.order) /\ x.kind = "insert"
      /\ x.status = r.status /\ x.line = r.line /\ x.order = r.order
  BY <1>4, <1>5 DEF Creation
<1> HIDE DEF x
<1>7. x \in Requests
  BY <1>4, <1>6 DEF Requests
<1>8. /\ session' \in [Sessions -> Requests] /\ session'[s] = x
      /\ \A t \in Sessions \ {s} : session'[t] = session[t]
  BY <1>2, <1>7 DEF Typed
<1>9. Refers(session[s])'
  BY <1>4, <1>6, <1>8 DEF Refers, Creating, OnDelivery, OnLine, Updates
<1>10. Typed'
  BY <1>1, <1>8, <1>9, Kept, TypedStep
<1> QED  BY <1>1, <1>3, <1>6, <1>8, <1>10 DEF Local, Creating

\* What a handler's request is, and the delivery it is about.
LEMMA OnDeliveryParts ==
  ASSUME Typed, NEW s \in Sessions, session[s].kind \in OnDelivery
  PROVE  LET r == session[s] IN
         /\ r # Idle /\ r.kind \notin Creating
         /\ r.order \in Orders /\ r.line \in [LinesOf(r.order) -> Line] /\ r.status \in OrderStatus
         /\ r.of \in DOMAIN delivery /\ delivery[r.of].order = r.order
         /\ delivery[r.of].of \in Quantities(r.order)
         /\ Sent(delivery[r.of].of) \in SUBSET LinesOf(r.order)
<1> DEFINE r == session[s]
<1>1. r.kind # "none" /\ r.kind \notin Creating
  BY DEF OnDelivery, Updates, Creating
<1>2. r # Idle
  BY <1>1 DEF Idle
<1>3. /\ r.order \in Orders /\ r.line \in [LinesOf(r.order) -> Line] /\ r.status \in OrderStatus
      /\ r.of \in DOMAIN delivery /\ delivery[r.of].order = r.order
  BY <1>1, <1>2, RequestParts
<1>4. delivery[r.of].of \in Quantities(r.order)
  BY <1>3, DeliveryParts
<1>5. Sent(delivery[r.of].of) \in SUBSET LinesOf(r.order)
  BY <1>4 DEF Sent, Quantities
<1> QED  BY <1>1, <1>2, <1>3, <1>4, <1>5

LEMMA OnOrderParts ==
  ASSUME Typed, NEW s \in Sessions, session[s].kind \in OnOrder \cup OnLine
  PROVE  LET r == session[s] IN
         /\ r # Idle /\ r.kind \notin Creating
         /\ r.order \in Orders /\ r.line \in [LinesOf(r.order) -> Line] /\ r.status \in OrderStatus
         /\ r.kind \in OnLine => r.of \in LinesOf(r.order)
<1> DEFINE r == session[s]
<1>1. r.kind # "none" /\ r.kind \notin Creating
  BY DEF OnOrder, OnLine, Creating
<1>2. r # Idle
  BY <1>1 DEF Idle
<1> QED  BY <1>1, <1>2, RequestParts DEF LinesOf

LEMMA InsertTyped ==
  ASSUME Typed, NEW s \in Sessions, InsertDelivery(s)
  PROVE  /\ Typed' /\ Local(s, session[s].order) /\ session[s] # Idle /\ session'[s] = Idle
<1> DEFINE r == session[s]
           d == [order |-> r.order, status |-> r.status, of |-> r.q,
                 document |-> r.status = "SHIPPED"]
           taken == {k \in LinesOf(r.order) : r.q[k] > 0}
           new == [l \in taken |-> r.line[l].dispatched + r.q[l]]
<1>1. /\ r.kind = "insert" /\ r.number = Len(delivery) + 1 /\ r.number =< MaxDeliveries
      /\ delivery' = Append(delivery, d) /\ End(s)
      /\ UNCHANGED <<goods, status, notified>>
  BY DEF InsertDelivery
<1>2. r # Idle /\ r.kind \in Creating
  BY <1>1 DEF Idle, Creating
<1>3. /\ r.order \in Orders /\ r.q \in Quantities(r.order) /\ r.status \in {"DRAFT", "SHIPPED"}
      /\ r.line \in [LinesOf(r.order) -> Line]
  BY <1>2, RequestParts
<1>4. d \in Delivery(r.order)
  BY <1>3 DEF Delivery, DeliveryStatus
<1>5. d \in DeliveryRows /\ delivery \in Seq(DeliveryRows)
  BY <1>3, <1>4 DEF DeliveryRows, Typed
<1> HIDE DEF d
<1>6. /\ delivery' \in Seq(DeliveryRows) /\ Len(delivery') = Len(delivery) + 1
      /\ \A n \in DOMAIN delivery : n \in DOMAIN delivery' /\ delivery'[n] = delivery[n]
  BY <1>1, <1>5
<1>7. OrdersKept /\ Len(delivery') =< MaxDeliveries
  BY <1>1, <1>6 DEF OrdersKept
<1>8. line' \in [Lines -> Line] /\ \A l \in Lines \ LinesOf(r.order) : line'[l] = line[l]
  <2>1. CASE r.status = "DRAFT"
    <3>1. taken \in SUBSET Lines /\ taken \subseteq LinesOf(r.order)
      BY LinesOfLines
    <3>2. new \in [taken -> Nat]
      BY <1>3 DEF Quantities, Line
    <3>3. Moved("dispatched", new) /\ line \in [Lines -> Line]
      BY <2>1 DEF InsertDelivery, Typed
    <3> HIDE DEF new, taken
    <3> QED  BY <3>1, <3>2, <3>3, MovedDispatched
  <2>2. CASE r.status # "DRAFT"
    BY <2>2 DEF InsertDelivery, Typed
  <2> QED  BY <2>1, <2>2
<1>9. Typed' /\ session'[s] = Idle /\ \A t \in Sessions \ {s} : session'[t] = session[t]
  BY <1>1, <1>6, <1>7, <1>8, Kept, EndTyped
<1> QED  BY <1>2, <1>6, <1>8, <1>9 DEF Local

\* A handler that sets the status of its delivery, and at most that of the order.
LEMMA StatusesSetTyped ==
  ASSUME Typed, NEW s \in Sessions, session[s].kind \in OnDelivery,
         NEW st \in DeliveryStatus, SetDelivery(session[s].of, st), End(s),
         UNCHANGED goods,
         line' \in [Lines -> Line],
         \A l \in Lines \ LinesOf(session[s].order) : line'[l] = line[l],
         status' \in [Orders -> OrderStatus], notified' \subseteq Orders
  PROVE  /\ Typed' /\ Local(s, session[s].order) /\ session[s] # Idle /\ session'[s] = Idle
<1> DEFINE r == session[s]
<1>1. /\ r # Idle /\ r.of \in DOMAIN delivery /\ delivery[r.of].order = r.order
  BY OnDeliveryParts
<1>2. /\ OrdersKept /\ delivery' \in Seq(DeliveryRows) /\ Len(delivery') =< MaxDeliveries
      /\ \A m \in DOMAIN delivery \ {r.of} : delivery'[m] = delivery[m]
  BY <1>1, SetDeliveryWrites
<1>3. Typed' /\ session'[s] = Idle /\ \A t \in Sessions \ {s} : session'[t] = session[t]
  BY <1>2, Kept, EndTyped
<1> QED  BY <1>1, <1>2, <1>3 DEF Local

LEMMA StatusWritten ==
  ASSUME Typed, NEW o, NEW st \in OrderStatus, status' = [status EXCEPT ![o] = st]
  PROVE  status' \in [Orders -> OrderStatus]
BY DEF Typed

LEMMA InvoicedTyped ==
  ASSUME Typed, NEW r, r.order \in Orders, Invoiced(r)
  PROVE  status' \in [Orders -> OrderStatus] /\ notified' \subseteq Orders
BY DEF Typed, Invoiced, Written, OrderStatus

LEMMA ShipTyped ==
  ASSUME Typed, NEW s \in Sessions, ShipDelivery(s)
  PROVE  /\ Typed' /\ Local(s, session[s].order) /\ session[s] # Idle /\ session'[s] = Idle
<1> DEFINE r == session[s]
           q == delivery[r.of].of
           shipped == ShippedNow(r, q)
<1>1. /\ r.kind = "ship" /\ Fulfil(q) /\ Moved("shipped", shipped)
      /\ status' = [status EXCEPT ![r.order] =
           IF AllShipped(r, shipped, "allocated") THEN Written(@, r.status, "SHIPPED") ELSE @]
      /\ SetDelivery(r.of, "SHIPPED") /\ End(s) /\ UNCHANGED notified
  BY DEF ShipDelivery
<1>2. r.kind \in OnDelivery
  BY <1>1 DEF OnDelivery
<1>3. /\ r # Idle /\ r.order \in Orders /\ r.line \in [LinesOf(r.order) -> Line]
      /\ r.of \in DOMAIN delivery /\ delivery[r.of].order = r.order
      /\ q \in Quantities(r.order) /\ Sent(q) \in SUBSET LinesOf(r.order)
  BY <1>2, OnDeliveryParts
<1>4. shipped \in [Sent(q) -> Nat]
  BY <1>3 DEF ShippedNow, Quantities, Line
<1>5. LinesOf(r.order) \in SUBSET Lines
  BY LinesOfLines
<1>6. Sent(q) \in SUBSET Lines /\ q \in [LinesOf(r.order) -> Nat]
  BY <1>3, <1>5 DEF Quantities
<1>7. /\ onHand' \in [Products -> Nat] /\ reserved' \in [Products -> Nat]
      /\ receipts' \in [Products -> Nat] /\ producing' \in [Lines -> Nat]
  <2> HIDE DEF q
  <2> QED  BY <1>1, <1>5, <1>6, FulfilWrites DEF Typed
<1>8. line' \in [Lines -> Line] /\ \A l \in Lines \ LinesOf(r.order) : line'[l] = line[l]
  <2>1. line \in [Lines -> Line]
    BY DEF Typed
  <2> HIDE DEF shipped, q
  <2> QED  BY <1>1, <1>3, <1>4, <1>6, <2>1, MovedShipped
<1>9. status' \in [Orders -> OrderStatus]
  BY <1>1, <1>3 DEF Typed, Written, OrderStatus
<1>10. /\ OrdersKept /\ delivery' \in Seq(DeliveryRows) /\ Len(delivery') =< MaxDeliveries
       /\ \A m \in DOMAIN delivery \ {r.of} : delivery'[m] = delivery[m]
  BY <1>1, <1>3, SetDeliveryWrites DEF DeliveryStatus
<1>11. notified' \subseteq Orders
  BY <1>1 DEF Typed
<1>12. Typed' /\ session'[s] = Idle /\ \A t \in Sessions \ {s} : session'[t] = session[t]
  BY <1>1, <1>7, <1>8, <1>9, <1>10, <1>11, EndTyped
<1> QED  BY <1>3, <1>8, <1>10, <1>12 DEF Local

LEMMA DeliverTyped ==
  ASSUME Typed, NEW s \in Sessions, Deliver(s) \/ DispatchOrder(s) \/ ConfirmDelivery(s)
  PROVE  /\ Typed' /\ Local(s, session[s].order) /\ session[s] # Idle /\ session'[s] = Idle
<1> DEFINE r == session[s]
<1>1. /\ r.kind \in OnDelivery /\ End(s) /\ UNCHANGED <<goods, line>>
      /\ SetDelivery(r.of, "DELIVERED") \/ SetDelivery(r.of, "IN_TRANSIT")
  BY DEF Deliver, DispatchOrder, ConfirmDelivery, OnDelivery
<1>2. r.order \in Orders
  BY <1>1, OnDeliveryParts
<1>3. status' \in [Orders -> OrderStatus] /\ notified' \subseteq Orders
  <2>1. CASE Deliver(s)
    BY <1>2, <2>1, Kept, InvoicedTyped DEF Deliver
  <2>2. CASE DispatchOrder(s)
    <3>1. /\ status' = [status EXCEPT ![r.order] =
               IF r.status \in {"SHIPPED", "DELIVERED", "INVOICED"} THEN @ ELSE "SHIPPED"]
          /\ UNCHANGED notified
      BY <2>2 DEF DispatchOrder
    <3> QED  BY <1>2, <3>1 DEF Typed, OrderStatus
  <2>3. CASE ConfirmDelivery(s)
    BY <1>2, <2>3, Kept, InvoicedTyped DEF ConfirmDelivery, Typed
  <2> QED  BY <2>1, <2>2, <2>3
<1>4. line' \in [Lines -> Line] /\ \A l \in Lines \ LinesOf(r.order) : line'[l] = line[l]
  BY <1>1, Kept
<1> QED  BY <1>1, <1>3, <1>4, StatusesSetTyped DEF DeliveryStatus

LEMMA CancelTyped ==
  ASSUME Typed, NEW s \in Sessions, CancelDelivery(s)
  PROVE  /\ Typed' /\ Local(s, session[s].order) /\ session[s] # Idle /\ session'[s] = Idle
<1> DEFINE r == session[s]
           q == delivery[r.of].of
           new == [l \in Sent(q) |-> LessDispatched(r.line[l].dispatched, q[l])]
<1>1. /\ r.kind = "cancel" /\ Moved("dispatched", new) /\ SetDelivery(r.of, "CANCELLED")
      /\ End(s) /\ UNCHANGED <<goods, status, notified>>
  BY DEF CancelDelivery
<1>2. r.kind \in OnDelivery
  BY <1>1 DEF OnDelivery
<1>3. /\ r.line \in [LinesOf(r.order) -> Line]
      /\ q \in Quantities(r.order) /\ Sent(q) \in SUBSET LinesOf(r.order)
  BY <1>2, OnDeliveryParts
<1>4. new \in [Sent(q) -> Nat]
  BY <1>3 DEF LessDispatched, Positive, Quantities, Line
<1>5. line \in [Lines -> Line] /\ Sent(q) \in SUBSET Lines
  BY <1>3, LinesOfLines DEF Typed
<1>6. line' \in [Lines -> Line] /\ \A l \in Lines \ LinesOf(r.order) : line'[l] = line[l]
  <2> DEFINE ls == Sent(q)
  <2>1. /\ ls \in SUBSET Lines /\ new \in [ls -> Nat] /\ Moved("dispatched", new)
        /\ ls \subseteq LinesOf(r.order)
    BY <1>1, <1>3, <1>4, <1>5
  <2> HIDE DEF ls, new, q
  <2> QED  BY <1>5, <2>1, MovedDispatched
<1> QED  BY <1>1, <1>2, <1>6, Kept, StatusesSetTyped DEF DeliveryStatus

LEMMA MoveTyped ==
  ASSUME Typed, NEW s \in Sessions, PackDelivery(s) \/ UpdateShipmentStatus(s)
  PROVE  /\ Typed' /\ Local(s, session[s].order) /\ session[s] # Idle /\ session'[s] = Idle
<1>1. PICK kind \in OnDelivery, target \in DeliveryStatus : MoveDelivery(s, kind, target)
  BY DEF PackDelivery, UpdateShipmentStatus, OnDelivery, Updates, DeliveryStatus
<1>2. /\ session[s].kind \in OnDelivery /\ SetDelivery(session[s].of, target) /\ End(s)
      /\ UNCHANGED <<goods, line, status, notified>>
  BY <1>1 DEF MoveDelivery
<1> QED  BY <1>2, Kept, StatusesSetTyped

\* A shipment of the whole order: what it ships, and the record it leads to.
LEMMA ShipOrderParts ==
  ASSUME Typed, NEW s \in Sessions, ShipOrder(s)
  PROVE  LET r == session[s] IN
         /\ r.kind = "ship order"
         /\ \E q \in Quantities(r.order), st \in OrderStatus, sent \in Quantities(r.order) :
              /\ \A l \in Sent(q) : ShippedNow(r, q)[l] =< r.line[l].allocated
              /\ Fulfil(q)
              /\ SaveOrder(r, st, ShippedNow(r, q))
              /\ session' = [session EXCEPT ![s] =
                   [kind |-> "number", order |-> r.order, line |-> r.line, status |-> "SHIPPED",
                    q |-> sent, number |-> 0]]
         /\ UNCHANGED <<delivery, notified>>
<1> DEFINE r == session[s]
<1>1. r.kind = "ship order" /\ UNCHANGED <<delivery, notified>>
  BY DEF ShipOrder
<1>2. r.status \in OrderStatus
  BY <1>1, OnOrderParts DEF OnOrder
<1>3. PICK q \in [LinesOf(r.order) -> 0..MaxOrdered] :
        LET shipped == ShippedNow(r, q)
            all == /\ \A l \in LinesOf(r.order) : r.line[l].allocated > 0
                   /\ AllShipped(r, shipped, "allocated")
        IN
        /\ \A l \in Sent(q) : shipped[l] =< r.line[l].allocated
        /\ Fulfil(q)
        /\ SaveOrder(r, IF all THEN "SHIPPED" ELSE r.status, shipped)
        /\ session' = [session EXCEPT ![s] =
             [kind |-> "number", order |-> r.order, line |-> r.line, status |-> "SHIPPED",
              q |-> [l \in LinesOf(r.order) |->
                       IF line[l].status = "SHORT_CLOSED" THEN 0 ELSE q[l]],
              number |-> 0]]
  BY DEF ShipOrder
<1> DEFINE all == /\ \A l \in LinesOf(r.order) : r.line[l].allocated > 0
                  /\ AllShipped(r, ShippedNow(r, q), "allocated")
           st == IF all THEN "SHIPPED" ELSE r.status
           sent == [l \in LinesOf(r.order) |-> IF line[l].status = "SHORT_CLOSED" THEN 0 ELSE q[l]]
<1>4. q \in Quantities(r.order) /\ sent \in Quantities(r.order)
  BY BoundAssumption DEF Quantities
<1>5. st \in OrderStatus
  BY <1>2 DEF OrderStatus
<1>6. /\ \A l \in Sent(q) : ShippedNow(r, q)[l] =< r.line[l].allocated
      /\ Fulfil(q)
      /\ SaveOrder(r, st, ShippedNow(r, q))
      /\ session' = [session EXCEPT ![s] =
           [kind |-> "number", order |-> r.order, line |-> r.line, status |-> "SHIPPED",
            q |-> sent, number |-> 0]]
  BY <1>3
<1> HIDE DEF st, sent, all
<1> QED  BY <1>1, <1>4, <1>5, <1>6

LEMMA ShipOrderTyped ==
  ASSUME Typed, NEW s \in Sessions, ShipOrder(s)
  PROVE  /\ Typed' /\ Local(s, session[s].order) /\ session[s] # Idle
         /\ session'[s].kind = "number" /\ session'[s].status = "SHIPPED"
         /\ session'[s].order = session[s].order
<1> DEFINE r == session[s]
<1>1. r.kind \in OnOrder /\ UNCHANGED <<delivery, notified>>
  BY ShipOrderParts DEF OnOrder
<1>2. PICK q \in Quantities(r.order), st \in OrderStatus, sent \in Quantities(r.order) :
        /\ Fulfil(q)
        /\ SaveOrder(r, st, ShippedNow(r, q))
        /\ session' = [session EXCEPT ![s] =
             [kind |-> "number", order |-> r.order, line |-> r.line, status |-> "SHIPPED",
              q |-> sent, number |-> 0]]
  BY ShipOrderParts
<1>3. r # Idle /\ r.order \in Orders /\ r.line \in [LinesOf(r.order) -> Line]
  BY <1>1, OnOrderParts
<1>4. LinesOf(r.order) \in SUBSET Lines /\ q \in [LinesOf(r.order) -> Nat]
  BY LinesOfLines DEF Quantities
<1>5. Sent(q) \in SUBSET LinesOf(r.order) /\ ShippedNow(r, q) \in [Sent(q) -> Nat]
  BY <1>3, <1>4 DEF Sent, ShippedNow, Line
<1>6. /\ onHand' \in [Products -> Nat] /\ reserved' \in [Products -> Nat]
      /\ receipts' \in [Products -> Nat] /\ producing' \in [Lines -> Nat]
  BY <1>2, <1>4, FulfilWrites DEF Typed
<1>7. /\ line' \in [Lines -> Line] /\ status' \in [Orders -> OrderStatus]
      /\ \A l \in Lines \ LinesOf(r.order) : line'[l] = line[l]
  <2> DEFINE ls == Sent(q)
             shipped == ShippedNow(r, q)
  <2>1. ls \in SUBSET LinesOf(r.order) /\ shipped \in [ls -> Nat] /\ SaveOrder(r, st, shipped)
    BY <1>2, <1>5
  <2> HIDE DEF ls, shipped
  <2> QED  BY <1>3, <2>1, SaveOrderWrites
<1> DEFINE x == [kind |-> "number", order |-> r.order, line |-> r.line, status |-> "SHIPPED",
                 q |-> sent, number |-> 0]
<1>8. x \in Creation(r.order)
  BY <1>3 DEF Creation, DeliveryStatus
<1>9. x \in Requests
  BY <1>3, <1>8 DEF Requests
<1>10. /\ x.kind = "number" /\ x.status = "SHIPPED" /\ x.order = r.order
  OBVIOUS
<1> HIDE DEF x
<1>11. session' = [session EXCEPT ![s] = x]
  BY <1>2 DEF x
<1>12. /\ session' \in [Sessions -> Requests] /\ session'[s] = x
       /\ \A t \in Sessions \ {s} : session'[t] = session[t]
  BY <1>9, <1>11 DEF Typed
<1>13. Refers(session[s])'
  BY <1>10, <1>12 DEF Refers, Creating, OnDelivery, OnLine, Updates
<1>14. Typed'
  BY <1>1, <1>6, <1>7, <1>12, <1>13, Kept, TypedStep
<1> QED  BY <1>1, <1>3, <1>7, <1>10, <1>12, <1>14 DEF Local

LEMMA DeliverOrderTyped ==
  ASSUME Typed, NEW s \in Sessions, DeliverOrder(s)
  PROVE  /\ Typed' /\ Local(s, session[s].order) /\ session[s] # Idle /\ session'[s] = Idle
         /\ StatusesOnly /\ delivery' = [n \in DOMAIN delivery |-> delivery'[n]]
         /\ \A n \in DOMAIN delivery :
              delivery'[n] = delivery[n] \/ (delivery[n].status = "SHIPPED"
                                             /\ delivery'[n].status = "DELIVERED")
<1> DEFINE r == session[s]
<1>1. /\ r.kind = "deliver order" /\ End(s) /\ UNCHANGED <<goods, notified>>
  BY DEF DeliverOrder
<1>2. /\ r # Idle /\ r.order \in Orders /\ r.line \in [LinesOf(r.order) -> Line]
  BY <1>1, OnOrderParts DEF OnOrder
<1>3. PICK invoiced \in BOOLEAN :
        /\ SaveOrder(r, IF invoiced THEN "INVOICED" ELSE "DELIVERED", << >>)
        /\ delivery' = [n \in DOMAIN delivery |->
             IF invoiced /\ delivery[n].order = r.order /\ delivery[n].status = "SHIPPED"
             THEN [delivery[n] EXCEPT !.status = "DELIVERED"] ELSE delivery[n]]
  BY DEF DeliverOrder
<1>4. PICK st \in OrderStatus : SaveOrder(r, st, << >>)
  BY <1>3 DEF OrderStatus
<1>5. /\ line' \in [Lines -> Line] /\ status' \in [Orders -> OrderStatus]
      /\ \A l \in Lines \ LinesOf(r.order) : line'[l] = line[l]
  <2>1. {} \in SUBSET LinesOf(r.order) /\ << >> \in [{} -> Nat]
    OBVIOUS
  <2> QED  BY <1>2, <1>4, <2>1, SaveOrderWrites
<1>6. ASSUME NEW n \in DOMAIN delivery
      PROVE  /\ \E ds \in DeliveryStatus : delivery'[n] = [delivery[n] EXCEPT !.status = ds]
             /\ \/ delivery'[n] = delivery[n]
                \/ delivery[n].status = "SHIPPED" /\ delivery'[n].status = "DELIVERED"
             /\ delivery[n].order # r.order => delivery'[n] = delivery[n]
  <2>1. delivery[n] \in Delivery(delivery[n].order) /\ delivery[n].status \in DeliveryStatus
    BY DeliveryParts
  <2>2. [delivery[n] EXCEPT !.status = delivery[n].status] = delivery[n]
    BY <2>1 DEF Delivery
  <2>3. CASE delivery'[n] = delivery[n]
    BY <2>1, <2>2, <2>3
  <2>4. CASE delivery'[n] # delivery[n]
    <3>1. /\ delivery'[n] = [delivery[n] EXCEPT !.status = "DELIVERED"]
          /\ delivery[n].order = r.order /\ delivery[n].status = "SHIPPED"
      BY <1>3, <2>4
    <3>2. delivery'[n].status = "DELIVERED"
      BY <2>1, <3>1 DEF Delivery
    <3> QED  BY <3>1, <3>2 DEF DeliveryStatus
  <2> QED  BY <2>3, <2>4
<1>7. StatusesOnly /\ delivery' = [n \in DOMAIN delivery |-> delivery'[n]]
  BY <1>3, <1>6 DEF StatusesOnly
<1>8. OrdersKept /\ delivery' \in Seq(DeliveryRows) /\ Len(delivery') =< MaxDeliveries
  BY <1>7, StatusesTyped
<1>9. Typed' /\ session'[s] = Idle /\ \A t \in Sessions \ {s} : session'[t] = session[t]
  BY <1>1, <1>5, <1>8, Kept, EndTyped
<1> QED  BY <1>2, <1>5, <1>6, <1>7, <1>9 DEF Local

\* What a work order delivers, and what of it the line is allocated.
LEMMA ReceiveParts ==
  ASSUME Typed, NEW s \in Sessions, ReceiveGoods(s)
  PROVE  LET r == session[s]
             l == r.of
             p == ProductOf[l]
         IN
         /\ r.kind = "receive"
         /\ \E n \in 1..producing[l], got \in Nat, st \in LineStatus :
              /\ got =< Need(r.line[l], 0)
              /\ onHand' = [onHand EXCEPT ![p] = @ + n]
              /\ receipts' = [receipts EXCEPT ![p] = @ + n]
              /\ producing' = [producing EXCEPT ![l] = @ - n]
              /\ reserved' = [reserved EXCEPT ![p] = @ + got]
              /\ line' = [line EXCEPT ![l].allocated = IF got > 0 THEN r.line[l].allocated + got ELSE @,
                                      ![l].status = st]
         /\ \E st \in OrderStatus : status' = [status EXCEPT ![r.order] = st]
         /\ End(s) /\ UNCHANGED <<delivery, notified>>
<1> DEFINE r == session[s]
           l == r.of
           p == ProductOf[l]
<1>1. r.kind = "receive" /\ End(s) /\ UNCHANGED <<delivery, notified>>
  BY DEF ReceiveGoods
<1>2. /\ r.line \in [LinesOf(r.order) -> Line] /\ l \in LinesOf(r.order) /\ r.order \in Orders
      /\ l \in Lines /\ p \in Products
  BY <1>1, OnOrderParts, LinesOfLines, LineAssumption DEF OnLine
<1>3. PICK n \in 1..producing[l] :
       LET first  == Least(n, Need(r.line[l], 0))
           rest   == Least(n, Need(r.line[l], first))
           second == IF rest =< onHand[p] + n - reserved[p] - first THEN rest ELSE 0
           allocated == r.line[l].allocated + first + second
           new == [line EXCEPT ![l].allocated = IF first > 0 THEN allocated ELSE @,
                               ![l].status =
                                 IF first = 0 THEN @
                                 ELSE IF allocated >= r.line[l].quantity THEN "ALLOCATED"
                                 ELSE "PARTIAL"]
       IN
       /\ onHand' = [onHand EXCEPT ![p] = @ + n]
       /\ receipts' = [receipts EXCEPT ![p] = @ + n]
       /\ producing' = [producing EXCEPT ![l] = @ - n]
       /\ reserved' = [reserved EXCEPT ![p] = @ + first + second]
       /\ line' = new
       /\ status' = [status EXCEPT ![r.order] = Ready(r.order, new)]
  BY DEF ReceiveGoods
<1> DEFINE first  == Least(n, Need(r.line[l], 0))
           rest   == Least(n, Need(r.line[l], first))
           second == IF rest =< onHand[p] + n - reserved[p] - first THEN rest ELSE 0
           allocated == r.line[l].allocated + first + second
           st == IF first = 0 THEN line[l].status
                 ELSE IF allocated >= r.line[l].quantity THEN "ALLOCATED" ELSE "PARTIAL"
           new == [line EXCEPT ![l].allocated = IF first > 0 THEN allocated ELSE @,
                               ![l].status = IF first = 0 THEN @
                                 ELSE IF allocated >= r.line[l].quantity THEN "ALLOCATED"
                                 ELSE "PARTIAL"]
<1>4. /\ onHand' = [onHand EXCEPT ![p] = @ + n]
      /\ receipts' = [receipts EXCEPT ![p] = @ + n]
      /\ producing' = [producing EXCEPT ![l] = @ - n]
      /\ reserved' = [reserved EXCEPT ![p] = @ + first + second]
      /\ line' = new
      /\ status' = [status EXCEPT ![r.order] = Ready(r.order, new)]
  BY <1>3, Zenon
<1>5. n \in Nat /\ n > 0 /\ r.line[l] \in Line /\ line[l] \in Line /\ line \in [Lines -> Line]
  BY <1>2, <1>3 DEF Typed
<1>6. /\ first \in Nat /\ second \in Nat /\ first + second =< Need(r.line[l], 0)
      /\ first = 0 => second = 0
  <2>1. r.line[l].quantity \in Nat /\ r.line[l].allocated \in Nat
    BY <1>5 DEF Line
  <2>2. /\ Need(r.line[l], 0) \in Nat /\ first \in Nat /\ first =< n
        /\ first =< Need(r.line[l], 0)
    BY <1>5, <2>1 DEF Need, Positive, Least
  <2>3. first = 0 => Need(r.line[l], 0) = 0
    BY <1>5, <2>2 DEF Least
  <2> HIDE DEF first
  <2>4. Need(r.line[l], first) = Need(r.line[l], 0) - first
    BY <2>1, <2>2 DEF Need, Positive
  <2>5. rest \in Nat /\ rest =< Need(r.line[l], 0) - first
    BY <1>5, <2>2, <2>4 DEF Least
  <2> HIDE DEF rest
  <2>6. second = rest \/ second = 0
    OBVIOUS
  <2> QED  BY <2>2, <2>3, <2>5, <2>6
<1>7. st \in LineStatus
  BY <1>5 DEF Line, LineStatus
<1>8. new = [line EXCEPT ![l].allocated = IF first + second > 0
                                          THEN r.line[l].allocated + (first + second) ELSE @,
                         ![l].status = st]
  <2>1. r.line[l].allocated \in Nat
    BY <1>5 DEF Line
  <2>2. /\ first > 0 <=> first + second > 0
        /\ allocated = r.line[l].allocated + (first + second)
    <3> HIDE DEF first, second
    <3> QED  BY <1>6, <2>1
  <2> HIDE DEF first, second, allocated
  <2> QED  BY <1>2, <1>5, <2>2
<1>9. Ready(r.order, new) \in OrderStatus
  BY <1>2 DEF Ready, OrderStatus, Typed
<1> DEFINE got == first + second
<1>10. got \in Nat /\ got =< Need(r.line[l], 0)
  BY <1>6
<1>11. reserved' = [reserved EXCEPT ![p] = @ + got]
  <2>1. reserved' = [reserved EXCEPT ![p] = reserved[p] + first + second]
    BY <1>4, Zenon
  <2>2. reserved[p] \in Nat /\ first \in Nat /\ second \in Nat
    BY <1>2, <1>6 DEF Typed
  <2> HIDE DEF first, second
  <2>3. reserved[p] + first + second = reserved[p] + got
    BY <2>2
  <2> QED  BY <2>1, <2>3
<1>12. line' = [line EXCEPT ![l].allocated = IF got > 0 THEN r.line[l].allocated + got ELSE @,
                            ![l].status = st]
  BY <1>4, <1>8, Zenon
<1>13. /\ onHand' = [onHand EXCEPT ![p] = @ + n]
       /\ receipts' = [receipts EXCEPT ![p] = @ + n]
       /\ producing' = [producing EXCEPT ![l] = @ - n]
       /\ status' = [status EXCEPT ![r.order] = Ready(r.order, new)]
  BY <1>4, Zenon
<1>14. n \in 1..producing[l]
  BY <1>3, Zenon
<1> HIDE DEF got, st, new, first, second, rest, allocated
<1>15. \E m \in 1..producing[l], k \in Nat, ls \in LineStatus :
         /\ k =< Need(r.line[l], 0)
         /\ onHand' = [onHand EXCEPT ![p] = @ + m]
         /\ receipts' = [receipts EXCEPT ![p] = @ + m]
         /\ producing' = [producing EXCEPT ![l] = @ - m]
         /\ reserved' = [reserved EXCEPT ![p] = @ + k]
         /\ line' = [line EXCEPT ![l].allocated = IF k > 0 THEN r.line[l].allocated + k ELSE @,
                                 ![l].status = ls]
  BY <1>7, <1>10, <1>11, <1>12, <1>13, <1>14, Zenon
<1>16. \E os \in OrderStatus : status' = [status EXCEPT ![r.order] = os]
  BY <1>9, <1>13, Zenon
<1> QED  BY <1>1, <1>15, <1>16, Zenon

LEMMA ReceiveTyped ==
  ASSUME Typed, NEW s \in Sessions, ReceiveGoods(s)
  PROVE  /\ Typed' /\ Local(s, session[s].order) /\ session[s] # Idle /\ session'[s] = Idle
<1> DEFINE r == session[s]
           l == r.of
           p == ProductOf[l]
<1>1. r.kind \in OnLine /\ End(s) /\ UNCHANGED <<delivery, notified>>
  BY ReceiveParts DEF OnLine
<1>2. /\ r # Idle /\ r.order \in Orders /\ r.line \in [LinesOf(r.order) -> Line]
      /\ l \in LinesOf(r.order)
  BY <1>1, OnOrderParts
<1>3. l \in Lines /\ p \in Products /\ r.line[l] \in Line /\ line[l] \in Line
  BY <1>2, LinesOfLines, LineAssumption DEF Typed
<1>4. PICK n \in 1..producing[l], got \in Nat, st \in LineStatus :
        /\ got =< Need(r.line[l], 0)
        /\ onHand' = [onHand EXCEPT ![p] = @ + n]
        /\ receipts' = [receipts EXCEPT ![p] = @ + n]
        /\ producing' = [producing EXCEPT ![l] = @ - n]
        /\ reserved' = [reserved EXCEPT ![p] = @ + got]
        /\ line' = [line EXCEPT ![l].allocated = IF got > 0 THEN r.line[l].allocated + got ELSE @,
                                ![l].status = st]
  BY ReceiveParts, Zenon
<1>5. PICK os \in OrderStatus : status' = [status EXCEPT ![r.order] = os]
  BY ReceiveParts
<1>6. producing[l] \in Nat /\ n \in Nat /\ producing[l] - n \in Nat
  BY <1>3 DEF Typed
<1>7. /\ onHand' \in [Products -> Nat] /\ reserved' \in [Products -> Nat]
      /\ receipts' \in [Products -> Nat] /\ producing' \in [Lines -> Nat]
  <2>1. /\ onHand \in [Products -> Nat] /\ reserved \in [Products -> Nat]
        /\ receipts \in [Products -> Nat] /\ producing \in [Lines -> Nat]
    BY DEF Typed
  <2>2. onHand[p] + n \in Nat /\ reserved[p] + got \in Nat /\ receipts[p] + n \in Nat
    BY <1>3, <1>6, <2>1
  <2>3. onHand' \in [Products -> Nat] /\ reserved' \in [Products -> Nat]
    BY <1>4, <2>1, <2>2
  <2>4. receipts' \in [Products -> Nat] /\ producing' \in [Lines -> Nat]
    BY <1>4, <1>6, <2>1, <2>2
  <2> QED  BY <2>3, <2>4
<1> DEFINE a == IF got > 0 THEN r.line[l].allocated + got ELSE line[l].allocated
<1>8. a \in Nat
  BY <1>3 DEF Line
<1>9. [line[l] EXCEPT !.allocated = a, !.status = st] \in Line
  BY <1>3, <1>8 DEF Line
<1>10. line' = [line EXCEPT ![l] = [line[l] EXCEPT !.allocated = a, !.status = st]]
  BY <1>3, <1>4 DEF Typed
<1>11. line' \in [Lines -> Line] /\ \A k \in Lines \ {l} : line'[k] = line[k]
  <2> HIDE DEF a
  <2> QED  BY <1>9, <1>10 DEF Typed
<1>12. status' \in [Orders -> OrderStatus]
  BY <1>5, StatusWritten
<1>13. Typed' /\ session'[s] = Idle /\ \A t \in Sessions \ {s} : session'[t] = session[t]
  BY <1>1, <1>7, <1>11, <1>12, Kept, EndTyped
<1> QED  BY <1>1, <1>2, <1>11, <1>13 DEF Local

\* A line's status is set, and the quantity it orders perhaps.
LEMMA LineSet ==
  ASSUME line \in [Lines -> Line], NEW l \in Lines, NEW st \in LineStatus, NEW n \in Nat,
         line' = [line EXCEPT ![l] = [line[l] EXCEPT !.status = st, !.quantity = n]]
  PROVE  /\ line' \in [Lines -> Line]
         /\ \A k \in Lines \ {l} : line'[k] = line[k]
         /\ line'[l].quantity = n
         /\ line'[l].allocated = line[l].allocated
         /\ line'[l].dispatched = line[l].dispatched
         /\ line'[l].shipped = line[l].shipped
<1>1. line[l] \in Line
  OBVIOUS
<1>2. line'[l] = [line[l] EXCEPT !.status = st, !.quantity = n]
  OBVIOUS
<1>3. /\ line'[l] \in Line /\ line'[l].quantity = n
      /\ line'[l].allocated = line[l].allocated
      /\ line'[l].dispatched = line[l].dispatched
      /\ line'[l].shipped = line[l].shipped
  BY <1>1, <1>2 DEF Line
<1> QED  BY <1>3

LEMMA RemainingTyped ==
  ASSUME Typed, NEW s \in Sessions, CreateWoForRemaining(s)
  PROVE  /\ Typed' /\ Local(s, session[s].order) /\ session[s] # Idle /\ session'[s] = Idle
         /\ \A k \in Lines : /\ line'[k].quantity = line[k].quantity
                             /\ line'[k].allocated = line[k].allocated
                             /\ line'[k].dispatched = line[k].dispatched
                             /\ line'[k].shipped = line[k].shipped
<1> DEFINE r == session[s]
           l == r.of
<1>1. /\ r.kind \in OnLine /\ End(s)
      /\ UNCHANGED <<onHand, reserved, receipts, status, delivery, notified>>
      /\ r.line[l].quantity > r.line[l].allocated
      /\ producing' = [producing EXCEPT ![l] = @ + r.line[l].quantity - r.line[l].allocated]
      /\ line' = [line EXCEPT ![l].status = "BACKORDER"]
  BY DEF CreateWoForRemaining, OnLine
<1>2. /\ r # Idle /\ r.line \in [LinesOf(r.order) -> Line] /\ l \in LinesOf(r.order)
  BY <1>1, OnOrderParts
<1>3. l \in Lines /\ r.line[l] \in Line /\ line[l] \in Line
  BY <1>2, LinesOfLines DEF Typed
<1>4. producing[l] \in Nat /\ r.line[l].quantity \in Nat /\ r.line[l].allocated \in Nat
      /\ line[l].quantity \in Nat /\ "BACKORDER" \in LineStatus
  BY <1>3 DEF Typed, Line, LineStatus
<1>5. producing[l] + r.line[l].quantity - r.line[l].allocated \in Nat
  BY <1>1, <1>4
<1>6. producing' \in [Lines -> Nat]
  BY <1>1, <1>5 DEF Typed
<1>7. line' = [line EXCEPT ![l] = [line[l] EXCEPT !.status = "BACKORDER",
                                                  !.quantity = line[l].quantity]]
  <2>1. [line[l] EXCEPT !.status = "BACKORDER", !.quantity = line[l].quantity]
          = [line[l] EXCEPT !.status = "BACKORDER"]
    BY <1>3 DEF Line
  <2> QED  BY <1>1, <1>3, <2>1 DEF Typed
<1>8. /\ line' \in [Lines -> Line] /\ \A k \in Lines \ {l} : line'[k] = line[k]
      /\ \A k \in Lines : /\ line'[k].quantity = line[k].quantity
                          /\ line'[k].allocated = line[k].allocated
                          /\ line'[k].dispatched = line[k].dispatched
                          /\ line'[k].shipped = line[k].shipped
  <2> HIDE DEF l, r
  <2>1. line \in [Lines -> Line]
    BY DEF Typed
  <2>2. /\ line' \in [Lines -> Line] /\ \A k \in Lines \ {l} : line'[k] = line[k]
        /\ line'[l].quantity = line[l].quantity
        /\ line'[l].allocated = line[l].allocated
        /\ line'[l].dispatched = line[l].dispatched
        /\ line'[l].shipped = line[l].shipped
    BY <1>3, <1>4, <1>7, <2>1, LineSet
  <2> QED  BY <2>2
<1>9. Typed' /\ session'[s] = Idle /\ \A t \in Sessions \ {s} : session'[t] = session[t]
  <2>1. /\ onHand' \in [Products -> Nat] /\ reserved' \in [Products -> Nat]
        /\ receipts' \in [Products -> Nat]
    BY <1>1 DEF Typed
  <2> QED  BY <1>1, <1>6, <1>8, <2>1, Kept, EndTyped
<1> QED  BY <1>1, <1>2, <1>8, <1>9 DEF Local

LEMMA ShortCloseTyped ==
  ASSUME Typed, NEW s \in Sessions, ShortCloseLine(s)
  PROVE  /\ Typed' /\ Local(s, session[s].order) /\ session[s] # Idle /\ session'[s] = Idle
         /\ session[s].kind \in OnLine
         /\ session[s].of \in LinesOf(session[s].order)
         /\ \A k \in Lines : /\ line'[k].quantity =
                                  IF k = session[s].of THEN session[s].line[k].allocated
                                                       ELSE line[k].quantity
                             /\ line'[k].allocated = line[k].allocated
                             /\ line'[k].dispatched = line[k].dispatched
                             /\ line'[k].shipped = line[k].shipped
<1> DEFINE r == session[s]
           l == r.of
           new == [line EXCEPT ![l].status = "SHORT_CLOSED", ![l].quantity = r.line[l].allocated]
<1>1. /\ r.kind \in OnLine /\ End(s) /\ UNCHANGED <<goods, delivery, notified>>
      /\ line' = new /\ status' = [status EXCEPT ![r.order] = Ready(r.order, new)]
  BY DEF ShortCloseLine, OnLine
<1>2. /\ r # Idle /\ r.line \in [LinesOf(r.order) -> Line] /\ l \in LinesOf(r.order)
      /\ r.order \in Orders
  BY <1>1, OnOrderParts
<1>3. l \in Lines /\ r.line[l] \in Line /\ line[l] \in Line /\ line \in [Lines -> Line]
  BY <1>2, LinesOfLines DEF Typed
<1>4. r.line[l].allocated \in Nat /\ "SHORT_CLOSED" \in LineStatus
  BY <1>3 DEF Line, LineStatus
<1>5. line' = [line EXCEPT ![l] = [line[l] EXCEPT !.status = "SHORT_CLOSED",
                                                  !.quantity = r.line[l].allocated]]
  BY <1>1, <1>3
<1>6. Ready(r.order, new) \in OrderStatus
  BY <1>2 DEF Ready, OrderStatus, Typed
<1>7. status' \in [Orders -> OrderStatus]
  <2> HIDE DEF new
  <2> QED  BY <1>1, <1>6, StatusWritten
<1> DEFINE a == r.line[l].allocated
<1>8. /\ line' \in [Lines -> Line] /\ \A k \in Lines \ {l} : line'[k] = line[k]
      /\ line'[l].quantity = a
      /\ line'[l].allocated = line[l].allocated
      /\ line'[l].dispatched = line[l].dispatched
      /\ line'[l].shipped = line[l].shipped
  <2>1. a \in Nat /\ line' = [line EXCEPT ![l] = [line[l] EXCEPT !.status = "SHORT_CLOSED",
                                                                 !.quantity = a]]
    BY <1>4, <1>5
  <2> HIDE DEF a, l, r
  <2> QED  BY <1>3, <1>4, <2>1, LineSet
<1>9. Typed' /\ session'[s] = Idle /\ \A t \in Sessions \ {s} : session'[t] = session[t]
  BY <1>1, <1>7, <1>8, Kept, EndTyped
<1> QED  BY <1>1, <1>2, <1>8, <1>9 DEF Local

Begins(s) ==
  \/ \E kind \in OnDelivery : \E n \in DOMAIN delivery : BeginOnDelivery(s, kind, n)
  \/ \E kind \in OnOrder : \E o \in Orders : BeginOnOrder(s, kind, o)
  \/ \E kind \in OnLine : \E l \in Lines : BeginOnLine(s, kind, l)

Works(s) ==
  \/ ResolveLines(s) \/ NextNumber(s) \/ InsertDelivery(s)
  \/ ShipDelivery(s) \/ Deliver(s) \/ CancelDelivery(s)
  \/ PackDelivery(s) \/ UpdateShipmentStatus(s) \/ DispatchOrder(s) \/ ConfirmDelivery(s)
  \/ ShipOrder(s) \/ DeliverOrder(s)
  \/ ReceiveGoods(s) \/ CreateWoForRemaining(s) \/ ShortCloseLine(s)

LEMMA StepCases ==
  ASSUME NEW s, Step(s)
  PROVE  Begins(s) \/ Works(s) \/ Abandon(s)
BY Zenon DEF Step, Begins, Works

LEMMA BeginParts ==
  ASSUME Typed, NEW s \in Sessions, Begins(s)
  PROVE  /\ Typed' /\ session[s] = Idle
         /\ session'[s].kind \notin Creating
         /\ session'[s].order \in Orders
         /\ session'[s].line = [l \in LinesOf(session'[s].order) |-> line[l]]
         /\ session'[s].kind \in OnDelivery =>
              /\ session'[s].of \in DOMAIN delivery
              /\ delivery[session'[s].of].status \in Accepts(session'[s].kind)
         /\ \A t \in Sessions \ {s} : session'[t] = session[t]
         /\ UNCHANGED <<goods, line, status, delivery, notified>>
<1>1. PICK kind \in OnDelivery \cup OnOrder \cup OnLine :
        \E o \in Orders : \E of \in (1..MaxDeliveries) \cup LinesOf(o) \cup {o} :
          /\ Begin(s, kind, o, of)
          /\ kind \in OnDelivery => /\ of \in DOMAIN delivery /\ delivery[of].order = o
                                    /\ delivery[of].status \in Accepts(kind)
          /\ kind \in OnLine => of \in LinesOf(o)
  <2>1. ASSUME NEW kind \in OnDelivery, NEW n \in DOMAIN delivery, BeginOnDelivery(s, kind, n)
        PROVE  /\ delivery[n].order \in Orders /\ n \in 1..MaxDeliveries /\ kind \notin OnLine
               /\ Begin(s, kind, delivery[n].order, n)
               /\ delivery[n].status \in Accepts(kind)
    <3>1. kind \notin OnLine
      BY DEF OnDelivery, OnLine, Updates
    <3> QED  BY <2>1, <3>1, DeliveryParts DEF BeginOnDelivery
  <2>2. ASSUME NEW kind \in OnOrder, NEW o \in Orders, BeginOnOrder(s, kind, o)
        PROVE  kind \notin OnDelivery /\ kind \notin OnLine /\ Begin(s, kind, o, o)
    <3>1. kind \notin OnDelivery /\ kind \notin OnLine
      BY DEF OnDelivery, OnLine, OnOrder, Updates
    <3> QED  BY <2>2, <3>1 DEF BeginOnOrder
  <2>3. ASSUME NEW kind \in OnLine, NEW l \in Lines, BeginOnLine(s, kind, l)
        PROVE  /\ kind \notin OnDelivery /\ OrderOf[l] \in Orders /\ l \in LinesOf(OrderOf[l])
               /\ Begin(s, kind, OrderOf[l], l)
    <3>1. kind \notin OnDelivery
      BY DEF OnDelivery, OnLine, Updates
    <3> QED  BY <2>3, <3>1, LineAssumption DEF BeginOnLine, LinesOf
  <2> QED  BY <2>1, <2>2, <2>3 DEF Begins
<1> PICK o \in Orders : \E of \in (1..MaxDeliveries) \cup LinesOf(o) \cup {o} :
      /\ Begin(s, kind, o, of)
      /\ kind \in OnDelivery => /\ of \in DOMAIN delivery /\ delivery[of].order = o
                                /\ delivery[of].status \in Accepts(kind)
      /\ kind \in OnLine => of \in LinesOf(o)
  BY <1>1
<1> PICK of \in (1..MaxDeliveries) \cup LinesOf(o) \cup {o} :
      /\ Begin(s, kind, o, of)
      /\ kind \in OnDelivery => /\ of \in DOMAIN delivery /\ delivery[of].order = o
                                /\ delivery[of].status \in Accepts(kind)
      /\ kind \in OnLine => of \in LinesOf(o)
  OBVIOUS
<1>2. /\ Typed'
      /\ session'[s].kind = kind /\ session'[s].order = o /\ session'[s].of = of
      /\ session'[s].line = [l \in LinesOf(o) |-> line[l]]
      /\ \A t \in Sessions \ {s} : session'[t] = session[t]
  BY BeginTyped
<1>3. session[s] = Idle /\ UNCHANGED <<goods, line, status, delivery, notified>>
  BY DEF Begin
<1>4. kind \notin Creating
  BY DEF OnDelivery, OnOrder, OnLine, Creating, Updates
<1> QED  BY <1>2, <1>3, <1>4

\* A request at work keeps the types and to its own order.
LEMMA WorkTyped ==
  ASSUME Typed, NEW s \in Sessions, Works(s)
  PROVE  Typed' /\ Local(s, session[s].order) /\ session[s] # Idle
<1>1. CASE ResolveLines(s)  BY <1>1, ResolveTyped
<1>2. CASE NextNumber(s)  BY <1>2, NumberTyped
<1>3. CASE InsertDelivery(s)  BY <1>3, InsertTyped
<1>4. CASE ShipDelivery(s)  BY <1>4, ShipTyped
<1>5. CASE Deliver(s) \/ DispatchOrder(s) \/ ConfirmDelivery(s)  BY <1>5, DeliverTyped
<1>6. CASE CancelDelivery(s)  BY <1>6, CancelTyped
<1>7. CASE PackDelivery(s) \/ UpdateShipmentStatus(s)  BY <1>7, MoveTyped
<1>8. CASE ShipOrder(s)  BY <1>8, ShipOrderTyped
<1>9. CASE DeliverOrder(s)  BY <1>9, DeliverOrderTyped
<1>10. CASE ReceiveGoods(s)  BY <1>10, ReceiveTyped
<1>11. CASE CreateWoForRemaining(s)  BY <1>11, RemainingTyped
<1>12. CASE ShortCloseLine(s)  BY <1>12, ShortCloseTyped
<1> QED
  BY <1>1, <1>2, <1>3, <1>4, <1>5, <1>6, <1>7, <1>8, <1>9, <1>10, <1>11, <1>12 DEF Works

\* What a request has become when it is done, or goes on.
LEMMA WorkSession ==
  ASSUME Typed, NEW s \in Sessions, Works(s)
  PROVE  \/ session'[s] = Idle
         \/ /\ session'[s].kind \in Creating /\ session'[s].order = session[s].order
            /\ \/ session'[s].status = "SHIPPED"
               \/ /\ session'[s].status = "DRAFT" /\ session'[s].line = session[s].line
                  /\ session[s].kind = "create" \/ session[s].status = "DRAFT"
                  /\ UNCHANGED <<line, delivery>>
<1>1. CASE ResolveLines(s)
  <2>1. session[s].kind = "create" /\ UNCHANGED <<line, delivery>>
    BY <1>1 DEF ResolveLines
  <2> QED  BY <1>1, <2>1, ResolveTyped DEF Creating
<1>2. CASE NextNumber(s)
  <2>1. UNCHANGED <<line, delivery>> /\ session[s].status \in {"DRAFT", "SHIPPED"}
    BY <1>2, NumberTyped, RequestParts DEF NextNumber
  <2> QED  BY <1>2, <2>1, NumberTyped
<1>3. CASE ShipOrder(s)
  BY <1>3, ShipOrderTyped DEF Creating
<1>4. CASE InsertDelivery(s) \/ ShipDelivery(s)
  BY <1>4, InsertTyped, ShipTyped
<1>5. CASE Deliver(s) \/ DispatchOrder(s) \/ ConfirmDelivery(s)  BY <1>5, DeliverTyped
<1>6. CASE CancelDelivery(s)  BY <1>6, CancelTyped
<1>7. CASE PackDelivery(s) \/ UpdateShipmentStatus(s)  BY <1>7, MoveTyped
<1>8. CASE DeliverOrder(s)  BY <1>8, DeliverOrderTyped
<1>9. CASE ReceiveGoods(s)  BY <1>9, ReceiveTyped
<1>10. CASE CreateWoForRemaining(s)  BY <1>10, RemainingTyped
<1>11. CASE ShortCloseLine(s)  BY <1>11, ShortCloseTyped
<1> QED
  BY <1>1, <1>2, <1>3, <1>4, <1>5, <1>6, <1>7, <1>8, <1>9, <1>10, <1>11 DEF Works

LEMMA StepTyped ==
  ASSUME Typed, NEW s \in Sessions, Step(s)
  PROVE  Typed'
BY StepCases, BeginParts, WorkTyped, AbandonTyped

LEMMA InitTyped == Init => Typed
<1> SUFFICES ASSUME Init PROVE Typed
  OBVIOUS
<1>1. /\ line = [l \in Lines |-> [quantity |-> Ordered[l], allocated |-> InStock[l],
                                  dispatched |-> 0, shipped |-> 0, status |-> "PENDING"]]
      /\ onHand = [p \in Products |-> SumFor(p, InStock)]
      /\ reserved = onHand
      /\ receipts = [p \in Products |-> 0]
      /\ producing = [l \in Lines |-> Ordered[l] - InStock[l]]
      /\ status = [o \in Orders |-> IF \A l \in LinesOf(o) : InStock[l] = Ordered[l]
                                    THEN "READY_FOR_DISPATCH" ELSE "PRODUCTION"]
      /\ delivery = << >>
      /\ notified = {}
      /\ session = [s \in Sessions |-> Idle]
  BY DEF Init
<1>2. \A p \in Products : SumFor(p, InStock) \in Nat
  BY SumNat, LineAssumption
<1>3. /\ onHand \in [Products -> Nat] /\ reserved \in [Products -> Nat]
      /\ receipts \in [Products -> Nat]
  BY <1>1, <1>2
<1>4. \A l \in Lines : Ordered[l] \in Nat /\ InStock[l] \in Nat /\ Ordered[l] - InStock[l] \in Nat
  BY LineAssumption
<1>5. producing \in [Lines -> Nat]
  BY <1>1, <1>4
<1>6. line \in [Lines -> Line]
  BY <1>1, <1>4 DEF Line, LineStatus
<1>7. status \in [Orders -> OrderStatus]
  BY <1>1 DEF OrderStatus
<1>8. delivery \in Seq(DeliveryRows) /\ Len(delivery) =< MaxDeliveries
  BY <1>1, BoundAssumption
<1>9. session \in [Sessions -> Requests] /\ \A s \in Sessions : session[s] = Idle
  BY <1>1 DEF Requests
<1> QED  BY <1>1, <1>3, <1>5, <1>6, <1>7, <1>8, <1>9 DEF Typed

LEMMA TypedNext == Typed /\ [Next]_vars => Typed'
<1> SUFFICES ASSUME Typed, [Next]_vars PROVE Typed'
  OBVIOUS
<1>1. CASE UNCHANGED vars
  <2>1. /\ onHand' = onHand /\ reserved' = reserved /\ receipts' = receipts
        /\ producing' = producing /\ line' = line /\ status' = status
        /\ notified' = notified /\ delivery' = delivery /\ session' = session
    BY <1>1 DEF vars, goods
  <2> QED  BY <2>1 DEF Typed, Refers
<1>2. CASE Next
  BY <1>2, StepTyped DEF Next
<1> QED  BY <1>1, <1>2

(* The tables hold rows of their types however requests interleave: in particular no
   stock, reservation or count of a line becomes negative. *)
THEOREM Types == Spec => []TypeOK
<1>1. Spec => []Typed
  BY InitTyped, TypedNext, PTL DEF Spec
<1>2. Typed => TypeOK
  BY TypedTables DEF Tables
<1> QED  BY <1>1, <1>2, PTL

-----------------------------------------------------------------------------
(* What was read still holds *)

LEMMA ReadKept ==
  ASSUME Typed, OrdersApart, ReadHolds, NEW s \in Sessions, Step(s), OrderlyStep
  PROVE  ReadHolds'
<1> SUFFICES ASSUME NEW t \in Sessions, session'[t] # Idle
             PROVE  Holds(session[t])'
  BY DEF ReadHolds
<1>1. CASE Begins(s)
  <2>1. /\ session[s] = Idle /\ session'[s].kind \notin Creating
        /\ session'[s].line = [l \in LinesOf(session'[s].order) |-> line[l]]
        /\ session'[s].kind \in OnDelivery =>
              delivery[session'[s].of].status \in Accepts(session'[s].kind)
        /\ \A u \in Sessions \ {s} : session'[u] = session[u]
        /\ line' = line /\ delivery' = delivery
    BY <1>1, BeginParts
  <2>2. CASE t = s
    <3>1. session'[s].kind \in Updates => delivery[session'[s].of].status # "CANCELLED"
      BY <2>1, <2>2 DEF OrderlyStep
    <3> QED  BY <2>1, <2>2, <3>1 DEF Holds
  <2>3. CASE t # s
    <3>1. session'[t] = session[t] /\ Holds(session[t])
      BY <2>1, <2>3 DEF ReadHolds
    <3> QED  BY <2>1, <3>1 DEF Holds
  <2> QED  BY <2>2, <2>3
<1>2. CASE Works(s)
  <2>1. /\ session[s] # Idle /\ Local(s, session[s].order)
    BY <1>2, WorkTyped
  <2>2. CASE t = s
    <3>1. /\ session'[s].kind \in Creating
          /\ \/ session'[s].status = "SHIPPED"
             \/ /\ session'[s].line = session[s].line /\ session'[s].order = session[s].order
                /\ session[s].kind = "create" \/ session[s].status = "DRAFT"
                /\ line' = line
      BY <1>2, <2>2, WorkSession
    <3>2. session'[s].kind \notin OnDelivery /\ Updates \subseteq OnDelivery
      BY <3>1 DEF Creating, OnDelivery, Updates
    <3>3. session'[s].status # "SHIPPED" =>
            session'[s].line = [l \in LinesOf(session'[s].order) |-> line'[l]]
      <4>1. Holds(session[s])
        BY <2>1 DEF ReadHolds
      <4> QED  BY <3>1, <4>1 DEF Holds, Creating
    <3> QED  BY <2>2, <3>1, <3>2, <3>3 DEF Holds
  <2>3. CASE t # s
    <3>1. session'[t] = session[t]
      BY <2>1, <2>3 DEF Local
    <3>2. Holds(session[t]) /\ session[t].order # session[s].order
      BY <2>1, <2>3, <3>1 DEF ReadHolds, OrdersApart
    <3>3. \A l \in LinesOf(session[t].order) : line'[l] = line[l]
      BY <2>1, <3>2 DEF Local, LinesOf
    <3>4. session[t].kind \in OnDelivery => delivery'[session[t].of] = delivery[session[t].of]
      BY <2>1, <3>1, <3>2 DEF Local, Typed, Refers
    <3>5. Updates \subseteq OnDelivery
      BY DEF Updates, OnDelivery
    <3>6. [l \in LinesOf(session[t].order) |-> line[l]]
            = [l \in LinesOf(session[t].order) |-> line'[l]]
      BY <3>3
    <3> HIDE DEF OnDelivery, Updates, Creating
    <3> QED  BY <3>1, <3>2, <3>4, <3>5, <3>6 DEF Holds
  <2> QED  BY <2>2, <2>3
<1>3. CASE Abandon(s)
  <2>1. /\ session' = [session EXCEPT ![s] = Idle] /\ line' = line /\ delivery' = delivery
    BY <1>3 DEF Abandon, End
  <2>2. t # s /\ session'[t] = session[t]
    BY <2>1 DEF Typed
  <2>3. Holds(session[t])
    BY <2>2 DEF ReadHolds
  <2> QED  BY <2>1, <2>2, <2>3 DEF Holds
<1> QED  BY <1>1, <1>2, <1>3, StepCases

LEMMA ApartKept == OrderlyStep => OrdersApart'
BY DEF OrderlyStep, OrdersApart

\* A request that is not the record of a shipment has read the lines as they are.
LEMMA ReadNow ==
  ASSUME ReadHolds, NEW s \in Sessions, session[s] # Idle, session[s].kind \notin Creating
  PROVE  \A l \in LinesOf(session[s].order) : session[s].line[l] = line[l]
<1>1. session[s].line = [l \in LinesOf(session[s].order) |-> line[l]]
  BY DEF ReadHolds, Holds
<1> QED  BY <1>1

-----------------------------------------------------------------------------
(* The deliveries of a line *)

LEMMA OpenFinite ==
  ASSUME Typed
  PROVE  /\ IsFiniteSet(Open) /\ Open \subseteq DOMAIN delivery
         /\ \A l, n : n \in Open /\ l \in DOMAIN delivery[n].of =>
              delivery[n].of[l] \in Nat
<1>1. DOMAIN delivery = 1..Len(delivery) /\ Len(delivery) \in Nat
  BY DEF Typed
<1>2. IsFiniteSet(DOMAIN delivery)
  BY <1>1, FS_Interval
<1>3. Open \subseteq DOMAIN delivery
  BY DEF Open
<1>4. IsFiniteSet(Open)
  BY <1>2, <1>3, FS_Subset
<1>5. ASSUME NEW n \in Open, NEW l \in DOMAIN delivery[n].of
      PROVE  delivery[n].of[l] \in Nat
  BY <1>3, DeliveryParts DEF Quantities
<1> QED  BY <1>3, <1>4, <1>5

\* Nothing is opened or cancelled.
LEMMA SameDeliveries ==
  ASSUME DOMAIN delivery' = DOMAIN delivery,
         \A n \in DOMAIN delivery :
           /\ delivery'[n].of = delivery[n].of /\ delivery'[n].document = delivery[n].document
           /\ delivery'[n].status = "CANCELLED" <=> delivery[n].status = "CANCELLED"
  PROVE  \A l : InDeliveries(l, Open)' = InDeliveries(l, Open)
<1>1. Open' = Open /\ Open \subseteq DOMAIN delivery
  BY DEF Open
<1> SUFFICES ASSUME NEW l PROVE InDeliveries(l, Open)' = InDeliveries(l, Open)
  OBVIOUS
<1>2. {m \in Open' : l \in DOMAIN delivery'[m].of} = {m \in Open : l \in DOMAIN delivery[m].of}
  BY <1>1
<1>3. [n \in {m \in Open' : l \in DOMAIN delivery'[m].of} |-> delivery'[n].of[l]]
        = [n \in {m \in Open : l \in DOMAIN delivery[m].of} |-> delivery[n].of[l]]
  BY <1>1, <1>2
<1> QED  BY <1>3 DEF InDeliveries

\* Units of l that the rows of N hold, of[n] being what row n holds of each line
HeldOf(of, N, l) == Total([m \in {k \in N : l \in DOMAIN of[k]} |-> of[m][l]])

\* What row n holds comes to what the rows of N held.
AddedTo(of, N, of2, n, l) ==
  HeldOf(of2, N \cup {n}, l) = HeldOf(of, N, l) + PartOf(of2[n], l)

LEMMA OpenWith ==
  ASSUME NEW N, IsFiniteSet(N), NEW of, NEW of2, NEW n, n \notin N, NEW l,
         \A m \in N : of2[m] = of[m],
         \A m \in N \cup {n} : l \in DOMAIN of2[m] => of2[m][l] \in Nat
  PROVE  AddedTo(of, N, of2, n, l)
<1> DEFINE E == {k \in N : l \in DOMAIN of[k]}
           f == [m \in E |-> of[m][l]]
           F == {k \in N \cup {n} : l \in DOMAIN of2[k]}
           g == [m \in F |-> of2[m][l]]
<1>1. IsFiniteSet(E) /\ n \notin E /\ f \in [E -> Nat] /\ g \in [F -> Nat]
  BY FS_Subset
<1>2. HeldOf(of2, N \cup {n}, l) = Total(g) /\ HeldOf(of, N, l) = Total(f)
  BY DEF HeldOf
<1>3. CASE l \in DOMAIN of2[n]
  <2>1. F = E \cup {n} /\ g[n] = of2[n][l] /\ \A m \in E : g[m] = f[m]
    BY <1>3
  <2> HIDE DEF E, F, f, g
  <2>2. Total(g) = Total(f) + g[n]
    BY <1>1, <2>1, TotalSplit
  <2> QED  BY <1>3, <1>2, <2>1, <2>2 DEF PartOf, AddedTo
<1>4. CASE l \notin DOMAIN of2[n]
  <2>1. F = E
    BY <1>4
  <2>2. g = f
    BY <2>1
  <2>3. Total(f) \in Nat
    <3> HIDE DEF E, f
    <3> QED  BY <1>1, UnitsFinite
  <2> QED  BY <1>4, <1>2, <2>2, <2>3 DEF PartOf, AddedTo
<1> QED  BY <1>3, <1>4

\* A new delivery order of a request.
LEMMA DeliveryAdded ==
  ASSUME Typed, NEW d, d.of \in [DOMAIN d.of -> Nat], delivery' = Append(delivery, d),
         d.status # "CANCELLED"
  PROVE  \A l : InDeliveries(l, Open)' = InDeliveries(l, Open)
                  + (IF d.document THEN 0 ELSE PartOf(d.of, l))
<1> DEFINE n == Len(delivery) + 1
<1>1. /\ DOMAIN delivery' = DOMAIN delivery \cup {n} /\ n \notin DOMAIN delivery
      /\ delivery'[n] = d /\ \A m \in DOMAIN delivery : delivery'[m] = delivery[m]
  BY DEF Typed
<1>2. Open \subseteq DOMAIN delivery /\ IsFiniteSet(Open)
      /\ \A k, m : m \in Open /\ k \in DOMAIN delivery[m].of => delivery[m].of[k] \in Nat
  BY OpenFinite
<1> HIDE DEF n
<1> SUFFICES ASSUME NEW l
             PROVE  InDeliveries(l, Open)' = InDeliveries(l, Open)
                      + (IF d.document THEN 0 ELSE PartOf(d.of, l))
  OBVIOUS
<1> DEFINE of == [m \in DOMAIN delivery |-> delivery[m].of]
           of2 == [m \in DOMAIN delivery' |-> delivery'[m].of]
<1>3. InDeliveries(l, Open) = HeldOf(of, Open, l)
  <2>1. {k \in Open : l \in DOMAIN of[k]} = {k \in Open : l \in DOMAIN delivery[k].of}
    BY <1>2
  <2>2. [m \in {k \in Open : l \in DOMAIN of[k]} |-> of[m][l]]
          = [m \in {k \in Open : l \in DOMAIN delivery[k].of} |-> delivery[m].of[l]]
    BY <1>2, <2>1
  <2> QED  BY <2>2 DEF InDeliveries, HeldOf
<1>4. Open' \subseteq DOMAIN delivery'
  BY DEF Open
<1>5. InDeliveries(l, Open)' = HeldOf(of2, Open', l)
  <2>1. {k \in Open' : l \in DOMAIN of2[k]} = {k \in Open' : l \in DOMAIN delivery'[k].of}
    BY <1>4
  <2>2. [m \in {k \in Open' : l \in DOMAIN of2[k]} |-> of2[m][l]]
          = [m \in {k \in Open' : l \in DOMAIN delivery'[k].of} |-> delivery'[m].of[l]]
    BY <1>4, <2>1
  <2> QED  BY <2>2 DEF InDeliveries, HeldOf
<1>6. \A m \in Open : of2[m] = of[m]
  BY <1>1, <1>2
<1>7. HeldOf(of, Open, l) \in Nat
  <2> DEFINE E == {k \in Open : l \in DOMAIN of[k]}
             f == [m \in E |-> of[m][l]]
  <2>1. IsFiniteSet(E) /\ f \in [E -> Nat]
    BY <1>2, FS_Subset
  <2> HIDE DEF E, f
  <2>2. Total(f) \in Nat
    BY <2>1, UnitsFinite
  <2> QED  BY <2>2 DEF E, f, HeldOf
<1>8. CASE d.document
  <2>1. Open' = Open
    BY <1>1, <1>8 DEF Open
  <2>2. {k \in Open' : l \in DOMAIN of2[k]} = {k \in Open : l \in DOMAIN of[k]}
    BY <1>6, <2>1
  <2>3. [m \in {k \in Open' : l \in DOMAIN of2[k]} |-> of2[m][l]]
          = [m \in {k \in Open : l \in DOMAIN of[k]} |-> of[m][l]]
    <3> HIDE DEF of, of2
    <3> QED  BY <1>6, <2>1, <2>2
  <2> HIDE DEF of, of2
  <2>4. InDeliveries(l, Open)' = InDeliveries(l, Open) /\ InDeliveries(l, Open) \in Nat
    BY <1>3, <1>5, <1>7, <2>3, Zenon DEF HeldOf
  <2> QED  BY <1>8, <2>4
<1>9. CASE ~d.document
  <2>1. Open' = Open \cup {n} /\ n \notin Open
    BY <1>1, <1>9 DEF Open
  <2>2. of2[n] = d.of
    BY <1>1
  <2>3. \A m \in Open \cup {n} : l \in DOMAIN of2[m] => of2[m][l] \in Nat
    BY <1>1, <1>2, <1>6, <2>2
  <2> HIDE DEF of, of2
  <2>4. AddedTo(of, Open, of2, n, l)
    BY <1>2, <1>6, <2>1, <2>3, OpenWith, Zenon
  <2> QED  BY <1>3, <1>5, <1>9, <2>1, <2>2, <2>4 DEF AddedTo
<1> QED  BY <1>8, <1>9

\* A delivery order is cancelled: it held its part of the sum.
LEMMA DeliveryCancelled ==
  ASSUME Typed, NEW n \in Open, SetDelivery(n, "CANCELLED")
  PROVE  \A l : /\ InDeliveries(l, Open) = InDeliveries(l, Open)'
                     + PartOf(delivery[n].of, l)
                /\ InDeliveries(l, Open)' \in Nat
<1>1. Open \subseteq DOMAIN delivery /\ IsFiniteSet(Open)
      /\ \A k, m : m \in Open /\ k \in DOMAIN delivery[m].of => delivery[m].of[k] \in Nat
  BY OpenFinite
<1>2. /\ DOMAIN delivery' = DOMAIN delivery /\ delivery'[n].status = "CANCELLED"
      /\ \A m \in DOMAIN delivery \ {n} : delivery'[m] = delivery[m]
  BY <1>1, SetDeliveryWrites DEF StatusesOnly, DeliveryStatus
<1>3. Open' = Open \ {n}
  BY <1>2 DEF Open
<1> SUFFICES ASSUME NEW l
             PROVE  /\ InDeliveries(l, Open) = InDeliveries(l, Open)'
                         + PartOf(delivery[n].of, l)
                    /\ InDeliveries(l, Open)' \in Nat
  OBVIOUS
<1> DEFINE N == Open \ {n}
           of == [m \in DOMAIN delivery |-> delivery[m].of]
           of2 == [m \in DOMAIN delivery' |-> delivery'[m].of]
<1>4. IsFiniteSet(N) /\ n \notin N /\ Open = N \cup {n} /\ \A m \in N : of[m] = of2[m]
  BY <1>1, <1>2, FS_Subset
<1>5. InDeliveries(l, Open) = HeldOf(of, N \cup {n}, l)
  <2>1. {k \in N \cup {n} : l \in DOMAIN of[k]} = {k \in Open : l \in DOMAIN delivery[k].of}
    BY <1>1
  <2>2. [m \in {k \in N \cup {n} : l \in DOMAIN of[k]} |-> of[m][l]]
          = [m \in {k \in Open : l \in DOMAIN delivery[k].of} |-> delivery[m].of[l]]
    BY <1>1, <2>1
  <2> QED  BY <2>2 DEF InDeliveries, HeldOf
<1>6. InDeliveries(l, Open)' = HeldOf(of2, N, l)
  <2>1. {k \in N : l \in DOMAIN of2[k]} = {k \in Open' : l \in DOMAIN delivery'[k].of}
    BY <1>1, <1>2, <1>3
  <2>2. [m \in {k \in N : l \in DOMAIN of2[k]} |-> of2[m][l]]
          = [m \in {k \in Open' : l \in DOMAIN delivery'[k].of} |-> delivery'[m].of[l]]
    BY <1>1, <1>2, <1>3, <2>1
  <2> QED  BY <2>2 DEF InDeliveries, HeldOf
<1>7. \A m \in N \cup {n} : l \in DOMAIN of[m] => of[m][l] \in Nat
  BY <1>1
<1>8. of[n] = delivery[n].of
  BY <1>1
<1>9. HeldOf(of2, N, l) \in Nat
  <2> DEFINE E == {k \in N : l \in DOMAIN of2[k]}
             f == [m \in E |-> of2[m][l]]
  <2>1. IsFiniteSet(E) /\ f \in [E -> Nat]
    BY <1>4, <1>7, FS_Subset
  <2> HIDE DEF E, f
  <2>2. Total(f) \in Nat
    BY <2>1, UnitsFinite
  <2> QED  BY <2>2 DEF E, f, HeldOf
<1> HIDE DEF N, of, of2
<1>10. AddedTo(of2, N, of, n, l)
  <2>1. IsFiniteSet(N)
    BY <1>4
  <2>2. n \notin N
    BY <1>4
  <2>3. \A m \in N : of[m] = of2[m]
    BY <1>4
  <2> QED  BY <1>7, <2>1, <2>2, <2>3, OpenWith, Zenon
<1> QED  BY <1>5, <1>6, <1>8, <1>9, <1>10 DEF AddedTo

-----------------------------------------------------------------------------
(* The accounts of goods and of deliveries *)

\* What a line is reserved, and what of it was shipped
ReservedFor == [l \in Lines |-> line[l].allocated - line[l].shipped]
ShippedFor == [l \in Lines |-> line[l].shipped]

Goods == ReservedMatchesLines /\ StockMatchesShipments /\ ShippedWithinAllocated

LEMMA GoodsParts ==
  /\ ReservedMatchesLines <=> \A p \in Products : reserved[p] = SumFor(p, ReservedFor)
  /\ StockMatchesShipments <=> \A p \in Products :
       onHand[p] + SumFor(p, ShippedFor) = SumFor(p, InStock) + receipts[p]
BY DEF ReservedMatchesLines, StockMatchesShipments, ReservedFor, ShippedFor

LEMMA LineParts ==
  ASSUME Typed
  PROVE  \A l \in Lines : /\ line[l] \in Line /\ line[l].quantity \in Nat
                          /\ line[l].allocated \in Nat /\ line[l].dispatched \in Nat
                          /\ line[l].shipped \in Nat
<1>1. \A l \in Lines : line[l] \in Line
  BY DEF Typed
<1> QED  BY <1>1 DEF Line

LEMMA ForTyped ==
  ASSUME Typed, ShippedWithinAllocated
  PROVE  ReservedFor \in [Lines -> Nat] /\ ShippedFor \in [Lines -> Nat]
BY LineParts DEF ShippedWithinAllocated, ReservedFor, ShippedFor

\* No line is allocated or ships goods, and the stock stays as it is.
LEMMA GoodsSame ==
  ASSUME Goods, UNCHANGED <<onHand, reserved, receipts>>,
         \A l \in Lines : /\ line'[l].allocated = line[l].allocated
                          /\ line'[l].shipped = line[l].shipped
  PROVE  Goods'
<1>1. ReservedFor' = ReservedFor /\ ShippedFor' = ShippedFor
  BY DEF ReservedFor, ShippedFor
<1>2. ShippedWithinAllocated'
  BY DEF Goods, ShippedWithinAllocated
<1>3. ReservedMatchesLines'
  BY <1>1, GoodsParts DEF Goods, ReservedMatchesLines, ReservedFor
<1>4. StockMatchesShipments'
  BY <1>1, GoodsParts DEF Goods, StockMatchesShipments, ShippedFor
<1> QED  BY <1>2, <1>3, <1>4 DEF Goods

\* The goods of q leave the stock and are recorded on their lines.
LEMMA GoodsShipped ==
  ASSUME Typed, Typed', Goods, NEW ls \in SUBSET Lines, NEW q \in [ls -> Nat], Fulfil(q),
         \A l \in Lines :
           /\ line'[l].allocated = line[l].allocated
           /\ line'[l].shipped = line[l].shipped + (IF l \in ls THEN q[l] ELSE 0)
           /\ line'[l].shipped =< line[l].allocated
  PROVE  Goods'
<1>1. ShippedWithinAllocated'
  BY DEF ShippedWithinAllocated
<1>2. ReservedFor \in [Lines -> Nat] /\ ShippedFor \in [Lines -> Nat]
  BY ForTyped DEF Goods
<1>3. (ReservedFor \in [Lines -> Nat])' /\ (ShippedFor \in [Lines -> Nat])'
  <2>1. /\ \A l \in Lines : line'[l].allocated \in Nat /\ line'[l].shipped \in Nat
    <3>1. \A l \in Lines : line'[l] \in Line
      BY DEF Typed
    <3> QED  BY <3>1 DEF Line
  <2> QED  BY <1>1, <2>1 DEF ShippedWithinAllocated, ReservedFor, ShippedFor
<1>4. \A l \in Lines : /\ ShippedFor'[l] = ShippedFor[l] + (IF l \in ls THEN q[l] ELSE 0)
                       /\ ReservedFor[l] = ReservedFor'[l] + (IF l \in ls THEN q[l] ELSE 0)
  BY LineParts DEF ShippedFor, ReservedFor
<1>5. /\ UNCHANGED <<receipts, producing>>
      /\ \A p \in Products : /\ SumFor(p, q) \in Nat
                             /\ onHand'[p] = onHand[p] - SumFor(p, q)
                             /\ reserved'[p] = Positive(reserved[p] - SumFor(p, q))
  BY FulfilWrites
<1>6. \A p \in Products : onHand[p] \in Nat /\ reserved[p] \in Nat
  BY DEF Typed
<1> DEFINE R == ReservedFor
           R2 == ReservedFor'
           S == ShippedFor
           S2 == ShippedFor'
<1>7. ASSUME NEW p \in Products
      PROVE  /\ SumFor(p, R) = SumFor(p, R2) + SumFor(p, q)
             /\ SumFor(p, S2) = SumFor(p, S) + SumFor(p, q)
             /\ SumFor(p, R2) \in Nat /\ SumFor(p, S) \in Nat
  <2>1. R \in [Lines -> Nat] /\ R2 \in [Lines -> Nat] /\ S \in [Lines -> Nat] /\ S2 \in [Lines -> Nat]
    BY <1>2, <1>3
  <2> HIDE DEF R, R2, S, S2
  <2>2. /\ SumFor(p, R) = SumFor(p, R2) + SumFor(p, q) /\ SumFor(p, R2) \in Nat
    <3>1. AddsTo(R2, q, R)
      BY <1>4 DEF R, R2, AddsTo, PartOf
    <3>2. SumsTo(p, R2, q, R)
      BY <2>1, <3>1, SumAdd
    <3> QED  BY <3>2 DEF SumsTo
  <2>3. /\ SumFor(p, S2) = SumFor(p, S) + SumFor(p, q) /\ SumFor(p, S) \in Nat
    <3>1. AddsTo(S, q, S2)
      BY <1>4 DEF S, S2, AddsTo, PartOf
    <3>2. SumsTo(p, S, q, S2)
      BY <2>1, <3>1, SumAdd
    <3> QED  BY <3>2 DEF SumsTo
  <2> QED  BY <2>2, <2>3
<1>8. ReservedMatchesLines'
  <2>1. \A p \in Products : reserved[p] = SumFor(p, R)
    BY GoodsParts DEF Goods
  <2>2. \A p \in Products : reserved'[p] = SumFor(p, R2)
    <3> HIDE DEF R, R2
    <3> QED  BY <1>5, <1>7, <2>1 DEF Positive
  <2> QED  BY <2>2 DEF ReservedMatchesLines, ReservedFor
<1>9. StockMatchesShipments'
  <2>1. \A p \in Products : onHand[p] + SumFor(p, S) = SumFor(p, InStock) + receipts[p]
    BY GoodsParts DEF Goods
  <2>2. \A p \in Products : onHand'[p] + SumFor(p, S2) = SumFor(p, InStock) + receipts'[p]
    <3> SUFFICES ASSUME NEW p \in Products
                 PROVE  onHand'[p] + SumFor(p, S2) = SumFor(p, InStock) + receipts'[p]
      OBVIOUS
    <3> HIDE DEF S, S2
    <3> QED  BY <1>5, <1>6, <1>7, <2>1
  <2> QED  BY <2>2 DEF StockMatchesShipments, ShippedFor
<1> QED  BY <1>1, <1>8, <1>9 DEF Goods

\* A work order delivers n units of l, of which its line is allocated got.
LEMMA GoodsReceived ==
  ASSUME Typed, Typed', Goods, NEW l \in Lines, NEW n \in Nat, NEW got \in Nat,
         onHand' = [onHand EXCEPT ![ProductOf[l]] = @ + n],
         receipts' = [receipts EXCEPT ![ProductOf[l]] = @ + n],
         reserved' = [reserved EXCEPT ![ProductOf[l]] = @ + got],
         \A k \in Lines : /\ line'[k].shipped = line[k].shipped
                          /\ line'[k].allocated = line[k].allocated + (IF k = l THEN got ELSE 0)
  PROVE  Goods'
<1>1. ShippedWithinAllocated'
  BY LineParts DEF Goods, ShippedWithinAllocated
<1>2. ReservedFor \in [Lines -> Nat] /\ ShippedFor \in [Lines -> Nat]
  BY ForTyped DEF Goods
<1>3. (ReservedFor \in [Lines -> Nat])'
  <2>1. /\ \A k \in Lines : line'[k].allocated \in Nat /\ line'[k].shipped \in Nat
    <3>1. \A k \in Lines : line'[k] \in Line
      BY DEF Typed
    <3> QED  BY <3>1 DEF Line
  <2> QED  BY <1>1, <2>1 DEF ShippedWithinAllocated, ReservedFor
<1>4. ShippedFor' = ShippedFor
  BY DEF ShippedFor
<1> DEFINE R == ReservedFor
           R2 == ReservedFor'
           ls == {l}
           q == Single(l, got)
<1>5. AddsTo(R, q, R2)
  <2> SUFFICES ASSUME NEW k \in Lines PROVE R2[k] = R[k] + PartOf(q, k)
    BY DEF AddsTo
  <2>1. CASE k = l
    BY <2>1, LineParts DEF ReservedFor, PartOf, Single
  <2>2. CASE k # l
    BY <2>2, LineParts DEF ReservedFor, PartOf, Single
  <2> QED  BY <2>1, <2>2
<1>6. ls \in SUBSET Lines /\ q \in [ls -> Nat]
  BY DEF Single
<1>7. ASSUME NEW p \in Products
      PROVE  SumFor(p, R2) = SumFor(p, R) + (IF ProductOf[l] = p THEN got ELSE 0)
  <2>1. /\ ProductOf[l] = p => SumFor(p, q) = got
        /\ ProductOf[l] # p => SumFor(p, q) = 0
    BY SumOne
  <2>2. SumFor(p, R2) = SumFor(p, R) + SumFor(p, q) /\ SumFor(p, R) \in Nat
    <3> HIDE DEF R, R2, ls, q
    <3>1. R \in [Lines -> Nat] /\ R2 \in [Lines -> Nat]
      BY <1>2, <1>3 DEF R, R2
    <3>2. SumsTo(p, R, q, R2)
      BY <1>5, <1>6, <3>1, SumAdd
    <3> QED  BY <3>2 DEF SumsTo
  <2> QED  BY <2>1, <2>2
<1>8. ReservedMatchesLines'
  <2>1. \A p \in Products : reserved[p] = SumFor(p, R)
    BY GoodsParts DEF Goods
  <2>2. \A p \in Products : reserved'[p] = SumFor(p, R2)
    <3> SUFFICES ASSUME NEW p \in Products PROVE reserved'[p] = SumFor(p, R2)
      OBVIOUS
    <3>1. reserved'[p] = reserved[p] + (IF ProductOf[l] = p THEN got ELSE 0)
      BY DEF Typed
    <3> HIDE DEF R, R2
    <3> QED  BY <1>7, <2>1, <3>1
  <2> QED  BY <2>2 DEF ReservedMatchesLines, ReservedFor
<1>9. StockMatchesShipments'
  <2>1. \A p \in Products : onHand[p] + SumFor(p, ShippedFor) = SumFor(p, InStock) + receipts[p]
    BY GoodsParts DEF Goods
  <2>2. \A p \in Products :
          /\ onHand'[p] = onHand[p] + (IF ProductOf[l] = p THEN n ELSE 0)
          /\ receipts'[p] = receipts[p] + (IF ProductOf[l] = p THEN n ELSE 0)
          /\ onHand[p] \in Nat /\ receipts[p] \in Nat
    BY DEF Typed
  <2>3. \A p \in Products : SumFor(p, InStock) \in Nat /\ SumFor(p, ShippedFor) \in Nat
    <3> HIDE DEF ShippedFor
    <3> QED  BY <1>2, SumNat, LineAssumption
  <2>4. \A p \in Products : onHand'[p] + SumFor(p, ShippedFor) = SumFor(p, InStock) + receipts'[p]
    <3> HIDE DEF ShippedFor
    <3> QED  BY <2>1, <2>2, <2>3
  <2> QED  BY <1>4, <2>4 DEF StockMatchesShipments, ShippedFor
<1> QED  BY <1>1, <1>8, <1>9 DEF Goods

\* Lines keep what deliveries hold of them, and no delivery is opened or cancelled.
LEMMA DispatchedSame ==
  ASSUME Typed, DispatchedMatchesDeliveries,
         \A l \in Lines : line'[l].dispatched = line[l].dispatched,
         DOMAIN delivery' = DOMAIN delivery,
         \A n \in DOMAIN delivery :
           /\ delivery'[n].of = delivery[n].of /\ delivery'[n].document = delivery[n].document
           /\ delivery'[n].status = "CANCELLED" <=> delivery[n].status = "CANCELLED"
  PROVE  DispatchedMatchesDeliveries'
<1>1. \A l : InDeliveries(l, Open)' = InDeliveries(l, Open)
  BY SameDeliveries
<1> QED  BY <1>1 DEF DispatchedMatchesDeliveries

LEMMA WithinSame ==
  ASSUME AllocatedWithinOrdered,
         \A l \in Lines : /\ line'[l].quantity = line[l].quantity
                          /\ line'[l].allocated = line[l].allocated
  PROVE  AllocatedWithinOrdered'
BY DEF AllocatedWithinOrdered

-----------------------------------------------------------------------------
(* Every step keeps the accounts *)

Accounts ==
  /\ DocumentsSent
  /\ Goods
  /\ AllocatedWithinOrdered
  /\ DispatchedMatchesDeliveries

LEMMA AccountsSame ==
  ASSUME Typed, Accounts, UNCHANGED <<goods, line, delivery>>
  PROVE  Accounts'
<1>1. Goods'
  BY GoodsSame DEF Accounts, goods
<1>2. AllocatedWithinOrdered'
  BY WithinSame DEF Accounts
<1>3. DispatchedMatchesDeliveries'
  BY DispatchedSame DEF Accounts
<1>4. DocumentsSent'
  BY DEF Accounts, DocumentsSent
<1> QED  BY <1>1, <1>2, <1>3, <1>4 DEF Accounts

\* A delivery order that was not cancelled gets another status.
LEMMA StatusSet ==
  ASSUME Typed, DocumentsSent, DispatchedMatchesDeliveries,
         NEW n \in DOMAIN delivery, delivery[n].status # "CANCELLED",
         NEW st \in DeliveryStatus \ {"CANCELLED"}, SetDelivery(n, st),
         st \in {"DRAFT", "PACKING"} => delivery[n].status \in {"DRAFT", "PACKING"},
         \A l \in Lines : line'[l].dispatched = line[l].dispatched
  PROVE  DocumentsSent' /\ DispatchedMatchesDeliveries'
<1>1. /\ StatusesOnly /\ delivery'[n].status = st
      /\ \A m \in DOMAIN delivery \ {n} : delivery'[m] = delivery[m]
  BY SetDeliveryWrites
<1>2. delivery' = [m \in DOMAIN delivery |-> delivery'[m]]
  BY DEF SetDelivery
<1>3. \A m \in DOMAIN delivery : /\ delivery'[m].of = delivery[m].of
                                 /\ delivery'[m].document = delivery[m].document
  BY <1>1, <1>2, StatusesTyped
<1>4. DOMAIN delivery' = DOMAIN delivery
  BY <1>1 DEF StatusesOnly
<1>5. \A m \in DOMAIN delivery :
        delivery'[m].status = "CANCELLED" <=> delivery[m].status = "CANCELLED"
  BY <1>1
<1>6. DispatchedMatchesDeliveries'
  BY <1>3, <1>4, <1>5, DispatchedSame
<1>7. DocumentsSent'
  BY <1>1, <1>3, <1>4 DEF DocumentsSent
<1> QED  BY <1>6, <1>7

\* A handler of a delivery that leaves goods and lines as they are.
LEMMA MoveAccounts ==
  ASSUME Typed, ReadHolds, Accounts, NEW s \in Sessions,
         session[s].kind \in OnDelivery \ {"cancel"},
         NEW st \in DeliveryStatus \ {"CANCELLED"}, SetDelivery(session[s].of, st),
         st \in {"DRAFT", "PACKING"} => session[s].kind = "pack",
         UNCHANGED <<goods, line>>
  PROVE  Accounts'
<1> DEFINE r == session[s]
<1>1. r # Idle /\ r.of \in DOMAIN delivery
  BY OnDeliveryParts
<1>2. Holds(r)
  BY <1>1 DEF ReadHolds
<1>3. delivery[r.of].status # "CANCELLED"
  BY <1>2 DEF Holds, OnDelivery, Updates, Accepts
<1>4. r.kind = "pack" => delivery[r.of].status = "DRAFT"
  BY <1>2 DEF Holds, OnDelivery, Updates, Accepts
<1>5. DocumentsSent' /\ DispatchedMatchesDeliveries'
  BY <1>1, <1>3, <1>4, StatusSet DEF Accounts
<1>6. Goods'
  BY GoodsSame DEF Accounts, goods
<1>7. AllocatedWithinOrdered'
  BY WithinSame DEF Accounts
<1> QED  BY <1>5, <1>6, <1>7 DEF Accounts

LEMMA MovesAccounts ==
  ASSUME Typed, ReadHolds, Accounts, NEW s \in Sessions,
         \/ Deliver(s) \/ DispatchOrder(s) \/ ConfirmDelivery(s)
         \/ PackDelivery(s) \/ UpdateShipmentStatus(s)
  PROVE  Accounts'
<1>1. PICK st \in {"DELIVERED", "IN_TRANSIT", "PACKING"} :
        /\ SetDelivery(session[s].of, st) /\ UNCHANGED <<goods, line>>
        /\ session[s].kind \in {"deliver", "dispatch", "confirm", "pack"} \cup Updates
        /\ st = "PACKING" => session[s].kind = "pack"
  <2>1. CASE Deliver(s) \/ DispatchOrder(s) \/ ConfirmDelivery(s)
    BY <2>1 DEF Deliver, DispatchOrder, ConfirmDelivery
  <2>2. CASE PackDelivery(s) \/ UpdateShipmentStatus(s)
    BY <2>2 DEF PackDelivery, UpdateShipmentStatus, MoveDelivery, Updates
  <2> QED  BY <2>1, <2>2
<1>2. session[s].kind \in OnDelivery \ {"cancel"}
  BY <1>1 DEF OnDelivery, Updates
<1>3. st \in DeliveryStatus \ {"CANCELLED"} /\ st # "DRAFT"
  BY DEF DeliveryStatus
<1> QED  BY <1>1, <1>2, <1>3, MoveAccounts

\* The lines of a request, after it ships q.
LEMMA ShippedNowOf ==
  ASSUME NEW r, r.line \in [LinesOf(r.order) -> Line], NEW q \in Quantities(r.order),
         \A l \in LinesOf(r.order) : r.line[l] = line[l],
         \A l \in Sent(q) : ShippedNow(r, q)[l] =< r.line[l].allocated
  PROVE  /\ Sent(q) \in SUBSET LinesOf(r.order)
         /\ \A l \in Sent(q) : /\ ShippedNow(r, q)[l] = line[l].shipped + q[l]
                               /\ ShippedNow(r, q)[l] =< line[l].allocated
         /\ \A l \in LinesOf(r.order) \ Sent(q) : q[l] = 0
<1>1. Sent(q) \in SUBSET LinesOf(r.order)
  BY DEF Sent, Quantities
<1>2. \A l \in LinesOf(r.order) \ Sent(q) : q[l] = 0
  BY DEF Sent, Quantities
<1>3. \A l \in Sent(q) : ShippedNow(r, q)[l] = line[l].shipped + q[l]
  BY <1>1 DEF ShippedNow
<1> QED  BY <1>1, <1>2, <1>3

LEMMA ShipAccounts ==
  ASSUME Typed, Typed', ReadHolds, Accounts, NEW s \in Sessions, ShipDelivery(s)
  PROVE  Accounts'
<1> DEFINE r == session[s]
           q == delivery[r.of].of
           shipped == ShippedNow(r, q)
<1>1. /\ r.kind = "ship" /\ Fulfil(q) /\ Moved("shipped", shipped)
      /\ \A l \in Sent(q) : shipped[l] =< r.line[l].allocated
      /\ SetDelivery(r.of, "SHIPPED")
  BY DEF ShipDelivery
<1>2. r.kind \in OnDelivery /\ r.kind \notin Creating
  BY <1>1 DEF OnDelivery, Creating
<1>3. /\ r # Idle /\ r.order \in Orders /\ r.line \in [LinesOf(r.order) -> Line]
      /\ r.of \in DOMAIN delivery /\ q \in Quantities(r.order)
  BY <1>2, OnDeliveryParts
<1>4. \A l \in LinesOf(r.order) : r.line[l] = line[l]
  BY <1>2, <1>3, ReadNow
<1>5. LinesOf(r.order) \in SUBSET Lines /\ q \in [LinesOf(r.order) -> Nat]
  BY <1>3, LinesOfLines DEF Quantities
<1>6. /\ Sent(q) \in SUBSET LinesOf(r.order)
      /\ \A l \in Sent(q) : /\ shipped[l] = line[l].shipped + q[l]
                            /\ shipped[l] =< line[l].allocated
      /\ \A l \in LinesOf(r.order) \ Sent(q) : q[l] = 0
  <2>1. \A l \in Sent(q) : ShippedNow(r, q)[l] =< r.line[l].allocated
    BY <1>1
  <2> HIDE DEF q, r
  <2>2. /\ Sent(q) \in SUBSET LinesOf(r.order)
        /\ \A l \in Sent(q) : /\ ShippedNow(r, q)[l] = line[l].shipped + q[l]
                              /\ ShippedNow(r, q)[l] =< line[l].allocated
        /\ \A l \in LinesOf(r.order) \ Sent(q) : q[l] = 0
    BY <1>3, <1>4, <2>1, ShippedNowOf
  <2> QED  BY <2>2
<1>7. shipped \in [Sent(q) -> Nat]
  BY <1>3, <1>5, <1>6 DEF ShippedNow, Line
<1>8. \A l \in Lines :
        /\ line'[l].quantity = line[l].quantity
        /\ line'[l].allocated = line[l].allocated
        /\ line'[l].dispatched = line[l].dispatched
        /\ line'[l].shipped = IF l \in Sent(q) THEN shipped[l] ELSE line[l].shipped
  <2> DEFINE ls == Sent(q)
  <2>1. /\ ls \in SUBSET Lines /\ shipped \in [ls -> Nat] /\ line \in [Lines -> Line]
        /\ Moved("shipped", shipped)
    BY <1>1, <1>5, <1>6, <1>7 DEF Typed
  <2> HIDE DEF shipped, ls
  <2>2. \A l \in Lines :
          /\ line'[l].quantity = line[l].quantity
          /\ line'[l].allocated = line[l].allocated
          /\ line'[l].dispatched = line[l].dispatched
          /\ line'[l].shipped = IF l \in ls THEN shipped[l] ELSE line[l].shipped
    BY <2>1, MovedShipped
  <2> QED  BY <2>2 DEF ls
<1>9. Goods'
  <2> DEFINE ls == LinesOf(r.order)
  <2>1. \A l \in Lines :
          /\ line'[l].allocated = line[l].allocated
          /\ line'[l].shipped = line[l].shipped + (IF l \in ls THEN q[l] ELSE 0)
          /\ line'[l].shipped =< line[l].allocated
    <3> SUFFICES ASSUME NEW l \in Lines
                 PROVE  /\ line'[l].shipped = line[l].shipped + (IF l \in ls THEN q[l] ELSE 0)
                        /\ line'[l].shipped =< line[l].allocated
      BY <1>8
    <3>1. line[l].shipped \in Nat /\ line[l].shipped =< line[l].allocated
      BY LineParts DEF Accounts, Goods, ShippedWithinAllocated
    <3>2. l \in Sent(q) => l \in ls
      BY <1>6
    <3> HIDE DEF q, shipped, ls
    <3>3. CASE l \in Sent(q)
      BY <1>6, <1>8, <3>2, <3>3
    <3>4. CASE l \notin Sent(q)
      <4>1. l \in ls => q[l] = 0
        BY <1>6, <3>4 DEF ls
      <4> QED  BY <1>8, <3>1, <3>4, <4>1
    <3> QED  BY <3>3, <3>4
  <2>2. ls \in SUBSET Lines /\ q \in [ls -> Nat] /\ Fulfil(q) /\ Goods
    BY <1>1, <1>5 DEF Accounts
  <2> HIDE DEF q, ls
  <2> QED  BY <2>1, <2>2, GoodsShipped
<1>10. AllocatedWithinOrdered'
  BY <1>8, WithinSame DEF Accounts
<1>11. DocumentsSent' /\ DispatchedMatchesDeliveries'
  <2>1. Holds(r)
    BY <1>3 DEF ReadHolds
  <2>2. delivery[r.of].status # "CANCELLED"
    BY <1>1, <2>1 DEF Holds, OnDelivery, Updates, Accepts
  <2>3. "SHIPPED" \in DeliveryStatus \ {"CANCELLED"}
    BY DEF DeliveryStatus
  <2> QED  BY <1>1, <1>3, <1>8, <2>2, <2>3, StatusSet DEF Accounts
<1> QED  BY <1>9, <1>10, <1>11 DEF Accounts

LEMMA ShipOrderAccounts ==
  ASSUME Typed, Typed', ReadHolds, Accounts, NEW s \in Sessions, ShipOrder(s)
  PROVE  Accounts'
<1> DEFINE r == session[s]
<1>1. r.kind = "ship order" /\ UNCHANGED <<delivery, notified>>
  BY ShipOrderParts
<1>2. r.kind \in OnOrder \cup OnLine /\ r.kind \notin Creating
  BY <1>1 DEF OnOrder, Creating
<1>3. /\ r # Idle /\ r.order \in Orders /\ r.line \in [LinesOf(r.order) -> Line]
  BY <1>2, OnOrderParts
<1>4. PICK q \in Quantities(r.order), st \in OrderStatus, sent \in Quantities(r.order) :
        /\ \A l \in Sent(q) : ShippedNow(r, q)[l] =< r.line[l].allocated
        /\ Fulfil(q)
        /\ SaveOrder(r, st, ShippedNow(r, q))
  BY ShipOrderParts
<1>5. r.line = [l \in LinesOf(r.order) |-> line[l]]
  BY <1>2, <1>3 DEF ReadHolds, Holds
<1>6. Current(r) /\ \A l \in LinesOf(r.order) : r.line[l] = line[l]
  BY <1>5 DEF Current
<1> DEFINE shipped == ShippedNow(r, q)
           ls == LinesOf(r.order)
           out == Sent(q)
<1>7. ls \in SUBSET Lines /\ q \in [ls -> Nat]
  BY <1>4, LinesOfLines DEF Quantities
<1>8. /\ out \in SUBSET ls
      /\ \A l \in out : /\ shipped[l] = line[l].shipped + q[l]
                        /\ shipped[l] =< line[l].allocated
      /\ \A l \in ls \ out : q[l] = 0
  <2> HIDE DEF r
  <2> QED  BY <1>3, <1>4, <1>6, ShippedNowOf
<1>9. shipped \in [out -> Nat]
  BY <1>3, <1>7, <1>8 DEF ShippedNow, Line
<1> HIDE DEF shipped, ls, out
<1>10. \A l \in Lines :
         /\ line'[l].quantity = line[l].quantity
         /\ line'[l].allocated = line[l].allocated
         /\ line'[l].dispatched = line[l].dispatched
         /\ line'[l].shipped = IF l \in out THEN shipped[l] ELSE line[l].shipped
  <2>1. out \in SUBSET LinesOf(r.order) /\ SaveOrder(r, st, shipped)
    BY <1>4, <1>8 DEF ls, shipped
  <2>2. LinesShip(out, shipped)
    BY <1>3, <1>6, <1>9, <2>1, SaveOrderWrites
  <2> QED  BY <2>2 DEF LinesShip
<1>11. \A l \in Lines :
         /\ line'[l].allocated = line[l].allocated
         /\ line'[l].shipped = line[l].shipped + (IF l \in ls THEN q[l] ELSE 0)
         /\ line'[l].shipped =< line[l].allocated
  <2> SUFFICES ASSUME NEW l \in Lines
               PROVE  /\ line'[l].shipped = line[l].shipped + (IF l \in ls THEN q[l] ELSE 0)
                      /\ line'[l].shipped =< line[l].allocated
    BY <1>10
  <2>1. line[l].shipped \in Nat /\ line[l].shipped =< line[l].allocated
    BY LineParts DEF Accounts, Goods, ShippedWithinAllocated
  <2>2. CASE l \in out
    BY <1>8, <1>10, <2>2
  <2>3. CASE l \notin out
    BY <1>8, <1>10, <2>1, <2>3
  <2> QED  BY <2>2, <2>3
<1>12. Goods'
  BY <1>4, <1>7, <1>11, GoodsShipped DEF Accounts
<1>13. AllocatedWithinOrdered'
  BY <1>10, WithinSame DEF Accounts
<1>14. DocumentsSent' /\ DispatchedMatchesDeliveries'
  <2>1. delivery' = delivery
    BY <1>1
  <2>2. DocumentsSent'
    BY <2>1 DEF Accounts, DocumentsSent
  <2>3. DispatchedMatchesDeliveries'
    BY <1>10, <2>1, DispatchedSame DEF Accounts
  <2> QED  BY <2>2, <2>3
<1> QED  BY <1>12, <1>13, <1>14 DEF Accounts

LEMMA DeliverOrderAccounts ==
  ASSUME Typed, Typed', ReadHolds, Accounts, NEW s \in Sessions, DeliverOrder(s)
  PROVE  Accounts'
<1> DEFINE r == session[s]
<1>1. r.kind = "deliver order" /\ UNCHANGED <<goods, notified>>
  BY DEF DeliverOrder
<1>2. r.kind \in OnOrder \cup OnLine /\ r.kind \notin Creating
  BY <1>1 DEF OnOrder, Creating
<1>3. /\ r # Idle /\ r.order \in Orders /\ r.line \in [LinesOf(r.order) -> Line]
  BY <1>2, OnOrderParts
<1>4. r.line = [l \in LinesOf(r.order) |-> line[l]]
  BY <1>2, <1>3 DEF ReadHolds, Holds
<1>5. PICK st \in OrderStatus : SaveOrder(r, st, << >>)
  BY DEF DeliverOrder, OrderStatus
<1>6. \A l \in Lines :
        /\ line'[l].quantity = line[l].quantity
        /\ line'[l].allocated = line[l].allocated
        /\ line'[l].dispatched = line[l].dispatched
        /\ line'[l].shipped = line[l].shipped
  <2> DEFINE ls == {}
             none == << >>
  <2>1. ls \in SUBSET LinesOf(r.order) /\ none \in [ls -> Nat] /\ SaveOrder(r, st, none)
    BY <1>5
  <2>2. Current(r)
    BY <1>4 DEF Current
  <2> HIDE DEF ls, none
  <2>3. LinesShip(ls, none)
    BY <1>3, <2>1, <2>2, SaveOrderWrites
  <2> QED  BY <2>3 DEF ls, LinesShip
<1>7. /\ StatusesOnly /\ delivery' = [n \in DOMAIN delivery |-> delivery'[n]]
      /\ \A n \in DOMAIN delivery :
           delivery'[n] = delivery[n] \/ (delivery[n].status = "SHIPPED"
                                          /\ delivery'[n].status = "DELIVERED")
  BY DeliverOrderTyped
<1>8. /\ DOMAIN delivery' = DOMAIN delivery
      /\ \A n \in DOMAIN delivery :
           /\ delivery'[n].of = delivery[n].of /\ delivery'[n].document = delivery[n].document
           /\ delivery'[n].status = "CANCELLED" <=> delivery[n].status = "CANCELLED"
  BY <1>7, StatusesTyped DEF StatusesOnly
<1>9. Goods'
  BY <1>1, <1>6, GoodsSame DEF Accounts, goods
<1>10. AllocatedWithinOrdered'
  BY <1>6, WithinSame DEF Accounts
<1>11. DispatchedMatchesDeliveries'
  BY <1>6, <1>8, DispatchedSame DEF Accounts
<1>12. DocumentsSent'
  BY <1>7, <1>8 DEF Accounts, DocumentsSent
<1> QED  BY <1>9, <1>10, <1>11, <1>12 DEF Accounts

LEMMA CancelAccounts ==
  ASSUME Typed, Typed', ReadHolds, Accounts, NEW s \in Sessions, CancelDelivery(s)
  PROVE  Accounts'
<1> DEFINE r == session[s]
           q == delivery[r.of].of
           out == Sent(q)
           new == [l \in out |-> LessDispatched(r.line[l].dispatched, q[l])]
<1>1. /\ r.kind = "cancel" /\ Moved("dispatched", new) /\ SetDelivery(r.of, "CANCELLED")
      /\ UNCHANGED <<goods, status, notified>>
  BY DEF CancelDelivery
<1>2. r.kind \in OnDelivery /\ r.kind \notin Creating
  BY <1>1 DEF OnDelivery, Creating
<1>3. /\ r # Idle /\ r.order \in Orders /\ r.line \in [LinesOf(r.order) -> Line]
      /\ r.of \in DOMAIN delivery /\ q \in Quantities(r.order)
      /\ out \in SUBSET LinesOf(r.order)
  BY <1>2, OnDeliveryParts
<1>4. \A l \in LinesOf(r.order) : r.line[l] = line[l]
  BY <1>2, <1>3, ReadNow
<1>5. /\ new \in [out -> Nat] /\ out \in SUBSET Lines
      /\ DOMAIN q = LinesOf(r.order)
      /\ \A l \in Lines : l \in out <=> l \in DOMAIN q /\ q[l] > 0
      /\ \A l \in DOMAIN q : q[l] \in Nat
  BY <1>3, LinesOfLines DEF LessDispatched, Positive, Quantities, Line, Sent
<1>6. \A l \in Lines :
        /\ line'[l].quantity = line[l].quantity
        /\ line'[l].allocated = line[l].allocated
        /\ line'[l].dispatched = IF l \in out THEN new[l] ELSE line[l].dispatched
        /\ line'[l].shipped = line[l].shipped
  <2>1. line \in [Lines -> Line] /\ Moved("dispatched", new)
    BY <1>1 DEF Typed
  <2> HIDE DEF new, out
  <2> QED  BY <1>5, <2>1, MovedDispatched
<1>7. Goods' /\ AllocatedWithinOrdered'
  <2> HIDE DEF new, out
  <2>1. Goods'
    BY <1>1, <1>6, GoodsSame DEF Accounts, goods
  <2> QED  BY <1>6, <2>1, WithinSame DEF Accounts
<1>8. delivery[r.of].status \in {"DRAFT", "PACKING"}
  BY <1>1, <1>3 DEF ReadHolds, Holds, OnDelivery, Updates, Accepts
<1>9. r.of \in Open /\ ~delivery[r.of].document
  BY <1>3, <1>8 DEF Open, Accounts, DocumentsSent
<1>10. DispatchedMatchesDeliveries'
  <2> SUFFICES ASSUME NEW l \in Lines
               PROVE  line'[l].dispatched = InDeliveries(l, Open)'
    BY DEF DispatchedMatchesDeliveries
  <2>1. /\ InDeliveries(l, Open) = InDeliveries(l, Open)' + PartOf(q, l)
        /\ InDeliveries(l, Open)' \in Nat
    BY <1>1, <1>9, DeliveryCancelled
  <2>2. line[l].dispatched = InDeliveries(l, Open)
    BY DEF Accounts, DispatchedMatchesDeliveries
  <2>3. CASE l \in out
    <3>1. l \in LinesOf(r.order) /\ r.line[l] = line[l] /\ PartOf(q, l) = q[l] /\ q[l] \in Nat
      BY <1>3, <1>4, <1>5, <2>3 DEF PartOf
    <3>2. line'[l].dispatched = Positive(line[l].dispatched - q[l])
      BY <1>6, <2>3, <3>1 DEF LessDispatched
    <3> HIDE DEF q
    <3> QED  BY <2>1, <2>2, <3>1, <3>2 DEF Positive
  <2>4. CASE l \notin out
    <3>1. PartOf(q, l) = 0
      BY <1>5, <2>4 DEF PartOf
    <3>2. line'[l].dispatched = line[l].dispatched
      BY <1>6, <2>4
    <3> HIDE DEF q
    <3> QED  BY <2>1, <2>2, <3>1, <3>2
  <2> QED  BY <2>3, <2>4
<1>11. DocumentsSent'
  <2>1. /\ StatusesOnly /\ \A m \in DOMAIN delivery \ {r.of} : delivery'[m] = delivery[m]
    BY <1>1, <1>3, SetDeliveryWrites DEF DeliveryStatus
  <2>2. delivery' = [m \in DOMAIN delivery |-> delivery'[m]]
    BY <1>1 DEF SetDelivery
  <2>3. \A m \in DOMAIN delivery : delivery'[m].document = delivery[m].document
    BY <2>1, <2>2, StatusesTyped
  <2> QED  BY <1>9, <2>1, <2>3 DEF Accounts, DocumentsSent, StatusesOnly
<1> QED  BY <1>7, <1>10, <1>11 DEF Accounts

LEMMA InsertAccounts ==
  ASSUME Typed, Typed', ReadHolds, Accounts, NEW s \in Sessions, InsertDelivery(s)
  PROVE  Accounts'
<1> DEFINE r == session[s]
           d == [order |-> r.order, status |-> r.status, of |-> r.q,
                 document |-> r.status = "SHIPPED"]
           taken == {k \in LinesOf(r.order) : r.q[k] > 0}
           new == [l \in taken |-> r.line[l].dispatched + r.q[l]]
<1>1. /\ r.kind = "insert" /\ delivery' = Append(delivery, d) /\ UNCHANGED <<goods, status, notified>>
      /\ IF r.status = "DRAFT" THEN Moved("dispatched", new) ELSE UNCHANGED line
  BY DEF InsertDelivery
<1>2. r # Idle /\ r.kind \in Creating
  BY <1>1 DEF Idle, Creating
<1>3. /\ r.order \in Orders /\ r.q \in Quantities(r.order) /\ r.status \in {"DRAFT", "SHIPPED"}
      /\ r.line \in [LinesOf(r.order) -> Line]
  BY <1>2, RequestParts
<1>4. /\ d.of = r.q /\ d.status = r.status /\ d.document = (r.status = "SHIPPED")
  OBVIOUS
<1>5. /\ r.q \in [LinesOf(r.order) -> Nat] /\ DOMAIN r.q = LinesOf(r.order)
      /\ taken \in SUBSET Lines /\ new \in [taken -> Nat]
  BY <1>3, LinesOfLines DEF Quantities, Line
<1>6. \A l \in Lines : l \in taken <=> l \in DOMAIN r.q /\ r.q[l] > 0
  BY <1>5
<1>7. r.status = "DRAFT" => \A l \in taken : new[l] = line[l].dispatched + r.q[l]
  <2> SUFFICES ASSUME r.status = "DRAFT", NEW l \in taken
               PROVE  new[l] = line[l].dispatched + r.q[l]
    OBVIOUS
  <2>1. r.line = [k \in LinesOf(r.order) |-> line[k]]
    BY <1>2 DEF ReadHolds, Holds
  <2> QED  BY <2>1
<1> HIDE DEF d, taken, new
<1>8. \A l \in Lines :
        /\ line'[l].quantity = line[l].quantity
        /\ line'[l].allocated = line[l].allocated
        /\ line'[l].shipped = line[l].shipped
        /\ line'[l].dispatched =
             IF r.status = "DRAFT" /\ l \in taken THEN new[l] ELSE line[l].dispatched
  <2>1. CASE r.status = "DRAFT"
    <3>1. line \in [Lines -> Line] /\ Moved("dispatched", new)
      BY <1>1, <2>1 DEF Typed
    <3> QED  BY <1>5, <2>1, <3>1, MovedDispatched
  <2>2. CASE r.status # "DRAFT"
    BY <1>1, <2>2
  <2> QED  BY <2>1, <2>2
<1>9. Goods' /\ AllocatedWithinOrdered'
  <2>1. Goods'
    BY <1>1, <1>8, GoodsSame DEF Accounts, goods
  <2> QED  BY <1>8, <2>1, WithinSame DEF Accounts
<1>10. DispatchedMatchesDeliveries'
  <2> SUFFICES ASSUME NEW l \in Lines
               PROVE  line'[l].dispatched = InDeliveries(l, Open)'
    BY DEF DispatchedMatchesDeliveries
  <2>1. d.of \in [DOMAIN d.of -> Nat] /\ d.status # "CANCELLED"
    BY <1>3, <1>4, <1>5
  <2>2. InDeliveries(l, Open)' = InDeliveries(l, Open) + (IF d.document THEN 0 ELSE PartOf(d.of, l))
    BY <1>1, <2>1, DeliveryAdded
  <2>3. line[l].dispatched = InDeliveries(l, Open) /\ line[l].dispatched \in Nat
    BY LineParts DEF Accounts, DispatchedMatchesDeliveries
  <2>4. CASE r.status = "DRAFT"
    <3>1. ~d.document
      BY <1>4, <2>4
    <3>2. CASE l \in taken
      <4>1. PartOf(d.of, l) = r.q[l]
        BY <1>4, <1>6, <3>2 DEF PartOf
      <4> QED  BY <1>7, <1>8, <2>2, <2>3, <2>4, <3>1, <3>2, <4>1
    <3>3. CASE l \notin taken
      <4>1. PartOf(d.of, l) = 0
        BY <1>4, <1>5, <1>6, <3>3 DEF PartOf
      <4> QED  BY <1>8, <2>2, <2>3, <3>1, <3>3, <4>1
    <3> QED  BY <3>2, <3>3
  <2>5. CASE r.status = "SHIPPED"
    <3>1. d.document
      BY <1>4, <2>5, Zenon
    <3>2. r.status # "DRAFT"
      BY <2>5
    <3> QED  BY <1>8, <2>2, <2>3, <3>1, <3>2
  <2> QED  BY <1>3, <2>4, <2>5
<1>11. DocumentsSent'
  <2>1. DOMAIN delivery' = DOMAIN delivery \cup {Len(delivery) + 1}
        /\ delivery'[Len(delivery) + 1] = d
        /\ \A m \in DOMAIN delivery : delivery'[m] = delivery[m]
    BY <1>1 DEF Typed
  <2> QED  BY <1>4, <2>1 DEF Accounts, DocumentsSent
<1> QED  BY <1>9, <1>10, <1>11 DEF Accounts

LEMMA ReceiveAccounts ==
  ASSUME Typed, Typed', ReadHolds, Accounts, NEW s \in Sessions, ReceiveGoods(s)
  PROVE  Accounts'
<1> DEFINE r == session[s]
           l == r.of
           p == ProductOf[l]
<1>1. r.kind = "receive" /\ UNCHANGED <<delivery, notified>>
  BY ReceiveParts
<1>2. r.kind \in OnOrder \cup OnLine /\ r.kind \in OnLine /\ r.kind \notin Creating
  BY <1>1 DEF OnLine, Creating
<1>3. r # Idle /\ l \in LinesOf(r.order)
  BY <1>2, OnOrderParts
<1>4. r.line[l] = line[l] /\ l \in Lines
  BY <1>2, <1>3, ReadNow, LinesOfLines
<1>5. PICK n \in 1..producing[l], got \in Nat, st \in LineStatus :
        /\ got =< Need(r.line[l], 0)
        /\ onHand' = [onHand EXCEPT ![p] = @ + n]
        /\ receipts' = [receipts EXCEPT ![p] = @ + n]
        /\ producing' = [producing EXCEPT ![l] = @ - n]
        /\ reserved' = [reserved EXCEPT ![p] = @ + got]
        /\ line' = [line EXCEPT ![l].allocated = IF got > 0 THEN r.line[l].allocated + got ELSE @,
                                ![l].status = st]
  BY ReceiveParts, Zenon
<1>6. n \in Nat
  OBVIOUS
<1>7. line[l] \in Line /\ line[l].allocated \in Nat /\ line[l].quantity \in Nat
  BY <1>4, LineParts
<1> DEFINE a == IF got > 0 THEN r.line[l].allocated + got ELSE line[l].allocated
<1>8. a = line[l].allocated + got
  BY <1>4, <1>7
<1>9. line' = [line EXCEPT ![l] = [line[l] EXCEPT !.allocated = a, !.status = st]]
  BY <1>4, <1>5 DEF Typed
<1> HIDE DEF a
<1>10. line'[l] = [line[l] EXCEPT !.allocated = a, !.status = st]
       /\ \A k \in Lines \ {l} : line'[k] = line[k]
  BY <1>4, <1>9 DEF Typed
<1>11. /\ line'[l].allocated = a /\ line'[l].quantity = line[l].quantity
       /\ line'[l].dispatched = line[l].dispatched /\ line'[l].shipped = line[l].shipped
  BY <1>7, <1>10 DEF Line
<1>12. \A k \in Lines :
         /\ line'[k].shipped = line[k].shipped
         /\ line'[k].allocated = line[k].allocated + (IF k = l THEN got ELSE 0)
  <2> SUFFICES ASSUME NEW k \in Lines
               PROVE  /\ line'[k].shipped = line[k].shipped
                      /\ line'[k].allocated = line[k].allocated + (IF k = l THEN got ELSE 0)
    OBVIOUS
  <2>1. line[k].allocated \in Nat
    BY LineParts
  <2>2. CASE k = l
    BY <1>8, <1>11, <2>2
  <2>3. CASE k # l
    BY <1>10, <2>1, <2>3
  <2> QED  BY <2>2, <2>3
<1>13. Goods'
  <2> HIDE DEF l
  <2> QED  BY <1>4, <1>5, <1>6, <1>12, GoodsReceived DEF Accounts
<1>14. AllocatedWithinOrdered'
  <2>1. line[l].allocated =< line[l].quantity
    BY <1>4 DEF Accounts, AllocatedWithinOrdered
  <2>2. got =< line[l].quantity - line[l].allocated
    BY <1>4, <1>5, <1>7, <2>1 DEF Need, Positive
  <2>3. line'[l].allocated =< line'[l].quantity
    BY <1>7, <1>8, <1>11, <2>2
  <2>4. \A k \in Lines \ {l} : line'[k].allocated =< line'[k].quantity
    BY <1>10 DEF Accounts, AllocatedWithinOrdered
  <2> HIDE DEF l
  <2> QED  BY <2>3, <2>4 DEF AllocatedWithinOrdered
<1>15. DocumentsSent' /\ DispatchedMatchesDeliveries'
  <2>1. delivery' = delivery
    BY <1>1
  <2>2. DocumentsSent'
    BY <2>1 DEF Accounts, DocumentsSent
  <2>3. \A k \in Lines : line'[k].dispatched = line[k].dispatched
    <3> HIDE DEF l
    <3> QED  BY <1>10, <1>11
  <2>4. DispatchedMatchesDeliveries'
    BY <2>1, <2>3, DispatchedSame DEF Accounts
  <2> QED  BY <2>2, <2>4
<1> QED  BY <1>13, <1>14, <1>15 DEF Accounts

LEMMA LineAccounts ==
  ASSUME Typed, Typed', ReadHolds, Accounts, NEW s \in Sessions,
         CreateWoForRemaining(s) \/ ShortCloseLine(s)
  PROVE  Accounts'
<1>1. /\ UNCHANGED <<onHand, reserved, receipts, delivery>>
      /\ \A k \in Lines : /\ line'[k].quantity = line[k].quantity
                               \/ line'[k].quantity = line[k].allocated
                          /\ line'[k].allocated = line[k].allocated
                          /\ line'[k].dispatched = line[k].dispatched
                          /\ line'[k].shipped = line[k].shipped
  <2>1. CASE CreateWoForRemaining(s)
    <3>1. UNCHANGED <<onHand, reserved, receipts, delivery>>
      BY <2>1 DEF CreateWoForRemaining
    <3> QED  BY <2>1, <3>1, RemainingTyped
  <2>2. CASE ShortCloseLine(s)
    <3>1. UNCHANGED <<onHand, reserved, receipts, delivery>>
      BY <2>2 DEF ShortCloseLine, goods
    <3>2. session[s] # Idle /\ session[s].kind \notin Creating
      BY <2>2, ShortCloseTyped DEF OnLine, Creating
    <3>3. session[s].line[session[s].of] = line[session[s].of]
      BY <2>2, <3>2, ShortCloseTyped, ReadNow
    <3> QED  BY <2>2, <3>1, <3>3, ShortCloseTyped
  <2> QED  BY <2>1, <2>2
<1>2. Goods'
  BY <1>1, GoodsSame DEF Accounts
<1>3. AllocatedWithinOrdered'
  <2>1. \A k \in Lines : line[k].allocated =< line[k].quantity /\ line[k].allocated \in Nat
    BY LineParts DEF Accounts, AllocatedWithinOrdered
  <2> QED  BY <1>1, <2>1 DEF AllocatedWithinOrdered
<1>4. DocumentsSent'
  BY <1>1 DEF Accounts, DocumentsSent
<1>5. DispatchedMatchesDeliveries'
  BY <1>1, DispatchedSame DEF Accounts
<1> QED  BY <1>2, <1>3, <1>4, <1>5 DEF Accounts

LEMMA StepAccounts ==
  ASSUME Typed, Typed', ReadHolds, Accounts, NEW s \in Sessions, Step(s)
  PROVE  Accounts'
<1>1. CASE Begins(s)
  BY <1>1, BeginParts, AccountsSame
<1>2. CASE Abandon(s)
  BY <1>2, AccountsSame DEF Abandon
<1>3. CASE Works(s)
  <2>1. CASE ResolveLines(s) \/ NextNumber(s)
    BY <2>1, AccountsSame DEF ResolveLines, NextNumber
  <2>2. CASE InsertDelivery(s)  BY <2>2, InsertAccounts
  <2>3. CASE ShipDelivery(s)  BY <2>3, ShipAccounts
  <2>4. CASE \/ Deliver(s) \/ DispatchOrder(s) \/ ConfirmDelivery(s)
             \/ PackDelivery(s) \/ UpdateShipmentStatus(s)
    BY <2>4, MovesAccounts
  <2>5. CASE CancelDelivery(s)  BY <2>5, CancelAccounts
  <2>6. CASE ShipOrder(s)  BY <2>6, ShipOrderAccounts
  <2>7. CASE DeliverOrder(s)  BY <2>7, DeliverOrderAccounts
  <2>8. CASE ReceiveGoods(s)  BY <2>8, ReceiveAccounts
  <2>9. CASE CreateWoForRemaining(s) \/ ShortCloseLine(s)  BY <2>9, LineAccounts
  <2> QED
    BY <1>3, <2>1, <2>2, <2>3, <2>4, <2>5, <2>6, <2>7, <2>8, <2>9 DEF Works
<1> QED  BY <1>1, <1>2, <1>3, StepCases

-----------------------------------------------------------------------------
(* The inductive invariant of OrderlySpec, and what follows from it *)

IInv == Typed /\ OrdersApart /\ ReadHolds /\ Accounts

LEMMA IInvParts == IInv => Inv
BY TypedTables DEF IInv, Accounts, Goods, Inv

LEMMA InitIInv == Init => IInv
<1> SUFFICES ASSUME Init PROVE IInv
  OBVIOUS
<1>1. Typed
  BY InitTyped
<1>2. /\ line = [l \in Lines |-> [quantity |-> Ordered[l], allocated |-> InStock[l],
                                  dispatched |-> 0, shipped |-> 0, status |-> "PENDING"]]
      /\ onHand = [p \in Products |-> SumFor(p, InStock)]
      /\ reserved = onHand
      /\ receipts = [p \in Products |-> 0]
      /\ delivery = << >>
      /\ session = [s \in Sessions |-> Idle]
  BY DEF Init
<1>3. \A l \in Lines : /\ line[l].quantity = Ordered[l] /\ line[l].allocated = InStock[l]
                       /\ line[l].dispatched = 0 /\ line[l].shipped = 0
                       /\ InStock[l] \in Nat /\ InStock[l] =< Ordered[l]
  BY <1>2, LineAssumption
<1>4. \A s \in Sessions : session[s] = Idle
  BY <1>2
<1>5. OrdersApart /\ ReadHolds
  BY <1>4 DEF OrdersApart, ReadHolds
<1>6. DocumentsSent
  BY <1>2 DEF DocumentsSent
<1>7. AllocatedWithinOrdered /\ ShippedWithinAllocated
  BY <1>3 DEF AllocatedWithinOrdered, ShippedWithinAllocated
<1>8. ReservedFor = InStock /\ ShippedFor = [l \in Lines |-> 0]
  <2>1. InStock = [l \in Lines |-> InStock[l]] /\ \A l \in Lines : InStock[l] - 0 = InStock[l]
    BY LineAssumption
  <2> QED  BY <1>3, <2>1 DEF ReservedFor, ShippedFor
<1>9. ReservedMatchesLines
  <2>1. \A p \in Products : reserved[p] = SumFor(p, InStock)
    BY <1>2
  <2> QED  BY <1>8, <2>1, GoodsParts
<1>10. \A p : SumFor(p, ShippedFor) = 0
  <2> SUFFICES ASSUME NEW p PROVE SumFor(p, ShippedFor) = 0
    OBVIOUS
  <2> DEFINE D == {k \in Lines : ProductOf[k] = p}
             f == [l \in D |-> 0]
  <2>1. SumFor(p, ShippedFor) = Total(f)
    BY <1>8 DEF SumFor
  <2>2. DOMAIN f = D /\ \A x \in D : f[x] = 0
    OBVIOUS
  <2> HIDE DEF D, f
  <2> QED  BY <2>1, <2>2, TotalZero
<1>11. StockMatchesShipments
  <2>1. \A p \in Products : onHand[p] = SumFor(p, InStock) /\ receipts[p] = 0
    BY <1>2
  <2>2. \A p \in Products : SumFor(p, InStock) \in Nat
    BY SumNat, LineAssumption
  <2>3. \A p \in Products : onHand[p] + SumFor(p, ShippedFor) = SumFor(p, InStock) + receipts[p]
    BY <1>10, <2>1, <2>2
  <2> QED  BY <2>3, GoodsParts
<1>12. DispatchedMatchesDeliveries
  <2> SUFFICES ASSUME NEW l \in Lines PROVE line[l].dispatched = InDeliveries(l, Open)
    BY DEF DispatchedMatchesDeliveries
  <2> DEFINE D == {m \in Open : l \in DOMAIN delivery[m].of}
             f == [n \in D |-> delivery[n].of[l]]
  <2>1. Open = {}
    BY <1>2 DEF Open
  <2>2. DOMAIN f = D /\ D = {}
    BY <2>1
  <2>3. InDeliveries(l, Open) = Total(f)
    BY DEF InDeliveries
  <2> HIDE DEF D, f
  <2>4. Total(f) = 0
    BY <2>2, TotalZero
  <2> QED  BY <1>3, <2>3, <2>4
<1> QED
  BY <1>1, <1>5, <1>6, <1>7, <1>9, <1>11, <1>12 DEF IInv, Accounts, Goods

LEMMA IInvNext == IInv /\ [Next /\ OrderlyStep]_vars => IInv'
<1> SUFFICES ASSUME IInv, [Next /\ OrderlyStep]_vars PROVE IInv'
  OBVIOUS
<1>1. CASE UNCHANGED vars
  <2>1. Typed'
    BY <1>1, TypedNext DEF IInv
  <2>2. UNCHANGED <<goods, line, delivery>> /\ session' = session
    BY <1>1 DEF vars
  <2>3. Accounts'
    BY <2>2, AccountsSame DEF IInv
  <2>4. OrdersApart' /\ ReadHolds'
    BY <2>2 DEF IInv, OrdersApart, ReadHolds, Holds
  <2> QED  BY <2>1, <2>3, <2>4 DEF IInv
<1>2. CASE Next /\ OrderlyStep
  <2>1. PICK s \in Sessions : Step(s)
    BY <1>2 DEF Next
  <2>2. Typed'
    BY <2>1, StepTyped DEF IInv
  <2>3. OrdersApart' /\ ReadHolds'
    BY <1>2, <2>1, ApartKept, ReadKept DEF IInv
  <2>4. Accounts'
    BY <2>1, <2>2, StepAccounts DEF IInv
  <2> QED  BY <2>2, <2>3, <2>4 DEF IInv
<1> QED  BY <1>1, <1>2

(* What the properties of orderly requests rest on: requests in progress are on different
   orders, so that what they read of theirs holds until they commit. *)
THEOREM Orderly == OrderlySpec => []Inv
<1>1. OrderlySpec => []IInv
  BY InitIInv, IInvNext, PTL DEF OrderlySpec
<1> QED  BY <1>1, IInvParts, PTL

(* What is dispatched of a line is what the delivery orders hold that were not cancelled:
   creation adds to it, cancellation takes away exactly what it added, and the record of
   a shipment neither. *)
THEOREM DispatchedMatches == OrderlySpec => []DispatchedMatchesDeliveries
<1>1. Inv => DispatchedMatchesDeliveries
  BY DEF Inv
<1> QED  BY <1>1, Orderly, PTL

(* What is reserved of a finished good is what its lines are allocated and did not ship,
   for any number of lines that order it, whichever service ships them. *)
THEOREM ReservedMatches == OrderlySpec => []ReservedMatchesLines
<1>1. Inv => ReservedMatchesLines
  BY DEF Inv
<1> QED  BY <1>1, Orderly, PTL

(* The stock of a finished good is what was there and was received, less what its lines
   record as shipped. *)
THEOREM StockMatches == OrderlySpec => []StockMatchesShipments
<1>1. Inv => StockMatchesShipments
  BY DEF Inv
<1> QED  BY <1>1, Orderly, PTL

(* No line is allocated more than it orders, not by a second work order for the same
   units, nor when it is closed short while one is still to deliver. *)
THEOREM AllocatedWithin == OrderlySpec => []AllocatedWithinOrdered
<1>1. Inv => AllocatedWithinOrdered
  BY DEF Inv
<1> QED  BY <1>1, Orderly, PTL

=============================================================================
