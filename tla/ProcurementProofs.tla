--------------------------- MODULE ProcurementProofs ---------------------------
(***************************************************************************)
(* What Procurement promises for every set of orders, notes, sessions and  *)
(* locations.  Orders: nothing is received beyond the order, twice, or on  *)
(* a closed order, because whoever raises or lowers what an order received *)
(* has the order locked since it read it, and a note that is reversed is   *)
(* locked as well.  Stock: every change of the buckets is entered in the   *)
(* ledger with what it adds.                                               *)
(***************************************************************************)
EXTENDS Procurement, UnitCountProofs

-----------------------------------------------------------------------------
(* The invariant of orders and notes *)

OrderKinds == {"send", "acknowledge", "cancel", "delete", "announce", "receive"}

Reversal == [kind : {"reverse"}, of : Notes, accepted : Nat, status : OrderStatus,
             locked : BOOLEAN, received : Nat, held : Nat]

\* What a receipt in progress has read of its order is still so.
ReceiptOK(r) ==
  /\ order[r.of].received = r.received
  /\ order[r.of].status \in Receivable
  /\ ~order[r.of].deleted

\* What a reversal has read of its note, and of its order once it has locked it.
ReversalOK(r) ==
  /\ r \in Reversal
  /\ note[r.of].status = "received"
  /\ note[r.of].accepted = r.accepted
  /\ r.locked => order[note[r.of].order].received = r.received

RequestOK(r) ==
  /\ r.kind \in OrderKinds => r.of \in Orders
  /\ r.kind \in {"reverse", "unlog"} => r.of \in Notes
  /\ r.kind = "receive" => ReceiptOK(r)
  /\ r.kind = "reverse" => ReversalOK(r)

Receives(s, p) == session[s].kind = "receive" /\ session[s].of = p
Reverses(s, n) == session[s].kind = "reverse" /\ session[s].of = n
HoldsFor(s, p) ==
  session[s].kind = "reverse" /\ session[s].locked /\ note[session[s].of].order = p

\* s has order p locked.
Holds(s, p) == Receives(s, p) \/ HoldsFor(s, p)

Documents == order \in [Orders -> Order] /\ note \in [Notes -> Note]

NotesOK ==
  \A n \in Notes : /\ note[n].status # "none" => note[n].order \in Orders
                   /\ note[n].status # "received" => note[n].accepted = 0

SessionsOK ==
  /\ session = [s \in Sessions |-> session[s]]
  /\ \A s \in Sessions : RequestOK(session[s])

\* An order is locked by one request, and a note reversed by one.
Exclusive ==
  \A s, t \in Sessions : s # t =>
    /\ \A p \in Orders : ~(Holds(s, p) /\ Holds(t, p))
    /\ \A n \in Notes : ~(Reverses(s, n) /\ Reverses(t, n))

OInv ==
  /\ Documents
  /\ NotesOK
  /\ SessionsOK
  /\ Exclusive
  /\ ReceivedWithinOrdered
  /\ ReceivedMatchesNotes

\* No order receives more in this step.
NothingReceived == \A p \in Orders : order'[p].received =< order[p].received

ReceivedWhileOpen ==
  \A p \in Orders : order'[p].received > order[p].received =>
    order[p].status \in Receivable /\ ~order[p].deleted

-----------------------------------------------------------------------------
(* Steps that leave orders and notes alone *)

\* Every request goes on as it is, or ends.
SomeEnd ==
  /\ session' = [s \in Sessions |-> session'[s]]
  /\ \A s \in Sessions : session'[s] = session[s] \/ session'[s] = Idle

LEMMA EndEnds ==
  ASSUME SessionsOK, NEW s \in Sessions, End(s)
  PROVE  /\ SomeEnd
         /\ session'[s] = Idle
         /\ \A t \in Sessions \ {s} : session'[t] = session[t]
BY DEF End, SomeEnd, SessionsOK

LEMMA Quiet ==
  ASSUME OInv, UNCHANGED <<order, note>>, SomeEnd
  PROVE  OInv' /\ NothingReceived
<1>1. Documents' /\ NotesOK' /\ ReceivedWithinOrdered' /\ ReceivedMatchesNotes'
  BY DEF OInv, Documents, NotesOK, ReceivedWithinOrdered, ReceivedMatchesNotes
<1>2. SessionsOK'
  <2> SUFFICES ASSUME NEW s \in Sessions PROVE RequestOK(session[s])'
    BY DEF SomeEnd, SessionsOK
  <2>1. CASE session'[s] = session[s]
    BY <2>1 DEF OInv, SessionsOK, RequestOK, ReceiptOK, ReversalOK
  <2>2. CASE session'[s] = Idle
    BY <2>2 DEF Idle, RequestOK, OrderKinds
  <2> QED  BY <2>1, <2>2 DEF SomeEnd
<1>3. Exclusive'
  <2>1. \A s \in Sessions : /\ \A p \in Orders : Holds(s, p)' => Holds(s, p)
                            /\ \A n \in Notes : Reverses(s, n)' => Reverses(s, n)
    BY DEF SomeEnd, Holds, Receives, HoldsFor, Reverses, Idle
  <2> QED  BY <2>1 DEF OInv, Exclusive
<1>4. NothingReceived
  BY DEF OInv, Documents, NothingReceived, Order
<1> QED  BY <1>1, <1>2, <1>3, <1>4 DEF OInv

\* A request begins.
LEMMA Begins ==
  ASSUME OInv, NEW s \in Sessions, NEW r, Begin(s, r), RequestOK(r),
         r.kind = "receive" => Free(r.of),
         r.kind = "reverse" => NoteFree(r.of) /\ r.locked = FALSE
  PROVE  OInv' /\ NothingReceived
<1>0. /\ session'[s] = r /\ \A t \in Sessions \ {s} : session'[t] = session[t]
      /\ session' = [t \in Sessions |-> session'[t]]
      /\ UNCHANGED <<order, note>>
  BY DEF Begin, OInv, SessionsOK
<1>1. Documents' /\ NotesOK' /\ ReceivedWithinOrdered' /\ ReceivedMatchesNotes'
  BY <1>0 DEF OInv, Documents, NotesOK, ReceivedWithinOrdered, ReceivedMatchesNotes
<1>2. SessionsOK'
  <2>1. RequestOK(session[s])'
    BY <1>0 DEF RequestOK, ReceiptOK, ReversalOK
  <2>2. \A t \in Sessions \ {s} : RequestOK(session[t])'
    BY <1>0 DEF OInv, SessionsOK, RequestOK, ReceiptOK, ReversalOK
  <2> QED  BY <1>0, <2>1, <2>2 DEF SessionsOK
<1>3. Exclusive'
  <2>1. \A t \in Sessions \ {s} : /\ \A p \in Orders : Holds(t, p)' <=> Holds(t, p)
                                  /\ \A n \in Notes : Reverses(t, n)' <=> Reverses(t, n)
    BY <1>0 DEF Holds, Receives, HoldsFor, Reverses
  <2>2. \A p \in Orders : Holds(s, p)' => \A t \in Sessions : ~Holds(t, p)
    BY <1>0 DEF Holds, Receives, HoldsFor, Free, LockedBy
  <2>3. \A n \in Notes : Reverses(s, n)' => \A t \in Sessions : ~Reverses(t, n)
    BY <1>0 DEF Reverses, NoteFree
  <2> QED  BY <2>1, <2>2, <2>3 DEF OInv, Exclusive
<1>4. NothingReceived
  BY <1>0 DEF OInv, Documents, NothingReceived, Order
<1> QED  BY <1>1, <1>2, <1>3, <1>4 DEF OInv

LEMMA LockOK ==
  ASSUME OInv, currentStock \in Nat, NEW s \in Sessions, LockForReversal(s)
  PROVE  OInv' /\ NothingReceived
<1> DEFINE r == session[s]
           p == note[r.of].order
<1>1. r.kind = "reverse" /\ r \in Reversal /\ r.of \in Notes /\ p \in Orders
  BY DEF LockForReversal, OInv, SessionsOK, RequestOK, ReversalOK, NotesOK
<1>2. /\ session'[s].kind = "reverse" /\ session'[s].of = r.of
      /\ session'[s].accepted = r.accepted /\ session'[s].locked = TRUE
      /\ session'[s].received = order[p].received
  BY <1>1 DEF LockForReversal, OInv, SessionsOK, Reversal
<1>3. UNCHANGED <<order, note>> /\ Free(p)
  BY DEF LockForReversal
<1>4. /\ \A t \in Sessions \ {s} : session'[t] = session[t]
      /\ session' = [t \in Sessions |-> session'[t]]
  BY DEF LockForReversal, OInv, SessionsOK
<1>5. session'[s] \in Reversal
  <2>1. order[p].received \in Nat
    BY <1>1 DEF OInv, Documents, Order
  <2>2. session'[s] = [session[s] EXCEPT !.locked = TRUE, !.held = currentStock,
                                         !.received = order[p].received]
    BY DEF LockForReversal, OInv, SessionsOK
  <2> QED  BY <1>1, <2>1, <2>2 DEF Reversal
<1>6. Documents' /\ NotesOK' /\ ReceivedWithinOrdered' /\ ReceivedMatchesNotes'
  BY <1>3 DEF OInv, Documents, NotesOK, ReceivedWithinOrdered, ReceivedMatchesNotes
<1>7. SessionsOK'
  <2>1. RequestOK(session[s])'
    BY <1>1, <1>2, <1>3, <1>5 DEF OInv, SessionsOK, RequestOK, ReversalOK, OrderKinds
  <2>2. \A t \in Sessions \ {s} : RequestOK(session[t])'
    BY <1>3, <1>4 DEF OInv, SessionsOK, RequestOK, ReceiptOK, ReversalOK
  <2> QED  BY <1>4, <2>1, <2>2 DEF SessionsOK
<1>8. Exclusive'
  <2>1. \A t \in Sessions \ {s} : /\ \A k \in Orders : Holds(t, k)' <=> Holds(t, k)
                                  /\ \A n \in Notes : Reverses(t, n)' <=> Reverses(t, n)
    BY <1>3, <1>4 DEF Holds, Receives, HoldsFor, Reverses
  <2>2. \A k \in Orders : Holds(s, k)' => k = p
    BY <1>2, <1>3 DEF Holds, Receives, HoldsFor
  <2>3. \A t \in Sessions : ~Holds(t, p)
    BY <1>3 DEF Holds, Receives, HoldsFor, Free, LockedBy
  <2>4. \A n \in Notes : Reverses(s, n)' <=> Reverses(s, n)
    BY <1>1, <1>2 DEF Reverses
  <2> QED  BY <2>1, <2>2, <2>3, <2>4 DEF OInv, Exclusive
<1>9. NothingReceived
  BY <1>3 DEF OInv, Documents, NothingReceived, Order
<1> QED  BY <1>6, <1>7, <1>8, <1>9 DEF OInv

-----------------------------------------------------------------------------
(* Steps that write an order or a note *)

\* A status or a deletion is written on an order that no receipt has locked.
LEMMA StatusWritten ==
  ASSUME OInv, NEW p \in Orders,
         order' \in [Orders -> Order],
         \A k \in Orders : order'[k].received = order[k].received,
         \A k \in Orders \ {p} : order'[k] = order[k],
         \A s \in Sessions : ~Receives(s, p),
         UNCHANGED note, SomeEnd
  PROVE  OInv' /\ NothingReceived
<1>1. Documents' /\ NotesOK' /\ ReceivedWithinOrdered' /\ ReceivedMatchesNotes'
  BY DEF OInv, Documents, NotesOK, ReceivedWithinOrdered, ReceivedMatchesNotes
<1>2. SessionsOK'
  <2> SUFFICES ASSUME NEW s \in Sessions PROVE RequestOK(session[s])'
    BY DEF SomeEnd, SessionsOK
  <2>1. CASE session'[s] = session[s]
    <3>1. RequestOK(session[s]) /\ ~Receives(s, p)
      BY DEF OInv, SessionsOK
    <3>2. session[s].kind = "receive" => ReceiptOK(session[s])'
      BY <2>1, <3>1 DEF RequestOK, ReceiptOK, Receives, OrderKinds
    <3>3. session[s].kind = "reverse" => ReversalOK(session[s])'
      <4>1. session[s].kind = "reverse" => note[session[s].of].order \in Orders
        BY <3>1 DEF OInv, NotesOK, RequestOK, ReversalOK
      <4> QED  BY <2>1, <3>1, <4>1 DEF RequestOK, ReversalOK
    <3> QED  BY <2>1, <3>1, <3>2, <3>3 DEF RequestOK
  <2>2. CASE session'[s] = Idle
    BY <2>2 DEF Idle, RequestOK, OrderKinds
  <2> QED  BY <2>1, <2>2 DEF SomeEnd
<1>3. Exclusive'
  <2>1. \A s \in Sessions : /\ \A k \in Orders : Holds(s, k)' => Holds(s, k)
                            /\ \A n \in Notes : Reverses(s, n)' => Reverses(s, n)
    BY DEF SomeEnd, Holds, Receives, HoldsFor, Reverses, Idle
  <2> QED  BY <2>1 DEF OInv, Exclusive
<1>4. NothingReceived
  BY DEF OInv, Documents, NothingReceived, Order
<1> QED  BY <1>1, <1>2, <1>3, <1>4 DEF OInv

\* A new order takes the place of none: no request can be receiving it.
LEMMA OrderCreated ==
  ASSUME OInv, NEW p \in Orders, NEW st \in {"draft", "sent"},
         order[p].status = "none",
         order' = [order EXCEPT ![p].status = st],
         UNCHANGED note, SomeEnd
  PROVE  OInv' /\ NothingReceived
<1>1. order \in [Orders -> Order]
  BY DEF OInv, Documents
<1>2. /\ order' \in [Orders -> Order]
      /\ \A k \in Orders : order'[k].received = order[k].received
      /\ \A k \in Orders \ {p} : order'[k] = order[k]
  BY <1>1 DEF Order, OrderStatus
<1>3. \A s \in Sessions : ~Receives(s, p)
  BY DEF OInv, SessionsOK, RequestOK, ReceiptOK, Receives, Receivable
<1> QED  BY <1>2, <1>3, StatusWritten

LEMMA ChangeOK ==
  ASSUME OInv, NEW s \in Sessions, ChangeOrder(s) \/ DeleteOrder(s)
  PROVE  OInv' /\ NothingReceived
<1> DEFINE p == session[s].of
<1>1. p \in Orders /\ Free(p) /\ UNCHANGED note
  BY DEF ChangeOrder, DeleteOrder, OInv, SessionsOK, RequestOK, OrderKinds, Transition
<1>2. SomeEnd
  BY EndEnds DEF ChangeOrder, DeleteOrder, OInv
<1>3. \A t \in Sessions : ~Receives(t, p)
  BY <1>1 DEF Free, LockedBy, Receives
<1>4. order \in [Orders -> Order]
  BY DEF OInv, Documents
<1>5. /\ order' \in [Orders -> Order]
      /\ \A k \in Orders : order'[k].received = order[k].received
      /\ \A k \in Orders \ {p} : order'[k] = order[k]
  <2>1. CASE ChangeOrder(s)
    <3> DEFINE to == Transition[session[s].kind].to
    <3>1. to \in OrderStatus
      BY <2>1 DEF ChangeOrder, Transition, OrderStatus
    <3>2. order' = [order EXCEPT ![p].status = Written(@, session[s].status, to)]
      BY <2>1 DEF ChangeOrder
    <3> QED  BY <1>1, <1>4, <3>1, <3>2 DEF Order, Written
  <2>2. CASE DeleteOrder(s)
    BY <1>1, <1>4, <2>2 DEF DeleteOrder, Order
  <2> QED  BY <2>1, <2>2
<1> HIDE DEF p
<1> QED  BY <1>1, <1>2, <1>3, <1>5, StatusWritten

\* What the notes of order p have accepted.
Accepted(p) == [n \in Notes |-> IF note[n].order = p THEN note[n].accepted ELSE 0]

LEMMA AcceptedTyped ==
  ASSUME Documents, NEW p
  PROVE  Accepted(p) \in [Notes -> Nat]
BY DEF Documents, Note, Accepted

\* A note that says nothing of stock received is written.
LEMMA NoteWritten ==
  ASSUME OInv, NEW n \in Notes, UNCHANGED order, SomeEnd,
         note' \in [Notes -> Note],
         \A k \in Notes \ {n} : note'[k] = note[k],
         note'[n].status # "none" => note'[n].order \in Orders,
         note'[n].status # "received" => note'[n].accepted = 0,
         note[n].status = "received" =>
           note'[n].status = "received" /\ note'[n].order = note[n].order,
         note'[n].accepted = note[n].accepted,
         note[n].accepted # 0 => note'[n].order = note[n].order
  PROVE  OInv' /\ NothingReceived
<1>1. Documents' /\ NotesOK' /\ ReceivedWithinOrdered'
  BY DEF OInv, Documents, NotesOK, ReceivedWithinOrdered
<1>2. ReceivedMatchesNotes'
  <2>1. \A p \in Orders : Accepted(p)' = Accepted(p)
    <3> SUFFICES ASSUME NEW p \in Orders, NEW k \in Notes
                 PROVE  (IF note'[k].order = p THEN note'[k].accepted ELSE 0)
                          = (IF note[k].order = p THEN note[k].accepted ELSE 0)
      BY DEF Accepted
    <3>1. CASE k = n
      BY <3>1
    <3>2. CASE k # n
      BY <3>2
    <3> QED  BY <3>1, <3>2
  <2> QED  BY <2>1 DEF OInv, ReceivedMatchesNotes, Accepted
<1>3. SessionsOK'
  <2> SUFFICES ASSUME NEW s \in Sessions PROVE RequestOK(session[s])'
    BY DEF SomeEnd, SessionsOK
  <2>1. CASE session'[s] = session[s]
    <3>1. RequestOK(session[s])
      BY DEF OInv, SessionsOK
    <3>2. session[s].kind = "reverse" => ReversalOK(session[s])'
      BY <2>1, <3>1 DEF RequestOK, ReversalOK
    <3> QED  BY <2>1, <3>1, <3>2 DEF RequestOK, ReceiptOK
  <2>2. CASE session'[s] = Idle
    BY <2>2 DEF Idle, RequestOK, OrderKinds
  <2> QED  BY <2>1, <2>2 DEF SomeEnd
<1>4. Exclusive'
  <2>1. \A s \in Sessions :
          /\ \A k \in Orders : Holds(s, k)' => Holds(s, k)
          /\ \A k \in Notes : Reverses(s, k)' => Reverses(s, k)
    <3> SUFFICES ASSUME NEW s \in Sessions, session'[s] = session[s]
                 PROVE  /\ \A k \in Orders : Holds(s, k)' => Holds(s, k)
                        /\ \A k \in Notes : Reverses(s, k)' => Reverses(s, k)
      BY DEF SomeEnd, Holds, Receives, HoldsFor, Reverses, Idle
    <3>1. session[s].kind = "reverse" =>
            session[s].of \in Notes /\ note'[session[s].of].order = note[session[s].of].order
      BY DEF OInv, SessionsOK, RequestOK, ReversalOK
    <3> QED  BY <3>1 DEF Holds, Receives, HoldsFor, Reverses
  <2> QED  BY <2>1 DEF OInv, Exclusive
<1>5. NothingReceived
  BY DEF OInv, Documents, NothingReceived, Order
<1> QED  BY <1>1, <1>2, <1>3, <1>4, <1>5 DEF OInv

LEMMA AnnounceOK ==
  ASSUME OInv, NEW s \in Sessions, AnnounceGoods(s)
  PROVE  OInv' /\ NothingReceived
<1>1. PICK n \in Notes, q \in Quantities \cap 1..session[s].outstanding :
        /\ Unused(n)
        /\ note' = [note EXCEPT ![n] = [status |-> "pending_receipt", order |-> session[s].of,
                                        quantity |-> q, accepted |-> 0, logged |-> FALSE]]
  BY DEF AnnounceGoods
<1>2. session[s].of \in Orders /\ SomeEnd /\ UNCHANGED order
  BY EndEnds DEF AnnounceGoods, OInv, SessionsOK, RequestOK, OrderKinds
<1>3. q \in Nat
  BY QuantityAssumption
<1>4. note[n].status = "none" /\ note[n].accepted = 0
  BY <1>1 DEF Unused, OInv, NotesOK
<1>5. note \in [Notes -> Note]
  BY DEF OInv, Documents
<1>6. /\ note'[n] = [status |-> "pending_receipt", order |-> session[s].of,
                     quantity |-> q, accepted |-> 0, logged |-> FALSE]
      /\ \A k \in Notes \ {n} : note'[k] = note[k]
  BY <1>1, <1>5
<1>7. note' \in [Notes -> Note]
  BY <1>1, <1>2, <1>3, <1>5 DEF Note
<1> QED  BY <1>2, <1>4, <1>6, <1>7, NoteWritten

LEMMA UnlogOK ==
  ASSUME OInv, NEW s \in Sessions, ReverseTransaction(s)
  PROVE  OInv' /\ NothingReceived
<1> DEFINE n == session[s].of
<1>1. n \in Notes /\ SomeEnd /\ UNCHANGED order
  BY EndEnds DEF ReverseTransaction, OInv, SessionsOK, RequestOK
<1>2. note \in [Notes -> Note]
  BY DEF OInv, Documents
<1>3. note' = [note EXCEPT ![n].logged = FALSE]
  BY DEF ReverseTransaction
<1>4. /\ note' \in [Notes -> Note]
      /\ \A k \in Notes \ {n} : note'[k] = note[k]
      /\ note'[n].status = note[n].status /\ note'[n].order = note[n].order
      /\ note'[n].accepted = note[n].accepted
  BY <1>1, <1>2, <1>3 DEF Note
<1>5. /\ note[n].status # "none" => note[n].order \in Orders
      /\ note[n].status # "received" => note[n].accepted = 0
  BY <1>1 DEF OInv, NotesOK
<1> HIDE DEF n
<1> QED  BY <1>1, <1>4, <1>5, NoteWritten

\* What an order counts as received changes by what one of its notes does, in a step
\* of a request that no other one disturbs.
LEMMA Counted ==
  ASSUME OInv, NEW s \in Sessions, NEW p \in Orders, NEW n \in Notes,
         session' = [t \in Sessions |-> session'[t]],
         session'[s] = Idle,
         \A t \in Sessions \ {s} : session'[t] = session[t],
         order' \in [Orders -> Order],
         \A k \in Orders \ {p} : order'[k] = order[k],
         note' \in [Notes -> Note],
         \A k \in Notes \ {n} : note'[k] = note[k],
         note'[n].order = p,
         note[n].accepted # 0 => note[n].order = p,
         note'[n].status # "received" => note'[n].accepted = 0,
         order'[p].received + note[n].accepted = order[p].received + note'[n].accepted,
         order'[p].received =< Ordered[p],
         \A t \in Sessions \ {s} : ~Holds(t, p) /\ ~Reverses(t, n)
  PROVE  OInv'
<1>1. Documents' /\ NotesOK' /\ ReceivedWithinOrdered'
  BY DEF OInv, Documents, NotesOK, ReceivedWithinOrdered
<1>2. ReceivedMatchesNotes'
  <2> SUFFICES ASSUME NEW k \in Orders PROVE order'[k].received = Total(Accepted(k)')
    BY DEF ReceivedMatchesNotes, Accepted
  <2>1. order[k].received = Total(Accepted(k))
    BY DEF OInv, ReceivedMatchesNotes, Accepted
  <2>2. Accepted(k) \in [Notes -> Nat] /\ Accepted(k)' \in [Notes -> Nat]
    BY <1>1, AcceptedTyped DEF OInv, Documents, Note, Accepted
  <2>3. \A m \in Notes \ {n} : Accepted(k)'[m] = Accepted(k)[m]
    BY DEF Accepted
  <2>4. Total(Accepted(k)') + Accepted(k)[n] = Total(Accepted(k)) + Accepted(k)'[n]
    <3> HIDE DEF Accepted
    <3> QED  BY <2>2, <2>3, FiniteDocuments, TotalUpdate
  <2>5. Total(Accepted(k)') \in Nat /\ Total(Accepted(k)) \in Nat
    <3> HIDE DEF Accepted
    <3> QED  BY <2>2, FiniteDocuments, UnitsFinite
  <2>6. note[n].accepted \in Nat /\ note'[n].accepted \in Nat
    BY DEF OInv, Documents, Note
  <2>7. CASE k = p
    <3>1. Accepted(k)[n] = note[n].accepted
      <4>1. CASE note[n].order = p
        BY <2>7, <4>1 DEF Accepted
      <4>2. CASE note[n].order # p
        <5>1. note[n].accepted = 0
          BY <4>2
        <5> QED  BY <2>7, <4>2, <5>1 DEF Accepted
      <4> QED  BY <4>1, <4>2
    <3>2. Accepted(k)'[n] = note'[n].accepted
      BY <2>7 DEF Accepted
    <3>3. order'[p].received \in Nat
      BY DEF Order
    <3> QED  BY <2>1, <2>4, <2>5, <2>6, <2>7, <3>1, <3>2, <3>3
  <2>8. CASE k # p
    <3>1. Accepted(k)[n] = 0 /\ Accepted(k)'[n] = 0
      BY <2>8 DEF Accepted
    <3>2. order'[k] = order[k]
      BY <2>8
    <3> QED  BY <2>1, <2>4, <2>5, <3>1, <3>2
  <2> QED  BY <2>7, <2>8
<1>3. SessionsOK'
  <2>1. RequestOK(session[s])'
    BY DEF Idle, RequestOK, OrderKinds
  <2>2. ASSUME NEW t \in Sessions \ {s} PROVE RequestOK(session[t])'
    <3>1. RequestOK(session[t]) /\ ~Holds(t, p) /\ ~Reverses(t, n)
      BY DEF OInv, SessionsOK
    <3>2. session[t].kind = "receive" => ReceiptOK(session[t])'
      BY <3>1 DEF RequestOK, ReceiptOK, Receives, Holds, OrderKinds
    <3>3. session[t].kind = "reverse" => ReversalOK(session[t])'
      <4>1. session[t].kind = "reverse" =>
              /\ session[t].of \in Notes \ {n}
              /\ note[session[t].of].order \in Orders
              /\ session[t].locked => note[session[t].of].order # p
        BY <3>1 DEF OInv, NotesOK, RequestOK, ReversalOK, Holds, HoldsFor, Reverses
      <4> QED  BY <3>1, <4>1 DEF RequestOK, ReversalOK
    <3> QED  BY <3>1, <3>2, <3>3 DEF RequestOK
  <2> QED  BY <2>1, <2>2 DEF SessionsOK
<1>4. Exclusive'
  <2>1. \A t \in Sessions :
          /\ \A k \in Orders : Holds(t, k)' => Holds(t, k)
          /\ \A k \in Notes : Reverses(t, k)' => Reverses(t, k)
    <3>1. \A k \in Orders : ~Holds(s, k)'
      BY DEF Holds, Receives, HoldsFor, Idle
    <3>2. \A k \in Notes : ~Reverses(s, k)'
      BY DEF Reverses, Idle
    <3>3. ASSUME NEW t \in Sessions \ {s}
          PROVE  /\ \A k \in Orders : Holds(t, k)' => Holds(t, k)
                 /\ \A k \in Notes : Reverses(t, k)' => Reverses(t, k)
      <4>1. session[t].kind = "reverse" =>
              session[t].of \in Notes /\ note'[session[t].of].order = note[session[t].of].order
        BY DEF OInv, SessionsOK, RequestOK, ReversalOK, Reverses
      <4> QED  BY <4>1 DEF Holds, Receives, HoldsFor, Reverses
    <3> QED  BY <3>1, <3>2, <3>3
  <2> QED  BY <2>1 DEF OInv, Exclusive
<1> QED  BY <1>1, <1>2, <1>3, <1>4 DEF OInv

LEMMA ReceiptStepOK ==
  ASSUME OInv, NEW s \in Sessions, ReceiveGoods(s)
  PROVE  OInv' /\ ReceivedWhileOpen
<1> DEFINE r == session[s]
           p == r.of
<1>1. PICK n \in Notes, q \in MayReceive(p, r.received) :
        /\ Unused(n)
        /\ note' = [note EXCEPT ![n] = [status |-> "received", order |-> p,
                                        quantity |-> q, accepted |-> q, logged |-> TRUE]]
        /\ order' = [order EXCEPT ![p].received = r.received + q,
                                  ![p].status = StatusAfter(p, r.received + q, @)]
  BY DEF ReceiveGoods
<1>2. r.kind = "receive" /\ p \in Orders /\ Receives(s, p) /\ ReceiptOK(r)
  BY DEF ReceiveGoods, OInv, SessionsOK, RequestOK, OrderKinds, Receives
<1>3. order[p].received = r.received /\ order[p].received \in Nat
  BY <1>2 DEF ReceiptOK, OInv, Documents, Order
<1>4. Ordered[p] \in Nat /\ q \in Nat /\ r.received + q =< Ordered[p]
  BY <1>2, <1>3, OrderAssumption, QuantityAssumption DEF MayReceive
<1>5. order \in [Orders -> Order] /\ note \in [Notes -> Note]
  BY DEF OInv, Documents
<1>6. /\ order' \in [Orders -> Order]
      /\ \A k \in Orders \ {p} : order'[k] = order[k]
      /\ order'[p].received = r.received + q
  <2>1. PICK st \in OrderStatus :
          order' = [order EXCEPT ![p].received = r.received + q, ![p].status = st]
    <3>1. StatusAfter(p, r.received + q, order[p].status) \in OrderStatus
      BY <1>2, <1>5 DEF StatusAfter, OrderStatus, Order
    <3>2. order' = [order EXCEPT ![p].received = r.received + q,
                                 ![p].status = StatusAfter(p, r.received + q, order[p].status)]
      BY <1>1, <1>2, <1>5 DEF Order
    <3> QED  BY <3>1, <3>2
  <2>2. r.received + q \in Nat
    BY <1>3, <1>4
  <2> HIDE DEF p, r
  <2> QED  BY <1>2, <1>5, <2>1, <2>2 DEF Order
<1>7. /\ note' \in [Notes -> Note]
      /\ \A k \in Notes \ {n} : note'[k] = note[k]
      /\ note'[n].order = p /\ note'[n].status = "received" /\ note'[n].accepted = q
  BY <1>1, <1>2, <1>4, <1>5 DEF Note
<1>8. note[n].status = "none" /\ note[n].accepted = 0
  BY <1>1 DEF Unused, OInv, NotesOK
<1>9. \A t \in Sessions \ {s} : ~Holds(t, p) /\ ~Reverses(t, n)
  <2>1. \A t \in Sessions \ {s} : ~Holds(t, p)
    BY <1>2 DEF OInv, Exclusive, Holds
  <2>2. \A t \in Sessions : ~Reverses(t, n)
    BY <1>8 DEF OInv, SessionsOK, RequestOK, ReversalOK, Reverses
  <2> QED  BY <2>1, <2>2
<1>10. /\ session' = [t \in Sessions |-> session'[t]]
       /\ session'[s] = Idle
       /\ \A t \in Sessions \ {s} : session'[t] = session[t]
  BY EndEnds DEF ReceiveGoods, OInv, SomeEnd
<1>11. ReceivedWhileOpen
  BY <1>2, <1>5, <1>6 DEF ReceivedWhileOpen, ReceiptOK, Order
<1>12. OInv'
  <2> HIDE DEF p, r
  <2> QED  BY <1>2, <1>3, <1>4, <1>6, <1>7, <1>8, <1>9, <1>10, Counted
<1> QED  BY <1>11, <1>12

LEMMA ReversalStepOK ==
  ASSUME OInv, NEW s \in Sessions, ReverseNote(s)
  PROVE  OInv' /\ NothingReceived
<1> DEFINE r == session[s]
           n == r.of
           p == note[n].order
           left == Less(r.received, r.accepted)
           status == StatusAfter(p, left, Reopened(r.status))
<1>1. /\ r.kind = "reverse" /\ r.locked /\ r \in Reversal /\ n \in Notes
      /\ note[n].status = "received" /\ note[n].accepted = r.accepted
      /\ p \in Orders /\ order[p].received = r.received
  BY DEF ReverseNote, OInv, SessionsOK, RequestOK, ReversalOK, NotesOK
<1>2. /\ order' = [order EXCEPT ![p].received = left,
                                ![p].status = IF order[p].deleted THEN @
                                              ELSE Written(@, r.status, status)]
      /\ note' = [note EXCEPT ![n].status = "reversed", ![n].accepted = 0]
  BY DEF ReverseNote
<1>3. order \in [Orders -> Order] /\ note \in [Notes -> Note]
  BY DEF OInv, Documents
<1>4. r.accepted \in Nat /\ r.received \in Nat /\ Ordered[p] \in Nat
  BY <1>1, <1>3, OrderAssumption DEF Note, Order
<1>5. r.accepted =< r.received
  <2>1. Accepted(p) \in [Notes -> Nat]
    BY AcceptedTyped DEF OInv
  <2>2. Accepted(p)[n] =< Total(Accepted(p))
    <3> HIDE DEF n, p, Accepted
    <3> QED  BY <1>1, <2>1, FiniteDocuments, TotalTerm
  <2>3. Accepted(p)[n] = r.accepted
    BY <1>1 DEF Accepted
  <2>4. Total(Accepted(p)) = r.received
    BY <1>1 DEF OInv, ReceivedMatchesNotes, Accepted
  <2> QED  BY <2>2, <2>3, <2>4
<1>6. left = r.received - r.accepted /\ left \in Nat
  BY <1>4, <1>5 DEF Less
<1>7. r.received =< Ordered[p]
  BY <1>1 DEF OInv, ReceivedWithinOrdered
<1>8. /\ order' \in [Orders -> Order]
      /\ \A k \in Orders \ {p} : order'[k] = order[k]
      /\ order'[p].received = left
  <2>1. status \in OrderStatus
    BY DEF StatusAfter, Reopened, OrderStatus
  <2>2. PICK st \in OrderStatus : order' = [order EXCEPT ![p].received = left, ![p].status = st]
    <3> DEFINE st == IF order[p].deleted THEN order[p].status
                     ELSE Written(order[p].status, r.status, status)
    <3>1. st \in OrderStatus
      BY <1>1, <1>3, <2>1 DEF Written, Order
    <3>2. order' = [order EXCEPT ![p].received = left, ![p].status = st]
      BY <1>1, <1>2, <1>3 DEF Order
    <3> HIDE DEF st
    <3> QED  BY <3>1, <3>2
  <2> HIDE DEF left, status, p
  <2> QED  BY <1>1, <1>3, <1>6, <2>2 DEF Order
<1>9. /\ note' \in [Notes -> Note]
      /\ \A k \in Notes \ {n} : note'[k] = note[k]
      /\ note'[n].order = p /\ note'[n].status = "reversed" /\ note'[n].accepted = 0
  BY <1>1, <1>2, <1>3 DEF Note
<1>10. \A t \in Sessions \ {s} : ~Holds(t, p) /\ ~Reverses(t, n)
  BY <1>1 DEF OInv, Exclusive, Holds, HoldsFor, Reverses
<1>11. /\ session' = [t \in Sessions |-> session'[t]]
       /\ session'[s] = Idle
       /\ \A t \in Sessions \ {s} : session'[t] = session[t]
  BY EndEnds DEF ReverseNote, OInv, SomeEnd
<1>12. order'[p].received + note[n].accepted = order[p].received + note'[n].accepted
  <2> HIDE DEF n, p, left, r
  <2> QED  BY <1>1, <1>4, <1>6, <1>8, <1>9
<1>13. order'[p].received =< Ordered[p] /\ order'[p].received =< order[p].received
  <2> HIDE DEF n, p, left, r
  <2> QED  BY <1>1, <1>4, <1>6, <1>7, <1>8
<1>14. NothingReceived
  <2> SUFFICES ASSUME NEW k \in Orders PROVE order'[k].received =< order[k].received
    BY DEF NothingReceived
  <2>1. order[k].received \in Nat
    BY <1>3 DEF Order
  <2>2. k # p => order'[k] = order[k]
    BY <1>8
  <2> HIDE DEF n, p, left, r
  <2> QED  BY <1>13, <2>1, <2>2
<1>15. OInv'
  <2>1. note[n].order = p
    OBVIOUS
  <2> HIDE DEF n, p, left, r, status
  <2> QED  BY <2>1, <1>1, <1>8, <1>9, <1>10, <1>11, <1>12, <1>13, Counted
<1> QED  BY <1>14, <1>15

-----------------------------------------------------------------------------
(* What the changes of the buckets add to their sum *)

LEMMA BucketsFinite == IsFiniteSet(Buckets)
<1>1. IsFiniteSet(StockStatus)
  <2>1. /\ IsFiniteSet({"available"})
        /\ IsFiniteSet({"pending_inspection"})
        /\ IsFiniteSet({"quarantine"})
    BY FS_Singleton
  <2>2. StockStatus = {"available"} \cup ({"pending_inspection"} \cup {"quarantine"})
    BY DEF StockStatus
  <2> QED  BY <2>1, <2>2, FS_Union
<1> QED  BY <1>1, FiniteLocations, FS_Product DEF Buckets

LEMMA LevelsTotal ==
  ASSUME NEW f \in Levels
  PROVE  Total(f) \in Nat
BY BucketsFinite, UnitsFinite DEF Levels

\* g holds a more units than f.
Gains(f, g, a) == g \in Levels /\ Total(g) = Total(f) + a

\* One bucket changes.
LEMMA BucketWritten ==
  ASSUME NEW f \in Levels, NEW k \in Buckets, NEW n \in Nat
  PROVE  Gains(f, [f EXCEPT ![k] = n], n - f[k])
<1> DEFINE g == [f EXCEPT ![k] = n]
<1>1. g \in Levels /\ g[k] = n /\ \A b \in Buckets \ {k} : g[b] = f[b]
  BY DEF Levels
<1>2. Total(f) \in Nat /\ Total(g) \in Nat /\ f[k] \in Nat
  BY <1>1, LevelsTotal DEF Levels
<1> HIDE DEF g
<1>3. Total(g) + f[k] = Total(f) + g[k]
  BY <1>1, BucketsFinite, TotalUpdate DEF Levels
<1> QED  BY <1>1, <1>2, <1>3 DEF Gains, g

LEMMA AddedGains ==
  ASSUME NEW f \in Levels, NEW k \in Buckets, NEW n \in Int, f[k] + n >= 0
  PROVE  Gains(f, Added(f, k, n), n)
<1>1. f[k] \in Nat /\ f[k] + n \in Nat /\ (f[k] + n) - f[k] = n
  BY DEF Levels
<1>2. Gains(f, [f EXCEPT ![k] = f[k] + n], (f[k] + n) - f[k])
  BY <1>1, BucketWritten
<1> QED  BY <1>1, <1>2 DEF Added

LEMMA DrawnGains ==
  ASSUME NEW f \in Levels, NEW k \in Buckets, NEW n \in Nat
  PROVE  Gains(f, Drawn(f, k, n), -Smaller(f[k], n))
<1> DEFINE m == Smaller(f[k], n)
<1>1. f[k] \in Nat /\ f[k] - m \in Nat /\ (f[k] - m) - f[k] = -m
  BY DEF Levels, Smaller
<1>2. Gains(f, [f EXCEPT ![k] = f[k] - m], (f[k] - m) - f[k])
  <2> HIDE DEF m
  <2> QED  BY <1>1, BucketWritten
<1> QED  BY <1>1, <1>2 DEF Drawn

LEMMA MovedGains ==
  ASSUME NEW f \in Levels, NEW from \in Buckets, NEW to \in Buckets, NEW n \in Nat,
         n =< f[from]
  PROVE  Gains(f, Moved(f, from, to, n), 0)
<1> DEFINE g == [f EXCEPT ![from] = f[from] - n]
<1>1. f[from] \in Nat /\ f[from] - n \in Nat /\ (f[from] - n) - f[from] = -n
  BY DEF Levels
<1>2. Gains(f, g, -n)
  <2>1. Gains(f, g, (f[from] - n) - f[from])
    BY <1>1, BucketWritten
  <2> QED  BY <1>1, <2>1
<1>3. Moved(f, from, to, n) = Added(g, to, n)
  BY DEF Moved
<1> HIDE DEF g
<1>4. Gains(g, Added(g, to, n), n)
  BY <1>2, AddedGains DEF Gains, Levels
<1>5. Total(f) \in Nat
  BY LevelsTotal
<1> QED  BY <1>2, <1>3, <1>4, <1>5 DEF Gains

LEMMA RelocatedGains ==
  ASSUME NEW f \in Levels, NEW from \in Locations, NEW to \in Locations, from # to
  PROVE  Gains(f, Relocated(f, from, to), 0)
<1> DEFINE Step(g, st) == Moved(g, <<from, st>>, <<to, st>>, g[<<from, st>>])
           f1 == Step(f, "available")
           f2 == Step(f1, "pending_inspection")
           f3 == Step(f2, "quarantine")
<1>1. ASSUME NEW g \in Levels, NEW st \in StockStatus
      PROVE  /\ Gains(g, Step(g, st), 0)
             /\ \A b \in Buckets :
                  Step(g, st)[b] = IF b = <<from, st>> THEN 0
                                   ELSE IF b = <<to, st>> THEN g[b] + g[<<from, st>>] ELSE g[b]
  <2>1. <<from, st>> \in Buckets /\ <<to, st>> \in Buckets /\ <<from, st>> # <<to, st>>
    BY DEF Buckets
  <2>2. g[<<from, st>>] \in Nat
    BY <2>1 DEF Levels
  <2>3. Gains(g, Step(g, st), 0)
    BY <2>1, <2>2, MovedGains
  <2> QED  BY <2>1, <2>2, <2>3 DEF Moved, Added, Levels
<1> HIDE DEF Step
<1>2. f1 \in Levels /\ f2 \in Levels /\ f3 \in Levels
  BY <1>1 DEF Gains, StockStatus
<1>3. Total(f3) = Total(f)
  <2>1. Gains(f, f1, 0) /\ Gains(f1, f2, 0) /\ Gains(f2, f3, 0)
    BY <1>1, <1>2 DEF StockStatus
  <2>2. Total(f) \in Nat
    BY LevelsTotal
  <2> QED  BY <2>1, <2>2 DEF Gains
<1>4. \A b \in Buckets : f3[b] = Relocated(f, from, to)[b]
  <2> SUFFICES ASSUME NEW l \in Locations, NEW st \in StockStatus
               PROVE  f3[<<l, st>>] = Relocated(f, from, to)[<<l, st>>]
    BY DEF Buckets
  <2>1. <<l, st>> \in Buckets /\ <<from, st>> \in Buckets
    BY DEF Buckets
  <2>2. ASSUME NEW g \in Levels, NEW k \in StockStatus
        PROVE  /\ k # st => /\ Step(g, k)[<<l, st>>] = g[<<l, st>>]
                            /\ Step(g, k)[<<from, st>>] = g[<<from, st>>]
               /\ k = st => Step(g, k)[<<l, st>>] =
                    IF l = from THEN 0 ELSE IF l = to THEN g[<<l, st>>] + g[<<from, st>>]
                    ELSE g[<<l, st>>]
    BY <1>1, <2>1
  <2>3. Relocated(f, from, to)[<<l, st>>] =
          IF l = from THEN 0 ELSE IF l = to THEN f[<<l, st>>] + f[<<from, st>>]
          ELSE f[<<l, st>>]
    BY <2>1 DEF Relocated
  <2> QED  BY <1>2, <2>2, <2>3 DEF StockStatus
<1>5. f3 = Relocated(f, from, to)
  BY <1>2, <1>4 DEF Levels, Relocated
<1>6. Total(f) \in Nat
  BY LevelsTotal
<1> QED  BY <1>2, <1>3, <1>5, <1>6 DEF Gains

LEMMA DeductionsGain ==
  ASSUME NEW f \in Levels, NEW n \in Nat, NEW g \in Deductions(f, n)
  PROVE  Gains(f, g, -n)
<1>1. PICK e \in SUBSET InternalAvailable, last \in InternalAvailable :
        /\ last \notin e /\ Held(f, e) =< n /\ n - Held(f, e) =< f[last]
        /\ g = [k \in Buckets |-> IF k \in e THEN 0
                                 ELSE IF k = last THEN f[k] - (n - Held(f, e)) ELSE f[k]]
  BY DEF Deductions
<1>2. InternalAvailable \subseteq Buckets
  BY InternalLocations DEF InternalAvailable, Available, Buckets, StockStatus
<1> DEFINE left == [k \in Buckets |-> IF k \in e THEN 0 ELSE f[k]]
           gone == [k \in Buckets |-> IF k \in e THEN f[k] ELSE 0]
<1>3. left \in Levels /\ gone \in Levels
  BY DEF Levels
<1>4. Total(f) = Total(left) + Total(gone)
  <2>1. \A k \in Buckets : f[k] = left[k] + gone[k]
    BY DEF Levels
  <2> HIDE DEF left, gone
  <2> QED  BY <1>3, <2>1, BucketsFinite, TotalAdd DEF Levels
<1>5. Total(gone) = Held(f, e)
  <2>1. Units(gone) = Units([k \in e |-> f[k]])
    BY <1>2 DEF Units, Levels
  <2> QED  BY <2>1 DEF Total, Held
<1>6. Total(left) \in Nat /\ Total(gone) \in Nat
  <2> HIDE DEF left, gone
  <2> QED  BY <1>3, LevelsTotal
<1>7. f[last] - (n - Held(f, e)) \in Nat /\ f[last] \in Nat /\ last \in Buckets
  <2>1. last \in Buckets /\ f[last] \in Nat
    BY <1>2 DEF Levels
  <2> HIDE DEF gone
  <2> QED  BY <1>1, <1>5, <1>6, <2>1
<1>8. g = [left EXCEPT ![last] = f[last] - (n - Held(f, e))] /\ left[last] = f[last]
  BY <1>1, <1>7
<1>9. Gains(left, g, (f[last] - (n - Held(f, e))) - f[last])
  <2> HIDE DEF left
  <2> QED  BY <1>3, <1>7, <1>8, BucketWritten
<1> HIDE DEF left, gone
<1> QED  BY <1>1, <1>4, <1>5, <1>6, <1>7, <1>9 DEF Gains

LEMMA UnreceivedGains ==
  ASSUME level \in Levels, NEW l \in Locations, NEW n \in Nat, NEW g \in Unreceived(l, n)
  PROVE  Gains(level, g, -n)
<1>1. Available(l) \in Buckets /\ Pending(l) \in Buckets
  BY DEF Available, Pending, Buckets, StockStatus
\* What is drawn lowers the sum by as much, and by no more than is wanted.
<1>2. ASSUME NEW f \in Levels, NEW k \in Buckets, NEW m \in Nat
      PROVE  /\ Drawn(f, k, m) \in Levels
             /\ m - (Total(f) - Total(Drawn(f, k, m))) \in Nat
  <2>1. Gains(f, Drawn(f, k, m), -Smaller(f[k], m))
    BY DrawnGains
  <2>2. Total(f) \in Nat /\ f[k] \in Nat
    BY LevelsTotal DEF Levels
  <2> QED  BY <2>1, <2>2 DEF Gains, Smaller
<1> DEFINE first  == IF Inspected THEN Drawn(level, Pending(l), n) ELSE level
           left1  == n - (Total(level) - Total(first))
           second == Drawn(first, Available(l), left1)
           left2  == left1 - (Total(first) - Total(second))
           third  == Drawn(second, Pending(l), left2)
           left3  == left2 - (Total(second) - Total(third))
<1>3. first \in Levels /\ left1 \in Nat
  <2>1. CASE Inspected
    BY <1>1, <1>2, <2>1
  <2>2. CASE ~Inspected
    BY <2>2, LevelsTotal
  <2> QED  BY <2>1, <2>2
<1>4. g \in IF left3 = 0 THEN {third} ELSE Deductions(third, left3)
  BY DEF Unreceived
<1> HIDE DEF first, left1
<1>5. second \in Levels /\ left2 \in Nat
  BY <1>1, <1>2, <1>3
<1> HIDE DEF second, left2
<1>6. third \in Levels /\ left3 \in Nat
  BY <1>1, <1>2, <1>5
<1>7. /\ Total(level) \in Nat /\ Total(first) \in Nat
      /\ Total(second) \in Nat /\ Total(third) \in Nat
  <2> HIDE DEF third
  <2> QED  BY <1>3, <1>5, <1>6, LevelsTotal
<1> HIDE DEF third
<1>8. Total(third) = Total(level) - n + left3
  BY <1>7 DEF left1, left2
<1>9. Gains(third, g, -left3)
  <2>1. CASE left3 = 0
    BY <1>4, <1>6, <1>7, <2>1 DEF Gains
  <2>2. CASE left3 # 0
    <3> HIDE DEF left3
    <3> QED  BY <1>4, <1>6, <2>2, DeductionsGain
  <2> QED  BY <2>1, <2>2
<1> HIDE DEF left3
<1> QED  BY <1>6, <1>7, <1>8, <1>9 DEF Gains

-----------------------------------------------------------------------------
(* The invariant of the stock *)

SInv ==
  /\ level \in Levels
  /\ currentStock \in Nat
  /\ ledger \in Int
  /\ LedgerMatchesBuckets

LEMMA StockChanged ==
  ASSUME SInv, NEW a \in Int, NEW held,
         Gains(level, level', a), ledger' = ledger + a,
         currentStock' = Synced(level', held, currentStock)
  PROVE  SInv'
<1>1. Total(level) \in Nat /\ Total(level') \in Nat /\ Total(InitialLevel) \in Nat
  BY LevelsTotal, MaterialAssumption DEF SInv, Gains
<1> QED  BY <1>1 DEF SInv, Gains, Synced, LedgerMatchesBuckets

LEMMA PlacesAreBuckets ==
  ASSUME NEW l \in Locations
  PROVE  /\ Available(l) \in Buckets /\ Pending(l) \in Buckets
         /\ <<l, "quarantine">> \in Buckets
BY DEF Available, Pending, Buckets, StockStatus

LEMMA AddOK ==
  ASSUME SInv, NEW l \in Warehouse, NEW q \in Nat, AddStock(l, q)
  PROVE  SInv'
<1>1. Available(l) \in Buckets /\ level[Available(l)] \in Nat /\ level \in Levels
  BY PlacesAreBuckets, PlaceAssumption DEF SInv, Levels
<1>2. Gains(level, Added(level, Available(l), q), q)
  BY <1>1, AddedGains
<1> QED  BY <1>2, StockChanged DEF AddStock, ChangeStock

LEMMA RemoveOK ==
  ASSUME SInv, NEW q \in Nat, RemoveStock(q)
  PROVE  SInv'
<1>1. PICK new \in Deductions(level, q) \cup UNION {RemovedFrom(l, q) : l \in Locations} :
        ChangeStock(new, -q)
  BY DEF RemoveStock
<1>2. level \in Levels
  BY DEF SInv
<1>3. Gains(level, new, -q)
  <2>1. CASE new \in Deductions(level, q)
    BY <1>2, <2>1, DeductionsGain
  <2>2. ASSUME NEW l \in Locations, new \in RemovedFrom(l, q)
        PROVE  Gains(level, new, -q)
    <3>1. q =< level[Available(l)] /\ new = Drawn(level, Available(l), q)
      BY <2>2 DEF RemovedFrom
    <3>2. Available(l) \in Buckets /\ level[Available(l)] \in Nat
      BY <1>2, PlacesAreBuckets DEF Levels
    <3>3. Smaller(level[Available(l)], q) = q
      BY <3>1, <3>2 DEF Smaller
    <3>4. Gains(level, Drawn(level, Available(l), q), -Smaller(level[Available(l)], q))
      BY <1>2, <3>2, DrawnGains
    <3> QED  BY <3>1, <3>3, <3>4
  <2> QED  BY <2>1, <2>2
<1> QED  BY <1>1, <1>3, StockChanged DEF ChangeStock

\* Stock that moves is entered as nothing.
LEMMA MoveOK ==
  ASSUME SInv, NEW new, Gains(level, new, 0), ChangeStock(new, 0)
  PROVE  SInv'
BY StockChanged DEF ChangeStock

LEMMA ByHandOK ==
  ASSUME SInv, StockStep
  PROVE  SInv'
<1>1. Quantities \subseteq Nat /\ level \in Levels /\ currentStock \in Nat
  BY QuantityAssumption DEF SInv
<1>2. ASSUME NEW l \in Warehouse, NEW q \in Quantities, AddStock(l, q)
      PROVE  SInv'
  BY <1>1, <1>2, AddOK
<1>3. ASSUME NEW q \in Quantities, RemoveStock(q)
      PROVE  SInv'
  BY <1>1, <1>3, RemoveOK
<1>4. ASSUME NEW n \in 0..MaxStock, NEW l \in Warehouse, AdjustStock(n, l)
      PROVE  SInv'
  <2> DEFINE delta == n - currentStock
  <2>1. delta \in Int
    BY <1>1
  <2>2. CASE delta > 0 /\ AddStock(l, delta)
    BY <2>1, <2>2, AddOK
  <2>3. CASE delta < 0 /\ RemoveStock(-delta)
    BY <2>1, <2>3, RemoveOK
  <2> QED  BY <1>4, <2>2, <2>3 DEF AdjustStock
<1>5. ASSUME NEW from \in Locations, NEW to \in Locations, NEW q \in Quantities,
             TransferStock(from, to, q)
      PROVE  SInv'
  BY <1>1, <1>5, PlacesAreBuckets, MovedGains, MoveOK DEF TransferStock
<1>6. ASSUME NEW l \in Warehouse, NEW q \in Quantities, PassInspection(l, q)
      PROVE  SInv'
  BY <1>1, <1>6, PlacesAreBuckets, PlaceAssumption, MovedGains, MoveOK DEF PassInspection
<1>7. ASSUME NEW l \in Warehouse, NEW q \in Quantities, FailInspection(l, q)
      PROVE  SInv'
  <2>1. Pending(l) \in Buckets /\ <<QuarantineAt, "quarantine">> \in Buckets
    BY PlacesAreBuckets, PlaceAssumption
  <2> QED  BY <1>1, <1>7, <2>1, MovedGains, MoveOK DEF FailInspection
<1>8. ASSUME NEW from \in Locations, NEW to \in Locations, TransferStockLocation(from, to)
      PROVE  SInv'
  BY <1>1, <1>8, RelocatedGains, MoveOK DEF TransferStockLocation
<1> QED  BY <1>2, <1>3, <1>4, <1>5, <1>6, <1>7, <1>8 DEF StockStep

LEMMA ReceiptStocks ==
  ASSUME SInv, NEW s \in Sessions, ReceiveGoods(s)
  PROVE  SInv'
<1>1. PICK l \in Warehouse, q \in MayReceive(session[s].of, session[s].received) :
        /\ level' = Added(level, IF Inspected THEN Pending(l) ELSE Available(l), q)
        /\ currentStock' = Synced(level', session[s].held, currentStock)
        /\ ledger' = ledger + q
  BY DEF ReceiveGoods
<1> DEFINE k == IF Inspected THEN Pending(l) ELSE Available(l)
<1>2. q \in Nat /\ k \in Buckets /\ level \in Levels
  BY PlacesAreBuckets, PlaceAssumption, QuantityAssumption DEF MayReceive, SInv
<1>3. level' = Added(level, k, q)
  BY <1>1
<1> HIDE DEF k
<1>4. Gains(level, level', q)
  BY <1>2, <1>3, AddedGains DEF Levels
<1> QED  BY <1>1, <1>2, <1>4, StockChanged

LEMMA ReversalStocks ==
  ASSUME SInv, OInv, NEW s \in Sessions, ReverseNote(s) \/ ReverseTransaction(s)
  PROVE  SInv'
<1>1. PICK l \in Warehouse, n \in Nat :
        /\ level' \in Unreceived(l, n)
        /\ \E held : currentStock' = Synced(level', held, currentStock)
        /\ ledger' = ledger - n
  <2>1. CASE ReverseNote(s)
    <3>1. session[s].accepted \in Nat
      BY <2>1 DEF ReverseNote, OInv, SessionsOK, RequestOK, ReversalOK, Reversal
    <3> QED  BY <2>1, <3>1 DEF ReverseNote
  <2>2. CASE ReverseTransaction(s)
    <3>1. note[session[s].of].quantity \in Nat
      BY <2>2 DEF ReverseTransaction, OInv, SessionsOK, RequestOK, Documents, Note
    <3> QED  BY <2>2, <3>1 DEF ReverseTransaction
  <2> QED  BY <2>1, <2>2
<1>2. Gains(level, level', -n)
  BY <1>1, UnreceivedGains, PlaceAssumption DEF SInv
<1>3. ledger' = ledger + (-n)
  BY <1>1 DEF SInv
<1> QED  BY <1>1, <1>2, <1>3, StockChanged

LEMMA StockKept ==
  ASSUME SInv, UNCHANGED stockVars
  PROVE  SInv'
BY DEF SInv, stockVars, LedgerMatchesBuckets

-----------------------------------------------------------------------------
(* Every step *)

PInv == OInv /\ SInv

LEMMA InitOK ==
  ASSUME Init
  PROVE  PInv
<1>1. Documents
  BY DEF Init, Documents, Order, OrderStatus, Note
<1>2. NotesOK
  BY DEF Init, NotesOK
<1>3. SessionsOK
  BY DEF Init, SessionsOK, RequestOK, OrderKinds, Idle
<1>4. Exclusive
  BY DEF Init, Exclusive, Holds, Receives, HoldsFor, Reverses, Idle
<1>5. ReceivedWithinOrdered
  BY OrderAssumption DEF Init, ReceivedWithinOrdered
<1>6. ReceivedMatchesNotes
  <2> SUFFICES ASSUME NEW p \in Orders PROVE order[p].received = Total(Accepted(p))
    BY DEF ReceivedMatchesNotes, Accepted
  <2>1. \A n \in Notes : Accepted(p)[n] = 0
    BY DEF Init, Accepted
  <2>2. DOMAIN Accepted(p) = Notes
    BY DEF Accepted
  <2>3. Total(Accepted(p)) = 0
    <3> HIDE DEF Accepted
    <3> QED  BY <2>1, <2>2, TotalZero
  <2> QED  BY <2>3 DEF Init
<1>7. SInv
  <2>1. Total(InitialLevel) \in Nat
    BY LevelsTotal, MaterialAssumption
  <2> QED  BY <2>1, MaterialAssumption DEF Init, SInv, LedgerMatchesBuckets
<1> QED  BY <1>1, <1>2, <1>3, <1>4, <1>5, <1>6, <1>7 DEF PInv, OInv

LEMMA NothingReceivedIsOpen ==
  ASSUME OInv, NothingReceived, order' \in [Orders -> Order]
  PROVE  ReceivedWhileOpen
BY DEF OInv, Documents, Order, NothingReceived, ReceivedWhileOpen

LEMMA OrderStepOK ==
  ASSUME PInv, NEW s \in Sessions, OrderStep(s)
  PROVE  OInv' /\ NothingReceived
<1> USE DEF PInv
<1>1. ASSUME NEW p \in Orders, NEW kind \in DOMAIN Transition, BeginChange(s, kind, p)
      PROVE  OInv' /\ NothingReceived
  <2> DEFINE r == [kind |-> kind, of |-> p, status |-> order[p].status]
  <2>1. r.kind = kind /\ RequestOK(r)
    BY DEF Transition, RequestOK
  <2>2. kind # "receive" /\ kind # "reverse" /\ Begin(s, r)
    BY <1>1 DEF Transition, BeginChange
  <2> HIDE DEF r
  <2> QED  BY <2>1, <2>2, Begins
<1>2. ASSUME NEW p \in Orders, BeginDelete(s, p)
      PROVE  OInv' /\ NothingReceived
  <2> DEFINE r == [kind |-> "delete", of |-> p]
  <2>1. r.kind = "delete" /\ RequestOK(r) /\ Begin(s, r)
    BY <1>2 DEF RequestOK, BeginDelete
  <2> HIDE DEF r
  <2> QED  BY <2>1, Begins
<1>3. ASSUME NEW p \in Orders, BeginAnnounce(s, p)
      PROVE  OInv' /\ NothingReceived
  <2> DEFINE r == [kind |-> "announce", of |-> p, outstanding |-> Outstanding(p)]
  <2>1. r.kind = "announce" /\ RequestOK(r) /\ Begin(s, r)
    BY <1>3 DEF RequestOK, BeginAnnounce
  <2> HIDE DEF r
  <2> QED  BY <2>1, Begins
<1> QED  BY <1>1, <1>2, <1>3, ChangeOK, AnnounceOK DEF OrderStep

LEMMA ReceiptBeginsOK ==
  ASSUME PInv, NEW s \in Sessions,
         \/ \E p \in Orders : BeginReceipt(s, p)
         \/ \E n \in Notes : BeginReversal(s, n)
         \/ \E n \in Notes : BeginUnlog(s, n)
  PROVE  OInv' /\ NothingReceived
<1> USE DEF PInv
<1>1. ASSUME NEW p \in Orders, BeginReceipt(s, p)
      PROVE  OInv' /\ NothingReceived
  <2> DEFINE r == [kind |-> "receive", of |-> p, received |-> order[p].received,
                   held |-> currentStock]
  <2>1. r.kind = "receive" /\ r.of = p /\ RequestOK(r) /\ Begin(s, r) /\ Free(p)
    BY <1>1 DEF RequestOK, ReceiptOK, BeginReceipt
  <2> HIDE DEF r
  <2> QED  BY <2>1, Begins
<1>2. ASSUME NEW n \in Notes, BeginReversal(s, n)
      PROVE  OInv' /\ NothingReceived
  <2> DEFINE r == [kind |-> "reverse", of |-> n, accepted |-> note[n].accepted,
                   status |-> order[note[n].order].status,
                   locked |-> FALSE, received |-> 0, held |-> 0]
  <2>1. /\ note[n].status = "received" /\ note[n].order \in Orders
        /\ note[n].accepted \in Nat /\ order[note[n].order].status \in OrderStatus
    BY <1>2 DEF BeginReversal, OInv, NotesOK, Documents, Note, Order
  <2>2. r \in Reversal
    BY <2>1 DEF Reversal
  <2>3. /\ r.kind = "reverse" /\ r.of = n /\ r.locked = FALSE /\ RequestOK(r)
        /\ Begin(s, r) /\ NoteFree(n)
    BY <1>2, <2>1, <2>2 DEF RequestOK, ReversalOK, BeginReversal, OrderKinds
  <2> HIDE DEF r
  <2> QED  BY <2>3, Begins
<1>3. ASSUME NEW n \in Notes, BeginUnlog(s, n)
      PROVE  OInv' /\ NothingReceived
  <2> DEFINE r == [kind |-> "unlog", of |-> n]
  <2>1. r.kind = "unlog" /\ RequestOK(r) /\ Begin(s, r)
    BY <1>3 DEF RequestOK, BeginUnlog, OrderKinds
  <2> HIDE DEF r
  <2> QED  BY <2>1, Begins
<1> QED  BY <1>1, <1>2, <1>3

LEMMA QuotationStepOK ==
  ASSUME PInv, NEW s \in Sessions, QuotationStep(s)
  PROVE  OInv' /\ NothingReceived
<1> USE DEF PInv
<1>1. ASSUME NEW r \in Quotations, NEW kind \in {"sendRfq", "deleteRfq", "award"},
             BeginQuotation(s, kind, r)
      PROVE  OInv' /\ NothingReceived
  <2> DEFINE q == [kind |-> kind, of |-> r]
  <2>1. q.kind = kind /\ kind # "receive" /\ kind # "reverse" /\ RequestOK(q) /\ Begin(s, q)
    BY <1>1 DEF RequestOK, BeginQuotation, OrderKinds
  <2> HIDE DEF q
  <2> QED  BY <2>1, Begins
<1>2. CASE SendQuotation(s) \/ DeleteQuotation(s)
  BY <1>2, EndEnds, Quiet DEF SendQuotation, DeleteQuotation, OInv
<1>3. CASE AwardQuotation(s)
  <2>1. PICK p \in Orders : /\ order[p].status = "none"
                            /\ order' = [order EXCEPT ![p].status = "draft"]
    BY <1>3 DEF AwardQuotation
  <2>2. SomeEnd /\ UNCHANGED note
    BY <1>3, EndEnds DEF AwardQuotation, OInv
  <2> QED  BY <2>1, <2>2, OrderCreated
<1> QED  BY <1>1, <1>2, <1>3 DEF QuotationStep

LEMMA RequestStepOK ==
  ASSUME PInv, NEW s \in Sessions, RequestStep(s)
  PROVE  OInv' /\ NothingReceived
<1> USE DEF PInv
<1>1. ASSUME NEW m \in Requests, NEW kind \in {"updateRequest", "deleteRequest"},
             BeginRequest(s, kind, m)
      PROVE  OInv' /\ NothingReceived
  <2> DEFINE r == [kind |-> kind, of |-> m, required |-> request[m].required]
  <2>1. r.kind = kind /\ kind # "receive" /\ kind # "reverse" /\ RequestOK(r) /\ Begin(s, r)
    BY <1>1 DEF RequestOK, BeginRequest, OrderKinds
  <2> HIDE DEF r
  <2> QED  BY <2>1, Begins
<1>2. CASE UpdateRequest(s) \/ DeleteRequest(s)
  BY <1>2, EndEnds, Quiet DEF UpdateRequest, DeleteRequest, OInv
<1> QED  BY <1>1, <1>2 DEF RequestStep

LEMMA StepOK ==
  ASSUME PInv, Next
  PROVE  PInv' /\ ReceivedWhileOpen
<1> USE DEF PInv
<1>0. ASSUME UNCHANGED session
      PROVE  SomeEnd
  BY <1>0 DEF OInv, SessionsOK, SomeEnd
<1>1. ASSUME NEW s \in Sessions, OrderStep(s)
      PROVE  OInv' /\ SInv' /\ NothingReceived
  <2>1. UNCHANGED stockVars
    BY <1>1 DEF OrderStep, BeginChange, BeginDelete, BeginAnnounce, Begin,
                ChangeOrder, DeleteOrder, AnnounceGoods
  <2> QED  BY <1>1, <2>1, OrderStepOK, StockKept
<1>2. ASSUME NEW s \in Sessions, ReceiptStep(s)
      PROVE  OInv' /\ SInv' /\ ReceivedWhileOpen
  <2>1. CASE ReceiveGoods(s)
    BY <2>1, ReceiptStepOK, ReceiptStocks
  <2>2. CASE ReverseNote(s)
    BY <2>2, ReversalStepOK, ReversalStocks, NothingReceivedIsOpen DEF OInv, Documents
  <2>3. CASE ReverseTransaction(s)
    BY <2>3, UnlogOK, ReversalStocks, NothingReceivedIsOpen DEF OInv, Documents
  <2>4. CASE LockForReversal(s)
    <3>1. UNCHANGED stockVars /\ currentStock \in Nat
      BY <2>4 DEF LockForReversal, SInv
    <3> QED  BY <2>4, <3>1, LockOK, StockKept, NothingReceivedIsOpen DEF OInv, Documents
  <2>5. CASE \/ \E p \in Orders : BeginReceipt(s, p)
             \/ \E n \in Notes : BeginReversal(s, n)
             \/ \E n \in Notes : BeginUnlog(s, n)
    <3>1. UNCHANGED stockVars
      BY <2>5 DEF BeginReceipt, BeginReversal, BeginUnlog, Begin
    <3> QED  BY <2>5, <3>1, ReceiptBeginsOK, StockKept, NothingReceivedIsOpen
             DEF OInv, Documents
  <2> QED  BY <1>2, <2>1, <2>2, <2>3, <2>4, <2>5 DEF ReceiptStep
<1>3. ASSUME NEW s \in Sessions, QuotationStep(s) \/ RequestStep(s)
      PROVE  OInv' /\ SInv' /\ NothingReceived
  <2>1. UNCHANGED stockVars
    BY <1>3 DEF QuotationStep, RequestStep, BeginQuotation, BeginRequest, Begin, SendQuotation,
                DeleteQuotation, AwardQuotation, UpdateRequest, DeleteRequest
  <2> QED  BY <1>3, <2>1, QuotationStepOK, RequestStepOK, StockKept
<1>4. ASSUME NEW s \in Sessions, Abandon(s)
      PROVE  OInv' /\ SInv' /\ NothingReceived
  <2>1. SomeEnd /\ UNCHANGED <<order, note>> /\ UNCHANGED stockVars
    BY <1>4, EndEnds DEF Abandon, OInv
  <2> QED  BY <2>1, Quiet, StockKept
<1>5. ASSUME Create
      PROVE  OInv' /\ SInv' /\ NothingReceived
  <2>1. UNCHANGED stockVars /\ UNCHANGED session /\ UNCHANGED note
    BY <1>5 DEF Create, CreateOrder, CreateQuotation, CreateRequest
  <2>2. ASSUME NEW p \in Orders, NEW st \in {"draft", "sent"}, CreateOrder(p, st)
        PROVE  OInv' /\ NothingReceived
    BY <1>0, <2>1, <2>2, OrderCreated DEF CreateOrder
  <2>3. ASSUME \/ \E r \in Quotations : CreateQuotation(r)
               \/ \E m \in Requests : CreateRequest(m)
        PROVE  OInv' /\ NothingReceived
    <3>1. UNCHANGED <<order, note>>
      BY <2>1, <2>3 DEF CreateQuotation, CreateRequest
    <3> QED  BY <1>0, <2>1, <3>1, Quiet
  <2>4. OInv' /\ NothingReceived
    BY <1>5, <2>2, <2>3 DEF Create
  <2> QED  BY <2>1, <2>4, StockKept
<1>6. ASSUME StockStep
      PROVE  OInv' /\ SInv' /\ NothingReceived
  <2>1. UNCHANGED session /\ UNCHANGED <<order, note>>
    BY <1>6 DEF StockStep, AddStock, RemoveStock, AdjustStock, TransferStock, PassInspection,
                FailInspection, TransferStockLocation, ChangeStock
  <2> QED  BY <1>0, <1>6, <2>1, Quiet, ByHandOK
<1>7. OInv' /\ SInv' /\ (NothingReceived \/ ReceivedWhileOpen)
  BY <1>1, <1>2, <1>3, <1>4, <1>5, <1>6 DEF Next
<1> QED  BY <1>7, NothingReceivedIsOpen DEF OInv, Documents

LEMMA StutterOK ==
  ASSUME PInv, UNCHANGED vars
  PROVE  PInv' /\ ReceivedWhileOpen
<1>1. UNCHANGED <<order, note>> /\ UNCHANGED stockVars /\ SomeEnd
  BY DEF vars, PInv, OInv, SessionsOK, SomeEnd
<1> QED  BY <1>1, Quiet, StockKept, NothingReceivedIsOpen DEF PInv, OInv, Documents

-----------------------------------------------------------------------------
(* What requests count as fulfilled *)

QuotationsOK ==
  /\ quotation \in [Quotations -> Quotation]
  /\ \A r \in Quotations : quotation[r].order \in Orders =>
       order[quotation[r].order].status # "none"
  /\ \A r1, r2 \in Quotations :
       quotation[r1].order = quotation[r2].order /\ quotation[r1].order \in Orders => r1 = r2

UnusedBlank ==
  \A n \in Notes : note[n].status = "none" => note[n].quantity = 0 /\ ~note[n].logged

FInv ==
  /\ QuotationsOK
  /\ request \in [Requests -> Request]
  /\ UnusedBlank
  /\ FulfilmentBacked

Fulfilled == [m \in Requests |-> request[m].fulfilled]
Arrived == [n \in Notes |-> IF note[n].status = "pending_receipt" THEN 0 ELSE note[n].quantity]

\* An order that exists goes on existing.
OrdersKept == \A p \in Orders : order[p].status # "none" => order'[p].status # "none"

NothingAwarded ==
  /\ quotation' \in [Quotations -> Quotation]
  /\ \A r \in Quotations : quotation'[r].order = quotation[r].order

NothingFulfilled ==
  /\ request' \in [Requests -> Request]
  /\ \A m \in Requests : request'[m].fulfilled = request[m].fulfilled

NothingArrived == UnusedBlank' /\ Arrived' = Arrived

LEMMA AwardsKept ==
  ASSUME QuotationsOK, OrdersKept, NothingAwarded
  PROVE  QuotationsOK'
BY DEF QuotationsOK, OrdersKept, NothingAwarded

LEMMA FulfilmentKept ==
  ASSUME FInv, OrdersKept, NothingAwarded, NothingFulfilled, NothingArrived
  PROVE  FInv'
<1>1. QuotationsOK'
  BY AwardsKept DEF FInv
<1>2. Fulfilled' = Fulfilled
  BY DEF Fulfilled, NothingFulfilled
<1>3. FulfilmentBacked'
  BY <1>2 DEF FInv, FulfilmentBacked, Fulfilled, Arrived, NothingArrived
<1> QED  BY <1>1, <1>3 DEF FInv, NothingFulfilled, NothingArrived

\* A note that counts as nothing arrived, or keeps its quantity, is written.
LEMMA ArrivedKept ==
  ASSUME OInv, FInv, NEW n,
         note' \in [Notes -> Note],
         \A k \in Notes \ {n} : note'[k] = note[k],
         n \in Notes =>
           /\ note'[n].status # "none"
           /\ \/ note[n].status = "none" /\ note'[n].status = "pending_receipt"
              \/ /\ note'[n].quantity = note[n].quantity
                 /\ note[n].status = "pending_receipt" <=> note'[n].status = "pending_receipt"
  PROVE  NothingArrived
<1>1. UnusedBlank'
  BY DEF FInv, UnusedBlank
<1>2. ASSUME NEW k \in Notes
      PROVE  (IF note'[k].status = "pending_receipt" THEN 0 ELSE note'[k].quantity)
               = (IF note[k].status = "pending_receipt" THEN 0 ELSE note[k].quantity)
  <2>1. CASE k # n
    BY <2>1
  <2>2. CASE k = n /\ note[n].status = "none" /\ note'[n].status = "pending_receipt"
    BY <2>2 DEF FInv, UnusedBlank
  <2>3. CASE /\ k = n /\ note'[n].quantity = note[n].quantity
             /\ note[n].status = "pending_receipt" <=> note'[n].status = "pending_receipt"
    BY <2>3
  <2> QED  BY <2>1, <2>2, <2>3
<1>3. Arrived' = Arrived
  BY <1>2 DEF Arrived
<1> QED  BY <1>1, <1>3 DEF NothingArrived

LEMMA Unchanged ==
  ASSUME FInv
  PROVE  /\ UNCHANGED order => OrdersKept
         /\ UNCHANGED quotation => NothingAwarded
         /\ UNCHANGED request => NothingFulfilled
         /\ UNCHANGED note => NothingArrived
BY DEF FInv, QuotationsOK, UnusedBlank, OrdersKept, NothingAwarded, NothingFulfilled,
       NothingArrived, Arrived

\* A receipt credits one request at most: an order is awarded to one quotation.
LEMMA OneCredited ==
  ASSUME QuotationsOK, NEW p \in Orders, NEW m1 \in RequestsFor(p), NEW m2 \in RequestsFor(p)
  PROVE  m1 = m2
<1>1. PICK r1 \in Quotations : RequestOf[r1] = m1 /\ quotation[r1].order = p
  BY DEF RequestsFor
<1>2. PICK r2 \in Quotations : RequestOf[r2] = m2 /\ quotation[r2].order = p
  BY DEF RequestsFor
<1> QED  BY <1>1, <1>2 DEF QuotationsOK

LEMMA CreditTyped ==
  ASSUME NEW m \in Requests, request[m] \in Request, NEW q \in Nat
  PROVE  /\ Credited(m, q) \in Request
         /\ Credited(m, q).fulfilled =< request[m].fulfilled + q
<1> DEFINE next == Smaller(request[m].required, request[m].fulfilled + q)
           st == IF next >= request[m].required THEN "fulfilled" ELSE request[m].status
<1>1. next \in Nat /\ next =< request[m].fulfilled + q
  BY DEF Smaller, Request
<1>2. st \in {"none", "open", "fulfilled"}
  BY DEF Request
<1>3. Credited(m, q) = [request[m] EXCEPT !.fulfilled = next, !.status = st]
  BY DEF Credited, Request
<1> HIDE DEF next, st
<1> QED  BY <1>1, <1>2, <1>3 DEF Request

LEMMA ReceiptFulfils ==
  ASSUME OInv, FInv, NEW s \in Sessions, ReceiveGoods(s), OInv'
  PROVE  FInv'
<1> DEFINE p == session[s].of
<1>1. PICK n \in Notes, q \in MayReceive(p, session[s].received) :
        /\ Unused(n)
        /\ note' = [note EXCEPT ![n] = [status |-> "received", order |-> p,
                                        quantity |-> q, accepted |-> q, logged |-> TRUE]]
        /\ request' = [m \in Requests |->
                         IF m \in RequestsFor(p) THEN Credited(m, q) ELSE request[m]]
        /\ order' = [order EXCEPT ![p].received = session[s].received + q,
                                  ![p].status = StatusAfter(p, session[s].received + q, @)]
  BY DEF ReceiveGoods
<1>2. p \in Orders /\ q \in Nat /\ order[p].status \in Receivable
  BY QuantityAssumption DEF MayReceive, ReceiveGoods, OInv, SessionsOK, RequestOK, OrderKinds,
                            ReceiptOK
<1>3. note \in [Notes -> Note] /\ order \in [Orders -> Order] /\ request \in [Requests -> Request]
  BY DEF OInv, Documents, FInv
<1>4. note[n].status = "none" /\ note[n].quantity = 0
  BY <1>1 DEF Unused, FInv, UnusedBlank
<1>5. /\ note'[n].status = "received" /\ note'[n].quantity = q
      /\ \A k \in Notes \ {n} : note'[k] = note[k]
  BY <1>1, <1>3
<1>6. QuotationsOK'
  <2>1. order'[p].status # "none" /\ \A k \in Orders \ {p} : order'[k] = order[k]
    BY <1>1, <1>2, <1>3 DEF StatusAfter, Receivable, Order
  <2>2. OrdersKept
    BY <2>1 DEF OrdersKept
  <2>3. UNCHANGED quotation
    BY DEF ReceiveGoods
  <2> QED  BY <2>2, <2>3, AwardsKept, Unchanged DEF FInv
<1>7. request' \in [Requests -> Request]
  BY <1>1, <1>2, <1>3, CreditTyped
<1>8. UnusedBlank'
  BY <1>5 DEF FInv, UnusedBlank
<1>9. Arrived \in [Notes -> Nat] /\ Arrived' \in [Notes -> Nat]
  BY <1>3 DEF OInv, Documents, Note, Arrived
<1>10. Total(Arrived') = Total(Arrived) + q
  <2>1. Arrived[n] = 0 /\ Arrived'[n] = q /\ \A k \in Notes \ {n} : Arrived'[k] = Arrived[k]
    BY <1>4, <1>5 DEF Arrived
  <2> HIDE DEF Arrived
  <2>2. Total(Arrived') \in Nat /\ Total(Arrived) \in Nat
    BY <1>9, FiniteDocuments, UnitsFinite
  <2>3. Total(Arrived') + Arrived[n] = Total(Arrived) + Arrived'[n]
    BY <1>9, <2>1, FiniteDocuments, TotalUpdate
  <2> QED  BY <1>2, <2>1, <2>2, <2>3
<1>11. Fulfilled \in [Requests -> Nat] /\ Fulfilled' \in [Requests -> Nat]
  BY <1>3, <1>7 DEF Request, Fulfilled
<1>12. Total(Fulfilled) \in Nat /\ Total(Fulfilled') \in Nat
  BY <1>11, FiniteDocuments, UnitsFinite
<1>13. Total(Fulfilled') =< Total(Fulfilled) + q
  <2>1. CASE RequestsFor(p) = {}
    <3>1. Fulfilled' = Fulfilled
      BY <1>1, <2>1 DEF Fulfilled
    <3> QED  BY <1>2, <1>12, <3>1
  <2>2. ASSUME NEW m \in RequestsFor(p) PROVE Total(Fulfilled') =< Total(Fulfilled) + q
    <3>1. m \in Requests /\ \A k \in Requests \ {m} : k \notin RequestsFor(p)
      BY <1>2, OneCredited DEF RequestsFor, FInv
    <3>2. /\ \A k \in Requests \ {m} : Fulfilled'[k] = Fulfilled[k]
          /\ Fulfilled'[m] =< Fulfilled[m] + q
      BY <1>1, <1>2, <1>3, <3>1, CreditTyped DEF Fulfilled
    <3> HIDE DEF Fulfilled
    <3>3. Total(Fulfilled') + Fulfilled[m] = Total(Fulfilled) + Fulfilled'[m]
      BY <1>11, <3>1, <3>2, FiniteDocuments, TotalUpdate
    <3>4. Fulfilled[m] \in Nat /\ Fulfilled'[m] \in Nat
      BY <1>11, <3>1
    <3> QED  BY <1>2, <1>12, <3>2, <3>3, <3>4
  <2> QED  BY <2>1, <2>2
<1>14. FulfilmentBacked'
  <2>1. Total(Fulfilled) =< Total(Arrived)
    BY DEF FInv, FulfilmentBacked, Fulfilled, Arrived
  <2>2. Total(Arrived) \in Nat
    <3> HIDE DEF Arrived
    <3> QED  BY <1>9, FiniteDocuments, UnitsFinite
  <2>3. Total(Fulfilled') =< Total(Arrived')
    BY <1>2, <1>10, <1>12, <1>13, <2>1, <2>2
  <2> QED  BY <2>3 DEF FulfilmentBacked, Fulfilled, Arrived
<1> QED  BY <1>6, <1>7, <1>8, <1>14 DEF FInv

\* The new order belongs to no other quotation.
LEMMA AwardOK ==
  ASSUME OInv, FInv, NEW s \in Sessions, AwardQuotation(s)
  PROVE  FInv'
<1>1. PICK p \in Orders :
        /\ order[p].status = "none"
        /\ order' = [order EXCEPT ![p].status = "draft"]
        /\ quotation' = [quotation EXCEPT ![session[s].of].status = "awarded",
                                          ![session[s].of].order = p]
  BY DEF AwardQuotation
<1>2. order \in [Orders -> Order] /\ quotation \in [Quotations -> Quotation]
  BY DEF OInv, Documents, FInv, QuotationsOK
<1>3. order'[p].status = "draft" /\ \A k \in Orders \ {p} : order'[k] = order[k]
  BY <1>1, <1>2 DEF Order
<1>4. /\ quotation' \in [Quotations -> Quotation]
      /\ \A r \in Quotations : \/ quotation'[r].order = quotation[r].order
                               \/ r = session[s].of /\ quotation'[r].order = p
  BY <1>1, <1>2 DEF Quotation, QuotationStatus
<1>5. \A r \in Quotations : quotation[r].order # p
  BY <1>1 DEF FInv, QuotationsOK
<1>6. QuotationsOK'
  <2>1. \A r \in Quotations : quotation'[r].order \in Orders =>
          order'[quotation'[r].order].status # "none"
    BY <1>3, <1>4 DEF FInv, QuotationsOK
  <2>2. ASSUME NEW r1 \in Quotations, NEW r2 \in Quotations,
               quotation'[r1].order = quotation'[r2].order, quotation'[r1].order \in Orders
        PROVE  r1 = r2
    BY <1>4, <1>5, <2>2 DEF FInv, QuotationsOK
  <2> QED  BY <1>4, <2>1, <2>2 DEF QuotationsOK
<1>7. FulfilmentBacked' /\ UnusedBlank' /\ request' \in [Requests -> Request]
  BY DEF FInv, FulfilmentBacked, UnusedBlank, AwardQuotation
<1> QED  BY <1>6, <1>7 DEF FInv

LEMMA OrderFulfils ==
  ASSUME OInv, FInv, NEW s \in Sessions, ChangeOrder(s) \/ DeleteOrder(s) \/ ReverseNote(s)
  PROVE  OrdersKept
<1>1. order \in [Orders -> Order]
  BY DEF OInv, Documents
<1>2. \E p \in Orders : /\ \A k \in Orders : k # p => order'[k] = order[k]
                        /\ order[p].status # "none" => order'[p].status # "none"
  <2>1. CASE ChangeOrder(s)
    <3> DEFINE p == session[s].of
               to == Transition[session[s].kind].to
               st == Written(order[p].status, session[s].status, to)
    <3>1. p \in Orders
      BY <2>1 DEF ChangeOrder, OInv, SessionsOK, RequestOK, OrderKinds, Transition
    <3>2. to # "none"
      BY <2>1 DEF ChangeOrder, Transition
    <3>3. order[p].status = "none" \/ st # "none"
      BY <3>2 DEF Written
    <3>4. order' = [order EXCEPT ![p].status = st]
      BY <1>1, <2>1, <3>1 DEF ChangeOrder
    <3> HIDE DEF st, p
    <3> QED  BY <1>1, <3>1, <3>3, <3>4 DEF Order
  <2>2. CASE DeleteOrder(s)
    <3> DEFINE p == session[s].of
    <3>1. p \in Orders /\ order' = [order EXCEPT ![p].deleted = TRUE]
      BY <2>2 DEF DeleteOrder, OInv, SessionsOK, RequestOK, OrderKinds
    <3> HIDE DEF p
    <3> QED  BY <1>1, <3>1 DEF Order
  <2>3. CASE ReverseNote(s)
    <3> DEFINE r == session[s]
               p == note[r.of].order
               left == Less(r.received, r.accepted)
               status == StatusAfter(p, left, Reopened(r.status))
               st == IF order[p].deleted THEN order[p].status
                     ELSE Written(order[p].status, r.status, status)
    <3>1. p \in Orders
      BY <2>3 DEF ReverseNote, OInv, SessionsOK, RequestOK, ReversalOK, NotesOK
    <3>2. status # "none"
      BY DEF StatusAfter, Reopened
    <3>3. order[p].status = "none" \/ st # "none"
      BY <3>2 DEF Written
    <3>4. order' = [order EXCEPT ![p].received = left, ![p].status = st]
      BY <1>1, <2>3, <3>1 DEF ReverseNote, Order
    <3> HIDE DEF st, p, left
    <3> QED  BY <1>1, <3>1, <3>3, <3>4 DEF Order
  <2> QED  BY <2>1, <2>2, <2>3
<1> QED  BY <1>2 DEF OrdersKept

\* A note that exists goes on existing.
NotesKept == \A n \in Notes : note[n].status # "none" => note'[n].status # "none"

LEMMA NoteStepKeeps ==
  ASSUME OInv, FInv, NEW s \in Sessions, OInv',
         AnnounceGoods(s) \/ ReverseNote(s) \/ ReverseTransaction(s),
         session[s].kind = "unlog" => note[session[s].of].status # "none"
  PROVE  NothingArrived /\ NotesKept
<1>1. note \in [Notes -> Note] /\ note' \in [Notes -> Note]
  BY DEF OInv, Documents
<1>2. CASE AnnounceGoods(s)
  <2>1. PICK n \in Notes, q \in Quantities :
          /\ Unused(n)
          /\ note' = [note EXCEPT ![n] = [status |-> "pending_receipt", order |-> session[s].of,
                                          quantity |-> q, accepted |-> 0, logged |-> FALSE]]
    BY <1>2 DEF AnnounceGoods
  <2>2. /\ note[n].status = "none" /\ note'[n].status = "pending_receipt"
        /\ \A k \in Notes \ {n} : note'[k] = note[k]
    BY <1>1, <2>1 DEF Unused
  <2>3. note'[n].status # "none"
    BY <2>2
  <2> QED  BY <1>1, <2>2, <2>3, ArrivedKept DEF NotesKept
<1>3. CASE ReverseNote(s)
  <2> DEFINE n == session[s].of
  <2>1. n \in Notes /\ note[n].status = "received"
    BY <1>3 DEF ReverseNote, OInv, SessionsOK, RequestOK, ReversalOK
  <2>2. note' = [note EXCEPT ![n].status = "reversed", ![n].accepted = 0]
    BY <1>3 DEF ReverseNote
  <2> HIDE DEF n
  <2>3. /\ note'[n].status = "reversed" /\ note'[n].quantity = note[n].quantity
        /\ \A k \in Notes \ {n} : note'[k] = note[k]
    BY <1>1, <2>1, <2>2 DEF Note
  <2> QED  BY <1>1, <2>1, <2>3, ArrivedKept DEF NotesKept
<1>4. CASE ReverseTransaction(s)
  <2> DEFINE n == session[s].of
  <2>1. n \in Notes /\ note[n].status # "none"
    BY <1>4 DEF ReverseTransaction, OInv, SessionsOK, RequestOK
  <2>2. note' = [note EXCEPT ![n].logged = FALSE]
    BY <1>4 DEF ReverseTransaction
  <2> HIDE DEF n
  <2>3. /\ note'[n].status = note[n].status /\ note'[n].quantity = note[n].quantity
        /\ \A k \in Notes \ {n} : note'[k] = note[k]
    BY <1>1, <2>1, <2>2 DEF Note
  <2> QED  BY <1>1, <2>1, <2>3, ArrivedKept DEF NotesKept
<1> QED  BY <1>2, <1>3, <1>4

-----------------------------------------------------------------------------
(* The types of the requests in progress *)

UnlogOfNote ==
  \A s \in Sessions : session[s].kind = "unlog" => note[session[s].of].status # "none"

TInv ==
  /\ session \in [Sessions -> InProgress]
  /\ UnlogOfNote

LEMMA IdleInProgress == Idle \in InProgress
BY DEF InProgress

LEMMA EndTyped ==
  ASSUME TInv, NEW s \in Sessions, End(s), NotesKept, OInv
  PROVE  TInv'
<1>1. session' \in [Sessions -> InProgress]
  BY IdleInProgress DEF TInv, End
<1>2. \A t \in Sessions : session'[t] = session[t] \/ session'[t] = Idle
  BY EndEnds DEF OInv, SomeEnd
<1>3. \A t \in Sessions : session[t].kind = "unlog" => session[t].of \in Notes
  BY DEF OInv, SessionsOK, RequestOK
<1>4. UnlogOfNote'
  BY <1>2, <1>3 DEF TInv, UnlogOfNote, NotesKept, Idle
<1> QED  BY <1>1, <1>4 DEF TInv

LEMMA BeginTyped ==
  ASSUME TInv, NEW s \in Sessions, NEW r \in InProgress, Begin(s, r),
         r.kind = "unlog" => note[r.of].status # "none"
  PROVE  TInv'
<1>1. session' = [session EXCEPT ![s] = r] /\ UNCHANGED note
  BY DEF Begin
<1> QED  BY <1>1 DEF TInv, UnlogOfNote

LEMMA LockTyped ==
  ASSUME TInv, OInv, SInv, NEW s \in Sessions, LockForReversal(s)
  PROVE  TInv'
<1> DEFINE p == note[session[s].of].order
<1>1. session[s] \in Reversal /\ p \in Orders
  BY DEF LockForReversal, OInv, SessionsOK, RequestOK, ReversalOK, NotesOK
<1>2. order[p].received \in Nat /\ currentStock \in Nat
  BY <1>1 DEF OInv, Documents, Order, SInv
<1>3. session' = [session EXCEPT ![s] = [session[s] EXCEPT !.locked = TRUE, !.held = currentStock,
                                                          !.received = order[p].received]]
  BY <1>1 DEF LockForReversal, TInv
<1> HIDE DEF p
<1>4. PICK r \in Reversal :
        r = [session[s] EXCEPT !.locked = TRUE, !.held = currentStock,
                               !.received = order[p].received]
  BY <1>1, <1>2 DEF Reversal
<1>5. r \in InProgress
  BY DEF Reversal, InProgress
<1>6. session' = [session EXCEPT ![s] = r] /\ UNCHANGED note /\ r.kind = "reverse"
  BY <1>3, <1>4 DEF LockForReversal, Reversal
<1> QED  BY <1>5, <1>6 DEF TInv, UnlogOfNote

LEMMA BeginsTyped ==
  ASSUME TInv, OInv, SInv, FInv, NEW s \in Sessions,
         \/ \E p \in Orders : \E kind \in DOMAIN Transition : BeginChange(s, kind, p)
         \/ \E p \in Orders : BeginDelete(s, p)
         \/ \E p \in Orders : BeginAnnounce(s, p)
         \/ \E p \in Orders : BeginReceipt(s, p)
         \/ \E n \in Notes : BeginReversal(s, n)
         \/ \E n \in Notes : BeginUnlog(s, n)
         \/ \E r \in Quotations : \E kind \in {"sendRfq", "deleteRfq", "award"} :
              BeginQuotation(s, kind, r)
         \/ \E m \in Requests : \E kind \in {"updateRequest", "deleteRequest"} :
              BeginRequest(s, kind, m)
  PROVE  TInv'
<1>1. /\ \A p \in Orders : /\ order[p].status \in OrderStatus /\ order[p].received \in Nat
                           /\ Outstanding(p) \in Nat
      /\ \A n \in Notes : note[n].accepted \in Nat
      /\ \A m \in Requests : request[m].required \in Nat
      /\ currentStock \in Nat
  BY OrderAssumption
     DEF OInv, Documents, Order, Note, SInv, FInv, Request, ReceivedWithinOrdered, Outstanding
<1>2. ASSUME NEW p \in Orders, NEW kind \in DOMAIN Transition, BeginChange(s, kind, p)
      PROVE  TInv'
  <2>1. [kind |-> kind, of |-> p, status |-> order[p].status] \in InProgress
    BY <1>1 DEF InProgress
  <2>2. kind # "unlog"
    BY DEF Transition
  <2> QED  BY <1>2, <2>1, <2>2, BeginTyped DEF BeginChange
<1>3. ASSUME NEW p \in Orders, BeginDelete(s, p)
      PROVE  TInv'
  <2>1. [kind |-> "delete", of |-> p] \in InProgress
    BY DEF InProgress
  <2> QED  BY <1>3, <2>1, BeginTyped DEF BeginDelete
<1>4. ASSUME NEW p \in Orders, BeginAnnounce(s, p)
      PROVE  TInv'
  <2>1. [kind |-> "announce", of |-> p, outstanding |-> Outstanding(p)] \in InProgress
    BY <1>1 DEF InProgress
  <2> QED  BY <1>4, <2>1, BeginTyped DEF BeginAnnounce
<1>5. ASSUME NEW p \in Orders, BeginReceipt(s, p)
      PROVE  TInv'
  <2>1. [kind |-> "receive", of |-> p, received |-> order[p].received, held |-> currentStock]
          \in InProgress
    BY <1>1 DEF InProgress
  <2> QED  BY <1>5, <2>1, BeginTyped DEF BeginReceipt
<1>6. ASSUME NEW n \in Notes, BeginReversal(s, n)
      PROVE  TInv'
  <2>1. note[n].order \in Orders
    BY <1>6 DEF BeginReversal, OInv, NotesOK
  <2>2. [kind |-> "reverse", of |-> n, accepted |-> note[n].accepted,
         status |-> order[note[n].order].status,
         locked |-> FALSE, received |-> 0, held |-> 0] \in InProgress
    BY <1>1, <2>1 DEF InProgress
  <2> QED  BY <1>6, <2>2, BeginTyped DEF BeginReversal
<1>7. ASSUME NEW n \in Notes, BeginUnlog(s, n)
      PROVE  TInv'
  <2>1. [kind |-> "unlog", of |-> n] \in InProgress
    BY DEF InProgress
  <2>2. note[n].status # "none"
    BY <1>7 DEF BeginUnlog, FInv, UnusedBlank
  <2> QED  BY <1>7, <2>1, <2>2, BeginTyped DEF BeginUnlog
<1>8. ASSUME NEW r \in Quotations, NEW kind \in {"sendRfq", "deleteRfq", "award"},
             BeginQuotation(s, kind, r)
      PROVE  TInv'
  <2>1. [kind |-> kind, of |-> r] \in InProgress
    BY DEF InProgress
  <2> QED  BY <1>8, <2>1, BeginTyped DEF BeginQuotation
<1>9. ASSUME NEW m \in Requests, NEW kind \in {"updateRequest", "deleteRequest"},
             BeginRequest(s, kind, m)
      PROVE  TInv'
  <2>1. [kind |-> kind, of |-> m, required |-> request[m].required] \in InProgress
    BY <1>1 DEF InProgress
  <2> QED  BY <1>9, <2>1, BeginTyped DEF BeginRequest
<1> QED  BY <1>2, <1>3, <1>4, <1>5, <1>6, <1>7, <1>8, <1>9

-----------------------------------------------------------------------------
(* The invariant of the whole, and the theorems *)

Inv == PInv /\ FInv /\ TInv

LEMMA FirstInv ==
  ASSUME Init
  PROVE  Inv
<1>1. QuotationsOK
  BY OrderAssumption DEF Init, QuotationsOK, Quotation, QuotationStatus
<1>2. request \in [Requests -> Request] /\ UnusedBlank
  BY DEF Init, Request, UnusedBlank
<1>3. FulfilmentBacked
  <2>1. Total(Fulfilled) = 0 /\ Total(Arrived) = 0
    <3>1. /\ DOMAIN Fulfilled = Requests /\ \A m \in Requests : Fulfilled[m] = 0
          /\ DOMAIN Arrived = Notes /\ \A n \in Notes : Arrived[n] = 0
      BY DEF Init, Fulfilled, Arrived
    <3> HIDE DEF Fulfilled, Arrived
    <3> QED  BY <3>1, TotalZero
  <2> QED  BY <2>1 DEF FulfilmentBacked, Fulfilled, Arrived
<1>4. TInv
  <2>1. session \in [Sessions -> InProgress]
    BY IdleInProgress DEF Init
  <2>2. UnlogOfNote
    BY DEF Init, Idle, UnlogOfNote
  <2> QED  BY <2>1, <2>2 DEF TInv
<1> QED  BY <1>1, <1>2, <1>3, <1>4, InitOK DEF Inv, FInv

LEMMA SessionStepInv ==
  ASSUME Inv, NEW s \in Sessions, OInv',
         OrderStep(s) \/ ReceiptStep(s) \/ QuotationStep(s) \/ RequestStep(s) \/ Abandon(s)
  PROVE  FInv' /\ TInv'
<1>1. OInv /\ SInv /\ FInv /\ TInv /\ UnlogOfNote
  BY DEF Inv, PInv, TInv
<1>2. ASSUME UNCHANGED note
      PROVE  NotesKept
  BY <1>2 DEF NotesKept
<1>3. CASE \/ \E p \in Orders : \E kind \in DOMAIN Transition : BeginChange(s, kind, p)
           \/ \E p \in Orders : BeginDelete(s, p)
           \/ \E p \in Orders : BeginAnnounce(s, p)
           \/ \E p \in Orders : BeginReceipt(s, p)
           \/ \E n \in Notes : BeginReversal(s, n)
           \/ \E n \in Notes : BeginUnlog(s, n)
           \/ \E r \in Quotations : \E kind \in {"sendRfq", "deleteRfq", "award"} :
                BeginQuotation(s, kind, r)
           \/ \E m \in Requests : \E kind \in {"updateRequest", "deleteRequest"} :
                BeginRequest(s, kind, m)
  <2>1. UNCHANGED order /\ UNCHANGED quotation /\ UNCHANGED request /\ UNCHANGED note
    BY <1>3 DEF BeginChange, BeginDelete, BeginAnnounce, BeginReceipt, BeginReversal, BeginUnlog,
                BeginQuotation, BeginRequest, Begin
  <2>2. FInv'
    BY <1>1, <2>1, Unchanged, FulfilmentKept
  <2> QED  BY <1>1, <1>3, <2>2, BeginsTyped
<1>4. CASE LockForReversal(s)
  <2>1. UNCHANGED order /\ UNCHANGED quotation /\ UNCHANGED request /\ UNCHANGED note
    BY <1>4 DEF LockForReversal
  <2> QED  BY <1>1, <1>4, <2>1, Unchanged, FulfilmentKept, LockTyped
<1>5. CASE Abandon(s)
  <2>1. UNCHANGED order /\ UNCHANGED quotation /\ UNCHANGED request /\ UNCHANGED note /\ End(s)
    BY <1>5 DEF Abandon
  <2> QED  BY <1>1, <1>2, <2>1, Unchanged, FulfilmentKept, EndTyped
<1>6. CASE ChangeOrder(s) \/ DeleteOrder(s)
  <2>1. UNCHANGED quotation /\ UNCHANGED request /\ UNCHANGED note /\ End(s)
    BY <1>6 DEF ChangeOrder, DeleteOrder
  <2>2. OrdersKept
    BY <1>1, <1>6, OrderFulfils
  <2> QED  BY <1>1, <1>2, <2>1, <2>2, Unchanged, FulfilmentKept, EndTyped
<1>7. CASE AnnounceGoods(s) \/ ReverseNote(s) \/ ReverseTransaction(s)
  <2>1. UNCHANGED quotation /\ UNCHANGED request /\ End(s)
    BY <1>7 DEF AnnounceGoods, ReverseNote, ReverseTransaction
  <2>2. OrdersKept
    <3>1. ReverseNote(s) \/ UNCHANGED order
      BY <1>7 DEF AnnounceGoods, ReverseTransaction
    <3> QED  BY <1>1, <3>1, OrderFulfils, Unchanged
  <2>3. NothingArrived /\ NotesKept
    BY <1>1, <1>7, NoteStepKeeps DEF UnlogOfNote
  <2> QED  BY <1>1, <2>1, <2>2, <2>3, Unchanged, FulfilmentKept, EndTyped
<1>8. CASE ReceiveGoods(s)
  <2>1. NotesKept /\ End(s)
    <3>1. PICK n \in Notes : Unused(n) /\ \E v : note' = [note EXCEPT ![n] = v]
      BY <1>8 DEF ReceiveGoods
    <3>2. note \in [Notes -> Note]
      BY <1>1 DEF OInv, Documents
    <3> QED  BY <1>8, <3>1, <3>2 DEF Unused, NotesKept, ReceiveGoods
  <2> QED  BY <1>1, <1>8, <2>1, ReceiptFulfils, EndTyped
<1>9. CASE AwardQuotation(s)
  <2>1. UNCHANGED note /\ End(s)
    BY <1>9 DEF AwardQuotation
  <2> QED  BY <1>1, <1>2, <1>9, <2>1, AwardOK, EndTyped
<1>10. CASE SendQuotation(s) \/ DeleteQuotation(s)
  <2>1. UNCHANGED order /\ UNCHANGED request /\ UNCHANGED note /\ End(s)
    BY <1>10 DEF SendQuotation, DeleteQuotation
  <2>2. NothingAwarded
    <3> DEFINE r == session[s].of
    <3>1. quotation \in [Quotations -> Quotation]
      BY <1>1 DEF FInv, QuotationsOK
    <3>2. CASE quotation' = [quotation EXCEPT ![r].status = "sent"]
      <4> HIDE DEF r
      <4> QED  BY <3>1, <3>2 DEF Quotation, QuotationStatus, NothingAwarded
    <3>3. CASE quotation' = [quotation EXCEPT ![r].deleted = TRUE]
      <4> HIDE DEF r
      <4> QED  BY <3>1, <3>3 DEF Quotation, NothingAwarded
    <3> QED  BY <1>10, <3>2, <3>3 DEF SendQuotation, DeleteQuotation
  <2> QED  BY <1>1, <1>2, <2>1, <2>2, Unchanged, FulfilmentKept, EndTyped
<1>11. CASE UpdateRequest(s)
  <2>1. UNCHANGED order /\ UNCHANGED quotation /\ UNCHANGED note /\ End(s)
    BY <1>11 DEF UpdateRequest
  <2>2. NothingFulfilled
    <3> DEFINE m == session[s].of
    <3>1. PICK q \in Quantities :
            request' = [request EXCEPT ![m].required = Written(@, session[s].required, q)]
      BY <1>11 DEF UpdateRequest
    <3>2. request \in [Requests -> Request]
      BY <1>1 DEF FInv
    <3>3. m \in Requests => Written(request[m].required, session[s].required, q) \in Nat
      BY <3>2, QuantityAssumption DEF Written, Request
    <3> HIDE DEF m
    <3> QED  BY <3>1, <3>2, <3>3 DEF NothingFulfilled, Request
  <2> QED  BY <1>1, <1>2, <2>1, <2>2, Unchanged, FulfilmentKept, EndTyped
<1>12. CASE DeleteRequest(s)
  <2>1. UNCHANGED order /\ UNCHANGED quotation /\ UNCHANGED note /\ End(s)
    BY <1>12 DEF DeleteRequest
  <2>2. NothingFulfilled
    BY <1>1, <1>12 DEF DeleteRequest, FInv, NothingFulfilled, Request
  <2> QED  BY <1>1, <1>2, <2>1, <2>2, Unchanged, FulfilmentKept, EndTyped
<1> QED  BY <1>3, <1>4, <1>5, <1>6, <1>7, <1>8, <1>9, <1>10, <1>11, <1>12
         DEF OrderStep, ReceiptStep, QuotationStep, RequestStep

LEMMA OtherStepInv ==
  ASSUME Inv, Create \/ StockStep \/ UNCHANGED vars
  PROVE  FInv' /\ TInv'
<1>1. OInv /\ FInv /\ TInv
  BY DEF Inv, PInv
<1>2. UNCHANGED note /\ UNCHANGED session
  BY DEF vars, Create, CreateOrder, CreateQuotation, CreateRequest, StockStep, AddStock,
         RemoveStock, AdjustStock, TransferStock, PassInspection, FailInspection,
         TransferStockLocation, ChangeStock
<1>3. TInv'
  BY <1>1, <1>2 DEF TInv, UnlogOfNote
<1>4. ASSUME UNCHANGED order, UNCHANGED quotation, UNCHANGED request
      PROVE  FInv'
  BY <1>1, <1>2, <1>4, Unchanged, FulfilmentKept
<1>5. ASSUME NEW p \in Orders, NEW st \in {"draft", "sent"}, CreateOrder(p, st)
      PROVE  FInv'
  <2>1. UNCHANGED quotation /\ UNCHANGED request
    BY <1>5 DEF CreateOrder
  <2>2. OrdersKept
    BY <1>1, <1>5 DEF CreateOrder, OInv, Documents, Order, OrdersKept
  <2> QED  BY <1>1, <1>2, <2>1, <2>2, Unchanged, FulfilmentKept
<1>6. ASSUME NEW r \in Quotations, CreateQuotation(r)
      PROVE  FInv'
  <2>1. UNCHANGED order /\ UNCHANGED request
    BY <1>6 DEF CreateQuotation
  <2>2. NothingAwarded
    BY <1>1, <1>6 DEF CreateQuotation, FInv, QuotationsOK, Quotation, QuotationStatus,
                      NothingAwarded
  <2> QED  BY <1>1, <1>2, <2>1, <2>2, Unchanged, FulfilmentKept
<1>7. ASSUME NEW m \in Requests, CreateRequest(m)
      PROVE  FInv'
  <2>1. UNCHANGED order /\ UNCHANGED quotation
    BY <1>7 DEF CreateRequest
  <2>2. NothingFulfilled
    <3>1. PICK q \in Quantities :
            request' = [request EXCEPT ![m].status = "open", ![m].required = q]
      BY <1>7 DEF CreateRequest
    <3>2. request \in [Requests -> Request] /\ q \in Nat
      BY <1>1, QuantityAssumption DEF FInv
    <3> QED  BY <3>1, <3>2 DEF Request, NothingFulfilled
  <2> QED  BY <1>1, <1>2, <2>1, <2>2, Unchanged, FulfilmentKept
<1>8. CASE StockStep \/ UNCHANGED vars
  <2>1. UNCHANGED order /\ UNCHANGED quotation /\ UNCHANGED request
    BY <1>8 DEF vars, StockStep, AddStock, RemoveStock, AdjustStock, TransferStock,
                PassInspection, FailInspection, TransferStockLocation, ChangeStock
  <2> QED  BY <1>3, <1>4, <2>1
<1>9. CASE Create
  BY <1>3, <1>5, <1>6, <1>7, <1>9 DEF Create
<1> QED  BY <1>8, <1>9

LEMMA NextInv ==
  ASSUME Inv, [Next]_vars
  PROVE  Inv' /\ ReceivedWhileOpen
<1>1. PInv' /\ ReceivedWhileOpen
  BY StepOK, StutterOK DEF Inv
<1>2. FInv' /\ TInv'
  <2>1. OInv'
    BY <1>1 DEF PInv
  <2> QED  BY <2>1, SessionStepInv, OtherStepInv DEF Next
<1> QED  BY <1>1, <1>2 DEF Inv

\* The invariant the other theorems follow from: whoever writes what an order
\* received has the order, and a reversal its note, locked since reading it.
THEOREM PurchasingInvariant == Spec => []Inv
<1>1. Init => Inv
  BY FirstInv
<1>2. Inv /\ [Next]_vars => Inv'
  BY NextInv
<1> QED  BY <1>1, <1>2, PTL DEF Spec

\* No order receives more than was ordered, however many receipts and reversals
\* run at once.
THEOREM NeverOverReceived == Spec => []ReceivedWithinOrdered
<1>1. Inv => ReceivedWithinOrdered
  BY DEF Inv, PInv, OInv
<1> QED  BY <1>1, PurchasingInvariant, PTL

\* What an order counts as received is what its standing notes accepted.
THEOREM ReceiptsCounted == Spec => []ReceivedMatchesNotes
<1>1. Inv => ReceivedMatchesNotes
  BY DEF Inv, PInv, OInv
<1> QED  BY <1>1, PurchasingInvariant, PTL

\* The ledger accounts for every unit in the buckets.
THEOREM LedgerComplete == Spec => []LedgerMatchesBuckets
<1>1. Inv => LedgerMatchesBuckets
  BY DEF Inv, PInv, SInv
<1> QED  BY <1>1, PurchasingInvariant, PTL

\* An order that was cancelled, deleted or completed takes no more goods.
THEOREM ReceivedWhileOrderOpen == Spec => NoReceiptForClosedOrder
<1>1. Inv /\ [Next]_vars => [ReceivedWhileOpen]_vars
  BY NextInv
<1> QED  BY <1>1, PurchasingInvariant, PTL
         DEF Spec, NoReceiptForClosedOrder, ReceivedWhileOpen

\* A unit received counts for one request at most.
THEOREM FulfilledByArrivals == Spec => []FulfilmentBacked
<1>1. Inv => FulfilmentBacked
  BY DEF Inv, FInv
<1> QED  BY <1>1, PurchasingInvariant, PTL

\* Every column, and every request in progress, holds a value of its kind.
THEOREM PurchasingTyped == Spec => []TypeOK
<1>1. ASSUME Inv
      PROVE  TypeOK
  <2>1. ASSUME NEW s \in Sessions, session[s].kind \in {"reverse", "unlog"}
        PROVE  note[session[s].of].order \in Orders
    <3>1. session[s].of \in Notes
      BY <1>1, <2>1 DEF Inv, PInv, OInv, SessionsOK, RequestOK
    <3>2. note[session[s].of].status # "none"
      BY <1>1, <2>1 DEF Inv, PInv, OInv, SessionsOK, RequestOK, ReversalOK, TInv, UnlogOfNote
    <3> QED  BY <1>1, <3>1, <3>2 DEF Inv, PInv, OInv, NotesOK
  <2> QED  BY <1>1, <2>1
           DEF Inv, PInv, OInv, Documents, SInv, FInv, QuotationsOK, TInv, TypeOK
<1> QED  BY <1>1, PurchasingInvariant, PTL
=============================================================================
